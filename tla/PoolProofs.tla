----------------------------- MODULE PoolProofs -----------------------------
(***************************************************************************)
(* Proofs about the upstream pool, for any number of upstreams and of      *)
(* overlapping queries, and any budget.                                    *)
(***************************************************************************)
EXTENDS Pool, SequenceTheorems, TLAPS

\* Start-up has found nobody until the pool is up.
Alone == state # "up" => built = {}

\* No result of a racing query is lost: each upstream's leg is running, or its
\* result is on its way, or its error was collected.  A result that says ok comes
\* from a leg that answered.
Result == [server : Server, ok : BOOLEAN]

OnItsWay(c, s) == \E i \in DOMAIN chan[c] : chan[c][i].server = s

NoResultLost ==
    \A c \in Call, s \in Server :
        call[c] = "racing" => leg[c][s] = "running" \/ OnItsWay(c, s) \/ s \in failed[c]

OkIsTrue ==
    \A c \in Call : \A i \in DOMAIN chan[c] :
        chan[c][i].ok => leg[c][chan[c][i].server] = "ok"

NothingYet ==
    \A c \in Call : call[c] = "none" =>
        chan[c] = <<>> /\ \A s \in Server : leg[c][s] = "none"

RaceInv == NoResultLost /\ OkIsTrue /\ NothingYet /\ FailsOnlyTogether

PoolInv == TypeOK /\ StartsWithinBudget /\ Alone /\ RaceInv

LEMMA PoolInit == Init => PoolInv
BY PoolAssumption
   DEF Init, PoolInv, TypeOK, StartsWithinBudget, Alone, RaceInv, NoResultLost, OkIsTrue,
       NothingYet, FailsOnlyTogether

\* What a queue of results keeps when one is added or taken.
LEMMA Added ==
    ASSUME NEW q \in Seq(Result), NEW r \in Result
    PROVE  /\ Append(q, r) \in Seq(Result)
           /\ DOMAIN Append(q, r) = 1 .. Len(q) + 1 /\ DOMAIN q = 1 .. Len(q)
           /\ Append(q, r)[Len(q) + 1] = r
           /\ \A i \in DOMAIN q : Append(q, r)[i] = q[i]
BY AppendProperties, Z3

LEMMA Taken ==
    ASSUME NEW q \in Seq(Result), q # <<>>
    PROVE  /\ Head(q) \in Result /\ Head(q) = q[1] /\ 1 \in DOMAIN q
           /\ Tail(q) \in Seq(Result)
           /\ \A i \in DOMAIN Tail(q) : i + 1 \in DOMAIN q /\ Tail(q)[i] = q[i + 1]
           /\ \A i \in DOMAIN q : i = 1 \/ (i - 1 \in DOMAIN Tail(q) /\ Tail(q)[i - 1] = q[i])
BY HeadTailProperties, Z3

\* Start-up touches no query.
LEMMA RaceKept == RaceInv /\ UNCHANGED race => RaceInv'
BY DEF RaceInv, NoResultLost, OkIsTrue, NothingYet, FailsOnlyTogether, OnItsWay, race

LEMMA StartStep == PoolInv /\ Start => PoolInv'
<1> SUFFICES ASSUME PoolInv, Start PROVE PoolInv'
    OBVIOUS
<1> USE PoolAssumption DEF PoolInv, TypeOK, StartsWithinBudget, Alone
<1>1. ASSUME NEW live \in SUBSET Server, NEW until \in 0 .. Budget + Timeout, Round(live, until)
      PROVE  PoolInv'
    <2>1. RaceInv'
        BY <1>1, RaceKept DEF Round
    <2>2. until \in Nat /\ until <= Budget
        BY <1>1 DEF Round, RoundEnd, AtMost
    <2>3. TypeOK'
        BY <1>1, <2>2 DEF Round, race, counters
    <2> QED
        BY <1>1, <2>1, <2>2, <2>3 DEF Round
<1>2. CASE Sleep
    <2>1. RaceInv'
        BY <1>2, RaceKept DEF Sleep
    <2>2. backoff' \in 1 .. BackoffMax
        BY <1>2 DEF Sleep, AtMost
    <2>3. clock' \in Nat /\ clock' <= Budget /\ built' = {} /\ state' = "round"
        BY <1>2 DEF Sleep
    <2>4. UNCHANGED <<call, leg, chan, failed, resolved, all_failed, consecutive>>
        BY <1>2 DEF Sleep, race, counters
    <2> QED
        BY <2>1, <2>2, <2>3, <2>4
<1>3. CASE GiveUp
    <2>1. RaceInv'
        BY <1>3, RaceKept DEF GiveUp
    <2> QED
        BY <1>3, <2>1 DEF GiveUp, race, counters
<1> QED
    BY <1>1, <1>2, <1>3 DEF Start

\* The places of the calls other than c, and what belongs to them.
OthersKept(c) ==
    \A d \in Call \ {c} :
        call'[d] = call[d] /\ leg'[d] = leg[d] /\ chan'[d] = chan[d] /\ failed'[d] = failed[d]

\* The parts of RaceInv that are about one call.
CallInv(c) ==
    /\ \A s \in Server : call[c] = "racing" => leg[c][s] = "running" \/ OnItsWay(c, s) \/ s \in failed[c]
    /\ \A i \in DOMAIN chan[c] : chan[c][i].ok => leg[c][chan[c][i].server] = "ok"
    /\ call[c] = "none" => chan[c] = <<>> /\ \A s \in Server : leg[c][s] = "none"
    /\ call[c] \in {"lost", "failed"} => failed[c] = Server
    /\ call[c] \in {"won", "answered"} => \E s \in Server : leg[c][s] = "ok"

LEMMA OneCall ==
    ASSUME RaceInv, NEW c \in Call, OthersKept(c), CallInv(c)'
    PROVE  RaceInv'
<1> SUFFICES ASSUME NEW d \in Call PROVE CallInv(d)'
    BY DEF RaceInv, NoResultLost, OkIsTrue, NothingYet, FailsOnlyTogether, CallInv
<1>1. CASE d = c
    BY <1>1
<1>2. CASE d # c
    <2>1. CallInv(d)
        BY DEF RaceInv, NoResultLost, OkIsTrue, NothingYet, FailsOnlyTogether, CallInv
    <2>2. call'[d] = call[d] /\ leg'[d] = leg[d] /\ chan'[d] = chan[d] /\ failed'[d] = failed[d]
        BY <1>2 DEF OthersKept
    <2> QED
        BY <2>1, <2>2 DEF CallInv, OnItsWay
<1> QED
    BY <1>1, <1>2

LEMMA CallHas == ASSUME RaceInv, NEW c \in Call PROVE CallInv(c)
BY DEF RaceInv, NoResultLost, OkIsTrue, NothingYet, FailsOnlyTogether, CallInv

RaceType ==
    /\ call \in [Call -> {"none", "racing", "won", "lost", "answered", "failed"}]
    /\ leg \in [Call -> [Server -> {"none", "running", "ok", "error"}]]
    /\ chan \in [Call -> Seq(Result)]
    /\ failed \in [Call -> SUBSET Server]

CounterType == resolved \in Nat /\ all_failed \in Nat /\ consecutive \in Nat

LEMMA BeginStep ==
    ASSUME RaceType, RaceInv, NEW c \in Call, Begin(c)
    PROVE  RaceType' /\ RaceInv'
<1>1. RaceType' /\ OthersKept(c) /\ chan' = chan
    BY DEF Begin, RaceType, OthersKept
<1>2. call'[c] = "racing" /\ chan[c] = <<>> /\ \A s \in Server : leg'[c][s] = "running"
    BY CallHas DEF Begin, RaceType, CallInv
<1>3. DOMAIN chan'[c] = {}
    BY <1>1, <1>2
<1>4. CallInv(c)'
    BY <1>2, <1>3 DEF CallInv
<1> QED
    BY <1>1, <1>4, OneCall

LEMMA LegStep ==
    ASSUME RaceType, RaceInv, NEW c \in Call, NEW s \in Server, NEW ok \in BOOLEAN, LegEnds(c, s, ok)
    PROVE  RaceType' /\ RaceInv'
<1> DEFINE r == [server |-> s, ok |-> ok]
<1>1. r \in Result /\ r.server = s /\ r.ok = ok /\ chan[c] \in Seq(Result)
    BY DEF Result, RaceType
<1>2. /\ call' = call /\ failed' = failed
      /\ leg'[c][s] = IF ok THEN "ok" ELSE "error"
      /\ \A t \in Server \ {s} : leg'[c][t] = leg[c][t]
      /\ leg[c][s] = "running"
    BY DEF LegEnds, RaceType
<1>3. CallInv(c)
    BY CallHas
<1>4. CASE call[c] = "racing"
    <2> DEFINE q == chan[c]
    <2>1. chan' = [chan EXCEPT ![c] = Append(q, r)]
        BY <1>4 DEF LegEnds
    <2>2. /\ Append(q, r) \in Seq(Result)
          /\ DOMAIN Append(q, r) = 1 .. Len(q) + 1 /\ DOMAIN q = 1 .. Len(q)
          /\ Append(q, r)[Len(q) + 1] = r
          /\ \A i \in DOMAIN q : Append(q, r)[i] = q[i]
          /\ Len(q) \in Nat
        BY <1>1, Added, LenProperties
    <2>3. RaceType'
        BY <2>1, <2>2 DEF LegEnds, RaceType
    <2>4. OthersKept(c) /\ chan'[c] = Append(q, r)
        BY <1>1, <2>1 DEF LegEnds, RaceType, OthersKept
    <2>5. \A t \in Server : leg'[c][t] = "running" \/ OnItsWay(c, t)' \/ t \in failed'[c]
        <3>1. OnItsWay(c, s)'
            BY <1>1, <2>2, <2>4 DEF OnItsWay
        <3>2. ASSUME NEW t \in Server \ {s}
              PROVE  leg'[c][t] = "running" \/ OnItsWay(c, t)' \/ t \in failed'[c]
            BY <1>2, <1>3, <1>4, <2>2, <2>4 DEF CallInv, OnItsWay
        <3> QED
            BY <3>1, <3>2
    <2>6. \A i \in DOMAIN chan'[c] : chan'[c][i].ok => leg'[c][chan'[c][i].server] = "ok"
        <3> SUFFICES ASSUME NEW i \in DOMAIN chan'[c], chan'[c][i].ok
                     PROVE  leg'[c][chan'[c][i].server] = "ok"
            OBVIOUS
        <3>1. CASE i \in DOMAIN q
            <4>1. q[i] \in Result /\ chan'[c][i] = q[i]
                BY <1>1, <2>2, <2>4, <3>1, ElementOfSeq
            <4>2. leg[c][q[i].server] = "ok" /\ q[i].server \in Server
                BY <1>3, <3>1, <4>1 DEF CallInv, Result
            <4> QED
                BY <1>2, <4>1, <4>2
        <3>2. CASE i = Len(q) + 1
            BY <1>1, <1>2, <2>2, <2>4, <3>2
        <3> QED
            BY <2>2, <2>4, <3>1, <3>2
    <2>7. CallInv(c)'
        BY <1>2, <1>4, <2>5, <2>6 DEF CallInv
    <2> QED
        BY <2>3, <2>4, <2>7, OneCall
<1>5. CASE call[c] # "racing"
    <2>1. chan' = chan
        BY <1>5 DEF LegEnds, RaceType
    <2>2. RaceType' /\ OthersKept(c)
        BY <2>1 DEF LegEnds, RaceType, OthersKept
    <2>3. ASSUME NEW t \in Server, leg[c][t] = "ok" PROVE leg'[c][t] = "ok"
        BY <1>2, <2>3
    <2>4. \A i \in DOMAIN chan[c] : chan[c][i].server \in Server
        <3>1. \A i \in DOMAIN chan[c] : chan[c][i] \in Result
            BY <1>1, ElementOfSeq, LenProperties
        <3> QED
            BY <3>1 DEF Result
    <2>5. CallInv(c)'
        BY <1>2, <1>3, <1>5, <2>1, <2>3, <2>4 DEF CallInv
    <2> QED
        BY <2>2, <2>5, OneCall
<1> QED
    BY <1>4, <1>5

LEMMA ReceiveStep ==
    ASSUME RaceType, RaceInv, NEW c \in Call, ReceiveOk(c) \/ ReceiveError(c)
    PROVE  RaceType' /\ RaceInv'
<1> DEFINE q == chan[c]
<1>1. q \in Seq(Result) /\ q # <<>> /\ call[c] = "racing" /\ leg' = leg
    BY DEF ReceiveOk, ReceiveError, RaceType
<1>2. /\ Head(q) \in Result /\ Head(q) = q[1] /\ 1 \in DOMAIN q
      /\ Tail(q) \in Seq(Result)
      /\ \A i \in DOMAIN Tail(q) : i + 1 \in DOMAIN q /\ Tail(q)[i] = q[i + 1]
      /\ \A i \in DOMAIN q : i = 1 \/ (i - 1 \in DOMAIN Tail(q) /\ Tail(q)[i - 1] = q[i])
    BY <1>1, Taken
<1>3. CallInv(c) /\ Head(q).server \in Server
    BY <1>2, CallHas DEF Result
<1>4. CASE ReceiveOk(c)
    <2>1. Head(q).ok /\ leg[c][Head(q).server] = "ok"
        BY <1>2, <1>3, <1>4 DEF ReceiveOk, CallInv
    <2>2. call'[c] = "won" /\ chan'[c] = <<>> /\ OthersKept(c)
        BY <1>4 DEF ReceiveOk, RaceType, OthersKept
    <2>3. RaceType'
        BY <1>4 DEF ReceiveOk, RaceType
    <2>4. DOMAIN chan'[c] = {}
        BY <2>2
    <2>5. CallInv(c)'
        BY <1>1, <1>3, <2>1, <2>2, <2>4 DEF CallInv
    <2> QED
        BY <2>2, <2>3, <2>5, OneCall
<1>5. CASE ReceiveError(c)
    <2>1. /\ call' = call /\ chan'[c] = Tail(q) /\ OthersKept(c)
          /\ failed'[c] = failed[c] \cup {Head(q).server}
        BY <1>5 DEF ReceiveError, RaceType, OthersKept
    <2>2. RaceType'
        BY <1>2, <1>3, <1>5 DEF ReceiveError, RaceType
    <2>3. ASSUME NEW s \in Server
          PROVE  leg'[c][s] = "running" \/ OnItsWay(c, s)' \/ s \in failed'[c]
        <3>1. CASE OnItsWay(c, s)
            <4>1. PICK i \in DOMAIN q : q[i].server = s
                BY <3>1 DEF OnItsWay
            <4>2. CASE i = 1
                BY <1>2, <2>1, <4>1, <4>2
            <4>3. CASE i - 1 \in DOMAIN Tail(q) /\ Tail(q)[i - 1] = q[i]
                BY <2>1, <4>1, <4>3 DEF OnItsWay
            <4> QED
                BY <1>2, <4>2, <4>3
        <3>2. CASE leg[c][s] = "running" \/ s \in failed[c]
            BY <1>1, <2>1, <3>2
        <3> QED
            BY <1>1, <1>3, <3>1, <3>2 DEF CallInv
    <2>4. \A i \in DOMAIN chan'[c] : chan'[c][i].ok => leg'[c][chan'[c][i].server] = "ok"
        BY <1>1, <1>2, <1>3, <2>1 DEF CallInv
    <2>5. CallInv(c)'
        BY <1>1, <2>1, <2>3, <2>4 DEF CallInv
    <2> QED
        BY <2>1, <2>2, <2>5, OneCall
<1> QED
    BY <1>4, <1>5

LEMMA EndStep ==
    ASSUME RaceType, RaceInv, NEW c \in Call, Answer(c) \/ Lose(c) \/ Fail(c)
    PROVE  RaceType' /\ RaceInv'
<1>1. RaceType' /\ OthersKept(c)
    BY DEF Answer, Lose, Fail, RaceType, OthersKept
<1>2. leg' = leg /\ chan' = chan /\ failed' = failed /\ CallInv(c)
    BY CallHas DEF Answer, Lose, Fail
<1>3. CASE Answer(c) \/ Fail(c)
    <2>1. \/ call[c] = "won" /\ call'[c] = "answered"
          \/ call[c] = "lost" /\ call'[c] = "failed"
        BY <1>3 DEF Answer, Fail, RaceType
    <2>2. CallInv(c)'
        BY <1>2, <2>1 DEF CallInv
    <2> QED
        BY <1>1, <2>2, OneCall
<1>4. CASE Lose(c)
    <2>1. call[c] = "racing" /\ call'[c] = "lost" /\ chan[c] = <<>>
          /\ \A s \in Server : leg[c][s] # "running"
        BY <1>4 DEF Lose, Closed, RaceType
    <2>2. DOMAIN chan[c] = {}
        BY <2>1
    <2>3. failed[c] = Server
        <3>1. \A s \in Server : s \in failed[c]
            BY <1>2, <2>1, <2>2 DEF CallInv, OnItsWay
        <3> QED
            BY <3>1 DEF RaceType
    <2>4. CallInv(c)'
        BY <1>2, <2>1, <2>2, <2>3 DEF CallInv
    <2> QED
        BY <1>1, <2>4, OneCall
<1> QED
    BY <1>3, <1>4

LEMMA CounterStep ==
    ASSUME CounterType, NEW c \in Call, Begin(c) \/ Resolve(c) \/ \E s \in Server : LegTask(c, s)
    PROVE  CounterType'
<1>1. CASE Begin(c) \/ ReceiveError(c) \/ \E s \in Server : LegTask(c, s)
    BY <1>1 DEF CounterType, Begin, ReceiveError, LegTask, LegEnds, counters
<1>2. CASE ReceiveOk(c)
    BY <1>2 DEF CounterType, ReceiveOk
<1>3. CASE Answer(c)
    BY <1>3 DEF CounterType, Answer
<1>4. CASE Lose(c)
    BY <1>4 DEF CounterType, Lose
<1>5. CASE Fail(c)
    BY <1>5 DEF CounterType, Fail
<1> QED
    BY <1>1, <1>2, <1>3, <1>4, <1>5 DEF Resolve

LEMMA PoolStep == PoolInv /\ [Next]_vars => PoolInv'
<1> SUFFICES ASSUME PoolInv, [Next]_vars PROVE PoolInv'
    OBVIOUS
<1>1. CASE Start
    BY <1>1, StartStep
<1>2. ASSUME NEW c \in Call, Begin(c) \/ Resolve(c) \/ \E s \in Server : LegTask(c, s)
      PROVE  PoolInv'
    <2>1. RaceType /\ CounterType /\ RaceInv
        BY DEF PoolInv, TypeOK, RaceType, CounterType, Result
    <2>2. RaceType' /\ RaceInv'
        BY <1>2, <2>1, BeginStep, LegStep, ReceiveStep, EndStep DEF Resolve, LegTask
    <2>3. CounterType'
        BY <1>2, <2>1, CounterStep
    <2>4. UNCHANGED starting
        BY <1>2 DEF Begin, Resolve, LegTask, LegEnds, ReceiveOk, Answer, ReceiveError, Lose, Fail
    <2>5. TypeOK'
        BY <2>2, <2>3, <2>4 DEF PoolInv, TypeOK, RaceType, CounterType, Result, starting
    <2> QED
        BY <2>2, <2>4, <2>5 DEF PoolInv, StartsWithinBudget, Alone, starting
<1>3. CASE UNCHANGED vars
    <2>1. RaceInv'
        BY <1>3, RaceKept DEF PoolInv, vars
    <2> QED
        BY <1>3, <2>1 DEF vars, PoolInv, TypeOK, StartsWithinBudget, Alone, starting, race, counters
<1> QED
    BY <1>1, <1>2, <1>3 DEF Next

\* Start-up keeps to its budget, for any budget, timeout and backoff, and never
\* comes up empty (upstream.rs: UpstreamPool::new).
THEOREM StartupKeepsToBudget == Spec => [](TypeOK /\ StartsWithinBudget)
<1>1. PoolInv => TypeOK /\ StartsWithinBudget
    BY DEF PoolInv
<1> QED
    BY <1>1, PoolInit, PoolStep, PTL DEF Spec

\* A query fails only if every upstream failed it, for any number of upstreams
\* and of overlapping queries (upstream.rs: resolve).
THEOREM RaceIsFair == Spec => []FailsOnlyTogether
<1>1. PoolInv => FailsOnlyTogether
    BY DEF PoolInv, RaceInv
<1> QED
    BY <1>1, PoolInit, PoolStep, PTL DEF Spec
=============================================================================
