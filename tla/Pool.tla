-------------------------------- MODULE Pool --------------------------------
(***************************************************************************)
(* The upstream pool (UpstreamPool, crates/core/src/upstream.rs): start-up *)
(* connects the upstreams in rounds within a budget, and every query races *)
(* over all of them.  A leg of the race is a task of its own that runs to  *)
(* its end; what it does inside is the module Upstream, here it answers or *)
(* fails.                                                                  *)
(***************************************************************************)
EXTENDS Naturals, Sequences, FiniteSets

CONSTANTS
    Server,         \* the upstreams
    Call,           \* calls of resolve
    Budget,         \* connect_budget
    Timeout,        \* timeout_ms
    BackoffStart,   \* INIT_RETRY_BACKOFF_START
    BackoffMax      \* INIT_RETRY_BACKOFF_MAX

ASSUME PoolAssumption ==
    /\ IsFiniteSet(Server) /\ Server # {}
    /\ IsFiniteSet(Call)
    /\ Budget \in Nat \ {0} /\ Timeout \in Nat \ {0}
    /\ BackoffStart \in Nat \ {0} /\ BackoffMax \in Nat \ {0}
    /\ BackoffStart <= BackoffMax

VARIABLES
    state,          \* of the pool
    clock,          \* time since start-up began
    backoff,        \* the wait before the next round
    built,          \* upstreams connected at start-up
    call,           \* place of each call
    leg,            \* the legs of each call
    chan,           \* results on their way to the call
    failed,         \* errors the call has collected
    resolved,       \* health counters
    all_failed,
    consecutive

counters == <<resolved, all_failed, consecutive>>
starting == <<state, clock, backoff, built>>
race == <<call, leg, chan, failed>>
vars == <<starting, race, counters>>

AtMost(x, cap) == IF x <= cap THEN x ELSE cap

Init ==
    /\ state = "round" /\ clock = 0 /\ backoff = BackoffStart /\ built = {}
    /\ call = [c \in Call |-> "none"]
    /\ leg = [c \in Call |-> [s \in Server |-> "none"]]
    /\ chan = [c \in Call |-> <<>>]
    /\ failed = [c \in Call |-> {}]
    /\ resolved = 0 /\ all_failed = 0 /\ consecutive = 0

-----------------------------------------------------------------------------
(* Start-up.                                                               *)

\* Mutant of RoundEnd: a round is not cut off by the budget.
RoundEndUncut == clock + Timeout

\* When a round's attempts are cut off.
RoundEnd == AtMost(clock + Timeout, Budget)

\* One round: every upstream that is still down at once, until the last attempt
\* has ended.
Round(live, until) ==
    /\ state = "round"
    /\ live \subseteq Server \ built
    /\ until \in clock .. RoundEnd
    /\ built' = built \cup live
    /\ clock' = until
    /\ state' = IF built' # {} THEN "up" ELSE "retry"
    /\ UNCHANGED <<backoff, race, counters>>

\* Sleep and try again while the budget allows it.
Sleep ==
    /\ state = "retry"
    /\ clock + backoff < Budget
    /\ clock' = clock + backoff
    /\ backoff' = AtMost(2 * backoff, BackoffMax)
    /\ state' = "round"
    /\ UNCHANGED <<built, race, counters>>

\* Mutant of GiveUp: only a spent budget ends it.
GiveUpLate ==
    /\ state = "retry"
    /\ clock > Budget
    /\ state' = "failed"
    /\ UNCHANGED <<clock, backoff, built, race, counters>>

GiveUp ==
    /\ state = "retry"
    /\ clock + backoff >= Budget
    /\ state' = "failed"
    /\ UNCHANGED <<clock, backoff, built, race, counters>>

-----------------------------------------------------------------------------
(* A query.                                                                *)

\* One task per upstream, whatever the state of its connection.
Begin(c) ==
    /\ state = "up"
    /\ call[c] = "none"
    /\ call' = [call EXCEPT ![c] = "racing"]
    /\ leg' = [leg EXCEPT ![c] = [s \in Server |-> "running"]]
    /\ UNCHANGED <<starting, chan, failed, counters>>

\* A leg ends and sends its result, which nobody may read any more.
LegEnds(c, s, ok) ==
    /\ leg[c][s] = "running"
    /\ leg' = [leg EXCEPT ![c][s] = IF ok THEN "ok" ELSE "error"]
    /\ chan' = [chan EXCEPT ![c] = IF call[c] = "racing"
                                   THEN Append(@, [server |-> s, ok |-> ok]) ELSE @]
    /\ UNCHANGED <<starting, call, failed, counters>>

\* Mutant of ReceiveOk: the losers are cancelled.
ReceiveOkCancelling(c) ==
    /\ call[c] = "racing" /\ chan[c] # <<>> /\ Head(chan[c]).ok
    /\ call' = [call EXCEPT ![c] = "won"]
    /\ chan' = [chan EXCEPT ![c] = <<>>]
    /\ leg' = [leg EXCEPT ![c] = [s \in Server |-> IF @[s] = "running" THEN "none" ELSE @[s]]]
    /\ resolved' = resolved + 1
    /\ UNCHANGED <<starting, failed, all_failed, consecutive>>

\* The first answer wins; it is counted, then the count of failures is reset.
ReceiveOk(c) ==
    /\ call[c] = "racing" /\ chan[c] # <<>> /\ Head(chan[c]).ok
    /\ call' = [call EXCEPT ![c] = "won"]
    /\ chan' = [chan EXCEPT ![c] = <<>>]
    /\ resolved' = resolved + 1
    /\ UNCHANGED <<starting, leg, failed, all_failed, consecutive>>

Answer(c) ==
    /\ call[c] = "won"
    /\ call' = [call EXCEPT ![c] = "answered"]
    /\ consecutive' = 0
    /\ UNCHANGED <<starting, leg, chan, failed, resolved, all_failed>>

ReceiveError(c) ==
    /\ call[c] = "racing" /\ chan[c] # <<>> /\ ~Head(chan[c]).ok
    /\ failed' = [failed EXCEPT ![c] = @ \cup {Head(chan[c]).server}]
    /\ chan' = [chan EXCEPT ![c] = Tail(@)]
    /\ UNCHANGED <<starting, call, leg, counters>>

\* Mutant of Closed: the call gives up when nothing is waiting to be read.
ClosedTooSoon(c) == chan[c] = <<>> /\ failed[c] # {}

\* The channel closes when every leg has ended and every result was read.
Closed(c) == chan[c] = <<>> /\ \A s \in Server : leg[c][s] # "running"

Lose(c) ==
    /\ call[c] = "racing" /\ Closed(c)
    /\ call' = [call EXCEPT ![c] = "lost"]
    /\ all_failed' = all_failed + 1
    /\ UNCHANGED <<starting, leg, chan, failed, resolved, consecutive>>

Fail(c) ==
    /\ call[c] = "lost"
    /\ call' = [call EXCEPT ![c] = "failed"]
    /\ consecutive' = consecutive + 1
    /\ UNCHANGED <<starting, leg, chan, failed, resolved, all_failed>>

-----------------------------------------------------------------------------
Start ==
    \/ \E live \in SUBSET Server, until \in 0 .. Budget + Timeout : Round(live, until)
    \/ Sleep \/ GiveUp

Resolve(c) == ReceiveOk(c) \/ Answer(c) \/ ReceiveError(c) \/ Lose(c) \/ Fail(c)

LegTask(c, s) == \E ok \in BOOLEAN : LegEnds(c, s, ok)

Next ==
    \/ Start
    \/ \E c \in Call : Begin(c) \/ Resolve(c)
    \/ \E c \in Call, s \in Server : LegTask(c, s)

Spec == Init /\ [][Next]_vars

\* Tasks run, and a leg ends at its deadline at the latest (EveryLegEnds of
\* Upstream); an attempt to connect ends at the round's.
Fairness ==
    /\ WF_vars(Start)
    /\ \A c \in Call : WF_vars(Resolve(c))
    /\ \A c \in Call, s \in Server : WF_vars(LegTask(c, s))

FairSpec == Spec /\ Fairness

-----------------------------------------------------------------------------
(***************************************************************************)
(* Properties                                                              *)
(***************************************************************************)

TypeOK ==
    /\ state \in {"round", "retry", "up", "failed"}
    /\ clock \in Nat /\ backoff \in 1 .. BackoffMax
    /\ built \subseteq Server
    /\ call \in [Call -> {"none", "racing", "won", "lost", "answered", "failed"}]
    /\ leg \in [Call -> [Server -> {"none", "running", "ok", "error"}]]
    /\ chan \in [Call -> Seq([server : Server, ok : BOOLEAN])]
    /\ failed \in [Call -> SUBSET Server]
    /\ resolved \in Nat /\ all_failed \in Nat /\ consecutive \in Nat

\* Start-up ends within its budget, comes up only with a live upstream, and
\* gives up only when no round could follow (upstream.rs: UpstreamPool::new).
StartsWithinBudget ==
    /\ clock <= Budget
    /\ state = "up" => built # {}
    /\ state = "failed" => built = {} /\ clock + backoff >= Budget

\* A query fails only if every upstream failed it, and is answered only if one
\* answered, however the results arrive (upstream.rs: resolve).
FailsOnlyTogether ==
    \A c \in Call :
        /\ call[c] \in {"lost", "failed"} => failed[c] = Server
        /\ call[c] \in {"won", "answered"} => \E s \in Server : leg[c][s] = "ok"

\* Start-up ends, and every leg runs to its end, also when another one won: a
\* dead connection is noticed by the leg that used it (upstream.rs:
\* UpstreamPool::new; each leg of resolve is its own task).
LegsAndStartupEnd ==
    /\ <>(state \in {"up", "failed"})
    /\ \A c \in Call, s \in Server : leg[c][s] = "running" ~> leg[c][s] \in {"ok", "error"}
=============================================================================
