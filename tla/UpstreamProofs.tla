--------------------------- MODULE UpstreamProofs ---------------------------
(***************************************************************************)
(* Theorems about one upstream, for any number of concurrent queries and   *)
(* repairs, any backoff ladder and any timeouts.                           *)
(***************************************************************************)
EXTENDS Upstream, FiniteSetTheorems, TLAPS

Alive == \E r \in Repair : rep[r].pc # "none"

\* A leg between its read of the state and its wait has been woken, or a repair
\* is alive to wake it, or it is about to start one itself.
WakeInv ==
    \A l \in Leg : ~leg[l].woken =>
        /\ leg[l].pc = "waiting" => Alive
        /\ leg[l].pc = "trigger" => Alive \/ Due

\* Generations are handed out in order, and once a leg has torn its connection
\* down the installed one is another, until the leg holds it.
GenerationInv ==
    /\ conn.gen <= builds
    /\ \A l \in Leg :
          /\ leg[l].gen <= builds
          /\ leg[l].dead <= builds
          /\ leg[l].pc = "teardown" => leg[l].dead = leg[l].gen
          /\ \/ leg[l].pc = "retrigger"
             \/ leg[l].again /\ leg[l].pc \in {"subscribe", "read", "trigger", "waiting"}
             => conn.tag # "connected" \/ conn.gen # leg[l].dead
          /\ leg[l].again /\ leg[l].pc = "sending" => leg[l].gen # leg[l].dead

IInv == TypeOK /\ ConnectingHasBuilder /\ WakeInv /\ GenerationInv /\ RetryBounded

\* Splitting a step into the actions of legs and repairs.
LEMMA StepCases ==
    ASSUME [Next]_vars
    PROVE  \/ \E l \in Leg : \/ Start(l) \/ Subscribe(l) \/ Read(l) \/ Trigger(l)
                             \/ Wake(l) \/ WaitTimeout(l) \/ SendTimeout(l) \/ Prove(l)
                             \/ Invalidate(l) \/ Retrigger(l) \/ SendOk(l)
                             \/ SendRejected(l) \/ SendFatal(l)
           \/ \E r \in Repair : \/ \E ok \in BOOLEAN : BuildEnds(r, ok)
                                \/ BuildDropped(r) \/ Install(r) \/ StoreBackoff(r)
                                \/ Conclude(r)
           \/ Tick
           \/ UNCHANGED vars
  BY DEF Next, LegStep, TransportStep, RepairStep

\* The shapes of legs, repairs and connection states that the actions build.
LEMMA Shapes ==
    /\ \A pc \in Place : LegAt(pc) \in LegState
    /\ \A pc \in {"none", "building", "guard"} : RepAt(pc) \in RepairState
    /\ \A t \in Nat : Down(t) \in ConnState
    /\ \A r \in Repair : Connecting(r) \in ConnState
    /\ \A g \in Nat, t \in Nat \cup {None} : Connected(g, t) \in ConnState
  BY UpstreamAssumption
     DEF LegState, LegAt, RepairState, RepAt, ConnState, Down, Connecting, Connected

\* trigger_repair changes the connection and the repairs, and keeps their types.
LEMMA TriggerTyped ==
    ASSUME TypeOK, trigger_repair
    PROVE  conn' \in ConnState /\ rep' \in [Repair -> RepairState]
  BY Shapes DEF TypeOK, trigger_repair

\* A failed leg is a leg, and the counters stay numbers.
LEMMA FailTyped ==
    ASSUME TypeOK, NEW l \in Leg, Fail(l)
    PROVE  /\ leg' \in [Leg -> LegState]
           /\ queries' \in Nat /\ failures' \in Nat /\ consecutive' \in Nat
  BY Shapes DEF TypeOK, Fail, Place

\* A leg that only moves is a leg.
LEMMA GoTyped ==
    ASSUME TypeOK, NEW l \in Leg, NEW pc \in Place, Go(l, pc)
    PROVE  leg' \in [Leg -> LegState]
  BY DEF TypeOK, Go, LegState

\* invalidate's return keeps the types.
LEMMA OnwardTyped ==
    ASSUME TypeOK, NEW l \in Leg, Onward(l)
    PROVE  /\ leg' \in [Leg -> LegState]
           /\ queries' \in Nat /\ failures' \in Nat /\ consecutive' \in Nat
<1>1. CASE Fail(l)
  BY <1>1, FailTyped
<1>2. CASE /\ leg' = [leg EXCEPT ![l] = [@ EXCEPT !.pc = "subscribe", !.again = TRUE]]
           /\ UNCHANGED counters
  <2>1. leg' \in [Leg -> LegState]
    BY <1>2 DEF TypeOK, LegState, Place
  <2> QED
    BY <1>2, <2>1 DEF TypeOK, counters
<1> QED
  BY <1>1, <1>2 DEF Onward

\* Every action keeps the state well typed; the backoff stays within its ladder
\* although an answer may reset it between a repair's load and its store.
LEMMA TypePreserved ==
    ASSUME TypeOK, [Next]_vars
    PROVE  TypeOK'
<1> USE DEF TypeOK
<1>1. ASSUME NEW l \in Leg, Start(l) PROVE TypeOK'
  <2>1. [LegAt("subscribe") EXCEPT !.deadline = clock + Timeout] \in LegState
    <3>1. clock + Timeout \in Nat
      BY UpstreamAssumption
    <3> QED
      BY <3>1 DEF LegAt, LegState, Place
  <2> QED
    BY <1>1, <2>1 DEF Start
<1>2. ASSUME NEW l \in Leg, Subscribe(l) PROVE TypeOK'
  <2>1. [leg[l] EXCEPT !.pc = "read", !.woken = FALSE] \in LegState
    BY DEF LegState, Place
  <2> QED
    BY <1>2, <2>1 DEF Subscribe, counters
<1>3. ASSUME NEW l \in Leg, Read(l) PROVE TypeOK'
  <2>1. [leg[l] EXCEPT !.pc = "sending", !.gen = conn.gen, !.woken = FALSE] \in LegState
    BY DEF LegState, ConnState, Place
  <2>2. CASE conn.tag = "connected"
    BY <1>3, <2>1, <2>2 DEF Read, counters, Due
  <2>3. CASE Fail(l)
    BY <1>3, <2>3, FailTyped DEF Read
  <2>4. CASE Go(l, "trigger") /\ UNCHANGED counters
    <3>1. leg' \in [Leg -> LegState]
      BY <2>4, GoTyped DEF Place
    <3> QED
      BY <1>3, <2>4, <3>1 DEF Read, counters
  <2> QED
    BY <1>3, <2>2, <2>3, <2>4 DEF Read
<1>4. ASSUME NEW l \in Leg, Trigger(l) PROVE TypeOK'
  BY <1>4, TriggerTyped, GoTyped DEF Trigger, counters, Place
<1>5. ASSUME NEW l \in Leg, Wake(l) PROVE TypeOK'
  BY <1>5, GoTyped DEF Wake, counters, Place
<1>6. ASSUME NEW l \in Leg, WaitTimeout(l) PROVE TypeOK'
  BY <1>6, FailTyped DEF WaitTimeout
<1>7. ASSUME NEW l \in Leg, SendTimeout(l) PROVE TypeOK'
  BY <1>7, GoTyped DEF SendTimeout, counters, Place
<1>8. ASSUME NEW l \in Leg, Prove(l) PROVE TypeOK'
  <2>1. conn' \in ConnState
    BY <1>8 DEF Prove, ConnState
  <2> QED
    BY <1>8, <2>1, Shapes DEF Prove, counters, Place
<1>9. ASSUME NEW l \in Leg, Invalidate(l) PROVE TypeOK'
  <2>1. CASE conn.tag = "connected" /\ conn.gen = leg[l].gen
    <3>1. conn' \in ConnState
      <4>1. (IF conn.probation = None THEN clock ELSE conn.probation) \in Nat
        BY DEF ConnState
      <4> QED
        BY <1>9, <2>1, <4>1, Shapes DEF Invalidate
    <3> QED
      <4>1. PICK pc \in Place : Go(l, pc)
        BY <1>9, <2>1 DEF Invalidate, Place
      <4>2. leg' \in [Leg -> LegState]
        BY <4>1, GoTyped
      <4> QED
        BY <1>9, <2>1, <3>1, <4>2 DEF Invalidate, counters
  <2>2. CASE conn.tag # "connected" \/ conn.gen # leg[l].gen
    BY <1>9, <2>2, OnwardTyped DEF Invalidate
  <2> QED
    BY <2>1, <2>2
<1>10. ASSUME NEW l \in Leg, Retrigger(l) PROVE TypeOK'
  BY <1>10, OnwardTyped, TriggerTyped DEF Retrigger
<1>11. ASSUME NEW l \in Leg, SendOk(l) PROVE TypeOK'
  BY <1>11, GoTyped, UpstreamAssumption DEF SendOk, Place
<1>12. ASSUME NEW l \in Leg, SendRejected(l) PROVE TypeOK'
  BY <1>12, FailTyped DEF SendRejected
<1>13. ASSUME NEW l \in Leg, SendFatal(l) PROVE TypeOK'
  <2>1. \A pc \in Place : [leg[l] EXCEPT !.pc = pc, !.dead = leg[l].gen] \in LegState
    BY DEF LegState
  <2> QED
    BY <1>13, <2>1 DEF SendFatal, counters, Place
<1>14. ASSUME NEW r \in Repair, NEW ok \in BOOLEAN, BuildEnds(r, ok) PROVE TypeOK'
  BY <1>14 DEF BuildEnds, counters, RepairState
<1>15. ASSUME NEW r \in Repair, BuildDropped(r) PROVE TypeOK'
  BY <1>15, Shapes DEF BuildDropped, counters
<1>16. ASSUME NEW r \in Repair, Install(r) PROVE TypeOK'
  <2>1. rep' \in [Repair -> RepairState]
    BY <1>16 DEF Install, RepairState
  <2>2. rep[r].back \in Nat /\ AtMost(rep[r].back, MaxProbation) \in Nat
    BY UpstreamAssumption DEF RepairState, AtMost
  <2> QED
    <3>1. CASE rep[r].ok
      BY <1>16, <2>1, <2>2, <3>1, Shapes DEF Install, counters
    <3>2. CASE ~rep[r].ok
      BY <1>16, <2>1, <2>2, <3>2, Shapes DEF Install, counters
    <3> QED
      BY <3>1, <3>2
<1>17. ASSUME NEW r \in Repair, StoreBackoff(r) PROVE TypeOK'
  <2>1. backoff' \in MinBackoff .. MaxBackoff
    BY <1>17, UpstreamAssumption DEF StoreBackoff, AtMost, RepairState
  <2> QED
    BY <1>17, <2>1, Shapes DEF StoreBackoff, counters
<1>18. ASSUME NEW r \in Repair, Conclude(r) PROVE TypeOK'
  <2>1. leg' \in [Leg -> LegState]
    BY <1>18 DEF Conclude, LegState
  <2> QED
    BY <1>18, <2>1, Shapes DEF Conclude, counters
<1>19. CASE Tick
  BY <1>19 DEF Tick, counters
<1>20. CASE UNCHANGED vars
  BY <1>20 DEF vars, counters
<1> QED
  BY <1>1, <1>2, <1>3, <1>4, <1>5, <1>6, <1>7, <1>8, <1>9, <1>10, <1>11, <1>12,
     <1>13, <1>14, <1>15, <1>16, <1>17, <1>18, <1>19, <1>20, StepCases

-----------------------------------------------------------------------------
\* The steps of a leg that touch neither the connection nor the repairs.
Quiet(l) ==
    \/ Start(l) \/ Subscribe(l) \/ Read(l) \/ Wake(l) \/ WaitTimeout(l)
    \/ SendTimeout(l) \/ SendOk(l) \/ SendRejected(l) \/ SendFatal(l)

\* A quiet step leaves the connection and the repairs alone.
LEMMA QuietFrame ==
    ASSUME NEW l \in Leg, Quiet(l)
    PROVE  UNCHANGED <<clock, conn, builds, rep>>
  BY DEF Quiet, Start, Subscribe, Read, Wake, WaitTimeout, SendTimeout, SendOk,
         SendRejected, SendFatal

\* A Connecting upstream keeps its builder until the build is over, even when a
\* second repair ends meanwhile: whatever it does, it takes the state out of
\* Connecting.
LEMMA BuilderPreserved ==
    ASSUME TypeOK, ConnectingHasBuilder, [Next]_vars
    PROVE  ConnectingHasBuilder'
<1> USE DEF ConnectingHasBuilder
<1> rep \in [Repair -> RepairState]
  BY DEF TypeOK
<1>1. ASSUME NEW l \in Leg, Quiet(l) PROVE ConnectingHasBuilder'
  BY <1>1, QuietFrame
<1>2. ASSUME trigger_repair PROVE ConnectingHasBuilder'
  BY <1>2 DEF trigger_repair, Connecting, RepAt
<1>3. ASSUME NEW l \in Leg, Trigger(l) \/ Retrigger(l) PROVE ConnectingHasBuilder'
  BY <1>2, <1>3 DEF Trigger, Retrigger
<1>4. ASSUME NEW l \in Leg, Prove(l) PROVE ConnectingHasBuilder'
  BY <1>4 DEF Prove, TypeOK, ConnState
<1>5. ASSUME NEW l \in Leg, Invalidate(l) PROVE ConnectingHasBuilder'
  BY <1>5 DEF Invalidate, Down
<1>6. ASSUME NEW r \in Repair, NEW ok \in BOOLEAN, BuildEnds(r, ok)
      PROVE  ConnectingHasBuilder'
  BY <1>6 DEF BuildEnds
<1>7. ASSUME NEW r \in Repair, BuildDropped(r) PROVE ConnectingHasBuilder'
  BY <1>7 DEF BuildDropped, RepAt
<1>8. ASSUME NEW r \in Repair, Install(r) PROVE ConnectingHasBuilder'
  BY <1>8 DEF Install, Down, Connected
<1>9. ASSUME NEW r \in Repair, StoreBackoff(r) PROVE ConnectingHasBuilder'
  BY <1>9 DEF StoreBackoff, RepAt
<1>10. ASSUME NEW r \in Repair, Conclude(r) PROVE ConnectingHasBuilder'
  BY <1>10 DEF Conclude, Down
<1>11. CASE Tick \/ UNCHANGED vars
  BY <1>11 DEF Tick, vars
<1> QED
  BY <1>1, <1>3, <1>4, <1>5, <1>6, <1>7, <1>8, <1>9, <1>10, <1>11, StepCases DEF Quiet

\* The waits stay capped.  The delicate step is the tear-down of a connection on
\* probation, whose retry time is the end of that probation.
LEMMA RetryPreserved ==
    ASSUME TypeOK, RetryBounded, [Next]_vars
    PROVE  RetryBounded'
<1> USE UpstreamAssumption DEF RetryBounded
<1>0. /\ clock \in Nat /\ conn \in ConnState
      /\ rep \in [Repair -> RepairState]
  BY DEF TypeOK
<1>1. ASSUME NEW l \in Leg, Quiet(l) PROVE RetryBounded'
  BY <1>1, QuietFrame
<1>2. ASSUME trigger_repair, UNCHANGED clock PROVE RetryBounded'
  BY <1>2 DEF trigger_repair, Connecting
<1>3. ASSUME NEW l \in Leg, Trigger(l) \/ Retrigger(l) PROVE RetryBounded'
  BY <1>2, <1>3 DEF Trigger, Retrigger
<1>4. ASSUME NEW l \in Leg, Prove(l) PROVE RetryBounded'
  BY <1>0, <1>4 DEF Prove, ConnState
<1>5. ASSUME NEW l \in Leg, Invalidate(l) PROVE RetryBounded'
  BY <1>0, <1>5 DEF Invalidate, Down, ConnState
<1>6. ASSUME NEW r \in Repair, UNCHANGED <<clock, conn>> PROVE RetryBounded'
  BY <1>6
<1>7. ASSUME NEW r \in Repair, Install(r) PROVE RetryBounded'
  <2>1. rep[r].back \in MinBackoff .. MaxBackoff
    BY <1>0 DEF RepairState
  <2> QED
    BY <1>0, <1>7, <2>1 DEF Install, Down, Connected, AtMost
<1>8. ASSUME NEW r \in Repair, Conclude(r) PROVE RetryBounded'
  BY <1>0, <1>8 DEF Conclude, Down
<1>9. CASE Tick
  BY <1>0, <1>9 DEF Tick, ConnState
<1>10. CASE UNCHANGED vars
  BY <1>10 DEF vars
<1> QED
  BY <1>1, <1>3, <1>4, <1>5, <1>6, <1>7, <1>8, <1>9, <1>10, StepCases
  DEF Quiet, BuildEnds, BuildDropped, StoreBackoff

\* What a step of leg l does to the legs: the others are untouched.
LEMMA OthersKept ==
    ASSUME TypeOK, NEW l \in Leg,
           \/ Quiet(l) \/ Trigger(l) \/ Retrigger(l) \/ Prove(l) \/ Invalidate(l)
    PROVE  \A m \in Leg : m # l => leg'[m] = leg[m]
  BY DEF TypeOK, Quiet, Start, Subscribe, Read, Wake, WaitTimeout, SendTimeout, SendOk,
         SendRejected, SendFatal, Trigger, Retrigger, Prove, Invalidate, Onward, Fail, Go

\* A leg that fails is at its end, with a blank record.
LEMMA FailEffect ==
    ASSUME TypeOK, NEW l \in Leg, Fail(l)
    PROVE  /\ leg'[l].pc = "failed" /\ ~leg'[l].again /\ ~leg'[l].woken
           /\ leg'[l].gen = 0 /\ leg'[l].dead = 0
  BY DEF TypeOK, Fail, LegAt

\* A leg that only moves keeps the rest of its record.
LEMMA GoEffect ==
    ASSUME TypeOK, NEW l \in Leg, NEW pc \in Place, Go(l, pc)
    PROVE  /\ leg'[l].pc = pc /\ leg'[l].again = leg[l].again
           /\ leg'[l].woken = leg[l].woken
           /\ leg'[l].gen = leg[l].gen /\ leg'[l].dead = leg[l].dead
  BY DEF TypeOK, Go, LegState

\* After invalidate a leg tries again with its record kept, or has failed.
LEMMA OnwardEffect ==
    ASSUME TypeOK, NEW l \in Leg, Onward(l)
    PROVE  \/ /\ leg[l].pc \in {"teardown", "retrigger"}
              /\ leg'[l].pc = "subscribe" /\ leg'[l].again
              /\ leg'[l].gen = leg[l].gen /\ leg'[l].dead = leg[l].dead
           \/ /\ leg'[l].pc = "failed" /\ ~leg'[l].again
              /\ leg'[l].gen = 0 /\ leg'[l].dead = 0
<1>1. CASE Fail(l)
  BY <1>1, FailEffect
<1>2. CASE /\ leg[l].pc \in {"teardown", "retrigger"}
           /\ leg' = [leg EXCEPT ![l] = [@ EXCEPT !.pc = "subscribe", !.again = TRUE]]
  BY <1>2 DEF TypeOK, LegState
<1> QED
  BY <1>1, <1>2 DEF Onward

\* What acquire makes of the state it reads: a send on that generation, a failure,
\* or a wait that finds the upstream due or Connecting.
LEMMA ReadEffect ==
    ASSUME TypeOK, NEW l \in Leg, Read(l)
    PROVE  \/ /\ conn.tag = "connected"
              /\ leg'[l].pc = "sending" /\ leg'[l].gen = conn.gen
              /\ leg'[l].again = leg[l].again /\ leg'[l].dead = leg[l].dead
           \/ /\ leg'[l].pc = "failed" /\ ~leg'[l].again
              /\ leg'[l].gen = 0 /\ leg'[l].dead = 0
           \/ /\ conn.tag = "connecting" \/ Due
              /\ leg'[l].pc = "trigger" /\ leg'[l].again = leg[l].again
              /\ leg'[l].gen = leg[l].gen /\ leg'[l].dead = leg[l].dead
<1>1. CASE /\ conn.tag = "connected"
           /\ leg' = [leg EXCEPT ![l] = [@ EXCEPT !.pc = "sending", !.gen = conn.gen,
                                                  !.woken = FALSE]]
  BY <1>1 DEF TypeOK, LegState
<1>2. CASE Fail(l)
  BY <1>2, FailEffect
<1>3. CASE (conn.tag = "connecting" \/ Due) /\ Go(l, "trigger")
  BY <1>3, GoEffect DEF Place
<1> QED
  BY <1>1, <1>2, <1>3 DEF Read

\* Starting a repair, or not needing to, leaves a repair alive or nothing due.
LEMMA TriggerAlive ==
    ASSUME TypeOK, trigger_repair, UNCHANGED clock
    PROVE  Alive' \/ (~Due /\ UNCHANGED <<conn, rep>> /\ ~Due')
  BY DEF TypeOK, trigger_repair, Alive, RepAt, Due

\* No wake-up is lost: a step that ends the last repair wakes everyone who has
\* subscribed, and a leg that saw nothing to wait for starts a repair itself.
LEMMA WakePreserved ==
    ASSUME TypeOK, ConnectingHasBuilder, WakeInv, [Next]_vars
    PROVE  WakeInv'
<1> USE DEF WakeInv
<1>0. /\ leg \in [Leg -> LegState] /\ rep \in [Repair -> RepairState]
      /\ clock \in Nat /\ conn \in ConnState
  BY DEF TypeOK
<1>1. ASSUME NEW l \in Leg, Quiet(l) PROVE WakeInv'
  <2>1. (Alive' <=> Alive) /\ (Due' <=> Due)
    BY <1>1, QuietFrame DEF Alive, Due
  <2>2. \A m \in Leg : m # l => leg'[m] = leg[m]
    BY <1>1, OthersKept
  <2>3. leg'[l].pc # "waiting" /\ (leg'[l].pc = "trigger" => Alive \/ Due)
    <3>1. CASE Read(l)
      BY <3>1, ReadEffect DEF ConnectingHasBuilder, Alive
    <3>2. CASE Start(l)
      BY <1>0, <3>2 DEF Start, LegAt
    <3>3. CASE Subscribe(l)
      BY <1>0, <3>3 DEF Subscribe, LegState
    <3>4. CASE Wake(l) \/ SendTimeout(l) \/ SendOk(l)
      BY <3>4, GoEffect DEF Wake, SendTimeout, SendOk, Place
    <3>5. CASE WaitTimeout(l) \/ SendRejected(l)
      BY <3>5, FailEffect DEF WaitTimeout, SendRejected
    <3>6. CASE SendFatal(l)
      BY <1>0, <3>6 DEF SendFatal, LegState
    <3> QED
      BY <1>1, <3>1, <3>2, <3>3, <3>4, <3>5, <3>6 DEF Quiet
  <2> QED
    BY <2>1, <2>2, <2>3
<1>2. ASSUME NEW l \in Leg, Trigger(l) PROVE WakeInv'
  <2>1. \A m \in Leg : m # l => leg'[m] = leg[m]
    BY <1>2, OthersKept
  <2>2. leg[l].pc = "trigger" /\ leg'[l].woken = leg[l].woken
    BY <1>0, <1>2 DEF Trigger, Go, LegState
  <2>3. CASE Alive'
    BY <2>3
  <2>4. CASE ~Due /\ UNCHANGED <<conn, rep>> /\ ~Due'
    <3>1. Alive' <=> Alive
      BY <2>4 DEF Alive
    <3> QED
      BY <2>1, <2>2, <2>4, <3>1
  <2> QED
    BY <1>2, <2>3, <2>4, TriggerAlive DEF Trigger
<1>3. ASSUME NEW l \in Leg, Retrigger(l) PROVE WakeInv'
  <2>1. \A m \in Leg : m # l => leg'[m] = leg[m]
    BY <1>3, OthersKept
  <2>2. leg'[l].pc \in {"subscribe", "failed"}
    BY <1>3, OnwardEffect DEF Retrigger
  <2>3. CASE Alive'
    BY <2>3
  <2>4. CASE ~Due /\ UNCHANGED <<conn, rep>> /\ ~Due'
    <3>1. Alive' <=> Alive
      BY <2>4 DEF Alive
    <3> QED
      BY <2>1, <2>2, <2>4, <3>1
  <2> QED
    BY <1>3, <2>3, <2>4, TriggerAlive DEF Retrigger
<1>4. ASSUME NEW l \in Leg, Prove(l) \/ Invalidate(l) PROVE WakeInv'
  <2>1. \A m \in Leg : m # l => leg'[m] = leg[m]
    BY <1>4, OthersKept
  <2>2. leg'[l].pc \notin {"waiting", "trigger"}
    <3>1. CASE Prove(l)
      BY <1>0, <3>1 DEF Prove, LegAt
    <3>2. CASE Invalidate(l) /\ Onward(l)
      BY <3>2, OnwardEffect
    <3>3. CASE \E pc \in {"retrigger", "lasttrigger"} : Go(l, pc)
      BY <3>3, GoEffect DEF Place
    <3> QED
      BY <1>4, <3>1, <3>2, <3>3 DEF Invalidate
  <2>3. (Alive' <=> Alive) /\ (Due => Due')
    BY <1>0, <1>4 DEF Prove, Invalidate, Alive, Due
  <2> QED
    BY <2>1, <2>2, <2>3
<1>5. ASSUME NEW r \in Repair, NEW ok \in BOOLEAN,
             BuildEnds(r, ok) \/ BuildDropped(r) \/ Install(r) \/ StoreBackoff(r)
      PROVE  WakeInv'
  <2>1. Alive'
    BY <1>0, <1>5 DEF BuildEnds, BuildDropped, Install, StoreBackoff, RepAt, Alive,
       RepairState
  <2> QED
    BY <2>1
<1>6. ASSUME NEW r \in Repair, Conclude(r) PROVE WakeInv'
  <2>1. \A l \in Leg : leg'[l].pc \in {"waiting", "trigger"} => leg'[l].woken
    BY <1>0, <1>6 DEF Conclude, Listening, LegState
  <2> QED
    BY <2>1
<1>7. CASE Tick
  <2>1. (Alive' <=> Alive) /\ (Due => Due') /\ leg' = leg
    BY <1>0, <1>7 DEF Tick, Alive, Due, ConnState
  <2> QED
    BY <2>1
<1>8. CASE UNCHANGED vars
  BY <1>8 DEF vars, Alive, Due
<1> QED
  BY <1>1, <1>2, <1>3, <1>4, <1>5, <1>6, <1>7, <1>8, StepCases DEF Quiet

\* Generations: a connection installed later has a higher one, and a leg that
\* tore its connection down cannot find it installed again.
LEMMA GenerationPreserved ==
    ASSUME TypeOK, GenerationInv, [Next]_vars
    PROVE  GenerationInv'
<1> USE DEF GenerationInv
<1>0. /\ leg \in [Leg -> LegState] /\ rep \in [Repair -> RepairState]
      /\ conn \in ConnState /\ builds \in Nat
  BY DEF TypeOK
<1>1. ASSUME NEW l \in Leg, Quiet(l) PROVE GenerationInv'
  <2>1. \A m \in Leg : m # l => leg'[m] = leg[m]
    BY <1>1, OthersKept
  <2>2. UNCHANGED <<conn, builds>>
    BY <1>1, QuietFrame
  <2>3. CASE Start(l)
    BY <1>0, <2>1, <2>2, <2>3 DEF Start, LegAt
  <2>4. CASE Subscribe(l)
    BY <1>0, <2>1, <2>2, <2>4 DEF Subscribe, LegState
  <2>5. CASE Read(l)
    <3>1. leg[l].pc = "read"
      BY <2>5 DEF Read
    <3> QED
      BY <1>0, <2>1, <2>2, <2>5, <3>1, ReadEffect DEF ConnState
  <2>6. CASE Wake(l) \/ SendTimeout(l) \/ SendOk(l)
    BY <1>0, <2>1, <2>2, <2>6 DEF Wake, SendTimeout, SendOk, Go, LegState
  <2>7. CASE WaitTimeout(l) \/ SendRejected(l)
    BY <1>0, <2>1, <2>2, <2>7 DEF WaitTimeout, SendRejected, Fail, LegAt
  <2>8. CASE SendFatal(l)
    BY <1>0, <2>1, <2>2, <2>8 DEF SendFatal, LegState
  <2> QED
    BY <1>1, <2>3, <2>4, <2>5, <2>6, <2>7, <2>8 DEF Quiet
<1>2. ASSUME NEW l \in Leg, Trigger(l) PROVE GenerationInv'
  <2>1. \A m \in Leg : m # l => leg'[m] = leg[m]
    BY <1>2, OthersKept
  <2> QED
    BY <1>0, <1>2, <2>1 DEF Trigger, trigger_repair, Connecting, Go, LegState, Due
<1>3. ASSUME NEW l \in Leg, Retrigger(l) PROVE GenerationInv'
  <2>1. \A m \in Leg : m # l => leg'[m] = leg[m]
    BY <1>3, OthersKept
  <2>2. /\ leg[l].pc \in {"retrigger", "lasttrigger"} /\ builds' = builds
        /\ conn' = conn \/ (conn'.tag = "connecting" /\ conn'.gen = 0)
    BY <1>3 DEF Retrigger, trigger_repair, Connecting
  <2>3. CASE leg[l].pc = "retrigger"
    <3>1. leg' = [leg EXCEPT ![l] = [@ EXCEPT !.pc = "subscribe", !.again = TRUE]]
      BY <1>3, <2>3 DEF Retrigger, Onward
    <3>2. /\ leg'[l].gen = leg[l].gen /\ leg'[l].dead = leg[l].dead
          /\ leg'[l].pc = "subscribe"
      BY <1>0, <3>1 DEF LegState
    <3> QED
      BY <1>0, <2>1, <2>2, <2>3, <3>2
  <2>4. CASE leg[l].pc = "lasttrigger"
    <3>1. leg'[l] = LegAt("failed")
      BY <1>0, <1>3, <2>4 DEF Retrigger, Onward, Fail
    <3> QED
      BY <1>0, <2>1, <2>2, <3>1 DEF LegAt
  <2> QED
    BY <2>2, <2>3, <2>4
<1>4. ASSUME NEW l \in Leg, Prove(l) PROVE GenerationInv'
  <2>1. \A m \in Leg : m # l => leg'[m] = leg[m]
    BY <1>4, OthersKept
  <2> QED
    BY <1>0, <1>4, <2>1 DEF Prove, LegAt, ConnState
<1>5. ASSUME NEW l \in Leg, Invalidate(l) PROVE GenerationInv'
  <2>1. \A m \in Leg : m # l => leg'[m] = leg[m]
    BY <1>5, OthersKept
  <2>2. CASE conn.tag = "connected" /\ conn.gen = leg[l].gen
    <3>1. conn'.tag = "down" /\ conn'.gen = 0 /\ builds' = builds
      BY <1>5, <2>2 DEF Invalidate, Down
    <3>2. \E pc \in {"retrigger", "lasttrigger"} : Go(l, pc)
      BY <1>5, <2>2 DEF Invalidate
    <3>3. /\ leg'[l].pc \in {"retrigger", "lasttrigger"}
          /\ leg'[l].gen = leg[l].gen /\ leg'[l].dead = leg[l].dead
      BY <3>2, GoEffect DEF Place
    <3> QED
      BY <1>0, <2>1, <3>1, <3>3
  <2>3. CASE conn.tag # "connected" \/ conn.gen # leg[l].gen
    <3>1. Onward(l) /\ UNCHANGED <<conn, builds>>
      BY <1>5, <2>3 DEF Invalidate
    <3>2. leg[l].pc # "retrigger"
      BY <1>5 DEF Invalidate
    <3> QED
      BY <1>0, <2>1, <2>3, <3>1, <3>2, OnwardEffect
  <2> QED
    BY <2>2, <2>3
<1>6. ASSUME NEW r \in Repair, Install(r) PROVE GenerationInv'
  BY <1>0, <1>6 DEF Install, Down, Connected, LegState
<1>7. ASSUME NEW r \in Repair, Conclude(r) PROVE GenerationInv'
  <2>1. \A l \in Leg : /\ leg'[l].pc = leg[l].pc /\ leg'[l].again = leg[l].again
                       /\ leg'[l].gen = leg[l].gen /\ leg'[l].dead = leg[l].dead
    BY <1>0, <1>7 DEF Conclude, LegState
  <2> QED
    BY <1>0, <1>7, <2>1 DEF Conclude, Down
<1>8. CASE UNCHANGED <<conn, builds, leg>>
  BY <1>8
<1> QED
  BY <1>1, <1>2, <1>3, <1>4, <1>5, <1>6, <1>7, <1>8, StepCases
  DEF Quiet, BuildEnds, BuildDropped, StoreBackoff, Tick, vars

-----------------------------------------------------------------------------
\* The whole inductive invariant holds at the start.
LEMMA InitIInv == Init => IInv
<1> SUFFICES ASSUME Init PROVE IInv
  OBVIOUS
<1>1. TypeOK
  <2>1. MinBackoff \in MinBackoff .. MaxBackoff
    BY UpstreamAssumption
  <2> QED
    <3>1. LegAt("idle") \in LegState /\ RepAt("none") \in RepairState
      BY Shapes DEF Place
    <3>2. conn \in ConnState
      BY Shapes DEF Init
    <3> QED
      BY <2>1, <3>1, <3>2 DEF Init, TypeOK
<1>2. ConnectingHasBuilder /\ WakeInv /\ GenerationInv /\ RetryBounded
  BY UpstreamAssumption
  DEF Init, Down, Connected, LegAt, ConnectingHasBuilder, WakeInv, GenerationInv,
      RetryBounded
<1> QED
  BY <1>1, <1>2 DEF IInv

\* The inductive invariant holds for ever.
LEMMA Invariance == Spec => []IInv
<1>1. IInv /\ [Next]_vars => IInv'
  BY TypePreserved, BuilderPreserved, WakePreserved, GenerationPreserved, RetryPreserved
  DEF IInv
<1> QED
  BY <1>1, InitIInv, PTL DEF Spec

\* However many repairs overlap and whichever of them is dropped, the upstream
\* is never Connecting without the task that made it so (upstream.rs: Concluded).
THEOREM ConnectingIsOwned == Spec => []ConnectingHasBuilder
  BY Invariance, PTL DEF IInv

\* No query waits for a build that has already concluded (upstream.rs: acquire
\* subscribes before it reads).
THEOREM WakeupsArrive == Spec => []NoLostWakeup
<1>1. IInv => NoLostWakeup
  BY DEF IInv, WakeInv, Alive, NoLostWakeup
<1> QED
  BY <1>1, Invariance, PTL

\* A query's second attempt uses another connection than its first (upstream.rs:
\* generations in invalidate).
THEOREM RetriesElsewhere == Spec => []RetriesOnAnotherConnection
<1>1. IInv => RetriesOnAnotherConnection
  BY DEF IInv, GenerationInv, RetriesOnAnotherConnection
<1> QED
  BY <1>1, Invariance, PTL

\* The wait before a down upstream is tried again never exceeds
\* MAX_RECONNECT_BACKOFF, nor a probation MAX_PROBATION, and the state is well
\* typed, the backoff ladder included (upstream.rs: repair, record_success).
THEOREM WaitsAreCapped == Spec => [](TypeOK /\ RetryBounded)
  BY Invariance, PTL DEF IInv

-----------------------------------------------------------------------------
(* The health counters.                                                    *)

Failed == {l \in Leg : leg[l].pc = "failed"}
Begun == {l \in Leg : leg[l].pc # "idle"}

\* A step that neither starts nor fails a leg.
LEMMA CountsKept ==
    ASSUME TypeOK, FailuresCounted, UNCHANGED <<queries, failures>>, consecutive' \in {consecutive, 0},
           \A m \in Leg : /\ leg'[m].pc = "failed" <=> leg[m].pc = "failed"
                          /\ leg'[m].pc = "idle" <=> leg[m].pc = "idle"
    PROVE  FailuresCounted'
<1>1. Failed' = Failed /\ Begun' = Begun
  BY DEF Failed, Begun
<1>2. consecutive' <= failures'
  BY DEF TypeOK, FailuresCounted
<1> QED
  BY <1>1, <1>2 DEF FailuresCounted, Failed, Begun

LEMMA LegsFinite ==
    ASSUME NEW A \in SUBSET Leg, NEW l \in Leg, l \notin A
    PROVE  Cardinality(A \cup {l}) = Cardinality(A) + 1
  BY UpstreamAssumption, FS_Subset, FS_AddElement

\* A leg under way fails, and is counted.
LEMMA FailCounted ==
    ASSUME TypeOK, FailuresCounted, NEW l \in Leg, Fail(l), leg[l].pc \notin {"idle", "failed"}
    PROVE  FailuresCounted'
<1>1. leg'[l].pc = "failed" /\ \A m \in Leg : m # l => leg'[m] = leg[m]
  BY FailEffect DEF Fail, TypeOK
<1>2. Failed' = Failed \cup {l} /\ l \notin Failed /\ Begun' = Begun /\ Failed \in SUBSET Leg
  BY <1>1 DEF Failed, Begun
<1>3. Cardinality(Failed') = Cardinality(Failed) + 1
  BY <1>2, LegsFinite
<1>4. failures' = failures + 1 /\ consecutive' = consecutive + 1 /\ queries' = queries
  BY DEF Fail
<1>5. consecutive' <= failures'
  BY <1>4 DEF TypeOK, FailuresCounted
<1>6. failures = Cardinality(Failed) /\ queries = Cardinality(Begun)
  BY DEF FailuresCounted, Failed, Begun
<1>7. failures' = Cardinality(Failed') /\ queries' = Cardinality(Begun')
  BY <1>2, <1>3, <1>4, <1>6
<1> QED
  BY <1>5, <1>7 DEF FailuresCounted, Failed, Begun

LEMMA StartCounted ==
    ASSUME TypeOK, FailuresCounted, NEW l \in Leg, Start(l)
    PROVE  FailuresCounted'
<1>1. leg'[l].pc = "subscribe" /\ leg[l].pc = "idle" /\ \A m \in Leg : m # l => leg'[m] = leg[m]
  BY DEF TypeOK, Start, LegAt
<1>2. Begun' = Begun \cup {l} /\ l \notin Begun /\ Failed' = Failed /\ Begun \in SUBSET Leg
  BY <1>1 DEF Failed, Begun
<1>3. Cardinality(Begun') = Cardinality(Begun) + 1
  BY <1>2, LegsFinite
<1>4. queries' = queries + 1 /\ UNCHANGED <<failures, consecutive>>
  BY DEF Start
<1>5. failures = Cardinality(Failed) /\ queries = Cardinality(Begun) /\ consecutive <= failures
  BY DEF FailuresCounted, Failed, Begun
<1>6. failures' = Cardinality(Failed') /\ queries' = Cardinality(Begun') /\ consecutive' <= failures'
  BY <1>2, <1>3, <1>4, <1>5
<1> QED
  BY <1>6 DEF FailuresCounted, Failed, Begun

\* A leg that goes on, without an end.
LEMMA MoveCounted ==
    ASSUME TypeOK, FailuresCounted, NEW l \in Leg, leg[l].pc \notin {"idle", "failed"},
           leg'[l].pc \notin {"idle", "failed"}, \A m \in Leg : m # l => leg'[m] = leg[m],
           UNCHANGED <<queries, failures>>, consecutive' \in {consecutive, 0}
    PROVE  FailuresCounted'
  BY CountsKept

LEMMA OnwardCounted ==
    ASSUME TypeOK, FailuresCounted, NEW l \in Leg, Onward(l), \A m \in Leg : m # l => leg'[m] = leg[m]
    PROVE  FailuresCounted'
<1>1. CASE leg[l].pc \in {"lastteardown", "lasttrigger"} /\ Fail(l)
  BY <1>1, FailCounted
<1>2. CASE /\ leg[l].pc \in {"teardown", "retrigger"} /\ UNCHANGED counters
           /\ leg' = [leg EXCEPT ![l] = [@ EXCEPT !.pc = "subscribe", !.again = TRUE]]
  <2>1. leg'[l].pc = "subscribe"
    BY <1>2 DEF TypeOK, LegState
  <2> QED
    BY <1>2, <2>1, MoveCounted DEF counters
<1> QED
  BY <1>1, <1>2 DEF Onward

LEMMA CountsPreserved ==
    ASSUME TypeOK, FailuresCounted, [Next]_vars
    PROVE  FailuresCounted'
<1>1. ASSUME NEW l \in Leg, Start(l) PROVE FailuresCounted'
  BY <1>1, StartCounted
<1>2. ASSUME NEW l \in Leg, Read(l) PROVE FailuresCounted'
  <2>0. leg[l].pc = "read" /\ \A m \in Leg : m # l => leg'[m] = leg[m]
    BY <1>2, OthersKept DEF Read, Quiet
  <2>1. CASE Fail(l)
    BY <2>0, <2>1, FailCounted
  <2>2. CASE ~Fail(l)
    <3>1. UNCHANGED counters
      BY <1>2, <2>2 DEF Read
    <3>2. leg'[l].pc \in {"sending", "trigger"}
      <4>1. CASE leg' = [leg EXCEPT ![l] = [@ EXCEPT !.pc = "sending", !.gen = conn.gen, !.woken = FALSE]]
        BY <4>1 DEF TypeOK, LegState
      <4>2. CASE Go(l, "trigger")
        BY <4>2, GoEffect DEF Place
      <4> QED
        BY <1>2, <2>2, <4>1, <4>2 DEF Read
    <3> QED
      BY <2>0, <3>1, <3>2, MoveCounted DEF counters
  <2> QED
    BY <2>1, <2>2
<1>3. ASSUME NEW l \in Leg, WaitTimeout(l) \/ SendRejected(l) PROVE FailuresCounted'
  BY <1>3, FailCounted DEF WaitTimeout, SendRejected
<1>4. ASSUME NEW l \in Leg,
             \/ Subscribe(l) \/ Trigger(l) \/ Wake(l) \/ SendTimeout(l) \/ Prove(l)
             \/ SendOk(l) \/ SendFatal(l)
      PROVE  FailuresCounted'
  <2>1. \A m \in Leg : m # l => leg'[m] = leg[m]
    BY <1>4, OthersKept DEF Quiet
  <2>2. /\ leg[l].pc \in {"subscribe", "trigger", "waiting", "sending", "prove"}
        /\ UNCHANGED <<queries, failures>> /\ consecutive' \in {consecutive, 0}
    BY <1>4 DEF Subscribe, Trigger, Wake, SendTimeout, Prove, SendOk, SendFatal, counters
  <2>3. leg'[l].pc \notin {"idle", "failed"}
    <3>1. CASE Trigger(l) \/ Wake(l) \/ SendTimeout(l) \/ SendOk(l)
      <4>1. \E pc \in {"waiting", "subscribe", "lastteardown", "prove"} : Go(l, pc)
        BY <3>1 DEF Trigger, Wake, SendTimeout, SendOk
      <4> QED
        BY <4>1, GoEffect DEF Place
    <3>2. CASE Subscribe(l)
      BY <3>2 DEF Subscribe, TypeOK, LegState
    <3>3. CASE Prove(l)
      BY <3>3 DEF Prove, LegAt, TypeOK
    <3>4. CASE SendFatal(l)
      BY <3>4 DEF SendFatal, TypeOK, LegState
    <3> QED
      BY <1>4, <3>1, <3>2, <3>3, <3>4
  <2> QED
    BY <2>1, <2>2, <2>3, MoveCounted
<1>5. ASSUME NEW l \in Leg, Invalidate(l) PROVE FailuresCounted'
  <2>0. leg[l].pc \in {"teardown", "lastteardown"} /\ \A m \in Leg : m # l => leg'[m] = leg[m]
    BY <1>5, OthersKept DEF Invalidate
  <2>1. CASE Onward(l)
    BY <2>0, <2>1, OnwardCounted
  <2>2. CASE /\ Go(l, IF leg[l].pc = "teardown" THEN "retrigger" ELSE "lasttrigger")
             /\ UNCHANGED counters
    <3>1. \E pc \in {"retrigger", "lasttrigger"} : Go(l, pc)
      BY <2>2
    <3>2. leg'[l].pc \in {"retrigger", "lasttrigger"}
      BY <3>1, GoEffect DEF Place
    <3> QED
      BY <2>0, <2>2, <3>2, MoveCounted DEF counters
  <2> QED
    BY <1>5, <2>1, <2>2 DEF Invalidate
<1>6. ASSUME NEW l \in Leg, Retrigger(l) PROVE FailuresCounted'
  <2>0. \A m \in Leg : m # l => leg'[m] = leg[m]
    BY <1>6, OthersKept
  <2> QED
    BY <1>6, <2>0, OnwardCounted DEF Retrigger
<1>7. ASSUME NEW r \in Repair,
             \/ \E ok \in BOOLEAN : BuildEnds(r, ok)
             \/ BuildDropped(r) \/ Install(r) \/ StoreBackoff(r)
      PROVE  FailuresCounted'
  BY <1>7, CountsKept DEF BuildEnds, BuildDropped, Install, StoreBackoff, counters
<1>8. ASSUME NEW r \in Repair, Conclude(r) PROVE FailuresCounted'
  <2>1. \A l \in Leg : leg'[l].pc = leg[l].pc
    BY <1>8 DEF Conclude, TypeOK, LegState
  <2> QED
    BY <1>8, <2>1, CountsKept DEF Conclude, counters
<1>9. CASE Tick \/ UNCHANGED vars
  BY <1>9, CountsKept DEF Tick, vars, counters
<1> QED
  BY <1>1, <1>2, <1>3, <1>4, <1>5, <1>6, <1>7, <1>8, <1>9, StepCases

\* Every query dispatched to the upstream counts once, and once more as a failure
\* if it fails, however often it was retried and whatever overlapped with it
\* (upstream.rs: record_failure, record_success, send).
THEOREM CountersTell == Spec => []FailuresCounted
<1>1. Init => FailuresCounted
  <2> SUFFICES ASSUME Init PROVE FailuresCounted
    OBVIOUS
  <2>1. Failed = {} /\ Begun = {}
    BY DEF Init, LegAt, Failed, Begun
  <2> QED
    BY <2>1, FS_EmptySet DEF Init, FailuresCounted, Failed, Begun
<1>2. TypeOK /\ FailuresCounted /\ [Next]_vars => FailuresCounted'
  BY CountsPreserved
<1>3. IInv => TypeOK
  BY DEF IInv
<1> QED
  BY <1>1, <1>2, <1>3, Invariance, PTL DEF Spec
=============================================================================
