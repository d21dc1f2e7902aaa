------------------------------ MODULE Upstream ------------------------------
(***************************************************************************)
(* One upstream and the state that lets it survive a dead connection       *)
(* (ReconnectingUpstream, crates/core/src/upstream.rs).  Legs are calls of *)
(* send, one per query that races over this upstream; a repair is the      *)
(* detached task that builds a connection.  They share the connection      *)
(* state behind one mutex that is never held across an await, a few        *)
(* atomics, and the watch channel that announces concluded builds.         *)
(***************************************************************************)
EXTENDS Naturals, FiniteSets

CONSTANTS
    Leg,            \* calls of send
    Repair,         \* repair tasks alive at once (bound)
    MinBackoff,     \* MIN_RECONNECT_BACKOFF
    MaxBackoff,     \* MAX_RECONNECT_BACKOFF
    MaxProbation,   \* MAX_PROBATION
    Timeout,        \* upstreams.timeout_ms
    MaxBuilds,      \* bound on connections built
    MaxClock,       \* bound on time
    None            \* absent

ASSUME UpstreamAssumption ==
    /\ {MinBackoff, MaxBackoff, MaxProbation, Timeout, MaxBuilds, MaxClock} \subseteq Nat
    /\ MinBackoff <= MaxProbation
    /\ MaxProbation <= MaxBackoff
    /\ None \notin Nat \cup Repair
    /\ IsFiniteSet(Leg)

VARIABLES
    clock,          \* Instant::now()
    conn,           \* ConnState; a Connecting one names its build (for the properties)
    builds,         \* connections built so far, the source of generations
    backoff,        \* backoff_ms
    queries,        \* health counters
    failures,
    consecutive,
    leg,            \* the legs
    rep             \* the repairs

counters == <<queries, failures, consecutive>>
vars == <<clock, conn, builds, backoff, counters, leg, rep>>

Down(retry_at) ==
    [tag |-> "down", retry_at |-> retry_at, gen |-> 0, probation |-> None, owner |-> None]
Connecting(r) ==
    [tag |-> "connecting", retry_at |-> 0, gen |-> 0, probation |-> None, owner |-> r]
Connected(g, probation) ==
    [tag |-> "connected", retry_at |-> 0, gen |-> g, probation |-> probation, owner |-> None]

\* A leg at a place of send: is it past its first fatal error, the generation it
\* holds, the one that failed it, its deadline, and whether a build has
\* concluded since it subscribed.
LegAt(pc) ==
    [pc |-> pc, again |-> FALSE, gen |-> 0, dead |-> 0, deadline |-> 0, woken |-> FALSE]

\* A repair at a place of repair: did its build succeed, the backoff it loaded.
RepAt(pc) == [pc |-> pc, ok |-> FALSE, back |-> MinBackoff]

AtMost(x, cap) == IF x <= cap THEN x ELSE cap

\* A down upstream whose retry time has come.
Due == conn.tag = "down" /\ clock >= conn.retry_at

\* After start-up: connected (generation 1, proven), or down and due.
Init ==
    /\ clock = 0
    /\ \/ conn = Connected(1, None) /\ builds = 1
       \/ conn = Down(0) /\ builds = 0
    /\ backoff = MinBackoff
    /\ queries = 0 /\ failures = 0 /\ consecutive = 0
    /\ leg = [l \in Leg |-> LegAt("idle")]
    /\ rep = [r \in Repair |-> RepAt("none")]

Go(l, place) == leg' = [leg EXCEPT ![l].pc = place]

\* record_failure and the end of the leg.
Fail(l) ==
    /\ leg' = [leg EXCEPT ![l] = LegAt("failed")]
    /\ failures' = failures + 1
    /\ consecutive' = consecutive + 1
    /\ UNCHANGED queries

\* trigger_repair: Down and due becomes Connecting and a repair is spawned;
\* anything else is left alone.
trigger_repair ==
    \/ /\ Due
       /\ \E r \in Repair : /\ rep[r].pc = "none"
                            /\ conn' = Connecting(r)
                            /\ rep' = [rep EXCEPT ![r] = RepAt("building")]
    \/ /\ ~Due
       /\ UNCHANGED <<conn, rep>>

-----------------------------------------------------------------------------
(* A leg: send, acquire, invalidate, judge.                                *)

Start(l) ==
    /\ leg[l].pc = "idle"
    /\ clock + Timeout <= MaxClock
    /\ leg' = [leg EXCEPT ![l] = [LegAt("subscribe") EXCEPT !.deadline = clock + Timeout]]
    /\ queries' = queries + 1
    /\ UNCHANGED <<clock, conn, builds, backoff, failures, consecutive, rep>>

\* acquire: subscribe to concluded builds before reading the state.
Subscribe(l) ==
    /\ leg[l].pc = "subscribe"
    /\ leg' = [leg EXCEPT ![l] = [@ EXCEPT !.pc = "read", !.woken = FALSE]]
    /\ UNCHANGED <<clock, conn, builds, backoff, counters, rep>>

Read(l) ==
    /\ leg[l].pc = "read"
    /\ \/ /\ conn.tag = "connected"
          /\ leg' = [leg EXCEPT ![l] = [@ EXCEPT !.pc = "sending", !.gen = conn.gen, !.woken = FALSE]]
          /\ UNCHANGED counters
       \/ /\ conn.tag = "down" /\ ~Due
          /\ Fail(l)
       \/ /\ conn.tag = "connecting" \/ Due
          /\ Go(l, "trigger")
          /\ UNCHANGED counters
    /\ UNCHANGED <<clock, conn, builds, backoff, rep>>

Trigger(l) ==
    /\ leg[l].pc = "trigger"
    /\ trigger_repair
    /\ Go(l, "waiting")
    /\ UNCHANGED <<clock, builds, backoff, counters>>

\* done.changed() within the deadline; a wake-up beats an expired timer.
Wake(l) ==
    /\ leg[l].pc = "waiting"
    /\ leg[l].woken
    /\ Go(l, "subscribe")
    /\ UNCHANGED <<clock, conn, builds, backoff, counters, rep>>

WaitTimeout(l) ==
    /\ leg[l].pc = "waiting"
    /\ ~leg[l].woken /\ clock >= leg[l].deadline
    /\ Fail(l)
    /\ UNCHANGED <<clock, conn, builds, backoff, rep>>

\* The transport answers with a usable rcode: record_success, first its
\* atomics, then the connection state.
SendOk(l) ==
    /\ leg[l].pc = "sending"
    /\ Go(l, "prove")
    /\ consecutive' = 0
    /\ backoff' = MinBackoff
    /\ UNCHANGED <<clock, conn, builds, queries, failures, rep>>

Prove(l) ==
    /\ leg[l].pc = "prove"
    /\ leg' = [leg EXCEPT ![l] = LegAt("ok")]
    /\ conn' = IF conn.tag = "connected" THEN [conn EXCEPT !.probation = None] ELSE conn
    /\ UNCHANGED <<clock, builds, backoff, counters, rep>>

\* An unusable rcode, or an error that concerns this query only.
SendRejected(l) ==
    /\ leg[l].pc = "sending"
    /\ Fail(l)
    /\ UNCHANGED <<clock, conn, builds, backoff, rep>>

\* A fatal error: tear the connection down; the first time, try once more.
SendFatal(l) ==
    /\ leg[l].pc = "sending"
    /\ leg' = [leg EXCEPT ![l] =
                   [@ EXCEPT !.pc = IF leg[l].again THEN "lastteardown" ELSE "teardown",
                             !.dead = leg[l].gen]]
    /\ UNCHANGED <<clock, conn, builds, backoff, counters, rep>>

\* Mutant of SendTimeout: the second attempt has no timeout.
SendTimeoutOnce(l) ==
    /\ leg[l].pc = "sending" /\ ~leg[l].again
    /\ clock >= leg[l].deadline
    /\ Go(l, "lastteardown")
    /\ UNCHANGED <<clock, conn, builds, backoff, counters, rep>>

\* A hang until the deadline: tear down and fail.
SendTimeout(l) ==
    /\ leg[l].pc = "sending"
    /\ clock >= leg[l].deadline
    /\ Go(l, "lastteardown")
    /\ UNCHANGED <<clock, conn, builds, backoff, counters, rep>>

\* Mutant of Onward: the retried attempt is counted as a failure too.
OnwardCountingBoth(l) ==
    \/ /\ leg[l].pc \in {"teardown", "retrigger"}
       /\ leg' = [leg EXCEPT ![l] = [@ EXCEPT !.pc = "subscribe", !.again = TRUE]]
       /\ failures' = failures + 1
       /\ consecutive' = consecutive + 1
       /\ UNCHANGED queries
    \/ /\ leg[l].pc \in {"lastteardown", "lasttrigger"}
       /\ Fail(l)

\* invalidate has returned: acquire again, or give up.
Onward(l) ==
    \/ /\ leg[l].pc \in {"teardown", "retrigger"}
       /\ leg' = [leg EXCEPT ![l] = [@ EXCEPT !.pc = "subscribe", !.again = TRUE]]
       /\ UNCHANGED counters
    \/ /\ leg[l].pc \in {"lastteardown", "lasttrigger"}
       /\ Fail(l)

\* Mutant of Invalidate: a connection on probation is left in place.
InvalidateProvenOnly(l) ==
    /\ leg[l].pc \in {"teardown", "lastteardown"}
    /\ \/ /\ conn.tag = "connected" /\ conn.gen = leg[l].gen /\ conn.probation = None
          /\ conn' = Down(clock)
          /\ Go(l, IF leg[l].pc = "teardown" THEN "retrigger" ELSE "lasttrigger")
          /\ UNCHANGED counters
       \/ /\ conn.tag # "connected" \/ conn.gen # leg[l].gen \/ conn.probation # None
          /\ Onward(l)
          /\ UNCHANGED conn
    /\ UNCHANGED <<clock, builds, backoff, rep>>

\* invalidate: drop the connection unless it was replaced already.
Invalidate(l) ==
    /\ leg[l].pc \in {"teardown", "lastteardown"}
    /\ \/ /\ conn.tag = "connected" /\ conn.gen = leg[l].gen
          /\ conn' = Down(IF conn.probation = None THEN clock ELSE conn.probation)
          /\ Go(l, IF leg[l].pc = "teardown" THEN "retrigger" ELSE "lasttrigger")
          /\ UNCHANGED counters
       \/ /\ conn.tag # "connected" \/ conn.gen # leg[l].gen
          /\ Onward(l)
          /\ UNCHANGED conn
    /\ UNCHANGED <<clock, builds, backoff, rep>>

\* invalidate ends by starting the rebuild when it is due.
Retrigger(l) ==
    /\ leg[l].pc \in {"retrigger", "lasttrigger"}
    /\ trigger_repair
    /\ Onward(l)
    /\ UNCHANGED <<clock, builds, backoff>>

-----------------------------------------------------------------------------
(* A repair.                                                               *)

\* The build ends, well or badly (an error or the build timeout), and the
\* backoff is loaded.
BuildEnds(r, ok) ==
    /\ rep[r].pc = "building"
    /\ ok => builds < MaxBuilds
    /\ rep' = [rep EXCEPT ![r] = [pc |-> "install", ok |-> ok, back |-> backoff]]
    /\ UNCHANGED <<clock, conn, builds, backoff, counters, leg>>

\* The task is dropped or panics at its await: only the guard runs.
BuildDropped(r) ==
    /\ rep[r].pc = "building"
    /\ rep' = [rep EXCEPT ![r] = RepAt("guard")]
    /\ UNCHANGED <<clock, conn, builds, backoff, counters, leg>>

\* A built connection gets the next generation and replaces the state, a failed
\* build takes the upstream down, whatever the state has become meanwhile.
Install(r) ==
    /\ rep[r].pc = "install"
    /\ \/ /\ rep[r].ok
          /\ builds' = builds + 1
          /\ conn' = Connected(builds + 1, clock + AtMost(rep[r].back, MaxProbation))
       \/ /\ ~rep[r].ok
          /\ conn' = Down(clock + rep[r].back)
          /\ UNCHANGED builds
    /\ rep' = [rep EXCEPT ![r].pc = "store"]
    /\ UNCHANGED <<clock, backoff, counters, leg>>

StoreBackoff(r) ==
    /\ rep[r].pc = "store"
    /\ backoff' = AtMost(2 * rep[r].back, IF rep[r].ok THEN MaxProbation ELSE MaxBackoff)
    /\ rep' = [rep EXCEPT ![r] = RepAt("guard")]
    /\ UNCHANGED <<clock, conn, builds, counters, leg>>

\* Mutant of Listening: acquire subscribes only when it begins to wait.
ListeningLate(l) == leg[l].pc = "waiting"

\* A leg whose receiver exists hears of a build that concludes.
Listening(l) == leg[l].pc \in {"read", "trigger", "waiting"}

\* Mutant of Conclude: the guard wakes the legs but leaves Connecting alone.
ConcludeWakesOnly(r) ==
    /\ rep[r].pc = "guard"
    /\ leg' = [l \in Leg |-> IF Listening(l) THEN [leg[l] EXCEPT !.woken = TRUE] ELSE leg[l]]
    /\ rep' = [rep EXCEPT ![r] = RepAt("none")]
    /\ UNCHANGED <<clock, conn, builds, backoff, counters>>

\* Drop of Concluded: a state still Connecting becomes Down, and every leg
\* that listens is woken.
Conclude(r) ==
    /\ rep[r].pc = "guard"
    /\ conn' = IF conn.tag = "connecting" THEN Down(clock) ELSE conn
    /\ leg' = [l \in Leg |-> IF Listening(l) THEN [leg[l] EXCEPT !.woken = TRUE] ELSE leg[l]]
    /\ rep' = [rep EXCEPT ![r] = RepAt("none")]
    /\ UNCHANGED <<clock, builds, backoff, counters>>

-----------------------------------------------------------------------------
Tick ==
    /\ clock < MaxClock
    /\ clock' = clock + 1
    /\ UNCHANGED <<conn, builds, backoff, counters, leg, rep>>

\* The steps a leg takes without the transport's help.
LegStep(l) ==
    \/ Subscribe(l) \/ Read(l) \/ Trigger(l) \/ Wake(l) \/ WaitTimeout(l)
    \/ SendTimeout(l) \/ Prove(l) \/ Invalidate(l) \/ Retrigger(l)

TransportStep(l) == SendOk(l) \/ SendRejected(l) \/ SendFatal(l)

RepairStep(r) ==
    \/ \E ok \in BOOLEAN : BuildEnds(r, ok)
    \/ BuildDropped(r) \/ Install(r) \/ StoreBackoff(r) \/ Conclude(r)

Next ==
    \/ \E l \in Leg : Start(l) \/ LegStep(l) \/ TransportStep(l)
    \/ \E r \in Repair : RepairStep(r)
    \/ Tick

Spec == Init /\ [][Next]_vars

\* Time passes and the runtime runs every ready task.  Nothing is assumed of
\* the transport (a send may hang until the deadline) or of a build's outcome,
\* only that the build timeout ends it, and that builds are not all dropped: a
\* running service drops one when it panics, and all of them only to stop.
Fairness ==
    /\ WF_vars(Tick)
    /\ \A l \in Leg : WF_vars(LegStep(l))
    /\ \A r \in Repair : /\ WF_vars(RepairStep(r))
                         /\ SF_vars(\E ok \in BOOLEAN : BuildEnds(r, ok))

FairSpec == Spec /\ Fairness

-----------------------------------------------------------------------------
(***************************************************************************)
(* Properties                                                              *)
(***************************************************************************)

Place == {"idle", "subscribe", "read", "trigger", "waiting", "sending", "prove",
          "teardown", "lastteardown", "retrigger", "lasttrigger", "ok", "failed"}

ConnState ==
    [tag : {"down", "connecting", "connected"}, retry_at : Nat, gen : Nat,
     probation : Nat \cup {None}, owner : Repair \cup {None}]

LegState ==
    [pc : Place, again : BOOLEAN, gen : Nat, dead : Nat, deadline : Nat, woken : BOOLEAN]

RepairState ==
    [pc : {"none", "building", "install", "store", "guard"}, ok : BOOLEAN,
     back : MinBackoff .. MaxBackoff]

TypeOK ==
    /\ clock \in Nat
    /\ conn \in ConnState
    /\ builds \in Nat
    /\ backoff \in MinBackoff .. MaxBackoff
    /\ queries \in Nat /\ failures \in Nat /\ consecutive \in Nat
    /\ leg \in [Leg -> LegState]
    /\ rep \in [Repair -> RepairState]

\* While the upstream reads Connecting, the repair that made it so is still
\* working, so the state cannot stay Connecting with nobody building, even when
\* repairs overlap (upstream.rs: the Concluded guard).
ConnectingHasBuilder ==
    conn.tag = "connecting" =>
        /\ conn.owner \in Repair
        /\ rep[conn.owner].pc \in {"building", "install", "guard"}

\* A leg that waits either has been woken or has a repair whose end will wake
\* it: no conclusion slips between reading the state and waiting for it
\* (upstream.rs: acquire subscribes before it reads).
NoLostWakeup ==
    \A l \in Leg : leg[l].pc = "waiting" /\ ~leg[l].woken =>
        \E r \in Repair : rep[r].pc # "none"

\* The second attempt of a query never goes out on the connection that failed
\* the first one (upstream.rs: invalidate by generation, then acquire).
RetriesOnAnotherConnection ==
    \A l \in Leg : leg[l].pc = "sending" /\ leg[l].again => leg[l].gen # leg[l].dead

\* However failures, rebuilds and late answers interleave, a down upstream is
\* asked again within MAX_RECONNECT_BACKOFF, and a connection that has yet to
\* answer is on probation for at most MAX_PROBATION (upstream.rs: the caps in
\* repair).
RetryBounded ==
    /\ conn.tag = "down" => conn.retry_at <= clock + MaxBackoff
    /\ conn.tag = "connected" /\ conn.probation # None =>
          conn.probation <= clock + MaxProbation

\* Every query dispatched to the upstream is counted once, and counted as failed
\* once if it fails, also when it was retried (upstream.rs: the health counters).
FailuresCounted ==
    /\ failures = Cardinality({l \in Leg : leg[l].pc = "failed"})
    /\ queries = Cardinality({l \in Leg : leg[l].pc # "idle"})
    /\ consecutive <= failures

\* Every leg ends: no wait outlives the deadline (upstream.rs: each await of
\* send is bounded by it).
EveryLegEnds == \A l \in Leg : leg[l].pc # "idle" ~> leg[l].pc \in {"ok", "failed"}
=============================================================================
