---------------------------- MODULE FailureHolds ----------------------------
(***************************************************************************)
(* The failure cache in use.  Lookups and refreshes record failures at the *)
(* instant they carry, not at the instant of the call: a lookup records    *)
(* with the arrival time of the query that started it (server.rs,          *)
(* resolve_shared) and a refresh with its own start (spawn_refresh), so    *)
(* records reach one key late and out of order.                            *)
(***************************************************************************)
EXTENDS FailureCache

CONSTANTS
    MaxClock,   \* bound on time
    MaxLag      \* longest time between a task's instant and its record

ASSUME HoldAssumption ==
    /\ FirstHold \in Nat \ {0}
    /\ MaxHold \in Nat
    /\ FirstHold <= MaxHold
    /\ MaxKeys \in Nat \ {0}
    /\ MaxClock \in Nat
    /\ MaxLag \in Nat

VARIABLES
    failures,   \* the map
    clock       \* now

holdsVars == <<failures, clock>>

TypeOK ==
    /\ clock \in Nat
    /\ DOMAIN failures \subseteq Key
    /\ failures = [k \in DOMAIN failures |-> failures[k]]
    /\ \A k \in DOMAIN failures :
          failures[k] \in [until : Nat, hold : FirstHold .. MaxHold]

HoldsInit ==
    /\ failures = NoFailures
    /\ clock = 0

Tick ==
    /\ clock < MaxClock
    /\ clock' = clock + 1
    /\ UNCHANGED failures

Record(k, at) ==
    /\ at <= clock
    /\ clock <= at + MaxLag
    /\ failures' \in record(failures, k, at)
    /\ UNCHANGED clock

Clear(k) ==
    /\ failures' = clear(failures, k)
    /\ UNCHANGED clock

HoldsNext ==
    \/ Tick
    \/ \E k \in Key : \/ \E at \in 0 .. clock : Record(k, at)
                      \/ Clear(k)

HoldsSpec == HoldsInit /\ [][HoldsNext]_holdsVars

-----------------------------------------------------------------------------
(***************************************************************************)
(* Properties                                                              *)
(***************************************************************************)

\* At most MAX_KEYS keys are tracked, however the failures arrive
\* (failcache.rs: record makes room before it inserts).
KeysBounded ==
    IsFiniteSet(DOMAIN failures) /\ Cardinality(DOMAIN failures) <= MaxKeys

\* No key is held for longer than its own hold counted from now, and so never
\* for more than MAX_HOLD: a name whose upstream came back is asked again
\* within the minute (failcache.rs: until = now + hold).
HoldBounded ==
    \A k \in DOMAIN failures : failures[k].until <= clock + failures[k].hold

\* A key pushed out to make room for another one had no more hold left than
\* any key that stayed: a held name is forgotten only when every tracked name
\* is held at least as long (failcache.rs: retain, then min_by_key).
DropsTheOldest ==
    [][\A j \in DOMAIN failures \ DOMAIN failures' :
          \A k \in DOMAIN failures' \ DOMAIN failures :
              \A i \in DOMAIN failures \cap DOMAIN failures' :
                  failures[j].until <= failures[i].until]_holdsVars

\* A failure recorded late may pull the end of a running hold back, but by no
\* more than the age of the failure (failcache.rs: until is overwritten, and a
\* remembered hold never shrinks).
LateFailureCostsItsAge ==
    [][\A k \in DOMAIN failures \cap DOMAIN failures' :
          failures[k].until <= failures'[k].until + MaxLag]_holdsVars
=============================================================================
