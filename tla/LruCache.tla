------------------------------ MODULE LruCache ------------------------------
(***************************************************************************)
(* The abstract cache: the recency list of CacheEntries as a state         *)
(* machine.  The slots, links and free list that implement it are in       *)
(* module Cache.                                                           *)
(***************************************************************************)
EXTENDS CacheEntries

CONSTANTS
    Key,            \* (name, type, class)
    Message,        \* responses that are offered to the cache
    MaxClock,       \* bound on time
    MaxLag          \* longest time a caller holds its `now` before calling

VARIABLES
    lru,    \* entries, most recently used first
    clock,  \* now
    out     \* what the last call returned

-----------------------------------------------------------------------------
Init ==
    /\ lru = <<>>
    /\ clock = 0
    /\ out = [kind |-> "none"]

Tick ==
    /\ clock < MaxClock
    /\ clock' = clock + 1
    /\ UNCHANGED <<lru, out>>

\* The instants a caller may pass: its own, which is never ahead of the clock.
Instants == {at \in 0 .. clock : clock <= at + MaxLag}

Insert(k, msg, at) ==
    \/ /\ Storable(msg)
       /\ lru' = Stored(lru, Entry(k, msg, at))
       /\ out' = [kind |-> "stored"]
       /\ UNCHANGED clock
    \/ /\ ~Storable(msg)
       /\ out' = [kind |-> "ignored"]
       /\ UNCHANGED <<lru, clock>>

Get(k, at) ==
    \/ /\ k \notin Keys(lru)
       /\ out' = [kind |-> "miss"]
       /\ UNCHANGED <<lru, clock>>
    \/ /\ k \in Keys(lru)
       /\ Expired(EntryOf(lru, k), at)
       /\ lru' = Without(lru, k)
       /\ out' = [kind |-> "miss"]
       /\ UNCHANGED clock
    \/ /\ k \in Keys(lru)
       /\ ~Expired(EntryOf(lru, k), at)
       /\ lru' = Touched(lru, k)
       /\ out' = AnswerFrom(EntryOf(lru, k), at)
       /\ UNCHANGED clock

Next ==
    \/ Tick
    \/ \E k \in Key, at \in Instants :
          \/ \E msg \in Message : Insert(k, msg, at)
          \/ Get(k, at)

Spec == Init /\ [][Next]_<<lru, clock, out>>
=============================================================================
