---------------------------- MODULE FailureCache ----------------------------
(***************************************************************************)
(* The resolution-failure cache (crates/core/src/failcache.rs): a map from *)
(* a cache key to the end and the length of its hold-down.  Every method   *)
(* runs under one mutex, so each is an operator from map to map.           *)
(***************************************************************************)
EXTENDS Naturals, FiniteSets

CONSTANTS
    Key,        \* cache keys: (name, type, class)
    FirstHold,  \* FIRST_HOLD, the hold after a first failure
    MaxHold,    \* MAX_HOLD, the longest hold and the memory after a hold
    MaxKeys     \* MAX_KEYS, keys tracked at most

Failure == [until : Nat, hold : Nat]

NoFailures == [k \in {} |-> [until |-> 0, hold |-> 0]]

Only(f, S) == [j \in S |-> f[j]]

\* FailureCache::held: some time is left on the key's hold at `now`.
held(f, k, now) == k \in DOMAIN f /\ now < f[k].until

\* Mutant of Remembered: a failure during the hold forgets the backoff.
RememberedAfterHold(f, k, now) == f[k].until <= now /\ now < f[k].until + MaxHold

\* A key is remembered for backoff until MaxHold after its hold ended.
Remembered(f, k, now) == now < f[k].until + MaxHold

\* The first hold, or twice the remembered one up to the cap.
NextHold(f, k, now) ==
    IF k \in DOMAIN f /\ Remembered(f, k, now)
    THEN IF 2 * f[k].hold <= MaxHold THEN 2 * f[k].hold ELSE MaxHold
    ELSE FirstHold

\* Mutant of Oldest: the longest hold is dropped.
Newest(f) == {o \in DOMAIN f : \A j \in DOMAIN f : f[j].until <= f[o].until}

\* The keys whose hold ends first; a hash map breaks ties in any order.
Oldest(f) == {o \in DOMAIN f : \A j \in DOMAIN f : f[o].until <= f[j].until}

\* Mutant of MakeRoom: nothing is dropped when nothing can be pruned.
MakeRoomPruneOnly(f, k, now) ==
    IF k \in DOMAIN f \/ Cardinality(DOMAIN f) < MaxKeys
    THEN {f}
    ELSE {Only(f, {j \in DOMAIN f : Remembered(f, j, now)})}

\* The maps that making room for a new key can leave behind.
MakeRoom(f, k, now) ==
    IF k \in DOMAIN f \/ Cardinality(DOMAIN f) < MaxKeys
    THEN {f}
    ELSE LET kept == Only(f, {j \in DOMAIN f : Remembered(f, j, now)})
         IN  IF Cardinality(DOMAIN kept) < MaxKeys
             THEN {kept}
             ELSE {Only(kept, DOMAIN kept \ {o}) : o \in Oldest(kept)}

Put(f, k, v) == [j \in DOMAIN f \cup {k} |-> IF j = k THEN v ELSE f[j]]

\* FailureCache::record: the maps a failure of `k` at `now` can lead to.
record(f, k, now) ==
    LET hold == NextHold(f, k, now)
    IN  {Put(g, k, [until |-> now + hold, hold |-> hold]) :
            g \in MakeRoom(f, k, now)}

\* FailureCache::clear: the key resolved.
clear(f, k) == Only(f, DOMAIN f \ {k})
=============================================================================
