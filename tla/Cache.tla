------------------------------- MODULE Cache --------------------------------
(***************************************************************************)
(* The cache as it is built (crates/core/src/cache.rs): a hash map from    *)
(* key to slot, a vector of slots, a doubly linked recency list and a free *)
(* list threaded through the slots, and a running byte count.  Every       *)
(* method runs under one mutex: each is one step on `inner`.  Slots are    *)
(* numbered from 1 here and NONE is 0.                                     *)
(***************************************************************************)
EXTENDS CacheEntries

CONSTANTS
    Key,            \* (name, type, class)
    Message,        \* responses that are offered to the cache
    MaxClock,       \* bound on time
    MaxLag          \* longest time a caller holds its `now` before calling

ASSUME CallsAssumption ==
    /\ \A m \in Message : m.bytes \in Nat /\ \A r \in m.records : r.ttl \in Nat /\ r.minimum \in Nat
    /\ MaxClock \in Nat /\ MaxLag \in Nat

VARIABLES
    inner,  \* struct Inner
    clock,  \* now
    out     \* what the last call returned

vars == <<inner, clock, out>>

NONE == 0

Occupied(s, i) == s.slots[i].tag = "occupied"

Node(k, msg, at) ==
    [tag |-> "occupied", key |-> k, bytes |-> msg.bytes, ttl |-> Lifetime(msg),
     at |-> at, msg |-> msg, prev |-> NONE, next |-> NONE]

FreeSlot(next) == [tag |-> "free", next_free |-> next]

Empty ==
    [map |-> [k \in {} |-> 0], slots |-> <<>>, head |-> NONE, tail |-> NONE,
     free_head |-> NONE, bytes_total |-> 0]

-----------------------------------------------------------------------------
(* Inner's helpers, each from one state of the structure to the next.      *)

WithPrev(s, i, p) == IF i = NONE THEN s ELSE [s EXCEPT !.slots[i].prev = p]

WithNext(s, i, n) == IF i = NONE THEN s ELSE [s EXCEPT !.slots[i].next = n]

\* Mutant of unlink: the tail keeps pointing at the node that left.
unlinkKeepingTail(s, i) ==
    LET prev == s.slots[i].prev
        next == s.slots[i].next
        s1 == IF prev = NONE THEN [s EXCEPT !.head = next] ELSE WithNext(s, prev, next)
        s2 == WithPrev(s1, next, prev)
    IN  WithPrev(WithNext(s2, i, NONE), i, NONE)

unlink(s, i) ==
    LET prev == s.slots[i].prev
        next == s.slots[i].next
        s1 == IF prev = NONE THEN [s EXCEPT !.head = next] ELSE WithNext(s, prev, next)
        s2 == IF next = NONE THEN [s1 EXCEPT !.tail = prev] ELSE WithPrev(s1, next, prev)
    IN  WithPrev(WithNext(s2, i, NONE), i, NONE)

push_head(s, i) ==
    LET s1 == WithPrev(WithNext(WithPrev(s, i, NONE), i, s.head), s.head, i)
    IN  [s1 EXCEPT !.head = i, !.tail = IF @ = NONE THEN i ELSE @]

move_to_head(s, i) == IF s.head = i THEN s ELSE push_head(unlink(s, i), i)

remove(s, i) ==
    LET u == unlink(s, i)
    IN  [u EXCEPT !.bytes_total = IF @ >= s.slots[i].bytes
                                  THEN @ - s.slots[i].bytes ELSE 0,
                  !.map = [k \in DOMAIN @ \ {s.slots[i].key} |-> @[k]],
                  !.slots[i] = FreeSlot(s.free_head),
                  !.free_head = i]

evict_tail(s) == IF s.tail = NONE THEN s ELSE remove(s, s.tail)

OverBudget(s) == s.bytes_total > MaxBytes /\ Cardinality(DOMAIN s.map) > 1

\* The loop evicts at most every entry; it[n] is the state after n rounds.
evict_to_byte_budget(s) ==
    LET rounds == Cardinality(DOMAIN s.map)
        it[n \in 0 .. rounds] ==
            IF n = 0 THEN s
            ELSE IF OverBudget(it[n - 1]) THEN evict_tail(it[n - 1]) ELSE it[n - 1]
    IN  it[rounds]

\* The slot alloc_slot hands out: the head of the free list, or a new one.
AllocIndex(s) == IF s.free_head = NONE THEN Len(s.slots) + 1 ELSE s.free_head

alloc_slot(s, node) ==
    IF s.free_head = NONE
    THEN [s EXCEPT !.slots = Append(@, node)]
    ELSE [s EXCEPT !.free_head = s.slots[s.free_head].next_free,
                   !.slots[s.free_head] = node]

-----------------------------------------------------------------------------
(* Cache::insert of a storable answer: in place if the key is there.       *)

\* Mutant of ReplaceEntry: the replaced entry's bytes stay counted.
ReplaceEntryCountingBoth(s, k, node) ==
    LET i == s.map[k]
        old == s.slots[i]
    IN  evict_to_byte_budget(move_to_head(
            [s EXCEPT !.slots[i] = [node EXCEPT !.prev = old.prev, !.next = old.next],
                      !.bytes_total = @ + node.bytes], i))

ReplaceEntry(s, k, node) ==
    LET i == s.map[k]
        old == s.slots[i]
    IN  evict_to_byte_budget(move_to_head(
            [s EXCEPT !.slots[i] = [node EXCEPT !.prev = old.prev, !.next = old.next],
                      !.bytes_total = @ - old.bytes + node.bytes], i))

AddEntry(s, k, node) ==
    LET s1 == IF Cardinality(DOMAIN s.map) >= Capacity THEN evict_tail(s) ELSE s
        i == AllocIndex(s1)
        s2 == alloc_slot(s1, node)
        s3 == [s2 EXCEPT !.map = [j \in DOMAIN @ \cup {k} |->
                                      IF j = k THEN i ELSE @[j]]]
    IN  evict_to_byte_budget(
            [push_head(s3, i) EXCEPT !.bytes_total = @ + node.bytes])

Init ==
    /\ inner = Empty
    /\ clock = 0
    /\ out = [kind |-> "none"]

Tick ==
    /\ clock < MaxClock
    /\ clock' = clock + 1
    /\ UNCHANGED <<inner, out>>

\* The instants a caller may pass: its own, which is never ahead of the clock.
Instants == {at \in 0 .. clock : clock <= at + MaxLag}

Insert(k, msg, at) ==
    \/ /\ Storable(msg)
       /\ inner' = IF k \in DOMAIN inner.map
                   THEN ReplaceEntry(inner, k, Node(k, msg, at))
                   ELSE AddEntry(inner, k, Node(k, msg, at))
       /\ out' = [kind |-> "stored"]
       /\ UNCHANGED clock
    \/ /\ ~Storable(msg)
       /\ out' = [kind |-> "ignored"]
       /\ UNCHANGED <<inner, clock>>

\* Cache::get: no entry, an entry past its stale window, or an answer.
GetAbsent(k) ==
    /\ k \notin DOMAIN inner.map
    /\ out' = [kind |-> "miss"]
    /\ UNCHANGED <<inner, clock>>

GetExpired(k, at) ==
    /\ k \in DOMAIN inner.map
    /\ Expired(inner.slots[inner.map[k]], at)
    /\ inner' = remove(inner, inner.map[k])
    /\ out' = [kind |-> "miss"]
    /\ UNCHANGED clock

\* Mutant of GetAnswer: a hit does not count as a use.
GetAnswerUntouched(k, at) ==
    /\ k \in DOMAIN inner.map
    /\ ~Expired(inner.slots[inner.map[k]], at)
    /\ out' = AnswerFrom(inner.slots[inner.map[k]], at)
    /\ UNCHANGED <<inner, clock>>

GetAnswer(k, at) ==
    /\ k \in DOMAIN inner.map
    /\ ~Expired(inner.slots[inner.map[k]], at)
    /\ inner' = move_to_head(inner, inner.map[k])
    /\ out' = AnswerFrom(inner.slots[inner.map[k]], at)
    /\ UNCHANGED clock

Next ==
    \/ Tick
    \/ \E k \in Key, at \in Instants :
          \/ \E msg \in Message : Insert(k, msg, at)
          \/ GetAbsent(k)
          \/ GetExpired(k, at)
          \/ GetAnswer(k, at)

Spec == Init /\ [][Next]_vars

-----------------------------------------------------------------------------
(***************************************************************************)
(* Properties                                                              *)
(***************************************************************************)

OccupiedSlots == {i \in 1 .. Len(inner.slots) : Occupied(inner, i)}

FreeSlots == (1 .. Len(inner.slots)) \ OccupiedSlots

\* The nodes met walking from the head along `next`, as far as there are keys.
Walk ==
    LET at[n \in 1 .. Cardinality(DOMAIN inner.map)] ==
            IF n = 1 THEN inner.head ELSE inner.slots[at[n - 1]].next
    IN  at

TypeOK ==
    /\ clock \in 0 .. MaxClock
    /\ DOMAIN inner.map \subseteq Key
    /\ \A k \in DOMAIN inner.map : inner.map[k] \in OccupiedSlots
    /\ {inner.head, inner.tail, inner.free_head} \subseteq 0 .. Len(inner.slots)
    /\ inner.bytes_total \in Nat

\* The recency list, walked from the head, visits every occupied slot exactly
\* once, each entry is the one the map names for its key, the back links mirror
\* the forward ones, and it ends at the tail.
ListWhole ==
    LET n == Cardinality(DOMAIN inner.map)
    IN  /\ n = 0 <=> inner.head = NONE
        /\ n = 0 <=> inner.tail = NONE
        /\ {Walk[i] : i \in 1 .. n} = OccupiedSlots
        /\ \A i \in 1 .. n : inner.map[inner.slots[Walk[i]].key] = Walk[i]
        /\ \A i \in 1 .. n :
              inner.slots[Walk[i]].prev = IF i = 1 THEN NONE ELSE Walk[i - 1]
        /\ n > 0 => Walk[n] = inner.tail /\ inner.slots[inner.tail].next = NONE

\* The free list holds exactly the slots no entry uses, and there are no more
\* slots than the entry cap.
FreeListWhole ==
    LET free == Cardinality(FreeSlots)
        at[n \in 1 .. free + 1] ==
            IF n = 1 THEN inner.free_head
            ELSE IF at[n - 1] \in FreeSlots
                 THEN inner.slots[at[n - 1]].next_free ELSE NONE
    IN  /\ {at[n] : n \in 1 .. free} = FreeSlots
        /\ at[free + 1] = NONE
        /\ Len(inner.slots) <= Capacity

\* The running byte count is the exact sum over the live entries, so the
\* saturating subtraction in remove never hides drift (its debug_assert), and
\* only a lone oversized entry may exceed the budget.
BytesExact ==
    LET n == Cardinality(DOMAIN inner.map)
        sum[i \in 0 .. n] ==
            IF i = 0 THEN 0 ELSE sum[i - 1] + inner.slots[Walk[i]].bytes
    IN  /\ inner.bytes_total = sum[n]
        /\ inner.bytes_total > MaxBytes => n = 1

\* Map, recency list and free list stay in step, so no entry is lost or met
\* twice and no slot leaks, however long the cache runs (cache.rs: unlink and
\* push_head keep both directions and both ends, remove frees the slot, room is
\* made before alloc_slot); and the byte count never drifts from what they hold.
SlotsWhole == TypeOK /\ ListWhole /\ FreeListWhole /\ BytesExact

\* A fresh answer never tells the client to keep a record beyond the end of the
\* data's own lifetime, except by the time the caller held its `now`; and it
\* never carries a TTL of zero (cache.rs: get, "freshness never outlives the
\* data" in insert).
FreshWithinLifetime ==
    [][\A k \in Key, at \in Instants :
          GetAnswer(k, at) /\ out'.kind = "fresh" =>
              LET e == inner.slots[inner.map[k]]
              IN  \A r \in e.msg.records :
                      /\ AnswerTtl(e, r.ttl, at) >= 1
                      /\ clock + AnswerTtl(e, r.ttl, at) <= e.at + r.ttl + MaxLag
      ]_vars

\* The entries in list order, without the links: the abstract state.
EntriesInOrder ==
    [i \in 1 .. Cardinality(DOMAIN inner.map) |->
        LET e == inner.slots[Walk[i]]
        IN  [key |-> e.key, ttl |-> e.ttl, at |-> e.at, bytes |-> e.bytes,
             msg |-> e.msg]]

Lru == INSTANCE LruCache WITH lru <- EntriesInOrder

\* The linked structure implements the abstract recency list: every insert and
\* every get changes it, and answers, as the list cut to cap and budget does.
RefinesLru == Lru!Spec
=============================================================================
