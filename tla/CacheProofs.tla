---------------------------- MODULE CacheProofs -----------------------------
(***************************************************************************)
(* Proofs about the cache's linked structure, for any keys, messages,      *)
(* capacity and budget.  The invariant says that there are a sequence L of *)
(* slots the links thread, a sequence F the free list threads and running  *)
(* sums f of the bytes, which between them account for the whole struct    *)
(* (Whole).  Each helper of cache.rs takes such a triple to another one    *)
(* and does to the entries of L what its name says.                        *)
(***************************************************************************)
EXTENDS Cache, FiniteSetTheorems, FunctionTheorems, SequenceTheorems, WellFoundedInduction, TLAPS

(***************************************************************************)
(* The struct                                                              *)
(***************************************************************************)

Taken ==
    [tag : {"occupied"}, key : Key, bytes : Nat, ttl : Nat, at : Nat, msg : Message,
     prev : Nat, next : Nat]

Spare == [tag : {"free"}, next_free : Nat]

Maps == UNION {[D -> Nat] : D \in SUBSET Key}

Inner ==
    [map : Maps, slots : Seq(Taken \cup Spare), head : Nat, tail : Nat, free_head : Nat,
     bytes_total : Nat]

\* Slot i holds an entry; its links.
Oc(s, i) == i \in 1 .. Len(s.slots) /\ s.slots[i] \in Taken
Pv(s, i) == s.slots[i].prev
Nx(s, i) == s.slots[i].next

SameData(a, b) ==
    a.key = b.key /\ a.bytes = b.bytes /\ a.ttl = b.ttl /\ a.at = b.at /\ a.msg = b.msg

\* t is s with other links.
Relinked(s, t) ==
    /\ s \in Inner /\ t \in Inner
    /\ t.map = s.map /\ t.free_head = s.free_head /\ t.bytes_total = s.bytes_total
    /\ Len(t.slots) = Len(s.slots)
    /\ \A j \in 1 .. Len(s.slots) :
          IF s.slots[j] \in Taken
          THEN t.slots[j] \in Taken /\ SameData(s.slots[j], t.slots[j])
          ELSE t.slots[j] = s.slots[j]

\* Relinking is transitive and reflexive, and moves no entry.
LEMMA RelinkedTrans ==
    ASSUME NEW s, NEW t, NEW u, Relinked(s, t), Relinked(t, u)
    PROVE  Relinked(s, u)
BY DEF Relinked, SameData

LEMMA RelinkedOc ==
    ASSUME NEW s, NEW t, Relinked(s, t)
    PROVE  \A j : Oc(s, j) <=> Oc(t, j)
BY DEF Relinked, Oc, Inner, Taken, Spare

LEMMA RelinkedRefl ==
    ASSUME NEW s \in Inner
    PROVE  Relinked(s, s)
BY DEF Relinked, SameData

\* s with e in slot i.
PutIn(s, i, e) == [s EXCEPT !.slots = [s.slots EXCEPT ![i] = e]]

\* Writing a slot that keeps its data is a relinking.
LEMMA SlotSet ==
    ASSUME NEW s \in Inner, NEW i, Oc(s, i), NEW e \in Taken, SameData(s.slots[i], e)
    PROVE  /\ Relinked(s, PutIn(s, i, e))
           /\ PutIn(s, i, e).head = s.head /\ PutIn(s, i, e).tail = s.tail
           /\ PutIn(s, i, e).slots[i] = e
           /\ \A j \in 1 .. Len(s.slots) : j # i => PutIn(s, i, e).slots[j] = s.slots[j]
<1> DEFINE t == PutIn(s, i, e)
<1>1. /\ s.slots \in Seq(Taken \cup Spare) /\ i \in 1 .. Len(s.slots) /\ s.slots[i] \in Taken
    BY DEF Inner, Oc
<1> DEFINE v == [s.slots EXCEPT ![i] = e]
<1>2. /\ v \in Seq(Taken \cup Spare) /\ Len(v) = Len(s.slots) /\ v[i] = e
      /\ \A j \in 1 .. Len(s.slots) : j # i => v[j] = s.slots[j]
    BY <1>1
<1>3. t.slots = v /\ t \in Inner /\ t.map = s.map /\ t.free_head = s.free_head /\ t.bytes_total = s.bytes_total
      /\ t.head = s.head /\ t.tail = s.tail
    <2> HIDE DEF v
    <2>1. t = [s EXCEPT !.slots = v]
        BY DEF v, PutIn
    <2> HIDE DEF t
    <2> QED
        BY <1>2, <2>1 DEF Inner
<1>4. \A j \in 1 .. Len(s.slots) :
          IF s.slots[j] \in Taken
          THEN t.slots[j] \in Taken /\ SameData(s.slots[j], t.slots[j])
          ELSE t.slots[j] = s.slots[j]
    <2> HIDE DEF v, t
    <2> SUFFICES ASSUME NEW j \in 1 .. Len(s.slots)
                 PROVE IF s.slots[j] \in Taken
                       THEN t.slots[j] \in Taken /\ SameData(s.slots[j], t.slots[j])
                       ELSE t.slots[j] = s.slots[j]
        OBVIOUS
    <2>1. CASE j = i
        BY <2>1, <1>1, <1>2, <1>3
    <2>2. CASE j # i
        BY <2>2, <1>2, <1>3 DEF SameData
    <2> QED
        BY <2>1, <2>2
<1> HIDE DEF v, t
<1>5. Relinked(s, t)
    BY <1>2, <1>3, <1>4 DEF Relinked
<1> QED
    BY <1>2, <1>3, <1>5 DEF t

\* WithPrev and WithNext set one link and nothing else.
LEMMA WithPrevIs ==
    ASSUME NEW s \in Inner, NEW i, i = 0 \/ Oc(s, i), NEW p \in Nat
    PROVE  /\ Relinked(s, WithPrev(s, i, p))
           /\ WithPrev(s, i, p).head = s.head /\ WithPrev(s, i, p).tail = s.tail
           /\ \A j : Oc(s, j) => /\ Pv(WithPrev(s, i, p), j) = IF j = i THEN p ELSE Pv(s, j)
                                 /\ Nx(WithPrev(s, i, p), j) = Nx(s, j)
<1>1. CASE i = 0
    BY <1>1, RelinkedRefl DEF WithPrev, NONE, Oc
<1>2. CASE Oc(s, i)
    <2> DEFINE e == [s.slots[i] EXCEPT !.prev = p]
               t == WithPrev(s, i, p)
    <2>1. i # 0 /\ s.slots[i] \in Taken
        BY <1>2 DEF Oc
    <2>2. e \in Taken /\ SameData(s.slots[i], e) /\ e.prev = p /\ e.next = s.slots[i].next
        BY <2>1 DEF Taken, SameData
    <2>3. t = PutIn(s, i, e)
        BY <2>1 DEF WithPrev, NONE, Inner, PutIn
    <2>4. /\ Relinked(s, t) /\ t.head = s.head /\ t.tail = s.tail /\ t.slots[i] = e
          /\ \A j \in 1 .. Len(s.slots) : j # i => t.slots[j] = s.slots[j]
        <3> HIDE DEF e, t
        <3> QED
            BY <1>2, <2>2, <2>3, SlotSet
    <2> HIDE DEF e, t
    <2>5. \A j : Oc(s, j) => Pv(t, j) = (IF j = i THEN p ELSE Pv(s, j)) /\ Nx(t, j) = Nx(s, j)
        BY <2>2, <2>4 DEF Oc, Pv, Nx
    <2> QED
        BY <2>4, <2>5 DEF t
<1> QED
    BY <1>1, <1>2

LEMMA WithNextIs ==
    ASSUME NEW s \in Inner, NEW i, i = 0 \/ Oc(s, i), NEW p \in Nat
    PROVE  /\ Relinked(s, WithNext(s, i, p))
           /\ WithNext(s, i, p).head = s.head /\ WithNext(s, i, p).tail = s.tail
           /\ \A j : Oc(s, j) => /\ Nx(WithNext(s, i, p), j) = IF j = i THEN p ELSE Nx(s, j)
                                 /\ Pv(WithNext(s, i, p), j) = Pv(s, j)
<1>1. CASE i = 0
    BY <1>1, RelinkedRefl DEF WithNext, NONE, Oc
<1>2. CASE Oc(s, i)
    <2> DEFINE e == [s.slots[i] EXCEPT !.next = p]
               t == WithNext(s, i, p)
    <2>1. i # 0 /\ s.slots[i] \in Taken
        BY <1>2 DEF Oc
    <2>2. e \in Taken /\ SameData(s.slots[i], e) /\ e.next = p /\ e.prev = s.slots[i].prev
        BY <2>1 DEF Taken, SameData
    <2>3. t = PutIn(s, i, e)
        BY <2>1 DEF WithNext, NONE, Inner, PutIn
    <2>4. /\ Relinked(s, t) /\ t.head = s.head /\ t.tail = s.tail /\ t.slots[i] = e
          /\ \A j \in 1 .. Len(s.slots) : j # i => t.slots[j] = s.slots[j]
        <3> HIDE DEF e, t
        <3> QED
            BY <1>2, <2>2, <2>3, SlotSet
    <2> HIDE DEF e, t
    <2>5. \A j : Oc(s, j) => Nx(t, j) = (IF j = i THEN p ELSE Nx(s, j)) /\ Pv(t, j) = Pv(s, j)
        BY <2>2, <2>4 DEF Oc, Pv, Nx
    <2> QED
        BY <2>4, <2>5 DEF t
<1> QED
    BY <1>1, <1>2

\* Setting head and tail is a relinking too.
LEMMA EndsAre ==
    ASSUME NEW s \in Inner, NEW h \in Nat
    PROVE  /\ Relinked(s, [s EXCEPT !.head = h])
           /\ [s EXCEPT !.head = h].head = h /\ [s EXCEPT !.head = h].tail = s.tail
           /\ [s EXCEPT !.head = h].slots = s.slots
           /\ Relinked(s, [s EXCEPT !.tail = h])
           /\ [s EXCEPT !.tail = h].tail = h /\ [s EXCEPT !.tail = h].head = s.head
           /\ [s EXCEPT !.tail = h].slots = s.slots
BY DEF Inner, Relinked, SameData

-----------------------------------------------------------------------------
(***************************************************************************)
(* What the helpers do to links and ends                                   *)
(***************************************************************************)

\* unlink joins the neighbours of a slot and clears its own links.
LEMMA UnlinkIs ==
    ASSUME NEW s \in Inner, NEW i, Oc(s, i),
           Pv(s, i) = 0 \/ Oc(s, Pv(s, i)), Nx(s, i) = 0 \/ Oc(s, Nx(s, i)),
           Pv(s, i) # i, Nx(s, i) # i
    PROVE  /\ Relinked(s, unlink(s, i))
           /\ unlink(s, i).head = IF Pv(s, i) = 0 THEN Nx(s, i) ELSE s.head
           /\ unlink(s, i).tail = IF Nx(s, i) = 0 THEN Pv(s, i) ELSE s.tail
           /\ \A j : Oc(s, j) =>
                 /\ Pv(unlink(s, i), j) = IF j = i THEN 0 ELSE IF j = Nx(s, i) THEN Pv(s, i) ELSE Pv(s, j)
                 /\ Nx(unlink(s, i), j) = IF j = i THEN 0 ELSE IF j = Pv(s, i) THEN Nx(s, i) ELSE Nx(s, j)
<1> DEFINE prev == Pv(s, i)
           next == Nx(s, i)
           s1 == IF prev = NONE THEN [s EXCEPT !.head = next] ELSE WithNext(s, prev, next)
           s2 == IF next = NONE THEN [s1 EXCEPT !.tail = prev] ELSE WithPrev(s1, next, prev)
           s3 == WithNext(s2, i, NONE)
           s4 == WithPrev(s3, i, NONE)
<1>0. unlink(s, i) = s4
    BY DEF unlink, Pv, Nx
<1>1. prev \in Nat /\ next \in Nat /\ NONE = 0 /\ i # 0 /\ ~Oc(s, 0)
    BY DEF Oc, Pv, Nx, Taken, NONE
<1> HIDE DEF prev, next
<1>2. /\ Relinked(s, s1)
      /\ s1.head = (IF prev = 0 THEN next ELSE s.head) /\ s1.tail = s.tail
      /\ \A j : Oc(s, j) => /\ Pv(s1, j) = Pv(s, j)
                            /\ Nx(s1, j) = IF j = prev THEN next ELSE Nx(s, j)
    <2>1. CASE prev = 0
        <3>1. s1 = [s EXCEPT !.head = next]
            BY <2>1, <1>1
        <3> HIDE DEF s1
        <3>2. Relinked(s, s1) /\ s1.head = next /\ s1.tail = s.tail /\ s1.slots = s.slots
            BY <3>1, <1>1, EndsAre
        <3>3. \A j : Pv(s1, j) = Pv(s, j) /\ Nx(s1, j) = Nx(s, j)
            BY <3>2 DEF Pv, Nx
        <3> QED
            BY <3>2, <3>3, <2>1, <1>1
    <2>2. CASE prev # 0
        <3>1. Oc(s, prev) /\ s1 = WithNext(s, prev, next)
            BY <2>2, <1>1 DEF prev
        <3> QED
            BY <3>1, <2>2, <1>1, WithNextIs
    <2> QED
        BY <2>1, <2>2
<1> HIDE DEF s1
<1>3. s1 \in Inner /\ \A j : Oc(s, j) <=> Oc(s1, j)
    BY <1>2, RelinkedOc, Zenon DEF Relinked
<1>4. /\ Relinked(s1, s2)
      /\ s2.head = s1.head /\ s2.tail = IF next = 0 THEN prev ELSE s1.tail
      /\ \A j : Oc(s1, j) => /\ Pv(s2, j) = (IF j = next THEN prev ELSE Pv(s1, j))
                             /\ Nx(s2, j) = Nx(s1, j)
    <2>1. CASE next = 0
        <3>1. s2 = [s1 EXCEPT !.tail = prev]
            BY <2>1, <1>1
        <3>2. ~Oc(s1, 0)
            BY <1>1, <1>3
        <3> HIDE DEF s2
        <3>3. Relinked(s1, s2) /\ s2.tail = prev /\ s2.head = s1.head /\ s2.slots = s1.slots
            BY <3>1, <1>1, <1>3, EndsAre
        <3>4. \A j : Pv(s2, j) = Pv(s1, j) /\ Nx(s2, j) = Nx(s1, j)
            BY <3>3 DEF Pv, Nx
        <3> QED
            BY <3>2, <3>3, <3>4, <2>1
    <2>2. CASE next # 0
        <3>0. Oc(s, next)
            BY <2>2 DEF next
        <3>1. Oc(s1, next) /\ s2 = WithPrev(s1, next, prev)
            BY <3>0, <2>2, <1>1, <1>3
        <3> HIDE DEF s2
        <3>2. /\ Relinked(s1, s2) /\ s2.head = s1.head /\ s2.tail = s1.tail
              /\ \A j : Oc(s1, j) => /\ Pv(s2, j) = (IF j = next THEN prev ELSE Pv(s1, j))
                                     /\ Nx(s2, j) = Nx(s1, j)
            BY <3>1, <1>1, <1>3, WithPrevIs
        <3> QED
            BY <3>2, <2>2
    <2> QED
        BY <2>1, <2>2
<1> HIDE DEF s2
<1>5. s2 \in Inner /\ \A j : Oc(s, j) <=> Oc(s2, j)
    BY <1>3, <1>4, RelinkedOc, Zenon DEF Relinked
<1>6. /\ Relinked(s2, s3) /\ s3.head = s2.head /\ s3.tail = s2.tail
      /\ \A j : Oc(s2, j) => /\ Nx(s3, j) = (IF j = i THEN 0 ELSE Nx(s2, j))
                             /\ Pv(s3, j) = Pv(s2, j)
    BY <1>1, <1>5, WithNextIs
<1> HIDE DEF s3
<1>7. s3 \in Inner /\ \A j : Oc(s, j) <=> Oc(s3, j)
    BY <1>5, <1>6, RelinkedOc, Zenon DEF Relinked
<1>8. /\ Relinked(s3, s4) /\ s4.head = s3.head /\ s4.tail = s3.tail
      /\ \A j : Oc(s3, j) => /\ Pv(s4, j) = (IF j = i THEN 0 ELSE Pv(s3, j))
                             /\ Nx(s4, j) = Nx(s3, j)
    BY <1>1, <1>7, WithPrevIs
<1> HIDE DEF s4
<1>9. Relinked(s, s4)
    BY <1>2, <1>4, <1>6, <1>8, RelinkedTrans, Zenon
<1>10. \A j : Oc(s, j) =>
                 /\ Pv(s4, j) = IF j = i THEN 0 ELSE IF j = next THEN prev ELSE Pv(s, j)
                 /\ Nx(s4, j) = IF j = i THEN 0 ELSE IF j = prev THEN next ELSE Nx(s, j)
    BY <1>2, <1>3, <1>4, <1>5, <1>6, <1>7, <1>8
<1>11. s4.head = (IF prev = 0 THEN next ELSE s.head) /\ s4.tail = (IF next = 0 THEN prev ELSE s.tail)
    BY <1>2, <1>4, <1>6, <1>8
<1> QED
    BY <1>0, <1>9, <1>10, <1>11 DEF prev, next

\* push_head puts a slot before the old head.
LEMMA PushHeadIs ==
    ASSUME NEW s \in Inner, NEW i, Oc(s, i), s.head = 0 \/ Oc(s, s.head), s.head # i
    PROVE  /\ Relinked(s, push_head(s, i))
           /\ push_head(s, i).head = i
           /\ push_head(s, i).tail = IF s.tail = 0 THEN i ELSE s.tail
           /\ \A j : Oc(s, j) =>
                 /\ Pv(push_head(s, i), j) = IF j = i THEN 0 ELSE IF j = s.head THEN i ELSE Pv(s, j)
                 /\ Nx(push_head(s, i), j) = IF j = i THEN s.head ELSE Nx(s, j)
<1> DEFINE h == s.head
           s1 == WithPrev(s, i, NONE)
           s2 == WithNext(s1, i, h)
           s3 == WithPrev(s2, h, i)
           s4 == [s3 EXCEPT !.head = i]
           last == IF s3.tail = NONE THEN i ELSE s3.tail
           s5 == [s4 EXCEPT !.tail = last]
<1>1. h \in Nat /\ NONE = 0 /\ i # 0 /\ i \in Nat /\ ~Oc(s, 0)
    BY DEF Oc, NONE, Inner
<1>2. /\ Relinked(s, s1) /\ s1.head = s.head /\ s1.tail = s.tail
      /\ \A j : Oc(s, j) => /\ Pv(s1, j) = (IF j = i THEN 0 ELSE Pv(s, j))
                            /\ Nx(s1, j) = Nx(s, j)
    BY <1>1, WithPrevIs
<1> HIDE DEF s1
<1>3. s1 \in Inner /\ \A j : Oc(s, j) <=> Oc(s1, j)
    BY <1>2, RelinkedOc, Zenon DEF Relinked
<1>4. /\ Relinked(s1, s2) /\ s2.head = s1.head /\ s2.tail = s1.tail
      /\ \A j : Oc(s1, j) => /\ Nx(s2, j) = (IF j = i THEN h ELSE Nx(s1, j))
                             /\ Pv(s2, j) = Pv(s1, j)
    BY <1>1, <1>3, WithNextIs
<1> HIDE DEF s2
<1>5. s2 \in Inner /\ \A j : Oc(s, j) <=> Oc(s2, j)
    BY <1>3, <1>4, RelinkedOc, Zenon DEF Relinked
<1>6. /\ Relinked(s2, s3) /\ s3.head = s2.head /\ s3.tail = s2.tail
      /\ \A j : Oc(s2, j) => /\ Pv(s3, j) = (IF j = h THEN i ELSE Pv(s2, j))
                             /\ Nx(s3, j) = Nx(s2, j)
    BY <1>1, <1>5, WithPrevIs
<1>0. push_head(s, i) = s5
    <2>1. push_head(s, i) = [s3 EXCEPT !.head = i, !.tail = IF @ = NONE THEN i ELSE @]
        BY DEF push_head, s1, s2, s3
    <2> HIDE DEF s3
    <2>2. s3 \in Inner
        BY <1>6 DEF Relinked
    <2> QED
        BY <2>1, <2>2 DEF Inner
<1> HIDE DEF s3
<1>7. s3 \in Inner /\ last \in Nat /\ \A j : Oc(s, j) <=> Oc(s3, j)
    BY <1>1, <1>5, <1>6, RelinkedOc, Zenon DEF Relinked, Inner
<1>8. Relinked(s3, s4) /\ s4.head = i /\ s4.slots = s3.slots
    BY <1>1, <1>7, EndsAre
<1> HIDE DEF s4, last
<1>9. Relinked(s4, s5) /\ s5.tail = last /\ s5.head = s4.head /\ s5.slots = s4.slots
    <2>1. s4 \in Inner
        BY <1>8 DEF Relinked
    <2> QED
        BY <1>7, <2>1, EndsAre
<1> HIDE DEF s5
<1>10. Relinked(s, s5)
    BY <1>2, <1>4, <1>6, <1>8, <1>9, RelinkedTrans, Zenon
<1>11. \A j : Oc(s, j) =>
                 /\ Pv(s5, j) = IF j = i THEN 0 ELSE IF j = h THEN i ELSE Pv(s, j)
                 /\ Nx(s5, j) = IF j = i THEN h ELSE Nx(s, j)
    <2>1. \A j : Pv(s5, j) = Pv(s3, j) /\ Nx(s5, j) = Nx(s3, j)
        BY <1>8, <1>9 DEF Pv, Nx
    <2> QED
        BY <2>1, <1>2, <1>3, <1>4, <1>5, <1>6
<1>12. s5.tail = IF s.tail = 0 THEN i ELSE s.tail
    BY <1>1, <1>2, <1>4, <1>6, <1>9 DEF last
<1> QED
    BY <1>0, <1>8, <1>9, <1>10, <1>11, <1>12 DEF h

-----------------------------------------------------------------------------
(***************************************************************************)
(* The recency list                                                        *)
(***************************************************************************)

\* The sequences that result from dropping place p and from pushing in front.
Drop(L, p) == [j \in 1 .. Len(L) - 1 |-> IF j < p THEN L[j] ELSE L[j + 1]]
Push(x, L) == [j \in 1 .. Len(L) + 1 |-> IF j = 1 THEN x ELSE L[j - 1]]

Index == Nat \ {0}

\* Sequences without place p, and with x in front.
LEMMA DropIs ==
    ASSUME NEW T, NEW L \in Seq(T), NEW p \in 1 .. Len(L)
    PROVE  /\ Drop(L, p) \in Seq(T) /\ Len(Drop(L, p)) = Len(L) - 1
           /\ \A j \in 1 .. Len(L) - 1 : Drop(L, p)[j] = IF j < p THEN L[j] ELSE L[j + 1]
<1>1. Len(L) \in Nat /\ Len(L) - 1 \in Nat /\ \A j \in 1 .. Len(L) : L[j] \in T
    OBVIOUS
<1>2. \A j \in 1 .. Len(L) - 1 : (IF j < p THEN L[j] ELSE L[j + 1]) \in T
    BY <1>1
<1> QED
    BY <1>1, <1>2 DEF Drop

LEMMA PushIs ==
    ASSUME NEW T, NEW L \in Seq(T), NEW x \in T
    PROVE  /\ Push(x, L) \in Seq(T) /\ Len(Push(x, L)) = Len(L) + 1
           /\ \A j \in 1 .. Len(L) + 1 : Push(x, L)[j] = IF j = 1 THEN x ELSE L[j - 1]
<1>1. Len(L) \in Nat /\ Len(L) + 1 \in Nat /\ \A j \in 1 .. Len(L) : L[j] \in T
    OBVIOUS
<1>2. \A j \in 1 .. Len(L) + 1 : (IF j = 1 THEN x ELSE L[j - 1]) \in T
    BY <1>1
<1> QED
    BY <1>1, <1>2 DEF Push

Distinct(L) == \A i, j \in 1 .. Len(L) : L[i] = L[j] => i = j

\* The links and the ends are those of the sequence L of slots.
Chain(s, L) ==
    /\ L \in Seq(Index) /\ Distinct(L)
    /\ \A j \in 1 .. Len(L) :
          /\ Oc(s, L[j])
          /\ Pv(s, L[j]) = IF j = 1 THEN 0 ELSE L[j - 1]
          /\ Nx(s, L[j]) = IF j = Len(L) THEN 0 ELSE L[j + 1]
    /\ s.head = IF Len(L) = 0 THEN 0 ELSE L[1]
    /\ s.tail = IF Len(L) = 0 THEN 0 ELSE L[Len(L)]

\* Both keep the places distinct.
LEMMA DropDistinct ==
    ASSUME NEW L \in Seq(Index), NEW p \in 1 .. Len(L), Distinct(L)
    PROVE  Distinct(Drop(L, p))
<1> DEFINE n == Len(L)
           M == Drop(L, p)
<1>1. n \in Nat /\ p \in 1 .. n
    OBVIOUS
<1>2. \A i, j \in 1 .. n : L[i] = L[j] => i = j
    BY DEF Distinct
<1>3. Len(M) = n - 1 /\ \A j \in 1 .. n - 1 : M[j] = IF j < p THEN L[j] ELSE L[j + 1]
    BY DropIs
<1> HIDE DEF n, M
<1>4. \A i, j \in 1 .. n - 1 : M[i] = M[j] => i = j
    BY <1>1, <1>2, <1>3
<1> QED
    BY <1>3, <1>4 DEF Distinct, M

LEMMA PushDistinct ==
    ASSUME NEW L \in Seq(Index), NEW x \in Index, Distinct(L), \A j \in 1 .. Len(L) : L[j] # x
    PROVE  Distinct(Push(x, L))
<1> DEFINE n == Len(L)
           M == Push(x, L)
<1>1. n \in Nat
    OBVIOUS
<1>2. (\A i, j \in 1 .. n : L[i] = L[j] => i = j) /\ (\A j \in 1 .. n : L[j] # x)
    BY DEF Distinct
<1>3. Len(M) = n + 1 /\ \A j \in 1 .. n + 1 : M[j] = IF j = 1 THEN x ELSE L[j - 1]
    BY PushIs
<1> HIDE DEF n, M
<1>4. \A i, j \in 1 .. n + 1 : M[i] = M[j] => i = j
    BY <1>1, <1>2, <1>3
<1> QED
    BY <1>3, <1>4 DEF Distinct, M

\* Place j of what is left was place q, and its neighbours are those of q, or of
\* p where q was next to p.
Moved(L, p, j, q) ==
    /\ q # p /\ Drop(L, p)[j] = L[q]
    /\ (IF j = 1 THEN 0 ELSE Drop(L, p)[j - 1])
          = IF q = p + 1 THEN (IF p = 1 THEN 0 ELSE L[p - 1])
            ELSE (IF q = 1 THEN 0 ELSE L[q - 1])
    /\ (IF j = Len(L) - 1 THEN 0 ELSE Drop(L, p)[j + 1])
          = IF q = p - 1 THEN (IF p = Len(L) THEN 0 ELSE L[p + 1])
            ELSE (IF q = Len(L) THEN 0 ELSE L[q + 1])

\* The neighbours of a place once place p is gone.
LEMMA DropLinks ==
    ASSUME NEW L \in Seq(Index), NEW p \in 1 .. Len(L), NEW j \in 1 .. Len(L) - 1
    PROVE  \E q \in 1 .. Len(L) : Moved(L, p, j, q)
<1> DEFINE n == Len(L)
           M == Drop(L, p)
<1>3. n \in Nat /\ p \in 1 .. n /\ j \in 1 .. n - 1
    OBVIOUS
<1>4. \A m \in 1 .. n - 1 : M[m] = IF m < p THEN L[m] ELSE L[m + 1]
    BY DropIs
<1> HIDE DEF n, M
<1> USE <1>3, <1>4
<1>1. CASE j < p
    <2>1. j \in 1 .. n /\ j # p /\ M[j] = L[j] /\ j # p + 1
        BY <1>1
    <2>2. (IF j = 1 THEN 0 ELSE M[j - 1]) = IF j = 1 THEN 0 ELSE L[j - 1]
        BY <1>1
    <2>3. (IF j = n - 1 THEN 0 ELSE M[j + 1])
                    = IF j = p - 1 THEN (IF p = n THEN 0 ELSE L[p + 1])
                      ELSE (IF j = n THEN 0 ELSE L[j + 1])
        BY <1>1
    <2> QED
        <3>1. Moved(L, p, j, j)
            BY <2>1, <2>2, <2>3 DEF Moved, n, M
        <3> QED
            BY <2>1, <3>1 DEF n
<1>2. CASE j >= p
    <2>1. j + 1 \in 1 .. n /\ j + 1 # p /\ M[j] = L[j + 1] /\ j + 1 # p - 1 /\ j + 1 # 1
        BY <1>2
    <2>2. (IF j = 1 THEN 0 ELSE M[j - 1]) = IF j + 1 = p + 1 THEN (IF p = 1 THEN 0 ELSE L[p - 1])
                                            ELSE L[j + 1 - 1]
        BY <1>2
    <2>3. (IF j = n - 1 THEN 0 ELSE M[j + 1]) = IF j + 1 = n THEN 0 ELSE L[j + 1 + 1]
        BY <1>2
    <2> QED
        <3>1. Moved(L, p, j, j + 1)
            BY <2>1, <2>2, <2>3 DEF Moved, n, M
        <3> QED
            BY <2>1, <3>1 DEF n
<1> QED
    BY <1>1, <1>2 DEF n, M

\* unlink takes place p out of the chain, whatever its neighbours are.
LEMMA UnlinkChain ==
    ASSUME NEW s \in Inner, NEW L, Chain(s, L), NEW p \in 1 .. Len(L)
    PROVE  /\ Relinked(s, unlink(s, L[p]))
           /\ Chain(unlink(s, L[p]), Drop(L, p))
<1> DEFINE i == L[p]
           M == Drop(L, p)
           u == unlink(s, i)
           n == Len(L)
<1>1. /\ L \in Seq(Index) /\ Distinct(L)
    BY DEF Chain
<1>0. n \in Nat /\ p \in 1 .. n
    BY <1>1
<1>10. M \in Seq(Index) /\ Len(M) = n - 1
    BY <1>1, DropIs
<1>14. \A j \in 1 .. n - 1 : M[j] = IF j < p THEN L[j] ELSE L[j + 1]
    BY <1>1, DropIs
<1>11. /\ \A j \in 1 .. n : L[j] # 0 /\ Oc(s, L[j])
       /\ \A a, b \in 1 .. n : L[a] = L[b] => a = b
       /\ \A j \in 1 .. n : /\ Pv(s, L[j]) = IF j = 1 THEN 0 ELSE L[j - 1]
                            /\ Nx(s, L[j]) = IF j = n THEN 0 ELSE L[j + 1]
       /\ s.head = (IF n = 0 THEN 0 ELSE L[1]) /\ s.tail = (IF n = 0 THEN 0 ELSE L[n])
    BY <1>1 DEF Chain, Distinct, Index
<1>15. Distinct(M)
    BY <1>1, DropDistinct
<1>16. \A j \in 1 .. n - 1 : \E q \in 1 .. n : Moved(L, p, j, q)
    BY <1>1, DropLinks
<1> HIDE DEF M, n
<1>2. /\ Oc(s, i) /\ i # 0
      /\ Pv(s, i) = IF p = 1 THEN 0 ELSE L[p - 1]
      /\ Nx(s, i) = IF p = n THEN 0 ELSE L[p + 1]
    BY <1>0, <1>11
<1>3. /\ Pv(s, i) = 0 \/ Oc(s, Pv(s, i))
      /\ Nx(s, i) = 0 \/ Oc(s, Nx(s, i))
      /\ Pv(s, i) # i /\ Nx(s, i) # i
    BY <1>0, <1>2, <1>11
<1>12. \A q \in 1 .. n : (L[q] = i <=> q = p) /\ (L[q] = Nx(s, i) <=> q = p + 1) /\ (L[q] = Pv(s, i) <=> q = p - 1)
    BY <1>0, <1>2, <1>11
<1> HIDE DEF i
<1>4. /\ Relinked(s, u)
      /\ u.head = IF Pv(s, i) = 0 THEN Nx(s, i) ELSE s.head
      /\ u.tail = IF Nx(s, i) = 0 THEN Pv(s, i) ELSE s.tail
      /\ \A j : Oc(s, j) =>
                 /\ Pv(u, j) = IF j = i THEN 0 ELSE IF j = Nx(s, i) THEN Pv(s, i) ELSE Pv(s, j)
                 /\ Nx(u, j) = IF j = i THEN 0 ELSE IF j = Pv(s, i) THEN Nx(s, i) ELSE Nx(s, j)
    BY <1>2, <1>3, UnlinkIs, Zenon
<1>5. \A j : Oc(s, j) => Oc(u, j)
    BY <1>4, RelinkedOc
<1> HIDE DEF u
<1>8. ASSUME NEW j \in 1 .. n - 1
      PROVE  /\ Oc(u, M[j])
             /\ Pv(u, M[j]) = IF j = 1 THEN 0 ELSE M[j - 1]
             /\ Nx(u, M[j]) = IF j = n - 1 THEN 0 ELSE M[j + 1]
    <2>0. PICK q \in 1 .. n : Moved(L, p, j, q)
        BY <1>16
    <2>1. /\ q # p /\ M[j] = L[q]
          /\ (IF j = 1 THEN 0 ELSE M[j - 1])
                = IF q = p + 1 THEN (IF p = 1 THEN 0 ELSE L[p - 1])
                  ELSE (IF q = 1 THEN 0 ELSE L[q - 1])
          /\ (IF j = n - 1 THEN 0 ELSE M[j + 1])
                = IF q = p - 1 THEN (IF p = n THEN 0 ELSE L[p + 1])
                  ELSE (IF q = n THEN 0 ELSE L[q + 1])
        BY <2>0, Zenon DEF Moved, M, n
    <2>2. /\ Oc(s, L[q])
          /\ Pv(s, L[q]) = IF q = 1 THEN 0 ELSE L[q - 1]
          /\ Nx(s, L[q]) = IF q = n THEN 0 ELSE L[q + 1]
        BY <1>11
    <2>4. Pv(u, L[q]) = IF q = p + 1 THEN Pv(s, i) ELSE Pv(s, L[q])
        BY <1>4, <2>1, <2>2, <1>12
    <2>5. Nx(u, L[q]) = IF q = p - 1 THEN Nx(s, i) ELSE Nx(s, L[q])
        BY <1>4, <2>1, <2>2, <1>12
    <2> QED
        BY <2>1, <2>2, <2>4, <2>5, <1>2, <1>5, Zenon
<1>9. u.head = (IF n - 1 = 0 THEN 0 ELSE M[1]) /\ u.tail = IF n - 1 = 0 THEN 0 ELSE M[n - 1]
    <2>1. n - 1 # 0 => M[1] = (IF p = 1 THEN L[2] ELSE L[1]) /\ M[n - 1] = IF p = n THEN L[n - 1] ELSE L[n]
        BY <1>0, <1>14
    <2>2. Pv(s, i) = 0 <=> p = 1
        BY <1>0, <1>2, <1>11
    <2>3. Nx(s, i) = 0 <=> p = n
        BY <1>0, <1>2, <1>11
    <2>4. u.head = (IF p = 1 THEN (IF p = n THEN 0 ELSE L[p + 1]) ELSE L[1])
        BY <2>2, <1>0, <1>2, <1>4, <1>11
    <2>5. u.tail = (IF p = n THEN (IF p = 1 THEN 0 ELSE L[p - 1]) ELSE L[n])
        BY <2>3, <1>0, <1>2, <1>4, <1>11
    <2> QED
        BY <2>1, <2>4, <2>5, <1>0
<1>13. Chain(u, M)
    BY <1>10, <1>15, <1>8, <1>9 DEF Chain
<1> QED
    BY <1>4, <1>13 DEF u, M, i

\* push_head puts a slot that is not in the chain in front of it.
LEMMA PushChain ==
    ASSUME NEW s \in Inner, NEW L, Chain(s, L), NEW i, Oc(s, i), \A j \in 1 .. Len(L) : L[j] # i
    PROVE  /\ Relinked(s, push_head(s, i))
           /\ Chain(push_head(s, i), Push(i, L))
<1> DEFINE M == Push(i, L)
           u == push_head(s, i)
           n == Len(L)
<1>1. L \in Seq(Index) /\ i \in Index /\ Distinct(L)
    BY DEF Chain, Oc, Index
<1>0. n \in Nat
    BY <1>1
<1>10. M \in Seq(Index) /\ Len(M) = n + 1
    BY <1>1, PushIs
<1>14. \A j \in 1 .. n + 1 : M[j] = IF j = 1 THEN i ELSE L[j - 1]
    BY <1>1, PushIs
<1>11. /\ \A j \in 1 .. n : L[j] # 0 /\ Oc(s, L[j]) /\ L[j] # i
       /\ \A a, b \in 1 .. n : L[a] = L[b] => a = b
       /\ \A j \in 1 .. n : /\ Pv(s, L[j]) = IF j = 1 THEN 0 ELSE L[j - 1]
                            /\ Nx(s, L[j]) = IF j = n THEN 0 ELSE L[j + 1]
       /\ s.head = (IF n = 0 THEN 0 ELSE L[1]) /\ s.tail = (IF n = 0 THEN 0 ELSE L[n])
    BY <1>1 DEF Chain, Distinct, Index
<1>15. Distinct(M)
    BY <1>1, PushDistinct
<1> HIDE DEF M, n
<1>3. (s.head = 0 \/ Oc(s, s.head)) /\ s.head # i
    BY <1>0, <1>1, <1>11 DEF Index
<1>4. /\ Relinked(s, u)
      /\ u.head = i
      /\ u.tail = IF s.tail = 0 THEN i ELSE s.tail
      /\ \A j : Oc(s, j) =>
                 /\ Pv(u, j) = IF j = i THEN 0 ELSE IF j = s.head THEN i ELSE Pv(s, j)
                 /\ Nx(u, j) = IF j = i THEN s.head ELSE Nx(s, j)
    BY <1>3, PushHeadIs, Zenon
<1>5. \A j : Oc(s, j) => Oc(u, j)
    BY <1>4, RelinkedOc
<1> HIDE DEF u
<1>8. ASSUME NEW j \in 1 .. n + 1
      PROVE  /\ Oc(u, M[j])
             /\ Pv(u, M[j]) = IF j = 1 THEN 0 ELSE M[j - 1]
             /\ Nx(u, M[j]) = IF j = n + 1 THEN 0 ELSE M[j + 1]
    <2>1. CASE j = 1
        <3>1. M[j] = i /\ Nx(u, i) = s.head /\ Pv(u, i) = 0
            BY <2>1, <1>0, <1>4, <1>14
        <3>2. s.head = IF j = n + 1 THEN 0 ELSE M[j + 1]
            BY <2>1, <1>0, <1>11, <1>14
        <3> QED
            BY <2>1, <3>1, <3>2, <1>5, Zenon
    <2>2. CASE j # 1
        <3>1. PICK q \in 1 .. n : q = j - 1
            BY <2>2, <1>0
        <3>2. /\ M[j] = L[q]
              /\ M[j - 1] = (IF q = 1 THEN i ELSE L[q - 1])
              /\ (IF j = n + 1 THEN 0 ELSE M[j + 1]) = IF q = n THEN 0 ELSE L[q + 1]
            BY <3>1, <2>2, <1>0, <1>14
        <3>3. /\ Oc(s, L[q])
              /\ Pv(s, L[q]) = IF q = 1 THEN 0 ELSE L[q - 1]
              /\ Nx(s, L[q]) = IF q = n THEN 0 ELSE L[q + 1]
            BY <1>11
        <3>4. L[q] # i /\ (L[q] = s.head <=> q = 1)
            BY <1>0, <1>11
        <3>5. Pv(u, L[q]) = (IF q = 1 THEN i ELSE L[q - 1]) /\ Nx(u, L[q]) = IF q = n THEN 0 ELSE L[q + 1]
            BY <3>3, <3>4, <1>4
        <3> QED
            BY <2>2, <3>2, <3>3, <3>5, <1>5, Zenon
    <2> QED
        BY <2>1, <2>2
<1>9. u.head = (IF n + 1 = 0 THEN 0 ELSE M[1]) /\ u.tail = IF n + 1 = 0 THEN 0 ELSE M[n + 1]
    <2>1. M[1] = i /\ M[n + 1] = IF n = 0 THEN i ELSE L[n]
        BY <1>0, <1>14
    <2> QED
        BY <2>1, <1>0, <1>4, <1>11
<1>13. Chain(u, M)
    BY <1>10, <1>15, <1>8, <1>9 DEF Chain
<1> QED
    BY <1>4, <1>13 DEF u, M

-----------------------------------------------------------------------------
(***************************************************************************)
(* Entries and their bytes                                                 *)
(***************************************************************************)

EntrySet ==
    {e \in [key : Key, ttl : Nat, at : Nat, bytes : Nat, msg : Message] : e.ttl = Lifetime(e.msg)}

\* f[j] is the number of bytes of the first j entries.
Sums(E, f) ==
    /\ f \in [0 .. Len(E) -> Nat] /\ f[0] = 0
    /\ \A j \in 1 .. Len(E) : f[j] = f[j - 1] + E[j].bytes
    /\ \A i, j \in 0 .. Len(E) : i <= j => f[i] <= f[j]

DropSum(E, f, p) == [j \in 0 .. Len(E) - 1 |-> IF j < p THEN f[j] ELSE f[j + 1] - E[p].bytes]
PushSum(E, f, x) == [j \in 0 .. Len(E) + 1 |-> IF j = 0 THEN 0 ELSE f[j - 1] + x.bytes]

\* The same of the numbers alone.
SumOf(n, b, f) ==
    /\ f \in [0 .. n -> Nat] /\ f[0] = 0
    /\ \A j \in 1 .. n : f[j] = f[j - 1] + b[j]
    /\ \A i, j \in 0 .. n : i <= j => f[i] <= f[j]

CutNumbers(n, b, p) == [j \in 1 .. n - 1 |-> IF j < p THEN b[j] ELSE b[j + 1]]
CutSums(n, b, f, p) == [j \in 0 .. n - 1 |-> IF j < p THEN f[j] ELSE f[j + 1] - b[p]]

\* Taking one number out of a sum leaves a sum.
LEMMA DropSums ==
    ASSUME NEW n \in Nat, NEW b \in [1 .. n -> Nat], NEW f, SumOf(n, b, f), NEW p \in 1 .. n
    PROVE  /\ SumOf(n - 1, CutNumbers(n, b, p), CutSums(n, b, f, p))
           /\ CutSums(n, b, f, p)[n - 1] = f[n] - b[p] /\ f[n] >= b[p]
<1> DEFINE c == CutNumbers(n, b, p)
           g == CutSums(n, b, f, p)
<1>0. /\ \A j \in 0 .. n : f[j] \in Nat
      /\ \A j \in 1 .. n : b[j] \in Nat
      /\ f[0] = 0
      /\ \A j \in 1 .. n : f[j] = f[j - 1] + b[j]
      /\ \A i, j \in 0 .. n : i <= j => f[i] <= f[j]
    BY DEF SumOf
<1>1. f[p] = f[p - 1] + b[p] /\ f[p - 1] \in Nat /\ b[p] \in Nat /\ \A j \in p .. n : f[p] <= f[j]
    BY <1>0
<1>8. /\ \A j \in 0 .. n - 1 : j < p => g[j] = f[j]
      /\ \A j \in 0 .. n - 1 : j >= p => g[j] = f[j + 1] - b[p]
      /\ \A j \in 1 .. n - 1 : j < p => c[j] = b[j]
      /\ \A j \in 1 .. n - 1 : j >= p => c[j] = b[j + 1]
    BY DEF CutNumbers, CutSums
<1>10. DOMAIN g = 0 .. n - 1 /\ g = [j \in 0 .. n - 1 |-> g[j]]
    BY DEF CutSums
<1> HIDE DEF c, g
<1>2. ASSUME NEW j \in 0 .. n - 1 PROVE g[j] \in Nat
    <2>1. CASE j < p
        <3>1. g[j] = f[j] /\ j \in 0 .. n
            BY <2>1, <1>8
        <3> QED
            BY <3>1, <1>0
    <2>2. CASE j >= p
        <3>1. f[p] <= f[j + 1] /\ f[j + 1] \in Nat
            BY <2>2, <1>0
        <3> QED
            BY <3>1, <2>2, <1>1, <1>8
    <2> QED
        BY <2>1, <2>2
<1>3. g[0] = 0
    BY <1>0, <1>8
<1>4. ASSUME NEW j \in 1 .. n - 1 PROVE g[j] = g[j - 1] + c[j]
    <2>1. CASE j < p
        <3>1. g[j] = f[j] /\ g[j - 1] = f[j - 1] /\ c[j] = b[j]
            BY <2>1, <1>8
        <3> QED
            BY <3>1, <1>0
    <2>2. CASE j = p
        <3>1. g[j] = f[j + 1] - b[j] /\ g[j - 1] = f[j - 1] /\ c[j] = b[j + 1]
            BY <2>2, <1>8
        <3>2. f[j + 1] = f[j] + b[j + 1] /\ f[j] = f[j - 1] + b[j] /\ f[j - 1] \in Nat /\ b[j] \in Nat
              /\ b[j + 1] \in Nat
            BY <1>0
        <3> QED
            BY <3>1, <3>2
    <2>3. CASE j > p
        <3>1. g[j] = f[j + 1] - b[p] /\ g[j - 1] = f[j] - b[p] /\ c[j] = b[j + 1]
            BY <2>3, <1>8
        <3>2. f[j + 1] = f[j] + b[j + 1] /\ f[j] \in Nat /\ b[j + 1] \in Nat
            BY <1>0
        <3> QED
            BY <3>1, <3>2, <1>1
    <2> QED
        BY <2>1, <2>2, <2>3
<1>5. ASSUME NEW i \in 0 .. n - 1, NEW j \in 0 .. n - 1, i <= j PROVE g[i] <= g[j]
    <2>1. CASE j < p
        BY <2>1, <1>5, <1>0, <1>8
    <2>2. CASE i >= p
        <3>1. g[i] = f[i + 1] - b[p] /\ g[j] = f[j + 1] - b[p] /\ f[i + 1] <= f[j + 1]
              /\ f[i + 1] \in Nat /\ f[j + 1] \in Nat
            BY <2>2, <1>5, <1>0, <1>8
        <3> QED
            BY <3>1, <1>1
    <2>3. CASE i < p /\ p <= j
        <3>1. g[i] = f[i] /\ g[j] = f[j + 1] - b[p] /\ f[i] <= f[p - 1] /\ f[p] <= f[j + 1]
              /\ f[i] \in Nat /\ f[j + 1] \in Nat
            BY <2>3, <1>0, <1>8
        <3> QED
            BY <3>1, <1>1
    <2> QED
        BY <2>1, <2>2, <2>3
<1>6. g[n - 1] = f[n] - b[p]
    <2>1. CASE n = p
        BY <2>1, <1>0, <1>1, <1>8
    <2>2. CASE n # p
        BY <2>2, <1>8
    <2> QED
        BY <2>1, <2>2
<1>7. f[n] >= b[p]
    <2>1. f[p] <= f[n] /\ f[n] \in Nat
        BY <1>0
    <2> QED
        BY <2>1, <1>1
<1>9. g \in [0 .. n - 1 -> Nat]
    BY <1>2, <1>10
<1>11. SumOf(n - 1, c, g)
    BY <1>3, <1>4, <1>5, <1>9 DEF SumOf
<1> QED
    BY <1>6, <1>7, <1>11 DEF c, g

\* The sums of the entries without place p, and with x in front.
LEMMA SumsDrop ==
    ASSUME NEW E \in Seq(EntrySet), NEW f, Sums(E, f), NEW p \in 1 .. Len(E)
    PROVE  /\ Sums(Drop(E, p), DropSum(E, f, p))
           /\ DropSum(E, f, p)[Len(E) - 1] = f[Len(E)] - E[p].bytes
           /\ f[Len(E)] >= E[p].bytes
<1> DEFINE n == Len(E)
           D == Drop(E, p)
           b == [j \in 1 .. n |-> E[j].bytes]
           c == CutNumbers(n, b, p)
           g == DropSum(E, f, p)
<1>1. n \in Nat /\ p \in 1 .. n /\ \A j \in 1 .. n : E[j] \in EntrySet
    OBVIOUS
<1>2. b \in [1 .. n -> Nat] /\ \A j \in 1 .. n : b[j] = E[j].bytes
    BY <1>1 DEF EntrySet
<1>3. Len(D) = n - 1 /\ \A j \in 1 .. n - 1 : D[j] = IF j < p THEN E[j] ELSE E[j + 1]
    BY DropIs
<1>4. SumOf(n, b, f)
    <2>1. /\ f \in [0 .. n -> Nat] /\ f[0] = 0
          /\ \A j \in 1 .. n : f[j] = f[j - 1] + E[j].bytes
          /\ \A i, j \in 0 .. n : i <= j => f[i] <= f[j]
        BY DEF Sums
    <2> HIDE DEF n, b
    <2> QED
        BY <1>2, <2>1 DEF SumOf
<1>5. g = CutSums(n, b, f, p)
    BY DEF DropSum, CutSums
<1>7. \A j \in 1 .. n - 1 : c[j] = D[j].bytes
    <2>1. \A j \in 1 .. n - 1 : c[j] = IF j < p THEN b[j] ELSE b[j + 1]
        BY <1>1 DEF CutNumbers
    <2> HIDE DEF n, b, c, D
    <2> SUFFICES ASSUME NEW j \in 1 .. n - 1 PROVE c[j] = D[j].bytes
        OBVIOUS
    <2>2. j \in 1 .. n /\ j + 1 \in 1 .. n
        BY <1>1
    <2> QED
        BY <2>1, <2>2, <1>2, <1>3
<1>11. SumOf(n - 1, c, g) /\ g[n - 1] = f[n] - b[p] /\ f[n] >= b[p]
    <2> HIDE DEF n, b, g
    <2> QED
        BY <1>1, <1>2, <1>4, <1>5, DropSums
<1> HIDE DEF n, b, c, D, g
<1>13. Sums(D, g)
    BY <1>3, <1>7, <1>11 DEF Sums, SumOf
<1>14. g[n - 1] = f[n] - E[p].bytes /\ f[n] >= E[p].bytes
    BY <1>1, <1>2, <1>11
<1> QED
    BY <1>13, <1>14 DEF n, D, g

LEMMA SumsPush ==
    ASSUME NEW E \in Seq(EntrySet), NEW f, Sums(E, f), NEW x \in EntrySet
    PROVE  /\ Sums(Push(x, E), PushSum(E, f, x))
           /\ PushSum(E, f, x)[Len(E) + 1] = f[Len(E)] + x.bytes
<1> DEFINE n == Len(E)
           D == Push(x, E)
           w == x.bytes
           g == PushSum(E, f, x)
<1>1. n \in Nat /\ w \in Nat
    BY DEF EntrySet
<1>3. Len(D) = n + 1 /\ \A j \in 1 .. n + 1 : D[j] = IF j = 1 THEN x ELSE E[j - 1]
    BY PushIs
<1>4. /\ f \in [0 .. n -> Nat] /\ f[0] = 0
      /\ \A j \in 1 .. n : f[j] = f[j - 1] + E[j].bytes
      /\ \A i, j \in 0 .. n : i <= j => f[i] <= f[j]
    BY DEF Sums
<1>5. g = [j \in 0 .. n + 1 |-> IF j = 0 THEN 0 ELSE f[j - 1] + w]
    BY DEF PushSum
<1>14. x.bytes = w
    OBVIOUS
<1> HIDE DEF n, D, g, w
<1>6. \A j \in 0 .. n + 1 : g[j] = IF j = 0 THEN 0 ELSE f[j - 1] + w
    BY <1>5
<1>7. g \in [0 .. n + 1 -> Nat]
    BY <1>1, <1>4, <1>5
<1>8. ASSUME NEW j \in 1 .. n + 1 PROVE g[j] = g[j - 1] + D[j].bytes
    <2>1. CASE j = 1
        BY <2>1, <1>1, <1>3, <1>4, <1>6, <1>14
    <2>2. CASE j # 1
        <3>1. PICK q \in 1 .. n : j = q + 1
            BY <2>2, <1>1
        <3>2. g[j] = f[q] + w /\ g[j - 1] = f[q - 1] + w
            BY <3>1, <1>1, <1>6
        <3>4. D[j] = E[q]
            BY <3>1, <1>1, <1>3
        <3>5. f[q] = f[q - 1] + E[q].bytes
            BY <1>4
        <3>3. f[q - 1] \in Nat /\ f[q] \in Nat /\ E[q].bytes \in Nat
            <4>1. E[q] \in EntrySet
                BY DEF n
            <4> QED
                BY <4>1, <1>1, <1>4 DEF EntrySet
        <3> QED
            BY <3>2, <3>3, <3>4, <3>5, <1>1
    <2> QED
        BY <2>1, <2>2
<1>9. ASSUME NEW i \in 0 .. n + 1, NEW j \in 0 .. n + 1, i <= j PROVE g[i] <= g[j]
    <2>1. CASE i = 0
        BY <2>1, <1>6, <1>7
    <2>2. CASE i # 0
        <3>1. g[i] = f[i - 1] + w /\ g[j] = f[j - 1] + w
            BY <2>2, <1>9, <1>6
        <3>3. i - 1 \in 0 .. n /\ j - 1 \in 0 .. n /\ i - 1 <= j - 1
            BY <2>2, <1>9, <1>1
        <3>2. f[i - 1] <= f[j - 1] /\ f[i - 1] \in Nat /\ f[j - 1] \in Nat
            BY <3>3, <1>4
        <3> QED
            BY <3>1, <3>2, <1>1
    <2> QED
        BY <2>1, <2>2
<1>10. g[0] = 0 /\ g[n + 1] = f[n] + w
    BY <1>1, <1>6
<1>13. Sums(D, g)
    BY <1>3, <1>7, <1>8, <1>9, <1>10 DEF Sums
<1> QED
    BY <1>10, <1>13 DEF n, D, g, w

-----------------------------------------------------------------------------
(***************************************************************************)
(* The whole structure: L lists the occupied slots by recency, F the free  *)
(* ones, f sums up the bytes.                                              *)
(***************************************************************************)

Data(e) == [key |-> e.key, ttl |-> e.ttl, at |-> e.at, bytes |-> e.bytes, msg |-> e.msg]

\* The entries in the order of L.
Entries(s, L) == [j \in 1 .. Len(L) |-> Data(s.slots[L[j]])]

\* Slot i is free; the next free one.
Sp(s, i) == i \in 1 .. Len(s.slots) /\ s.slots[i] \in Spare
Nf(s, i) == s.slots[i].next_free
Ky(s, i) == s.slots[i].key

Spares(s, F) ==
    /\ F \in Seq(Index) /\ Distinct(F)
    /\ \A j \in 1 .. Len(F) : Sp(s, F[j]) /\ Nf(s, F[j]) = IF j = Len(F) THEN 0 ELSE F[j + 1]
    /\ s.free_head = IF Len(F) = 0 THEN 0 ELSE F[1]

\* No slot leaks.
Covered(s, L, F) ==
    \A i \in 1 .. Len(s.slots) : (\E j \in 1 .. Len(L) : L[j] = i) \/ \E j \in 1 .. Len(F) : F[j] = i

Keyed(s) ==
    /\ \A i : Oc(s, i) => Ky(s, i) \in DOMAIN s.map /\ s.map[Ky(s, i)] = i
    /\ \A k \in DOMAIN s.map : Oc(s, s.map[k]) /\ Ky(s, s.map[k]) = k

\* What does not depend on the links.
Rest(s, L, F, f) ==
    /\ L \in Seq(Index) /\ \A j \in 1 .. Len(L) : Oc(s, L[j])
    /\ Spares(s, F) /\ Covered(s, L, F) /\ Keyed(s)
    /\ Len(s.slots) <= Capacity
    /\ Entries(s, L) \in Seq(EntrySet) /\ Sums(Entries(s, L), f) /\ s.bytes_total = f[Len(L)]

Whole(s, L, F, f) == s \in Inner /\ Chain(s, L) /\ Rest(s, L, F, f)

\* The entries, place by place.
LEMMA EntriesIs ==
    ASSUME NEW s, NEW L \in Seq(Index)
    PROVE  /\ Len(Entries(s, L)) = Len(L) /\ DOMAIN Entries(s, L) = 1 .. Len(L)
           /\ \A j \in 1 .. Len(L) : Entries(s, L)[j] = Data(s.slots[L[j]])
<1>1. Len(L) \in Nat
    OBVIOUS
<1> QED
    BY <1>1 DEF Entries

\* Two sequences of entries that agree everywhere are equal.
LEMMA SameEntries ==
    ASSUME NEW s, NEW t, NEW L \in Seq(Index), \A j \in 1 .. Len(L) : Data(s.slots[L[j]]) = Data(t.slots[L[j]])
    PROVE  Entries(s, L) = Entries(t, L)
BY DEF Entries

\* Relinking leaves everything else whole.
LEMMA RelinkedRest ==
    ASSUME NEW s, NEW t, Relinked(s, t), NEW L, NEW F, NEW f, Rest(s, L, F, f)
    PROVE  Rest(t, L, F, f) /\ Entries(t, L) = Entries(s, L)
<1>1. /\ L \in Seq(Index) /\ \A j \in 1 .. Len(L) : Oc(s, L[j])
      /\ Spares(s, F) /\ Covered(s, L, F) /\ Keyed(s)
      /\ Len(s.slots) <= Capacity
      /\ Entries(s, L) \in Seq(EntrySet) /\ Sums(Entries(s, L), f) /\ s.bytes_total = f[Len(L)]
    BY DEF Rest
<1>2. \A j : Oc(s, j) <=> Oc(t, j)
    BY RelinkedOc
<1>3. /\ t.map = s.map /\ t.free_head = s.free_head /\ t.bytes_total = s.bytes_total
      /\ Len(t.slots) = Len(s.slots)
    BY DEF Relinked
<1>4. \A j : Oc(s, j) => Ky(t, j) = Ky(s, j) /\ Data(s.slots[j]) = Data(t.slots[j])
    BY DEF Relinked, Oc, Ky, SameData, Data
<1>5. \A j : Sp(s, j) => Sp(t, j) /\ Nf(t, j) = Nf(s, j)
    BY DEF Relinked, Sp, Nf, Taken, Spare
<1>6. Entries(s, L) = Entries(t, L)
    BY <1>1, <1>4, SameEntries
<1>7. Spares(t, F)
    BY <1>1, <1>3, <1>5 DEF Spares
<1>8. Covered(t, L, F)
    BY <1>1, <1>3 DEF Covered
<1>9. Keyed(t)
    BY <1>1, <1>2, <1>3, <1>4 DEF Keyed
<1> QED
    BY <1>1, <1>2, <1>3, <1>6, <1>7, <1>8, <1>9 DEF Rest

\* L with place p in front.
Front(L, p) == Push(L[p], Drop(L, p))

\* The sequence, place by place.
LEMMA FrontIs ==
    ASSUME NEW T, NEW L \in Seq(T), NEW p \in 1 .. Len(L)
    PROVE  /\ Front(L, p) \in Seq(T) /\ Len(Front(L, p)) = Len(L)
           /\ \A j \in 1 .. Len(L) : Front(L, p)[j] = IF j = 1 THEN L[p] ELSE IF j <= p THEN L[j - 1] ELSE L[j]
<1> DEFINE D == Drop(L, p)
           n == Len(L)
           x == L[p]
<1>1. x \in T /\ n \in Nat /\ p \in 1 .. n
    OBVIOUS
<1>2. /\ D \in Seq(T) /\ Len(D) = n - 1
      /\ \A j \in 1 .. n - 1 : D[j] = IF j < p THEN L[j] ELSE L[j + 1]
    BY DropIs
<1>5. Front(L, p) = Push(x, D)
    BY DEF Front
<1> HIDE DEF D, x
<1>3. /\ Push(x, D) \in Seq(T) /\ Len(Push(x, D)) = Len(D) + 1
      /\ \A j \in 1 .. Len(D) + 1 : Push(x, D)[j] = IF j = 1 THEN x ELSE D[j - 1]
    BY <1>1, <1>2, PushIs
<1> DEFINE M == Push(x, D)
<1> HIDE DEF M, n
<1>4. \A j \in 1 .. n : M[j] = IF j = 1 THEN x ELSE IF j <= p THEN L[j - 1] ELSE L[j]
    <2>1. \A j \in 1 .. n : M[j] = IF j = 1 THEN x ELSE D[j - 1]
        BY <1>1, <1>2, <1>3 DEF M
    <2>2. \A j \in 1 .. n : j # 1 => D[j - 1] = IF j <= p THEN L[j - 1] ELSE L[j]
        BY <1>1, <1>2
    <2> QED
        BY <2>1, <2>2
<1>6. M \in Seq(T) /\ Len(M) = n
    BY <1>1, <1>2, <1>3 DEF M
<1> QED
    BY <1>4, <1>5, <1>6 DEF M, n, x

LEMMA FrontSame ==
    ASSUME NEW L \in Seq(Index), NEW p \in 1 .. Len(L), NEW i, \E j \in 1 .. Len(L) : L[j] = i
    PROVE  \E j \in 1 .. Len(Front(L, p)) : Front(L, p)[j] = i
<1> SUFFICES ASSUME NEW q \in 1 .. Len(L), L[q] = i
             PROVE \E j \in 1 .. Len(Front(L, p)) : Front(L, p)[j] = i
    OBVIOUS
<1> DEFINE n == Len(L)
           M == Front(L, p)
<1>1. n \in Nat /\ p \in 1 .. n /\ q \in 1 .. n
    OBVIOUS
<1>2. Len(M) = n /\ \A j \in 1 .. n : M[j] = IF j = 1 THEN L[p] ELSE IF j <= p THEN L[j - 1] ELSE L[j]
    BY FrontIs
<1> HIDE DEF n, M
<1>3. CASE q = p
    <2>1. 1 \in 1 .. n /\ M[1] = L[p]
        BY <1>1, <1>2
    <2> QED
        BY <2>1, <1>2, <1>3 DEF M
<1>4. CASE q < p
    <2>0. q + 1 \in 1 .. n /\ q + 1 # 1 /\ q + 1 <= p /\ q + 1 - 1 = q
        BY <1>1, <1>4
    <2>1. M[q + 1] = L[q]
        BY <1>2, <2>0
    <2> QED
        BY <2>0, <2>1, <1>2 DEF M
<1>5. CASE q > p
    <2>1. q \in 1 .. n /\ q # 1 /\ ~(q <= p)
        BY <1>1, <1>5
    <2>2. M[q] = L[q]
        BY <2>1, <1>2
    <2> QED
        BY <2>1, <2>2, <1>2 DEF M
<1> QED
    BY <1>1, <1>3, <1>4, <1>5

\* Entries follow the places of their slots.
LEMMA EntriesDrop ==
    ASSUME NEW s, NEW L \in Seq(Index), NEW p \in 1 .. Len(L)
    PROVE  Entries(s, Drop(L, p)) = Drop(Entries(s, L), p)
<1>1. /\ Drop(L, p) \in Seq(Index) /\ Len(Drop(L, p)) = Len(L) - 1
      /\ \A j \in 1 .. Len(L) - 1 : Drop(L, p)[j] = IF j < p THEN L[j] ELSE L[j + 1]
    BY DropIs
<1>2. Len(L) \in Nat /\ Len(Entries(s, L)) = Len(L)
    BY EntriesIs
<1>3. \A j \in 1 .. Len(L) : Entries(s, L)[j] = Data(s.slots[L[j]])
    BY EntriesIs
<1>4. Entries(s, Drop(L, p)) = [j \in 1 .. Len(L) - 1 |-> Data(s.slots[Drop(L, p)[j]])]
    BY <1>1 DEF Entries
<1>5. Drop(Entries(s, L), p) = [j \in 1 .. Len(L) - 1 |-> IF j < p THEN Entries(s, L)[j] ELSE Entries(s, L)[j + 1]]
    BY <1>2 DEF Drop
<1>6. ASSUME NEW j \in 1 .. Len(L) - 1
      PROVE  Data(s.slots[Drop(L, p)[j]]) = IF j < p THEN Entries(s, L)[j] ELSE Entries(s, L)[j + 1]
    <2>1. j \in 1 .. Len(L) /\ j + 1 \in 1 .. Len(L)
        BY <1>2
    <2>2. CASE j < p
        <3>1. Drop(L, p)[j] = L[j]
            BY <1>1, <2>2
        <3> QED
            BY <2>1, <2>2, <3>1, <1>3, Zenon
    <2>3. CASE ~(j < p)
        <3>1. Drop(L, p)[j] = L[j + 1]
            BY <1>1, <2>3
        <3> QED
            BY <2>1, <2>3, <3>1, <1>3, Zenon
    <2> QED
        BY <2>2, <2>3
<1> QED
    BY <1>4, <1>5, <1>6

LEMMA EntriesPush ==
    ASSUME NEW s, NEW L \in Seq(Index), NEW x \in Index
    PROVE  Entries(s, Push(x, L)) = Push(Data(s.slots[x]), Entries(s, L))
<1>1. /\ Push(x, L) \in Seq(Index) /\ Len(Push(x, L)) = Len(L) + 1
      /\ \A j \in 1 .. Len(L) + 1 : Push(x, L)[j] = IF j = 1 THEN x ELSE L[j - 1]
    BY PushIs
<1>2. Len(L) \in Nat /\ Len(Entries(s, L)) = Len(L)
    BY EntriesIs
<1>3. \A j \in 1 .. Len(L) : Entries(s, L)[j] = Data(s.slots[L[j]])
    BY EntriesIs
<1>4. Entries(s, Push(x, L)) = [j \in 1 .. Len(L) + 1 |-> Data(s.slots[Push(x, L)[j]])]
    BY <1>1 DEF Entries
<1>5. Push(Data(s.slots[x]), Entries(s, L))
        = [j \in 1 .. Len(L) + 1 |-> IF j = 1 THEN Data(s.slots[x]) ELSE Entries(s, L)[j - 1]]
    BY <1>2 DEF Push
<1>6. ASSUME NEW j \in 1 .. Len(L) + 1
      PROVE  Data(s.slots[Push(x, L)[j]]) = IF j = 1 THEN Data(s.slots[x]) ELSE Entries(s, L)[j - 1]
    <2>2. CASE j = 1
        BY <1>1, <2>2
    <2>3. CASE j # 1
        <3>1. Push(x, L)[j] = L[j - 1]
            BY <1>1, <2>3
        <3>2. j - 1 \in 1 .. Len(L)
            BY <2>3, <1>2
        <3> QED
            BY <2>3, <3>1, <3>2, <1>3, Zenon
    <2> QED
        BY <2>2, <2>3
<1> QED
    BY <1>4, <1>5, <1>6

LEMMA EntriesFront ==
    ASSUME NEW s, NEW L \in Seq(Index), NEW p \in 1 .. Len(L)
    PROVE  Entries(s, Front(L, p)) = Front(Entries(s, L), p)
<1>1. Drop(L, p) \in Seq(Index) /\ L[p] \in Index
    BY DropIs
<1>2. Entries(s, Front(L, p)) = Push(Data(s.slots[L[p]]), Entries(s, Drop(L, p)))
    BY <1>1, EntriesPush DEF Front
<1>3. Entries(s, Drop(L, p)) = Drop(Entries(s, L), p)
    BY EntriesDrop
<1>4. Entries(s, L)[p] = Data(s.slots[L[p]])
    BY EntriesIs
<1> QED
    BY <1>2, <1>3, <1>4 DEF Front

\* Moving an entry changes no total.
LEMMA SumsFront ==
    ASSUME NEW E \in Seq(EntrySet), NEW f, Sums(E, f), NEW p \in 1 .. Len(E)
    PROVE  \E g : Sums(Front(E, p), g) /\ g[Len(E)] = f[Len(E)]
<1> DEFINE D == Drop(E, p)
           g == DropSum(E, f, p)
           h == PushSum(D, g, E[p])
<1>1. E[p] \in EntrySet /\ E[p].bytes \in Nat /\ Len(E) \in Nat
    BY DEF EntrySet
<1>2. D \in Seq(EntrySet) /\ Len(D) = Len(E) - 1
    BY DropIs
<1>3. Sums(D, g) /\ g[Len(E) - 1] = f[Len(E)] - E[p].bytes /\ f[Len(E)] >= E[p].bytes
    BY SumsDrop
<1>6. f[Len(E)] \in Nat
    BY <1>1 DEF Sums
<1> HIDE DEF D, g
<1>4. Sums(Push(E[p], D), h) /\ h[Len(D) + 1] = g[Len(D)] + E[p].bytes
    BY <1>1, <1>2, <1>3, SumsPush
<1> HIDE DEF h
<1>5. h[Len(E)] = f[Len(E)]
    BY <1>1, <1>2, <1>3, <1>4, <1>6
<1> QED
    BY <1>4, <1>5 DEF Front, D

-----------------------------------------------------------------------------
(***************************************************************************)
(* A hit moves its entry to the front                                      *)
(***************************************************************************)

\* The order of the places matters to the links only.
LEMMA FrontRest ==
    ASSUME NEW s, NEW L, NEW F, NEW f, Rest(s, L, F, f), NEW p \in 1 .. Len(L)
    PROVE  \E g : Rest(s, Front(L, p), F, g)
<1> DEFINE M == Front(L, p)
<1>1. /\ L \in Seq(Index) /\ \A j \in 1 .. Len(L) : Oc(s, L[j])
      /\ Spares(s, F) /\ Covered(s, L, F) /\ Keyed(s)
      /\ Len(s.slots) <= Capacity
      /\ Entries(s, L) \in Seq(EntrySet) /\ Sums(Entries(s, L), f) /\ s.bytes_total = f[Len(L)]
    BY DEF Rest
<1>2. /\ M \in Seq(Index) /\ Len(M) = Len(L)
      /\ \A j \in 1 .. Len(L) : M[j] = IF j = 1 THEN L[p] ELSE IF j <= p THEN L[j - 1] ELSE L[j]
    BY <1>1, FrontIs
<1>3. Len(Entries(s, L)) = Len(L)
    BY <1>1, EntriesIs
<1>4. Entries(s, M) = Front(Entries(s, L), p)
    BY <1>1, EntriesFront
<1>5. Entries(s, M) \in Seq(EntrySet)
    BY <1>1, <1>3, <1>4, FrontIs
<1>6. PICK g : Sums(Entries(s, M), g) /\ g[Len(L)] = f[Len(L)]
    <2> DEFINE E == Entries(s, L)
    <2>1. E \in Seq(EntrySet) /\ Sums(E, f) /\ p \in 1 .. Len(E)
        BY <1>1, <1>3
    <2> HIDE DEF E
    <2>2. \E g : Sums(Front(E, p), g) /\ g[Len(E)] = f[Len(E)]
        BY <2>1, SumsFront
    <2> QED
        BY <2>2, <1>3, <1>4 DEF E
<1>7. Covered(s, M, F)
    <2> SUFFICES ASSUME NEW i \in 1 .. Len(s.slots)
                 PROVE  (\E j \in 1 .. Len(M) : M[j] = i) \/ \E j \in 1 .. Len(F) : F[j] = i
        BY DEF Covered
    <2>1. (\E j \in 1 .. Len(L) : L[j] = i) \/ \E j \in 1 .. Len(F) : F[j] = i
        BY <1>1 DEF Covered
    <2>2. (\E j \in 1 .. Len(L) : L[j] = i) => \E j \in 1 .. Len(M) : M[j] = i
        BY <1>1, FrontSame
    <2> QED
        BY <2>1, <2>2
<1> HIDE DEF M
<1>8. ASSUME NEW j \in 1 .. Len(M) PROVE Oc(s, M[j])
    <2>1. Len(L) \in Nat
        BY <1>1
    <2>2. \E q \in 1 .. Len(L) : M[j] = L[q]
        <3>1. j \in 1 .. Len(L) /\ (j = 1 \/ j - 1 \in 1 .. Len(L))
            BY <1>2, <2>1
        <3> QED
            BY <3>1, <1>2
    <2> QED
        BY <2>2, <1>1
<1>9. Rest(s, M, F, g)
    BY <1>1, <1>2, <1>5, <1>6, <1>7, <1>8 DEF Rest
<1> QED
    BY <1>9 DEF M

\* move_to_head moves one entry to the front.
LEMMA MoveToHead ==
    ASSUME NEW s, NEW L, NEW F, NEW f, Whole(s, L, F, f), NEW p \in 1 .. Len(L)
    PROVE  /\ \E M, g : /\ Whole(move_to_head(s, L[p]), M, F, g)
                        /\ Entries(move_to_head(s, L[p]), M) = Front(Entries(s, L), p)
           /\ move_to_head(s, L[p]).bytes_total = s.bytes_total
<1> DEFINE i == L[p]
           t == move_to_head(s, i)
<1>1. s \in Inner /\ Chain(s, L) /\ Rest(s, L, F, f) /\ L \in Seq(Index) /\ Distinct(L)
    BY DEF Whole, Chain
<1>0. Len(L) \in Nat /\ p \in 1 .. Len(L) /\ i \in Index /\ Oc(s, i)
    BY <1>1 DEF Rest
<1>2. s.head = L[1]
    BY <1>0, <1>1 DEF Chain
<1>3. CASE s.head = i
    <2>0. 1 \in 1 .. Len(L) /\ L[1] = L[p]
        BY <1>0, <1>2, <1>3
    <2>1. t = s /\ p = 1
        BY <2>0, <1>1, <1>3 DEF move_to_head, Distinct
    <2>2. Front(Entries(s, L), p) = Entries(s, L)
        <3> DEFINE E == Entries(s, L)
        <3>1. E \in Seq(EntrySet) /\ Len(E) = Len(L)
            BY <1>1, EntriesIs DEF Rest
        <3> HIDE DEF E
        <3>2. /\ Front(E, 1) \in Seq(EntrySet) /\ Len(Front(E, 1)) = Len(E)
              /\ \A j \in 1 .. Len(E) : Front(E, 1)[j] = IF j = 1 THEN E[1] ELSE IF j <= 1 THEN E[j - 1] ELSE E[j]
            BY <1>0, <2>1, <3>1, FrontIs
        <3>3. \A j \in 1 .. Len(E) : Front(E, 1)[j] = E[j]
            BY <3>2
        <3>4. Front(E, 1) = E
            BY <3>1, <3>2, <3>3, SeqEqual
        <3> QED
            BY <3>4, <2>1 DEF E
    <2> QED
        BY <2>1, <2>2 DEF i
<1>4. CASE s.head # i
    <2> DEFINE u == unlink(s, i)
               D == Drop(L, p)
               M == Push(i, D)
    <2>1. t = push_head(u, i)
        BY <1>4 DEF move_to_head
    <2>2. Relinked(s, u) /\ Chain(u, D)
        BY <1>1, UnlinkChain
    <2>3. /\ D \in Seq(Index) /\ Len(D) = Len(L) - 1
          /\ \A j \in 1 .. Len(L) - 1 : D[j] = IF j < p THEN L[j] ELSE L[j + 1]
        BY <1>1, DropIs
    <2>4. M = Front(L, p)
        BY DEF Front
    <2> HIDE DEF D, u, t, M
    <2>5. \A j \in 1 .. Len(D) : D[j] # i
        BY <1>0, <1>1, <2>3 DEF Distinct
    <2>6. u \in Inner /\ Oc(u, i)
        BY <1>0, <2>2, RelinkedOc DEF Relinked
    <2> HIDE DEF i
    <2>7. Relinked(u, t) /\ Chain(t, M)
        BY <2>1, <2>2, <2>5, <2>6, PushChain DEF M
    <2>8. Relinked(s, t)
        BY <2>2, <2>7, RelinkedTrans
    <2>9. PICK g : Rest(s, M, F, g)
        BY <1>1, <2>4, FrontRest
    <2>10. Rest(t, M, F, g) /\ Entries(t, M) = Entries(s, M)
        BY <2>8, <2>9, RelinkedRest
    <2>11. t \in Inner
        BY <2>8 DEF Relinked
    <2>12. Whole(t, M, F, g)
        BY <2>7, <2>10, <2>11 DEF Whole
    <2>13. Entries(s, M) = Front(Entries(s, L), p)
        BY <1>1, <2>4, EntriesFront
    <2>14. t.bytes_total = s.bytes_total
        BY <2>8 DEF Relinked
    <2> QED
        BY <2>10, <2>12, <2>13, <2>14 DEF t, i
<1> QED
    BY <1>3, <1>4

-----------------------------------------------------------------------------
(***************************************************************************)
(* remove takes an entry out of everything                                 *)
(***************************************************************************)

\* What remove does to the unlinked struct.
LEMMA RemoveFields ==
    ASSUME NEW s \in Inner, NEW i, Oc(s, i), NEW u, Relinked(s, u), u = unlink(s, i)
    PROVE  /\ remove(s, i) \in Inner
           /\ remove(s, i).head = u.head /\ remove(s, i).tail = u.tail
           /\ remove(s, i).bytes_total = (IF s.bytes_total >= s.slots[i].bytes
                                          THEN s.bytes_total - s.slots[i].bytes ELSE 0)
           /\ DOMAIN remove(s, i).map = DOMAIN s.map \ {Ky(s, i)}
           /\ \A k \in DOMAIN s.map \ {Ky(s, i)} : remove(s, i).map[k] = s.map[k]
           /\ remove(s, i).free_head = i
           /\ Len(remove(s, i).slots) = Len(s.slots)
           /\ remove(s, i).slots[i] = FreeSlot(s.free_head)
           /\ \A j \in 1 .. Len(s.slots) : j # i => remove(s, i).slots[j] = u.slots[j]
<1> DEFINE b == IF u.bytes_total >= s.slots[i].bytes THEN u.bytes_total - s.slots[i].bytes ELSE 0
           m == [k \in DOMAIN u.map \ {s.slots[i].key} |-> u.map[k]]
           e == FreeSlot(s.free_head)
           v == [u.slots EXCEPT ![i] = e]
           t == remove(s, i)
<1>1. /\ u \in Inner /\ u.map = s.map /\ u.bytes_total = s.bytes_total /\ Len(u.slots) = Len(s.slots)
      /\ i \in 1 .. Len(s.slots) /\ i \in Nat /\ s.slots[i] \in Taken
    BY DEF Relinked, Oc
<1>2. t = [u EXCEPT !.bytes_total = b, !.map = m, !.slots = v, !.free_head = i]
    BY <1>1 DEF remove, Inner
<1>3. b \in Nat
    BY <1>1 DEF Inner, Taken
<1>4. m \in Maps /\ DOMAIN m = DOMAIN s.map \ {Ky(s, i)} /\ \A k \in DOMAIN s.map \ {Ky(s, i)} : m[k] = s.map[k]
    <2>1. PICK D \in SUBSET Key : s.map \in [D -> Nat]
        BY DEF Inner, Maps
    <2>2. m \in [D \ {Ky(s, i)} -> Nat]
        BY <2>1, <1>1 DEF Ky
    <2>3. D \ {Ky(s, i)} \in SUBSET Key
        OBVIOUS
    <2>4. m \in Maps
        BY <2>2, <2>3 DEF Maps
    <2> QED
        BY <2>4, <1>1 DEF Ky
<1>5. /\ v \in Seq(Taken \cup Spare) /\ Len(v) = Len(s.slots) /\ v[i] = e
      /\ \A j \in 1 .. Len(s.slots) : j # i => v[j] = u.slots[j]
    <2>1. u.slots \in Seq(Taken \cup Spare)
        BY <1>1 DEF Inner
    <2>2. e \in Spare
        BY DEF FreeSlot, Spare, Inner
    <2> HIDE DEF e
    <2> QED
        BY <2>1, <2>2, <1>1
<1> HIDE DEF b, m, v, t, e
<1>6. /\ t \in Inner /\ t.head = u.head /\ t.tail = u.tail /\ t.bytes_total = b /\ t.map = m
      /\ t.free_head = i /\ t.slots = v
    BY <1>1, <1>2, <1>3, <1>4, <1>5 DEF Inner
<1>7. b = IF s.bytes_total >= s.slots[i].bytes THEN s.bytes_total - s.slots[i].bytes ELSE 0
    BY <1>1 DEF b
<1> QED
    BY <1>4, <1>5, <1>6, <1>7 DEF t, e

\* remove takes the entry off the list, the map and the byte count, and its slot
\* joins the free list.
LEMMA RemoveWhole ==
    ASSUME NEW s, NEW L, NEW F, NEW f, Whole(s, L, F, f), NEW p \in 1 .. Len(L)
    PROVE  /\ Whole(remove(s, L[p]), Drop(L, p), Push(L[p], F), DropSum(Entries(s, L), f, p))
           /\ Entries(remove(s, L[p]), Drop(L, p)) = Drop(Entries(s, L), p)
<1> DEFINE i == L[p]
           t == remove(s, i)
           u == unlink(s, i)
           D == Drop(L, p)
           G == Push(i, F)
           E == Entries(s, L)
           g == DropSum(E, f, p)
<1>1. s \in Inner /\ Chain(s, L) /\ Rest(s, L, F, f) /\ L \in Seq(Index) /\ Distinct(L)
    BY DEF Whole, Chain
<1>2. /\ \A j \in 1 .. Len(L) : Oc(s, L[j])
      /\ Spares(s, F) /\ Covered(s, L, F) /\ Keyed(s)
      /\ Len(s.slots) <= Capacity
      /\ E \in Seq(EntrySet) /\ Sums(E, f) /\ s.bytes_total = f[Len(L)]
    BY <1>1 DEF Rest
<1>0. Len(L) \in Nat /\ p \in 1 .. Len(L) /\ i \in Index /\ Oc(s, i) /\ Len(E) = Len(L)
    BY <1>1, <1>2, EntriesIs
<1>3. Relinked(s, u) /\ Chain(u, D)
    BY <1>1, UnlinkChain
<1>4. /\ D \in Seq(Index) /\ Len(D) = Len(L) - 1
      /\ \A j \in 1 .. Len(L) - 1 : D[j] = IF j < p THEN L[j] ELSE L[j + 1]
    BY <1>1, DropIs
<1>5. Entries(s, D) = Drop(E, p) /\ E[p] = Data(s.slots[i])
    BY <1>1, EntriesDrop, EntriesIs
<1>6. Drop(E, p) \in Seq(EntrySet) /\ Len(Drop(E, p)) = Len(L) - 1
    BY <1>0, <1>2, DropIs
<1>7. Sums(Drop(E, p), g) /\ g[Len(L) - 1] = f[Len(L)] - E[p].bytes /\ f[Len(L)] >= E[p].bytes
    BY <1>0, <1>2, SumsDrop
<1>8. E[p].bytes = s.slots[i].bytes
    BY <1>5 DEF Data
<1> HIDE DEF E, g, u
<1>9. /\ t \in Inner
      /\ t.head = u.head /\ t.tail = u.tail
      /\ t.bytes_total = (IF s.bytes_total >= s.slots[i].bytes THEN s.bytes_total - s.slots[i].bytes ELSE 0)
      /\ DOMAIN t.map = DOMAIN s.map \ {Ky(s, i)}
      /\ \A k \in DOMAIN s.map \ {Ky(s, i)} : t.map[k] = s.map[k]
      /\ t.free_head = i
      /\ Len(t.slots) = Len(s.slots)
      /\ t.slots[i] = FreeSlot(s.free_head)
      /\ \A j \in 1 .. Len(s.slots) : j # i => t.slots[j] = u.slots[j]
    BY <1>0, <1>1, <1>3, RemoveFields DEF u
<1> HIDE DEF i, t
<1>10. t.bytes_total = g[Len(L) - 1]
    BY <1>2, <1>7, <1>8, <1>9
<1>11. /\ \A j : j # i /\ Oc(s, j) => Oc(t, j) /\ Ky(t, j) = Ky(s, j) /\ Data(t.slots[j]) = Data(s.slots[j])
       /\ \A j : j # i /\ Oc(u, j) => Oc(t, j) /\ Pv(t, j) = Pv(u, j) /\ Nx(t, j) = Nx(u, j)
       /\ \A j : Oc(t, j) => j # i /\ Oc(s, j)
       /\ \A j : Sp(s, j) => j # i /\ Sp(t, j) /\ Nf(t, j) = Nf(s, j)
       /\ Sp(t, i) /\ Nf(t, i) = s.free_head
    <2>1. /\ Len(u.slots) = Len(s.slots)
          /\ \A j \in 1 .. Len(s.slots) :
                IF s.slots[j] \in Taken
                THEN u.slots[j] \in Taken /\ SameData(s.slots[j], u.slots[j])
                ELSE u.slots[j] = s.slots[j]
        BY <1>3 DEF Relinked
    <2>2. \A x : ~(x \in Taken /\ x \in Spare)
        BY DEF Taken, Spare
    <2>3. FreeSlot(s.free_head) \in Spare /\ FreeSlot(s.free_head).next_free = s.free_head
        BY <1>1 DEF FreeSlot, Spare, Inner
    <2>4. i \in 1 .. Len(s.slots) /\ s.slots[i] \in Taken
        BY <1>0 DEF Oc
    <2>5. \A j \in 1 .. Len(s.slots) : s.slots[j] \in Taken \/ s.slots[j] \in Spare
        BY <1>1 DEF Inner
    <2>6. \A j : j # i /\ Oc(s, j) => Oc(t, j) /\ Ky(t, j) = Ky(s, j) /\ Data(t.slots[j]) = Data(s.slots[j])
        BY <1>9, <2>1 DEF Oc, Ky, Data, SameData
    <2>7. \A j : j # i /\ Oc(u, j) => Oc(t, j) /\ Pv(t, j) = Pv(u, j) /\ Nx(t, j) = Nx(u, j)
        BY <1>9, <2>1 DEF Oc, Pv, Nx
    <2>8. \A j : Oc(t, j) => j # i /\ Oc(s, j)
        BY <1>9, <2>1, <2>2, <2>3, <2>4, <2>5 DEF Oc
    <2>9. \A j : Sp(s, j) => j # i /\ Sp(t, j) /\ Nf(t, j) = Nf(s, j)
        BY <1>9, <2>1, <2>2, <2>4 DEF Sp, Nf
    <2>10. Sp(t, i) /\ Nf(t, i) = s.free_head
        BY <1>9, <2>3, <2>4 DEF Sp, Nf
    <2> QED
        BY <2>6, <2>7, <2>8, <2>9, <2>10
<1>12. \A j \in 1 .. Len(D) : D[j] # i /\ Oc(s, D[j])
    <2>1. SUFFICES ASSUME NEW j \in 1 .. Len(D) PROVE D[j] # i /\ Oc(s, D[j])
        OBVIOUS
    <2>2. PICK q \in 1 .. Len(L) : D[j] = L[q] /\ q # p
        <3>1. CASE j < p
            BY <3>1, <1>0, <1>4
        <3>2. CASE ~(j < p)
            <4>1. j + 1 \in 1 .. Len(L) /\ D[j] = L[j + 1] /\ j + 1 # p
                BY <3>2, <1>0, <1>4
            <4> QED
                BY <4>1
        <3> QED
            BY <3>1, <3>2
    <2> QED
        BY <2>2, <1>1, <1>2 DEF Distinct, i
<1>13. Chain(t, D)
    <2>1. \A j \in 1 .. Len(D) : Oc(t, D[j]) /\ Pv(t, D[j]) = Pv(u, D[j]) /\ Nx(t, D[j]) = Nx(u, D[j])
        BY <1>3, <1>11, <1>12 DEF Chain
    <2> HIDE DEF D
    <2> QED
        BY <1>3, <1>9, <2>1 DEF Chain
<1>14. Entries(t, D) = Drop(E, p)
    BY <1>4, <1>5, <1>11, <1>12, SameEntries
<1>15. /\ F \in Seq(Index) /\ Distinct(F) /\ Len(F) \in Nat
       /\ \A j \in 1 .. Len(F) : Sp(s, F[j]) /\ Nf(s, F[j]) = IF j = Len(F) THEN 0 ELSE F[j + 1]
       /\ s.free_head = IF Len(F) = 0 THEN 0 ELSE F[1]
    BY <1>2 DEF Spares
<1>16. /\ G \in Seq(Index) /\ Len(G) = Len(F) + 1
       /\ \A j \in 1 .. Len(F) + 1 : G[j] = IF j = 1 THEN i ELSE F[j - 1]
    BY <1>0, <1>15, PushIs
<1>17. Distinct(G)
    BY <1>0, <1>11, <1>15, PushDistinct
<1> HIDE DEF G
<1>18. Spares(t, G)
    <2>1. ASSUME NEW j \in 1 .. Len(G)
          PROVE  Sp(t, G[j]) /\ Nf(t, G[j]) = IF j = Len(G) THEN 0 ELSE G[j + 1]
        <3>1. CASE j = 1
            <4>1. G[j] = i /\ (j = Len(G) <=> Len(F) = 0) /\ (Len(F) # 0 => G[j + 1] = F[1])
                BY <3>1, <1>15, <1>16
            <4> QED
                BY <4>1, <1>11, <1>15
        <3>2. CASE j # 1
            <4>1. PICK q \in 1 .. Len(F) : q = j - 1
                BY <3>2, <1>15, <1>16
            <4>2. G[j] = F[q] /\ (j = Len(G) <=> q = Len(F)) /\ (q # Len(F) => G[j + 1] = F[q + 1])
                BY <4>1, <3>2, <1>15, <1>16
            <4> QED
                BY <4>2, <1>11, <1>15
        <3> QED
            BY <3>1, <3>2
    <2>2. t.free_head = IF Len(G) = 0 THEN 0 ELSE G[1]
        BY <1>9, <1>15, <1>16
    <2> QED
        BY <2>1, <2>2, <1>16, <1>17 DEF Spares
<1>19. Covered(t, D, G)
    <2> SUFFICES ASSUME NEW m \in 1 .. Len(s.slots)
                 PROVE  (\E j \in 1 .. Len(D) : D[j] = m) \/ \E j \in 1 .. Len(G) : G[j] = m
        BY <1>9 DEF Covered
    <2>1. CASE m = i
        BY <2>1, <1>15, <1>16
    <2>2. CASE m # i /\ \E j \in 1 .. Len(L) : L[j] = m
        <3>1. PICK q \in 1 .. Len(L) : L[q] = m
            BY <2>2
        <3>2. q # p
            BY <2>2, <3>1 DEF i
        <3>3. CASE q < p
            <4>1. q \in 1 .. Len(D) /\ D[q] = m
                BY <3>1, <3>3, <1>0, <1>4
            <4> QED
                BY <4>1
        <3>4. CASE q > p
            <4>1. q - 1 \in 1 .. Len(D) /\ D[q - 1] = m
                BY <3>1, <3>4, <1>0, <1>4
            <4> QED
                BY <4>1
        <3> QED
            BY <3>2, <3>3, <3>4, <1>0
    <2>3. CASE \E j \in 1 .. Len(F) : F[j] = m
        <3>1. PICK q \in 1 .. Len(F) : F[q] = m
            BY <2>3
        <3>2. q + 1 \in 1 .. Len(G) /\ G[q + 1] = m
            BY <3>1, <1>15, <1>16
        <3> QED
            BY <3>2
    <2> QED
        BY <2>1, <2>2, <2>3, <1>2 DEF Covered
<1>20. Keyed(t)
    BY <1>0, <1>2, <1>9, <1>11 DEF Keyed
<1>21. Rest(t, D, G, g)
    <2>1. \A j \in 1 .. Len(D) : Oc(t, D[j])
        BY <1>11, <1>12
    <2> HIDE DEF D
    <2>2. Entries(t, D) \in Seq(EntrySet) /\ Sums(Entries(t, D), g) /\ t.bytes_total = g[Len(D)]
        BY <1>4, <1>6, <1>7, <1>10, <1>14
    <2> QED
        BY <2>1, <2>2, <1>2, <1>4, <1>9, <1>18, <1>19, <1>20 DEF Rest
<1> QED
    BY <1>9, <1>13, <1>14, <1>21 DEF Whole, t, D, G, g, E, i

-----------------------------------------------------------------------------
(***************************************************************************)
(* Counting                                                                *)
(***************************************************************************)

\* 1 .. n has n elements.
LEMMA CountTo ==
    ASSUME NEW n \in Nat
    PROVE  IsFiniteSet(1 .. n) /\ Cardinality(1 .. n) = n
<1>1. 1 \in Int /\ n \in Int
    OBVIOUS
<1>2. IsFiniteSet(1 .. n) /\ Cardinality(1 .. n) = IF 1 > n THEN 0 ELSE n - 1 + 1
    BY <1>1, FS_Interval
<1> QED
    BY <1>2

\* There are as many keys as places.
LEMMA CountKeys ==
    ASSUME NEW s, NEW L, NEW F, NEW f, Whole(s, L, F, f)
    PROVE  IsFiniteSet(DOMAIN s.map) /\ Cardinality(DOMAIN s.map) = Len(L) /\ Len(L) \in Nat
<1> DEFINE S == 1 .. Len(L)
           T == DOMAIN s.map
           h == [j \in S |-> Ky(s, L[j])]
<1>1. L \in Seq(Index) /\ Len(L) \in Nat /\ Distinct(L) /\ (\A j \in S : Oc(s, L[j])) /\ Keyed(s)
      /\ Covered(s, L, F) /\ Spares(s, F)
    BY DEF Whole, Chain, Rest
<1>2. \A j \in S : h[j] \in T /\ s.map[h[j]] = L[j]
    BY <1>1 DEF Keyed
<1>3. \A j1, j2 \in S : h[j1] = h[j2] => j1 = j2
    BY <1>1, <1>2 DEF Distinct
<1>4. ASSUME NEW k \in T PROVE \E j \in S : h[j] = k
    <2>1. Oc(s, s.map[k]) /\ Ky(s, s.map[k]) = k
        BY <1>1 DEF Keyed
    <2>2. \A j \in 1 .. Len(F) : F[j] # s.map[k]
        <3>1. \A x : ~(x \in Taken /\ x \in Spare)
            BY DEF Taken, Spare
        <3> QED
            BY <1>1, <2>1, <3>1 DEF Spares, Oc, Sp
    <2>3. s.map[k] \in 1 .. Len(s.slots)
        BY <2>1 DEF Oc
    <2>4. PICK j \in S : L[j] = s.map[k]
        BY <1>1, <2>2, <2>3 DEF Covered
    <2> QED
        BY <2>1, <2>4
<1>5. h \in [S -> T]
    BY <1>2
<1>6. ExistsBijection(S, T)
    <2>1. h \in Bijection(S, T)
        <3> HIDE DEF h, S, T
        <3> QED
            BY <1>3, <1>4, <1>5, Fun_IsBij
    <2> QED
        BY <2>1 DEF ExistsBijection
<1>7. IsFiniteSet(S) /\ Cardinality(S) = Len(L)
    BY <1>1, CountTo
<1> HIDE DEF h, S, T
<1>8. IsFiniteSet(T) /\ Cardinality(T) = Cardinality(S)
    BY <1>6, <1>7, FS_Bijection
<1> QED
    BY <1>1, <1>7, <1>8 DEF T

\* With nothing free there are as many slots as entries.
LEMMA CountSlots ==
    ASSUME NEW s, NEW L, NEW F, NEW f, Whole(s, L, F, f), Len(F) = 0
    PROVE  Len(s.slots) <= Len(L)
<1> DEFINE S == 1 .. Len(L)
           T == 1 .. Len(s.slots)
<1>1. L \in Seq(Index) /\ Len(L) \in Nat /\ (\A j \in S : Oc(s, L[j])) /\ Covered(s, L, F)
      /\ Len(s.slots) \in Nat
    BY DEF Whole, Chain, Rest, Inner
<1>2. \A m \in T : \E j \in S : L[j] = m
    BY <1>1 DEF Covered
<1>3. L \in [S -> T]
    BY <1>1 DEF Oc
<1>4. L \in Surjection(S, T)
    <2> HIDE DEF S, T
    <2> QED
        BY <1>2, <1>3, Fun_IsSurj
<1>5. IsFiniteSet(S) /\ Cardinality(S) = Len(L) /\ Cardinality(T) = Len(s.slots)
    BY <1>1, CountTo
<1> HIDE DEF S, T
<1>6. Cardinality(T) <= Cardinality(S)
    BY <1>4, <1>5, FS_Surjection
<1> QED
    BY <1>5, <1>6

-----------------------------------------------------------------------------
(***************************************************************************)
(* A new entry                                                             *)
(***************************************************************************)

\* alloc_slot and the map: slot i holds the node and nothing else has changed.
Filed(s, k, node) ==
    [alloc_slot(s, node) EXCEPT
        !.map = [j \in DOMAIN @ \cup {k} |-> IF j = k THEN AllocIndex(s) ELSE @[j]]]

\* The free slots that are left.
Left(F) == IF Len(F) = 0 THEN F ELSE Drop(F, 1)

\* alloc_slot never exceeds the capacity: with nothing free there are as many
\* slots as entries.
LEMMA AllocIs ==
    ASSUME NEW s, NEW L, NEW F, NEW f, Whole(s, L, F, f), Len(L) < Capacity,
           NEW node \in Taken
    PROVE  LET t == alloc_slot(s, node)
               i == AllocIndex(s)
           IN  /\ t \in Inner /\ i \in Index
               /\ t.map = s.map /\ t.head = s.head /\ t.tail = s.tail /\ t.bytes_total = s.bytes_total
               /\ Len(t.slots) <= Capacity /\ Len(t.slots) \in Nat
               /\ i \in 1 .. Len(t.slots) /\ t.slots[i] = node
               /\ 1 .. Len(t.slots) = (1 .. Len(s.slots)) \cup {i}
               /\ \A j \in 1 .. Len(s.slots) : j # i => t.slots[j] = s.slots[j]
               /\ t.free_head = IF Len(Left(F)) = 0 THEN 0 ELSE Left(F)[1]
               /\ Len(F) = 0 => i \notin 1 .. Len(s.slots)
               /\ Len(F) # 0 => i = F[1]
<1> DEFINE t == alloc_slot(s, node)
           i == AllocIndex(s)
<1>1. /\ s \in Inner /\ Len(L) \in Nat /\ Len(s.slots) \in Nat /\ Len(s.slots) <= Capacity
      /\ s.slots \in Seq(Taken \cup Spare) /\ Capacity \in Nat
    BY CacheAssumption DEF Whole, Chain, Rest, Inner
<1>2. /\ F \in Seq(Index) /\ Distinct(F) /\ Len(F) \in Nat
      /\ \A j \in 1 .. Len(F) : Sp(s, F[j]) /\ Nf(s, F[j]) = IF j = Len(F) THEN 0 ELSE F[j + 1]
      /\ s.free_head = IF Len(F) = 0 THEN 0 ELSE F[1]
    BY DEF Whole, Rest, Spares
<1>3. CASE Len(F) = 0
    <2>1. s.free_head = 0 /\ i = Len(s.slots) + 1 /\ Left(F) = F
        BY <1>2, <1>3 DEF AllocIndex, NONE, Left
    <2>2. Len(s.slots) < Capacity
        BY <1>1, <1>3, CountSlots
    <2> DEFINE v == Append(s.slots, node)
    <2>3. t = [s EXCEPT !.slots = v]
        BY <2>1 DEF alloc_slot, NONE
    <2>4. /\ v \in Seq(Taken \cup Spare) /\ Len(v) = Len(s.slots) + 1 /\ v[Len(s.slots) + 1] = node
          /\ \A j \in 1 .. Len(s.slots) : v[j] = s.slots[j]
        BY <1>1
    <2> HIDE DEF v, t, i
    <2>5. /\ t \in Inner /\ t.slots = v
          /\ t.map = s.map /\ t.head = s.head /\ t.tail = s.tail /\ t.bytes_total = s.bytes_total
          /\ t.free_head = s.free_head
        BY <1>1, <2>3, <2>4 DEF Inner
    <2>6. /\ i \in 1 .. Len(t.slots) /\ t.slots[i] = node /\ Len(t.slots) <= Capacity
          /\ i \in Index /\ i \notin 1 .. Len(s.slots) /\ Len(t.slots) \in Nat
          /\ 1 .. Len(t.slots) = (1 .. Len(s.slots)) \cup {i}
        BY <1>1, <2>1, <2>2, <2>4, <2>5 DEF Index
    <2>7. \A j \in 1 .. Len(s.slots) : j # i => t.slots[j] = s.slots[j]
        BY <2>4, <2>5
    <2>8. t.free_head = IF Len(Left(F)) = 0 THEN 0 ELSE Left(F)[1]
        BY <1>3, <2>1, <2>5
    <2> QED
        BY <1>3, <2>5, <2>6, <2>7, <2>8 DEF t, i
<1>4. CASE Len(F) # 0
    <2>1. /\ i = F[1] /\ i \in Index /\ s.free_head = i /\ Sp(s, i)
          /\ Nf(s, i) = IF Len(F) = 1 THEN 0 ELSE F[2]
        <3>1. 1 \in 1 .. Len(F) /\ F[1] \in Index /\ F[1] # 0
            BY <1>2, <1>4 DEF Index
        <3>2. s.free_head = F[1] /\ i = F[1]
            BY <3>1, <1>2, <1>4 DEF AllocIndex, NONE
        <3>3. Sp(s, F[1]) /\ Nf(s, F[1]) = IF 1 = Len(F) THEN 0 ELSE F[1 + 1]
            BY <3>1, <1>2, Zenon
        <3>4. 1 + 1 = 2
            OBVIOUS
        <3> QED
            BY <3>1, <3>2, <3>3, <3>4, Zenon
    <2>2. Left(F) = Drop(F, 1) /\ Len(Drop(F, 1)) = Len(F) - 1 /\ (Len(F) # 1 => Drop(F, 1)[1] = F[2])
        <3>1. 1 \in 1 .. Len(F)
            BY <1>2, <1>4
        <3>2. /\ Len(Drop(F, 1)) = Len(F) - 1
              /\ \A j \in 1 .. Len(F) - 1 : Drop(F, 1)[j] = IF j < 1 THEN F[j] ELSE F[j + 1]
            BY <3>1, <1>2, DropIs
        <3>5. Len(F) \in Nat
            BY <1>2
        <3>3. Len(F) # 1 => 1 \in 1 .. Len(F) - 1
            BY <1>4, <3>5
        <3>4. Len(F) # 1 => Drop(F, 1)[1] = F[2]
            BY <3>2, <3>3
        <3> QED
            BY <1>4, <3>2, <3>4 DEF Left
    <2> DEFINE v == [s.slots EXCEPT ![i] = node]
               h == s.slots[i].next_free
    <2>3. t = [s EXCEPT !.free_head = h, !.slots = v]
        BY <2>1, <1>1 DEF alloc_slot, NONE, Index, Inner
    <2>9. i \in 1 .. Len(s.slots) /\ s.slots[i] \in Spare
        BY <2>1 DEF Sp
    <2> HIDE DEF i
    <2>4. /\ v \in Seq(Taken \cup Spare) /\ Len(v) = Len(s.slots) /\ v[i] = node
          /\ \A j \in 1 .. Len(s.slots) : j # i => v[j] = s.slots[j]
        BY <1>1, <2>9
    <2>10. h \in Nat /\ h = IF Len(F) = 1 THEN 0 ELSE F[2]
        BY <2>1, <2>9 DEF Nf, Spare
    <2> HIDE DEF v, t, h
    <2>5. /\ t \in Inner /\ t.slots = v
          /\ t.map = s.map /\ t.head = s.head /\ t.tail = s.tail /\ t.bytes_total = s.bytes_total
          /\ t.free_head = h
        BY <1>1, <2>3, <2>4, <2>10 DEF Inner
    <2>6. 1 .. Len(t.slots) = (1 .. Len(s.slots)) \cup {i}
        BY <2>4, <2>5, <2>9
    <2>8. t.free_head = IF Len(Left(F)) = 0 THEN 0 ELSE Left(F)[1]
        BY <1>2, <1>4, <2>2, <2>5, <2>10
    <2> QED
        BY <1>1, <1>4, <2>1, <2>4, <2>5, <2>6, <2>8, <2>9 DEF t, i
<1> QED
    BY <1>3, <1>4

\* A struct with another byte count.
WithBytes(s, b) == [s EXCEPT !.bytes_total = b]

LEMMA WithBytesIs ==
    ASSUME NEW s \in Inner, NEW b \in Nat
    PROVE  /\ WithBytes(s, b) \in Inner /\ WithBytes(s, b).bytes_total = b
           /\ WithBytes(s, b).map = s.map /\ WithBytes(s, b).slots = s.slots
           /\ WithBytes(s, b).head = s.head /\ WithBytes(s, b).tail = s.tail
           /\ WithBytes(s, b).free_head = s.free_head
BY DEF WithBytes, Inner

LEMMA RelinkedBytes ==
    ASSUME NEW s, NEW t, Relinked(s, t), NEW b \in Nat
    PROVE  Relinked(WithBytes(s, b), WithBytes(t, b))
<1>1. s \in Inner /\ t \in Inner
    BY DEF Relinked
<1>2. /\ WithBytes(s, b) \in Inner /\ WithBytes(s, b).bytes_total = b
      /\ WithBytes(s, b).map = s.map /\ WithBytes(s, b).slots = s.slots
      /\ WithBytes(s, b).free_head = s.free_head
    BY <1>1, WithBytesIs
<1>3. /\ WithBytes(t, b) \in Inner /\ WithBytes(t, b).bytes_total = b
      /\ WithBytes(t, b).map = t.map /\ WithBytes(t, b).slots = t.slots
      /\ WithBytes(t, b).free_head = t.free_head
    BY <1>1, WithBytesIs
<1> QED
    BY <1>2, <1>3 DEF Relinked

\* Links and ends are those of the slots, not of the byte count or the map.
LEMMA SameChain ==
    ASSUME NEW s, NEW t, NEW L, Chain(s, L), t.head = s.head, t.tail = s.tail,
           \A j \in 1 .. Len(L) : Oc(t, L[j]) /\ t.slots[L[j]] = s.slots[L[j]]
    PROVE  Chain(t, L)
BY DEF Chain, Pv, Nx

\* The slot and the map once the node is filed.
LEMMA FiledIs ==
    ASSUME NEW s, NEW L, NEW F, NEW f, Whole(s, L, F, f), Len(L) < Capacity,
           NEW k \in Key, NEW node \in Taken
    PROVE  LET t == Filed(s, k, node)
               i == AllocIndex(s)
           IN  /\ t \in Inner /\ i \in Index
               /\ DOMAIN t.map = DOMAIN s.map \cup {k} /\ t.map[k] = i
               /\ \A j \in DOMAIN s.map : j # k => t.map[j] = s.map[j]
               /\ t.head = s.head /\ t.tail = s.tail /\ t.bytes_total = s.bytes_total
               /\ Len(t.slots) <= Capacity /\ Len(t.slots) \in Nat
               /\ i \in 1 .. Len(t.slots) /\ t.slots[i] = node
               /\ 1 .. Len(t.slots) = (1 .. Len(s.slots)) \cup {i}
               /\ \A j \in 1 .. Len(s.slots) : j # i => t.slots[j] = s.slots[j]
               /\ t.free_head = IF Len(Left(F)) = 0 THEN 0 ELSE Left(F)[1]
               /\ Len(F) = 0 => i \notin 1 .. Len(s.slots)
               /\ Len(F) # 0 => i = F[1]
<1> DEFINE a == alloc_slot(s, node)
           i == AllocIndex(s)
           m == [j \in DOMAIN a.map \cup {k} |-> IF j = k THEN i ELSE a.map[j]]
           t == Filed(s, k, node)
<1>1. /\ a \in Inner /\ i \in Index
      /\ a.map = s.map /\ a.head = s.head /\ a.tail = s.tail /\ a.bytes_total = s.bytes_total
      /\ Len(a.slots) <= Capacity /\ Len(a.slots) \in Nat
      /\ i \in 1 .. Len(a.slots) /\ a.slots[i] = node
      /\ 1 .. Len(a.slots) = (1 .. Len(s.slots)) \cup {i}
      /\ \A j \in 1 .. Len(s.slots) : j # i => a.slots[j] = s.slots[j]
      /\ a.free_head = IF Len(Left(F)) = 0 THEN 0 ELSE Left(F)[1]
      /\ Len(F) = 0 => i \notin 1 .. Len(s.slots)
      /\ Len(F) # 0 => i = F[1]
    BY AllocIs
<1> HIDE DEF a, i
<1>2. t = [a EXCEPT !.map = m]
    BY <1>1 DEF Filed, Inner, a, i
<1>3. m \in Maps /\ DOMAIN m = DOMAIN s.map \cup {k} /\ m[k] = i /\ \A j \in DOMAIN s.map : j # k => m[j] = s.map[j]
    <2>1. PICK D \in SUBSET Key : a.map \in [D -> Nat]
        BY <1>1 DEF Inner, Maps
    <2>2. m \in [D \cup {k} -> Nat]
        BY <2>1, <1>1 DEF Index
    <2>3. D \cup {k} \in SUBSET Key
        OBVIOUS
    <2>4. m \in Maps
        BY <2>2, <2>3 DEF Maps
    <2> QED
        BY <2>4, <1>1
<1> HIDE DEF m, t
<1>4. /\ t \in Inner /\ t.map = m /\ t.slots = a.slots /\ t.head = a.head /\ t.tail = a.tail
      /\ t.bytes_total = a.bytes_total /\ t.free_head = a.free_head
    BY <1>1, <1>2, <1>3 DEF Inner
<1> QED
    BY <1>1, <1>3, <1>4 DEF t, i

\* The struct once alloc_slot, the map, push_head and the byte count are done.
Added(s, k, node) ==
    LET t == push_head(Filed(s, k, node), AllocIndex(s)) IN WithBytes(t, t.bytes_total + node.bytes)

\* The rest of the free list, place by place.
LEMMA LeftIs ==
    ASSUME NEW F \in Seq(Index), Distinct(F)
    PROVE  /\ Left(F) \in Seq(Index) /\ Distinct(Left(F)) /\ Len(Left(F)) \in Nat
           /\ Len(F) = 0 => Left(F) = F
           /\ Len(F) # 0 => /\ Len(Left(F)) = Len(F) - 1
                            /\ \A j \in 1 .. Len(Left(F)) : Left(F)[j] = F[j + 1] /\ F[j + 1] # F[1]
<1>1. Len(F) \in Nat
    OBVIOUS
<1>2. CASE Len(F) = 0
    BY <1>2 DEF Left
<1>3. CASE Len(F) # 0
    <2>1. 1 \in 1 .. Len(F)
        BY <1>1, <1>3
    <2>2. /\ Drop(F, 1) \in Seq(Index) /\ Len(Drop(F, 1)) = Len(F) - 1
          /\ \A j \in 1 .. Len(F) - 1 : Drop(F, 1)[j] = IF j < 1 THEN F[j] ELSE F[j + 1]
        BY <2>1, DropIs
    <2>3. Distinct(Drop(F, 1))
        BY <2>1, DropDistinct
    <2>4. Left(F) = Drop(F, 1)
        BY <1>3 DEF Left
    <2>5. ASSUME NEW j \in 1 .. Len(F) - 1 PROVE Drop(F, 1)[j] = F[j + 1] /\ F[j + 1] # F[1]
        <3>1. ~(j < 1) /\ j + 1 \in 1 .. Len(F) /\ j + 1 # 1
            BY <1>1
        <3>2. Drop(F, 1)[j] = F[j + 1]
            BY <3>1, <2>2
        <3>3. F[j + 1] # F[1]
            BY <3>1, <2>1 DEF Distinct
        <3> QED
            BY <3>2, <3>3
    <2> QED
        BY <1>3, <2>2, <2>3, <2>4, <2>5
<1> QED
    BY <1>2, <1>3

\* A new entry is in front of the others, in the map and in the byte count.
LEMMA AddWhole ==
    ASSUME NEW s, NEW L, NEW F, NEW f, Whole(s, L, F, f), Len(L) < Capacity,
           NEW k \in Key, k \notin DOMAIN s.map, NEW node \in Taken, node.key = k, Data(node) \in EntrySet
    PROVE  \E M, G, g : /\ Whole(Added(s, k, node), M, G, g)
                        /\ Entries(Added(s, k, node), M) = Push(Data(node), Entries(s, L))
<1> DEFINE i == AllocIndex(s)
           u == Filed(s, k, node)
           M == Push(i, L)
           G == Left(F)
           E == Entries(s, L)
           g == PushSum(E, f, Data(node))
           b == s.bytes_total + node.bytes
           v == WithBytes(u, b)
           w == push_head(u, i)
           t == Added(s, k, node)
<1>1. s \in Inner /\ Chain(s, L) /\ Rest(s, L, F, f) /\ L \in Seq(Index) /\ Distinct(L) /\ Len(L) \in Nat
    BY DEF Whole, Chain
<1>2. /\ \A j \in 1 .. Len(L) : Oc(s, L[j])
      /\ Spares(s, F) /\ Covered(s, L, F) /\ Keyed(s)
      /\ E \in Seq(EntrySet) /\ Sums(E, f) /\ s.bytes_total = f[Len(L)]
    BY <1>1 DEF Rest
<1>3. /\ u \in Inner /\ i \in Index
      /\ DOMAIN u.map = DOMAIN s.map \cup {k} /\ u.map[k] = i
      /\ \A j \in DOMAIN s.map : j # k => u.map[j] = s.map[j]
      /\ u.head = s.head /\ u.tail = s.tail /\ u.bytes_total = s.bytes_total
      /\ Len(u.slots) <= Capacity /\ Len(u.slots) \in Nat
      /\ i \in 1 .. Len(u.slots) /\ u.slots[i] = node
      /\ 1 .. Len(u.slots) = (1 .. Len(s.slots)) \cup {i}
      /\ \A j \in 1 .. Len(s.slots) : j # i => u.slots[j] = s.slots[j]
      /\ u.free_head = IF Len(Left(F)) = 0 THEN 0 ELSE Left(F)[1]
      /\ Len(F) = 0 => i \notin 1 .. Len(s.slots)
      /\ Len(F) # 0 => i = F[1]
    BY FiledIs
<1>4. /\ F \in Seq(Index) /\ Distinct(F) /\ Len(F) \in Nat
      /\ \A j \in 1 .. Len(F) : Sp(s, F[j]) /\ Nf(s, F[j]) = IF j = Len(F) THEN 0 ELSE F[j + 1]
    BY <1>2 DEF Spares
<1>5. /\ G \in Seq(Index) /\ Distinct(G) /\ Len(G) \in Nat
      /\ Len(F) = 0 => G = F
      /\ Len(F) # 0 => /\ Len(G) = Len(F) - 1
                       /\ \A j \in 1 .. Len(G) : G[j] = F[j + 1] /\ F[j + 1] # F[1]
    BY <1>4, LeftIs
<1>20. node.bytes \in Nat /\ Data(node).bytes = node.bytes /\ s.bytes_total \in Nat /\ b \in Nat
    BY <1>1 DEF Taken, Data, Inner
<1> HIDE DEF i, u, G, E, g, b
<1>6. \A x : ~(x \in Taken /\ x \in Spare)
    BY DEF Taken, Spare
<1>7. ~Oc(s, i)
    <2>1. CASE Len(F) = 0
        BY <2>1, <1>3 DEF Oc
    <2>2. CASE Len(F) # 0
        <3>1. 1 \in 1 .. Len(F) /\ i = F[1]
            BY <2>2, <1>3, <1>4
        <3>2. Sp(s, i)
            BY <3>1, <1>4
        <3> QED
            BY <3>2, <1>6 DEF Sp, Oc
    <2> QED
        BY <2>1, <2>2
<1>8. \A j : Oc(s, j) => j # i /\ Oc(u, j) /\ u.slots[j] = s.slots[j]
    BY <1>3, <1>7 DEF Oc
<1>9. \A j : Oc(u, j) => j = i \/ Oc(s, j)
    BY <1>3 DEF Oc
<1>10. Oc(u, i) /\ Ky(u, i) = k /\ Data(u.slots[i]) = Data(node)
    BY <1>3 DEF Oc, Ky
<1>11. \A j : Sp(s, j) /\ j # i => Sp(u, j) /\ Nf(u, j) = Nf(s, j)
    BY <1>3 DEF Sp, Nf
<1>12. Chain(u, L)
    BY <1>1, <1>2, <1>3, <1>8, SameChain
<1>13. \A j \in 1 .. Len(L) : L[j] # i
    BY <1>2, <1>7
<1>14. Relinked(u, w) /\ Chain(w, M)
    BY <1>3, <1>10, <1>12, <1>13, PushChain
<1>15. t = WithBytes(w, b)
    <2>1. w.bytes_total = u.bytes_total
        BY <1>14 DEF Relinked
    <2> QED
        BY <2>1, <1>3 DEF Added, i, u, b
<1>16. Relinked(v, t)
    BY <1>14, <1>15, <1>20, RelinkedBytes
<1>17. /\ v \in Inner /\ v.bytes_total = b
       /\ v.map = u.map /\ v.slots = u.slots
       /\ v.free_head = u.free_head
    BY <1>3, <1>20, WithBytesIs
<1>18. Chain(t, M)
    <2>1. w \in Inner
        BY <1>14 DEF Relinked
    <2> HIDE DEF t, w, M
    <2>2. t.slots = w.slots /\ t.head = w.head /\ t.tail = w.tail
        BY <2>1, <1>15, <1>20, WithBytesIs
    <2>3. \A j : Oc(w, j) => Oc(t, j)
        BY <2>2 DEF Oc
    <2>4. \A j \in 1 .. Len(M) : Oc(w, M[j])
        BY <1>14 DEF Chain
    <2> QED
        BY <2>2, <2>3, <2>4, <1>14, SameChain
<1> HIDE DEF v, t, w
<1>19. /\ M \in Seq(Index) /\ Len(M) = Len(L) + 1
       /\ \A j \in 1 .. Len(L) + 1 : M[j] = IF j = 1 THEN i ELSE L[j - 1]
    BY <1>1, <1>3, PushIs
<1>21. Entries(v, M) = Push(Data(node), E)
    <2>1. Entries(v, M) = Push(Data(v.slots[i]), Entries(v, L))
        BY <1>1, <1>3, EntriesPush
    <2>2. \A j \in 1 .. Len(L) : Data(v.slots[L[j]]) = Data(s.slots[L[j]])
        BY <1>2, <1>8, <1>17
    <2>3. Entries(v, L) = E
        BY <1>1, <2>2, SameEntries DEF E
    <2> QED
        BY <2>1, <2>3, <1>10, <1>17
<1>22. Push(Data(node), E) \in Seq(EntrySet) /\ Len(E) = Len(L)
    BY <1>1, <1>2, PushIs, EntriesIs DEF E
<1>23. Sums(Push(Data(node), E), g) /\ g[Len(L) + 1] = b
    <2> DEFINE x == Data(node)
    <2>1. E \in Seq(EntrySet) /\ x \in EntrySet /\ Sums(E, f)
        BY <1>2
    <2>2. g = PushSum(E, f, x) /\ b = s.bytes_total + node.bytes
        BY DEF g, b
    <2> HIDE DEF x
    <2>3. Sums(Push(x, E), PushSum(E, f, x)) /\ PushSum(E, f, x)[Len(E) + 1] = f[Len(E)] + x.bytes
        BY <2>1, SumsPush
    <2> QED
        BY <2>2, <2>3, <1>2, <1>20, <1>22 DEF x
<1> HIDE DEF M
<1>24. Spares(v, G)
    <2>1. ASSUME NEW j \in 1 .. Len(G)
          PROVE  Sp(v, G[j]) /\ Nf(v, G[j]) = IF j = Len(G) THEN 0 ELSE G[j + 1]
        <3>0. \A m : Sp(s, m) /\ m # i => Sp(v, m) /\ Nf(v, m) = Nf(s, m)
            BY <1>11, <1>17 DEF Sp, Nf
        <3>1. CASE Len(F) = 0
            BY <3>1, <1>5
        <3>2. CASE Len(F) # 0
            <4>1. /\ j + 1 \in 1 .. Len(F) /\ G[j] = F[j + 1] /\ F[j + 1] # i
                  /\ (j = Len(G) <=> j + 1 = Len(F))
                BY <3>2, <1>3, <1>4, <1>5
            <4>2. j # Len(G) => G[j + 1] = F[j + 1 + 1]
                <5>1. j # Len(G) => j + 1 \in 1 .. Len(G)
                    BY <1>5
                <5> QED
                    BY <5>1, <3>2, <1>5
            <4>3. Sp(s, F[j + 1]) /\ Nf(s, F[j + 1]) = IF j + 1 = Len(F) THEN 0 ELSE F[j + 1 + 1]
                BY <4>1, <1>4
            <4> QED
                BY <3>0, <4>1, <4>2, <4>3
        <3> QED
            BY <3>1, <3>2
    <2>2. v.free_head = IF Len(G) = 0 THEN 0 ELSE G[1]
        BY <1>3, <1>17 DEF G
    <2> QED
        BY <2>1, <2>2, <1>5 DEF Spares
<1>25. Covered(v, M, G)
    <2> SUFFICES ASSUME NEW m \in 1 .. Len(u.slots)
                 PROVE  (\E j \in 1 .. Len(M) : M[j] = m) \/ \E j \in 1 .. Len(G) : G[j] = m
        BY <1>17 DEF Covered
    <2>1. CASE m = i
        <3>1. 1 \in 1 .. Len(M) /\ M[1] = i
            BY <1>1, <1>19
        <3> QED
            BY <2>1, <3>1
    <2>2. CASE m # i /\ \E j \in 1 .. Len(L) : L[j] = m
        <3>1. PICK q \in 1 .. Len(L) : L[q] = m
            BY <2>2
        <3>2. q + 1 \in 1 .. Len(M) /\ M[q + 1] = m
            BY <3>1, <1>1, <1>19
        <3> QED
            BY <3>2
    <2>3. CASE m # i /\ \E j \in 1 .. Len(F) : F[j] = m
        <3>1. PICK q \in 1 .. Len(F) : F[q] = m
            BY <2>3
        <3>2. Len(F) # 0 /\ q # 1
            BY <3>1, <2>3, <1>3, <1>4
        <3>3. q - 1 \in 1 .. Len(G) /\ q - 1 + 1 = q
            BY <3>2, <1>4, <1>5
        <3>4. G[q - 1] = m
            BY <3>1, <3>2, <3>3, <1>5
        <3> QED
            BY <3>3, <3>4
    <2>4. m = i \/ m \in 1 .. Len(s.slots)
        BY <1>3
    <2> QED
        BY <2>1, <2>2, <2>3, <2>4, <1>2 DEF Covered
<1>26. Keyed(v)
    <2>1. \A j : (Oc(v, j) <=> Oc(u, j)) /\ Ky(v, j) = Ky(u, j)
        BY <1>17 DEF Oc, Ky
    <2>2. \A j : Oc(s, j) => Ky(u, j) = Ky(s, j)
        BY <1>8 DEF Ky
    <2>3. ASSUME NEW j, Oc(u, j) PROVE Ky(u, j) \in DOMAIN u.map /\ u.map[Ky(u, j)] = j
        <3>1. CASE j = i
            BY <3>1, <1>3, <1>10
        <3>2. CASE Oc(s, j)
            BY <3>2, <2>2, <1>2, <1>3 DEF Keyed
        <3> QED
            BY <2>3, <3>1, <3>2, <1>9
    <2>4. ASSUME NEW c \in DOMAIN u.map PROVE Oc(u, u.map[c]) /\ Ky(u, u.map[c]) = c
        <3>1. CASE c = k
            BY <3>1, <1>3, <1>10
        <3>2. CASE c # k
            BY <3>2, <2>2, <1>2, <1>3, <1>8 DEF Keyed
        <3> QED
            BY <3>1, <3>2
    <2> QED
        BY <2>1, <2>3, <2>4, <1>17 DEF Keyed
<1>27. Rest(v, M, G, g)
    <2>1. ASSUME NEW j \in 1 .. Len(M) PROVE Oc(v, M[j])
        <3>1. \A m : Oc(u, m) => Oc(v, m)
            BY <1>17 DEF Oc
        <3>2. CASE j = 1
            BY <3>1, <3>2, <1>1, <1>10, <1>19
        <3>3. CASE j # 1
            <4>1. j - 1 \in 1 .. Len(L) /\ M[j] = L[j - 1]
                BY <3>3, <1>1, <1>19
            <4> QED
                BY <3>1, <4>1, <1>2, <1>8
        <3> QED
            BY <3>2, <3>3
    <2>2. Entries(v, M) \in Seq(EntrySet) /\ Sums(Entries(v, M), g) /\ v.bytes_total = g[Len(M)]
        BY <1>17, <1>19, <1>21, <1>22, <1>23
    <2> QED
        BY <2>1, <2>2, <1>3, <1>17, <1>19, <1>24, <1>25, <1>26 DEF Rest
<1>28. Rest(t, M, G, g) /\ Entries(t, M) = Entries(v, M) /\ t \in Inner
    BY <1>16, <1>27, RelinkedRest DEF Relinked
<1>29. Whole(t, M, G, g) /\ Entries(t, M) = Push(Data(node), E)
    BY <1>18, <1>21, <1>28 DEF Whole
<1> QED
    BY <1>29 DEF t, E
-----------------------------------------------------------------------------
(***************************************************************************)
(* An entry replaced where it is                                           *)
(***************************************************************************)

Swap(E, p, x) == [j \in 1 .. Len(E) |-> IF j = p THEN x ELSE E[j]]
SwapSum(E, f, p, x) ==
    [j \in 0 .. Len(E) |-> IF j < p THEN f[j] ELSE f[j] - E[p].bytes + x.bytes]

\* A sequence with x at place p, and its sums.
LEMMA SwapIs ==
    ASSUME NEW T, NEW E \in Seq(T), NEW p \in 1 .. Len(E), NEW x \in T
    PROVE  /\ Swap(E, p, x) \in Seq(T) /\ Len(Swap(E, p, x)) = Len(E)
           /\ \A j \in 1 .. Len(E) : Swap(E, p, x)[j] = IF j = p THEN x ELSE E[j]
<1>1. Len(E) \in Nat /\ \A j \in 1 .. Len(E) : E[j] \in T
    OBVIOUS
<1> QED
    BY <1>1 DEF Swap

LEMMA SumsSwap ==
    ASSUME NEW E \in Seq(EntrySet), NEW f, Sums(E, f), NEW p \in 1 .. Len(E), NEW x \in EntrySet
    PROVE  /\ Sums(Swap(E, p, x), SwapSum(E, f, p, x))
           /\ SwapSum(E, f, p, x)[Len(E)] = f[Len(E)] - E[p].bytes + x.bytes
           /\ f[Len(E)] >= E[p].bytes
<1> DEFINE n == Len(E)
           D == Swap(E, p, x)
           g == SwapSum(E, f, p, x)
           v == E[p].bytes
           w == x.bytes
<1>1. n \in Nat /\ p \in 1 .. n /\ w \in Nat /\ v \in Nat /\ \A j \in 1 .. n : E[j].bytes \in Nat
    <2>1. n \in Nat /\ p \in 1 .. n /\ \A j \in 1 .. n : E[j] \in EntrySet
        OBVIOUS
    <2>2. \A e \in EntrySet : e.bytes \in Nat
        BY DEF EntrySet
    <2> QED
        BY <2>1, <2>2
<1>2. Len(D) = n /\ \A j \in 1 .. n : D[j] = IF j = p THEN x ELSE E[j]
    <2>1. /\ Swap(E, p, x) \in Seq(EntrySet) /\ Len(Swap(E, p, x)) = Len(E)
          /\ \A j \in 1 .. Len(E) : Swap(E, p, x)[j] = IF j = p THEN x ELSE E[j]
        BY SwapIs
    <2> QED
        BY <2>1
<1>3. /\ f \in [0 .. n -> Nat] /\ f[0] = 0
      /\ \A j \in 1 .. n : f[j] = f[j - 1] + E[j].bytes
      /\ \A i, j \in 0 .. n : i <= j => f[i] <= f[j]
    BY DEF Sums
<1>4. g = [j \in 0 .. n |-> IF j < p THEN f[j] ELSE f[j] - v + w]
    BY DEF SwapSum
<1>5. E[p].bytes = v /\ x.bytes = w
    OBVIOUS
<1> HIDE DEF n, D, g, v, w
<1>6. \A j \in 0 .. n : f[j] \in Nat
    BY <1>3
<1>7. f[p] = f[p - 1] + v /\ f[p - 1] \in Nat /\ \A j \in p .. n : f[p] <= f[j]
    BY <1>1, <1>3, <1>5, <1>6
<1>8. \A j \in 0 .. n : g[j] = IF j < p THEN f[j] ELSE f[j] - v + w
    BY <1>4
<1>9. ASSUME NEW j \in p .. n PROVE f[j] \in Nat /\ f[j] - v \in Nat
    <2>1. f[j] \in Nat /\ f[p] <= f[j]
        BY <1>1, <1>6, <1>7
    <2> QED
        BY <2>1, <1>1, <1>7
<1>10. ASSUME NEW j \in 0 .. n PROVE g[j] \in Nat
    <2>1. CASE j < p
        BY <2>1, <1>6, <1>8
    <2>2. CASE ~(j < p)
        <3>1. f[j] - v \in Nat
            BY <2>2, <1>1, <1>9
        <3> QED
            BY <2>2, <3>1, <1>1, <1>8
    <2> QED
        BY <2>1, <2>2
<1>11. g \in [0 .. n -> Nat]
    BY <1>4, <1>10
<1>12. ASSUME NEW j \in 1 .. n PROVE g[j] = g[j - 1] + D[j].bytes
    <2>0. /\ f[j] = f[j - 1] + E[j].bytes /\ f[j] \in Nat /\ f[j - 1] \in Nat /\ E[j].bytes \in Nat
          /\ j \in 0 .. n /\ j - 1 \in 0 .. n
        BY <1>1, <1>3, <1>6
    <2>1. CASE j < p
        <3>1. g[j] = f[j] /\ g[j - 1] = f[j - 1] /\ D[j] = E[j]
            BY <2>0, <2>1, <1>1, <1>2, <1>8
        <3> QED
            BY <2>0, <3>1
    <2>2. CASE j = p
        <3>1. g[j] = f[j] - v + w /\ g[j - 1] = f[j - 1] /\ D[j] = x /\ E[j].bytes = v
            BY <2>0, <2>2, <1>1, <1>2, <1>5, <1>8
        <3> QED
            BY <2>0, <3>1, <1>1, <1>5
    <2>3. CASE j > p
        <3>1. g[j] = f[j] - v + w /\ g[j - 1] = f[j - 1] - v + w /\ D[j] = E[j]
            BY <2>0, <2>3, <1>1, <1>2, <1>8
        <3>2. \A a, c, d \in Nat : a = c + d => a - v + w = c - v + w + d
            BY <1>1
        <3>3. f[j] - v + w = f[j - 1] - v + w + E[j].bytes
            BY <2>0, <3>2, Zenon
        <3> QED
            BY <3>1, <3>3
    <2> QED
        BY <2>1, <2>2, <2>3, <1>1
<1>13. ASSUME NEW i \in 0 .. n, NEW j \in 0 .. n, i <= j PROVE g[i] <= g[j]
    <2>0. f[i] \in Nat /\ f[j] \in Nat /\ f[i] <= f[j]
        BY <1>3, <1>6, <1>13
    <2>1. CASE j < p
        <3>1. g[j] = f[j] /\ g[i] = f[i]
            BY <2>1, <1>13, <1>1, <1>8
        <3> QED
            BY <2>0, <3>1
    <2>2. CASE ~(i < p)
        <3>1. g[j] = f[j] - v + w /\ g[i] = f[i] - v + w
            BY <2>2, <1>13, <1>1, <1>8
        <3> QED
            BY <2>0, <3>1, <1>1
    <2>3. CASE i < p /\ ~(j < p)
        <3>1. g[j] = f[j] - v + w /\ g[i] = f[i]
            BY <2>3, <1>8
        <3>2. f[i] <= f[p - 1] /\ f[p] <= f[j]
            <4>1. p - 1 \in 0 .. n /\ i <= p - 1 /\ j \in p .. n
                BY <2>3, <1>1
            <4> QED
                BY <4>1, <1>3, <1>7
        <3>3. f[i] <= f[j] - v + w
            <4>1. \A a, c, d, e \in Nat : a <= c /\ d = c + v /\ d <= e => a <= e - v + w
                BY <1>1
            <4>2. f[p] \in Nat
                BY <1>1, <1>6
            <4> QED
                BY <4>1, <4>2, <2>0, <3>2, <1>7
        <3> QED
            BY <3>1, <3>3
    <2> QED
        BY <2>1, <2>2, <2>3
<1>14. g[0] = 0 /\ g[n] = f[n] - v + w
    BY <1>1, <1>3, <1>8
<1>15. f[n] >= v
    <2>1. n \in p .. n
        BY <1>1
    <2>2. f[n] - v \in Nat /\ f[n] \in Nat
        BY <2>1, <1>9
    <2> QED
        BY <2>2, <1>1
<1>16. Sums(D, g)
    BY <1>2, <1>11, <1>12, <1>13, <1>14 DEF Sums
<1> QED
    BY <1>14, <1>15, <1>16 DEF n, D, g, v, w

\* The struct with the node in slot i, linked as the entry it replaces.
InPlace(node, old) == [node EXCEPT !.prev = old.prev, !.next = old.next]
Replaced(s, i, node) ==
    [s EXCEPT !.slots[i] = InPlace(node, s.slots[i]),
              !.bytes_total = @ - s.slots[i].bytes + node.bytes]

\* What replacing writes, field by field.
LEMMA ReplacedIs ==
    ASSUME NEW s \in Inner, NEW i, Oc(s, i), NEW node \in Taken, s.bytes_total >= s.slots[i].bytes
    PROVE  LET t == Replaced(s, i, node)
           IN  /\ t \in Inner /\ t.map = s.map /\ t.head = s.head /\ t.tail = s.tail
               /\ t.free_head = s.free_head
               /\ t.bytes_total = s.bytes_total - s.slots[i].bytes + node.bytes
               /\ Len(t.slots) = Len(s.slots)
               /\ \A j \in 1 .. Len(s.slots) : j # i => t.slots[j] = s.slots[j]
               /\ t.slots[i] \in Taken /\ Data(t.slots[i]) = Data(node)
               /\ Pv(t, i) = Pv(s, i) /\ Nx(t, i) = Nx(s, i) /\ Ky(t, i) = node.key
<1> DEFINE t == Replaced(s, i, node)
           e == InPlace(node, s.slots[i])
           v == [s.slots EXCEPT ![i] = e]
           b == s.bytes_total - s.slots[i].bytes + node.bytes
<1>1. /\ s.slots \in Seq(Taken \cup Spare) /\ i \in 1 .. Len(s.slots) /\ s.slots[i] \in Taken
    BY DEF Inner, Oc
<1>2. /\ e \in Taken /\ e.prev = s.slots[i].prev /\ e.next = s.slots[i].next /\ e.key = node.key
      /\ Data(e) = Data(node)
    BY <1>1 DEF InPlace, Taken, Data
<1>3. b \in Nat
    <2>1. s.bytes_total \in Nat /\ s.slots[i].bytes \in Nat /\ node.bytes \in Nat
        BY <1>1 DEF Inner, Taken
    <2>2. \A a, c, d \in Nat : a >= c => a - c + d \in Nat
        OBVIOUS
    <2> QED
        BY <2>1, <2>2
<1>4. t = [s EXCEPT !.slots = v, !.bytes_total = b]
    BY DEF Replaced, Inner
<1> HIDE DEF e
<1>5. /\ v \in Seq(Taken \cup Spare) /\ Len(v) = Len(s.slots) /\ v[i] = e
      /\ \A j \in 1 .. Len(s.slots) : j # i => v[j] = s.slots[j]
    BY <1>1, <1>2
<1> HIDE DEF v, t, b
<1>6. /\ t \in Inner /\ t.map = s.map /\ t.head = s.head /\ t.tail = s.tail
      /\ t.free_head = s.free_head /\ t.bytes_total = b /\ t.slots = v
    BY <1>3, <1>4, <1>5 DEF Inner
<1>7. Pv(t, i) = Pv(s, i) /\ Nx(t, i) = Nx(s, i) /\ Ky(t, i) = node.key
    BY <1>2, <1>5, <1>6 DEF Pv, Nx, Ky
<1> QED
    BY <1>2, <1>5, <1>6, <1>7 DEF t, b

\* Replacing changes one entry and its share of the byte count.
LEMMA ReplaceWhole ==
    ASSUME NEW s, NEW L, NEW F, NEW f, Whole(s, L, F, f), NEW p \in 1 .. Len(L),
           NEW node \in Taken, node.key = Ky(s, L[p]), Data(node) \in EntrySet
    PROVE  /\ Whole(Replaced(s, L[p], node), L, F, SwapSum(Entries(s, L), f, p, Data(node)))
           /\ Entries(Replaced(s, L[p], node), L) = Swap(Entries(s, L), p, Data(node))
<1> DEFINE i == L[p]
           t == Replaced(s, i, node)
           E == Entries(s, L)
           x == Data(node)
           g == SwapSum(E, f, p, x)
<1>1. s \in Inner /\ Chain(s, L) /\ Rest(s, L, F, f) /\ L \in Seq(Index) /\ Distinct(L) /\ Len(L) \in Nat
    BY DEF Whole, Chain
<1>2. /\ \A j \in 1 .. Len(L) : Oc(s, L[j])
      /\ Spares(s, F) /\ Covered(s, L, F) /\ Keyed(s) /\ Len(s.slots) <= Capacity
      /\ E \in Seq(EntrySet) /\ Sums(E, f) /\ s.bytes_total = f[Len(L)]
    BY <1>1 DEF Rest
<1>3. Len(E) = Len(L) /\ \A j \in 1 .. Len(L) : E[j] = Data(s.slots[L[j]])
    BY <1>1, EntriesIs
<1>4. x \in EntrySet /\ x.bytes = node.bytes /\ E[p].bytes = s.slots[i].bytes
    <2>1. \A e : Data(e).bytes = e.bytes
        BY DEF Data
    <2>2. E[p] = Data(s.slots[i])
        BY <1>3
    <2> QED
        BY <2>1, <2>2
<1>13. Oc(s, i) /\ i = L[p] /\ node.key = Ky(s, i)
    BY <1>2
<1> HIDE DEF E, x
<1>5. /\ Sums(Swap(E, p, x), g) /\ g[Len(L)] = f[Len(L)] - E[p].bytes + x.bytes
      /\ f[Len(L)] >= E[p].bytes
    BY <1>2, <1>3, <1>4, SumsSwap
<1>6. Swap(E, p, x) \in Seq(EntrySet) /\ Len(Swap(E, p, x)) = Len(L)
      /\ \A j \in 1 .. Len(L) : Swap(E, p, x)[j] = IF j = p THEN x ELSE E[j]
    BY <1>2, <1>3, <1>4, SwapIs
<1> HIDE DEF g, i
<1>7. /\ t \in Inner /\ t.map = s.map /\ t.head = s.head /\ t.tail = s.tail
      /\ t.free_head = s.free_head
      /\ t.bytes_total = s.bytes_total - s.slots[i].bytes + node.bytes
      /\ Len(t.slots) = Len(s.slots)
      /\ \A j \in 1 .. Len(s.slots) : j # i => t.slots[j] = s.slots[j]
      /\ t.slots[i] \in Taken /\ Data(t.slots[i]) = Data(node)
      /\ Pv(t, i) = Pv(s, i) /\ Nx(t, i) = Nx(s, i) /\ Ky(t, i) = node.key
    BY <1>1, <1>2, <1>4, <1>5, <1>13, ReplacedIs
<1> HIDE DEF t
<1>8. /\ \A j : Oc(t, j) <=> Oc(s, j)
      /\ \A j : Oc(s, j) => Pv(t, j) = Pv(s, j) /\ Nx(t, j) = Nx(s, j) /\ Ky(t, j) = Ky(s, j)
    BY <1>7, <1>13 DEF Oc, Pv, Nx, Ky
<1>9. \A j : Sp(s, j) => Sp(t, j) /\ Nf(t, j) = Nf(s, j)
    <2>1. \A y : ~(y \in Taken /\ y \in Spare)
        BY DEF Taken, Spare
    <2>2. ~Sp(s, i)
        BY <2>1, <1>13 DEF Sp, Oc
    <2> QED
        BY <2>2, <1>7 DEF Sp, Nf
<1>10. Chain(t, L)
    BY <1>1, <1>7, <1>8 DEF Chain
<1>11. Spares(t, F) /\ Covered(t, L, F) /\ Keyed(t)
    <2>1. Spares(t, F)
        BY <1>2, <1>7, <1>9 DEF Spares
    <2>2. Covered(t, L, F)
        BY <1>2, <1>7 DEF Covered
    <2>3. Keyed(t)
        BY <1>2, <1>7, <1>8 DEF Keyed
    <2> QED
        BY <2>1, <2>2, <2>3
<1>12. Entries(t, L) = Swap(E, p, x)
    <2>1. ASSUME NEW j \in 1 .. Len(L) PROVE Data(t.slots[L[j]]) = IF j = p THEN x ELSE E[j]
        <3>1. CASE j = p
            BY <3>1, <1>7, <1>13 DEF x
        <3>2. CASE j # p
            <4>1. L[j] # i
                BY <3>2, <1>1, <1>13 DEF Distinct
            <4>2. t.slots[L[j]] = s.slots[L[j]]
                BY <4>1, <1>2, <1>7 DEF Oc
            <4> QED
                BY <4>2, <3>2, <1>3
        <3> QED
            BY <3>1, <3>2
    <2>2. Entries(t, L) = [j \in 1 .. Len(L) |-> Data(t.slots[L[j]])]
        BY DEF Entries
    <2>3. Swap(E, p, x) = [j \in 1 .. Len(L) |-> IF j = p THEN x ELSE E[j]]
        BY <1>3 DEF Swap
    <2> QED
        BY <2>1, <2>2, <2>3
<1>14. t.bytes_total = g[Len(L)]
    BY <1>2, <1>4, <1>5, <1>7
<1>15. Rest(t, L, F, g)
    BY <1>1, <1>2, <1>5, <1>6, <1>7, <1>8, <1>11, <1>12, <1>14 DEF Rest
<1>16. Whole(t, L, F, g) /\ Entries(t, L) = Swap(E, p, x)
    BY <1>7, <1>10, <1>12, <1>15 DEF Whole
<1> QED
    BY <1>16 DEF t, g, i, E, x
-----------------------------------------------------------------------------
(***************************************************************************)
(* Eviction                                                                *)
(***************************************************************************)

First(E, c) == [j \in 1 .. c |-> E[j]]
FirstSums(f, c) == [j \in 0 .. c |-> f[j]]

\* Prefixes.
LEMMA FirstIs ==
    ASSUME NEW T, NEW E \in Seq(T), NEW c \in 0 .. Len(E)
    PROVE  /\ First(E, c) \in Seq(T) /\ Len(First(E, c)) = c
           /\ \A j \in 1 .. c : First(E, c)[j] = E[j]
<1>1. Len(E) \in Nat /\ c \in Nat /\ \A j \in 1 .. c : E[j] \in T
    OBVIOUS
<1> QED
    BY <1>1 DEF First

LEMMA FirstAll ==
    ASSUME NEW T, NEW E \in Seq(T), NEW f \in [0 .. Len(E) -> Nat]
    PROVE  First(E, Len(E)) = E /\ FirstSums(f, Len(E)) = f
BY DEF First, FirstSums

LEMMA FirstFirst ==
    ASSUME NEW E, NEW f, NEW c \in Nat \ {0}
    PROVE  /\ First(First(E, c), c - 1) = First(E, c - 1)
           /\ FirstSums(FirstSums(f, c), c - 1) = FirstSums(f, c - 1)
BY DEF First, FirstSums

LEMMA FirstDrop ==
    ASSUME NEW T, NEW E \in Seq(T), Len(E) # 0
    PROVE  Drop(E, Len(E)) = First(E, Len(E) - 1)
<1>1. Len(E) \in Nat
    OBVIOUS
<1> QED
    BY <1>1 DEF Drop, First

\* evict_tail on a list that is not empty.
LEMMA EvictTail ==
    ASSUME NEW s, NEW L, NEW F, NEW f, Whole(s, L, F, f), Len(L) # 0
    PROVE  /\ \E G : Whole(evict_tail(s), First(L, Len(L) - 1), G, FirstSums(f, Len(L) - 1))
           /\ Entries(evict_tail(s), First(L, Len(L) - 1)) = First(Entries(s, L), Len(L) - 1)
<1> DEFINE n == Len(L)
           E == Entries(s, L)
           t == evict_tail(s)
<1>1. L \in Seq(Index) /\ n \in Nat /\ n \in 1 .. n /\ s.tail = L[n] /\ E \in Seq(EntrySet)
    BY DEF Whole, Chain, Rest
<1>2. L[n] # 0
    BY <1>1 DEF Index
<1>3. t = remove(s, L[n])
    BY <1>1, <1>2 DEF evict_tail, NONE
<1>4. Len(E) = n
    BY <1>1, EntriesIs
<1>5. DropSum(E, f, n) = FirstSums(f, n - 1)
    <2>1. DropSum(E, f, n) = [j \in 0 .. n - 1 |-> IF j < n THEN f[j] ELSE f[j + 1] - E[n].bytes]
        BY <1>4 DEF DropSum
    <2> HIDE DEF n, E
    <2> QED
        BY <2>1, <1>1 DEF FirstSums
<1>6. Drop(L, n) = First(L, n - 1)
    BY <1>1, FirstDrop
<1>7. Drop(E, n) = First(E, n - 1)
    <2> HIDE DEF E
    <2> QED
        BY <1>1, <1>4, FirstDrop
<1>8. /\ Whole(remove(s, L[n]), Drop(L, n), Push(L[n], F), DropSum(E, f, n))
      /\ Entries(remove(s, L[n]), Drop(L, n)) = Drop(E, n)
    BY <1>1, RemoveWhole
<1> HIDE DEF n, E, t
<1>9. Whole(t, First(L, n - 1), Push(L[n], F), FirstSums(f, n - 1)) /\ Entries(t, First(L, n - 1)) = First(E, n - 1)
    BY <1>3, <1>5, <1>6, <1>7, <1>8, Zenon
<1> QED
    BY <1>9 DEF n, E, t

\* t is s with all but its first c entries evicted, each of them over budget.
Cutting(s, L, f, t, c) ==
    /\ c \in 1 .. Len(L)
    /\ \E G : Whole(t, First(L, c), G, FirstSums(f, c))
    /\ Entries(t, First(L, c)) = First(Entries(s, L), c)
    /\ \A m \in c + 1 .. Len(L) : f[m] > MaxBytes

\* One round: over budget means that the prefix is, and then it gets shorter.
LEMMA CutStep ==
    ASSUME NEW s, NEW L \in Seq(Index), NEW f, NEW t, NEW c, Cutting(s, L, f, t, c)
    PROVE  /\ OverBudget(t) <=> f[c] > MaxBytes /\ c > 1
           /\ OverBudget(t) => Cutting(s, L, f, evict_tail(t), c - 1)
<1> DEFINE M == First(L, c)
           g == FirstSums(f, c)
           E == Entries(s, L)
<1>0. Len(L) \in Nat /\ c \in 1 .. Len(L) /\ c \in Nat \ {0} /\ c \in 0 .. Len(L)
    BY DEF Cutting
<1>1. PICK G : Whole(t, M, G, g)
    BY DEF Cutting
<1>2. Len(M) = c
    BY <1>0, FirstIs
<1>3. Cardinality(DOMAIN t.map) = c
    BY <1>1, <1>2, CountKeys
<1>4. t.bytes_total = g[c] /\ g[c] = f[c]
    <2>1. g[c] = f[c]
        BY <1>0 DEF FirstSums
    <2>2. t.bytes_total = g[Len(M)]
        BY <1>1 DEF Whole, Rest
    <2> QED
        BY <2>1, <2>2, <1>2
<1>5. OverBudget(t) <=> f[c] > MaxBytes /\ c > 1
    BY <1>3, <1>4 DEF OverBudget
<1>6. ASSUME OverBudget(t) PROVE Cutting(s, L, f, evict_tail(t), c - 1)
    <2>0. f[c] > MaxBytes /\ c > 1
        BY <1>5, <1>6
    <2>1. /\ First(M, c - 1) = First(L, c - 1) /\ FirstSums(g, c - 1) = FirstSums(f, c - 1)
          /\ First(First(E, c), c - 1) = First(E, c - 1)
        BY <1>0, FirstFirst
    <2>2. Entries(t, M) = First(E, c)
        BY DEF Cutting
    <2>6. Len(M) # 0
        BY <1>0, <1>2
    <2> HIDE DEF M, g, E
    <2>3. /\ \E H : Whole(evict_tail(t), First(M, Len(M) - 1), H, FirstSums(g, Len(M) - 1))
          /\ Entries(evict_tail(t), First(M, Len(M) - 1)) = First(Entries(t, M), Len(M) - 1)
        BY <1>1, <2>6, EvictTail
    <2>4. /\ \E H : Whole(evict_tail(t), First(L, c - 1), H, FirstSums(f, c - 1))
          /\ Entries(evict_tail(t), First(L, c - 1)) = First(E, c - 1)
        BY <2>1, <2>2, <2>3, <1>2, Zenon
    <2>5. c - 1 \in 1 .. Len(L) /\ \A m \in c - 1 + 1 .. Len(L) : f[m] > MaxBytes
        BY <2>0, <1>0 DEF Cutting
    <2> QED
        BY <2>4, <2>5 DEF Cutting, E
<1> QED
    BY <1>5, <1>6

\* Every non-empty set of numbers has a least one.
LEMMA LeastNat ==
    ASSUME NEW T \in SUBSET Nat, T # {}
    PROVE  \E x \in T : \A y \in T : x <= y
<1>1. OpToRel(<, Nat) = {ss \in Nat \X Nat : ss[1] < ss[2]}
    BY Zenon DEF OpToRel
<1>2. \A a, b \in Nat : <<a, b>> \in {ss \in Nat \X Nat : ss[1] < ss[2]} <=> a < b
    OBVIOUS
<1>3. T \subseteq Nat
    OBVIOUS
<1>4. PICK x \in T : \A y \in T : ~(<<y, x>> \in OpToRel(<, Nat))
    BY <1>3, NatLessThanWellFounded, WFMin, Zenon
<1>5. \A y \in T : ~(y < x)
    BY <1>1, <1>2, <1>3, <1>4, Zenon
<1> QED
    BY <1>5, <1>3

\* A set of numbers with 0 and, up to L, every successor holds 0 .. L.
LEMMA UpTo ==
    ASSUME NEW L \in Nat, NEW P, 0 \in P, \A n \in 1 .. L : n - 1 \in P => n \in P
    PROVE  0 .. L \subseteq P
<1> DEFINE T == (0 .. L) \ P
<1> SUFFICES ASSUME T # {} PROVE FALSE
    OBVIOUS
<1>0. T \in SUBSET Nat
    OBVIOUS
<1>1. PICK x \in T : \A y \in T : x <= y
    <2> HIDE DEF T
    <2> QED
        BY <1>0, LeastNat
<1>2. x \in 1 .. L /\ x - 1 \in 0 .. L
    BY <1>1
<1>3. x - 1 \in P
    BY <1>1, <1>2
<1> QED
    BY <1>1, <1>2, <1>3

SiftedOne(s, S, f, n) ==
    IF n = 0 THEN <<>> ELSE IF s[n] \in S THEN f[n - 1] ELSE Append(f[n - 1], s[n])

\* The loop, round by round.
Round(s, it, n) ==
    IF n = 0 THEN s ELSE IF OverBudget(it[n - 1]) THEN evict_tail(it[n - 1]) ELSE it[n - 1]

Rounds(s) == CHOOSE it : it = [n \in 0 .. Cardinality(DOMAIN s.map) |-> Round(s, it, n)]

\* The recursion defines a function.
LEMMA RoundsRec ==
    ASSUME NEW s, Cardinality(DOMAIN s.map) \in Nat
    PROVE  Rounds(s) = [n \in 0 .. Cardinality(DOMAIN s.map) |-> Round(s, Rounds(s), n)]
<1> DEFINE r == Cardinality(DOMAIN s.map)
           P == {n \in 0 .. r : \E f : f = [m \in 0 .. n |-> Round(s, f, m)]}
<1>0. r \in Nat
    OBVIOUS
<1> HIDE DEF r
<1>1. 0 \in P
    <2>1. [m \in 0 .. 0 |-> s] = [m \in 0 .. 0 |-> Round(s, [k \in 0 .. 0 |-> s], m)]
        BY DEF Round
    <2> QED
        BY <1>0, <2>1
<1>2. ASSUME NEW n \in 1 .. r, n - 1 \in P PROVE n \in P
    <2>1. PICK f : f = [m \in 0 .. n - 1 |-> Round(s, f, m)]
        BY <1>2
    <2> DEFINE g == [m \in 0 .. n |-> IF m = n THEN Round(s, f, n) ELSE f[m]]
    <2>2. ASSUME NEW m \in 0 .. n PROVE g[m] = Round(s, g, m)
        <3>1. m = 0 \/ (m - 1 \in 0 .. n - 1 /\ g[m - 1] = f[m - 1])
            BY <1>0
        <3>2. Round(s, g, m) = Round(s, f, m)
            BY <3>1 DEF Round
        <3> QED
            BY <1>0, <2>1, <3>2
    <2>3. g = [m \in 0 .. n |-> Round(s, g, m)]
        BY <2>2
    <2>4. n \in 0 .. r
        BY <1>0
    <2>5. \E h : h = [m \in 0 .. n |-> Round(s, h, m)]
        <3> HIDE DEF g
        <3> QED
            BY <2>3
    <2> QED
        BY <2>4, <2>5
<1>3. r \in P
    <2> HIDE DEF P
    <2>1. 0 .. r \subseteq P
        BY <1>0, <1>1, <1>2, UpTo
    <2> QED
        BY <2>1, <1>0
<1>4. \E f : f = [n \in 0 .. r |-> Round(s, f, n)]
    BY <1>3
<1> QED
    BY <1>4 DEF Rounds, r

\* How it steps, and that evict_to_byte_budget returns its last value.
LEMMA RoundsSteps ==
    ASSUME NEW s, Cardinality(DOMAIN s.map) \in Nat
    PROVE  /\ Rounds(s)[0] = s
           /\ \A n \in 1 .. Cardinality(DOMAIN s.map) :
                 /\ OverBudget(Rounds(s)[n - 1]) => Rounds(s)[n] = evict_tail(Rounds(s)[n - 1])
                 /\ ~OverBudget(Rounds(s)[n - 1]) => Rounds(s)[n] = Rounds(s)[n - 1]
           /\ evict_to_byte_budget(s) = Rounds(s)[Cardinality(DOMAIN s.map)]
<1> DEFINE r == Cardinality(DOMAIN s.map)
<1>0. r \in Nat
    OBVIOUS
<1>1. \A n \in 0 .. r : Rounds(s)[n] = Round(s, Rounds(s), n)
    BY RoundsRec
<1>4. evict_to_byte_budget(s) = Rounds(s)[r]
    BY DEF evict_to_byte_budget, Rounds, Round
<1> HIDE DEF r
<1>2. Rounds(s)[0] = s
    <2>1. 0 \in 0 .. r /\ Round(s, Rounds(s), 0) = s
        BY <1>0 DEF Round
    <2> QED
        BY <1>1, <2>1
<1>3. ASSUME NEW n \in 1 .. r
      PROVE  /\ OverBudget(Rounds(s)[n - 1]) => Rounds(s)[n] = evict_tail(Rounds(s)[n - 1])
             /\ ~OverBudget(Rounds(s)[n - 1]) => Rounds(s)[n] = Rounds(s)[n - 1]
    <2>1. n \in 0 .. r /\ n # 0
        BY <1>0
    <2>2. Rounds(s)[n] = Round(s, Rounds(s), n)
        BY <1>1, <2>1
    <2> QED
        BY <2>1, <2>2 DEF Round
<1> QED
    BY <1>2, <1>3, <1>4 DEF r

\* The loop keeps the longest prefix within the budget, or the first entry.
LEMMA EvictWhole ==
    ASSUME NEW s, NEW L, NEW F, NEW f, Whole(s, L, F, f), Len(L) # 0
    PROVE  \E c : /\ Cutting(s, L, f, evict_to_byte_budget(s), c)
                  /\ c = 1 \/ f[c] <= MaxBytes
<1> DEFINE n == Len(L)
           it == Rounds(s)
           P == {m \in 0 .. n : \E c : /\ Cutting(s, L, f, it[m], c)
                                       /\ c = 1 \/ f[c] <= MaxBytes \/ c = n - m}
<1>0. /\ L \in Seq(Index) /\ n \in Nat /\ n # 0 /\ Entries(s, L) \in Seq(EntrySet)
      /\ f \in [0 .. n -> Nat]
    <2>1. /\ L \in Seq(Index) /\ n \in Nat /\ n # 0 /\ Entries(s, L) \in Seq(EntrySet)
          /\ f \in [0 .. Len(Entries(s, L)) -> Nat]
        BY DEF Whole, Chain, Rest, Sums
    <2> QED
        BY <2>1, EntriesIs
<1>1. Cardinality(DOMAIN s.map) = n
    BY CountKeys
<1>2. /\ it[0] = s
      /\ \A m \in 1 .. n : /\ OverBudget(it[m - 1]) => it[m] = evict_tail(it[m - 1])
                           /\ ~OverBudget(it[m - 1]) => it[m] = it[m - 1]
      /\ evict_to_byte_budget(s) = it[n]
    BY <1>0, <1>1, RoundsSteps
<1>6. MaxBytes \in Nat
    BY CacheAssumption
<1>3. Cutting(s, L, f, s, n)
    <2>1. First(L, n) = L /\ FirstSums(f, n) = f
        BY <1>0, FirstAll
    <2>2. Len(Entries(s, L)) = n
        BY <1>0, EntriesIs
    <2>3. First(Entries(s, L), n) = Entries(s, L)
        <3> DEFINE E == Entries(s, L)
        <3> HIDE DEF E
        <3>1. E \in Seq(EntrySet) /\ Len(E) = n
            BY <1>0, <2>2 DEF E
        <3>2. f \in [0 .. Len(E) -> Nat]
            BY <3>1, <1>0
        <3>3. First(E, Len(E)) = E
            BY <3>1, <3>2, FirstAll
        <3> QED
            BY <3>1, <3>3 DEF E
    <2>4. n \in 1 .. n /\ \A m \in n + 1 .. n : f[m] > MaxBytes
        BY <1>0
    <2> HIDE DEF n
    <2>5. \E G : Whole(s, First(L, n), G, FirstSums(f, n))
        BY <2>1
    <2>6. Entries(s, First(L, n)) = First(Entries(s, L), n)
        BY <2>1, <2>3
    <2> QED
        BY <2>4, <2>5, <2>6 DEF Cutting, n
<1> HIDE DEF it, n
<1>4. 0 \in P
    <2>1. 0 \in 0 .. n /\ n = n - 0
        BY <1>0
    <2>2. Cutting(s, L, f, it[0], n)
        BY <1>2, <1>3
    <2> QED
        BY <2>1, <2>2
<1>5. ASSUME NEW m \in 1 .. n, m - 1 \in P PROVE m \in P
    <2>1. PICK c : /\ Cutting(s, L, f, it[m - 1], c)
                   /\ c = 1 \/ f[c] <= MaxBytes \/ c = n - (m - 1)
        BY <1>5
    <2>2. /\ OverBudget(it[m - 1]) <=> f[c] > MaxBytes /\ c > 1
          /\ OverBudget(it[m - 1]) => Cutting(s, L, f, evict_tail(it[m - 1]), c - 1)
        BY <2>1, <1>0, CutStep
    <2>3. c \in 1 .. n /\ f[c] \in Nat /\ m \in 0 .. n
        BY <2>1, <1>0 DEF Cutting, n
    <2>4. CASE OverBudget(it[m - 1])
        <3>1. c - 1 = n - m
            BY <2>1, <2>2, <2>3, <2>4, <1>0, <1>6
        <3>2. Cutting(s, L, f, it[m], c - 1)
            BY <2>2, <2>4, <1>2
        <3> QED
            BY <2>3, <3>1, <3>2
    <2>5. CASE ~OverBudget(it[m - 1])
        <3>1. c = 1 \/ f[c] <= MaxBytes
            BY <2>2, <2>3, <2>5, <1>6
        <3>2. Cutting(s, L, f, it[m], c)
            BY <2>1, <2>5, <1>2
        <3> QED
            BY <2>3, <3>1, <3>2
    <2> QED
        BY <2>4, <2>5
<1>7. n \in P
    <2> HIDE DEF P
    <2>1. 0 .. n \subseteq P
        BY <1>0, <1>4, <1>5, UpTo
    <2> QED
        BY <2>1, <1>0
<1>8. PICK c : Cutting(s, L, f, it[n], c) /\ (c = 1 \/ f[c] <= MaxBytes \/ c = n - n)
    BY <1>7
<1>9. c # n - n
    BY <1>0, <1>8 DEF Cutting
<1> QED
    BY <1>2, <1>8, <1>9
-----------------------------------------------------------------------------
(***************************************************************************)
(* Insert and get                                                          *)
(***************************************************************************)

\* Between calls only a lone entry is over budget.
Kept(s, L, F, f) == Whole(s, L, F, f) /\ (f[Len(L)] > MaxBytes => Len(L) = 1)

\* D is the longest prefix of E that fits.
Trimmed(E, D) ==
    \E c, g : /\ Sums(E, g) /\ c \in 1 .. Len(E) /\ D = First(E, c)
              /\ c = 1 \/ g[c] <= MaxBytes
              /\ \A m \in c + 1 .. Len(E) : g[m] > MaxBytes

\* The map's keys are the entries' keys.
LEMMA KeysIn ==
    ASSUME NEW s, NEW L, NEW F, NEW f, Whole(s, L, F, f)
    PROVE  /\ \A k : k \in DOMAIN s.map <=> \E j \in 1 .. Len(L) : Entries(s, L)[j].key = k
           /\ \A j \in 1 .. Len(L) : s.map[Entries(s, L)[j].key] = L[j]
<1>1. L \in Seq(Index) /\ Len(L) \in Nat /\ Distinct(L) /\ (\A j \in 1 .. Len(L) : Oc(s, L[j])) /\ Keyed(s)
      /\ Covered(s, L, F) /\ Spares(s, F)
    BY DEF Whole, Chain, Rest
<1>2. ASSUME NEW j \in 1 .. Len(L) PROVE Entries(s, L)[j].key = Ky(s, L[j])
    <2>1. Entries(s, L)[j] = Data(s.slots[L[j]])
        BY <1>1, EntriesIs
    <2> QED
        BY <2>1 DEF Data, Ky
<1>3. \A j \in 1 .. Len(L) : Ky(s, L[j]) \in DOMAIN s.map /\ s.map[Ky(s, L[j])] = L[j]
    BY <1>1 DEF Keyed
<1>4. ASSUME NEW k \in DOMAIN s.map PROVE \E j \in 1 .. Len(L) : Ky(s, L[j]) = k
    <2>1. Oc(s, s.map[k]) /\ Ky(s, s.map[k]) = k
        BY <1>1 DEF Keyed
    <2>2. \A j \in 1 .. Len(F) : F[j] # s.map[k]
        <3>1. \A x : ~(x \in Taken /\ x \in Spare)
            BY DEF Taken, Spare
        <3> QED
            BY <1>1, <2>1, <3>1 DEF Spares, Oc, Sp
    <2>3. s.map[k] \in 1 .. Len(s.slots)
        BY <2>1 DEF Oc
    <2>4. PICK j \in 1 .. Len(L) : L[j] = s.map[k]
        BY <1>1, <2>2, <2>3 DEF Covered
    <2> QED
        BY <2>1, <2>4
<1> QED
    BY <1>2, <1>3, <1>4, Zenon

\* An entry has a slot of its own.
LEMMA CountEntries ==
    ASSUME NEW s, NEW L, NEW F, NEW f, Whole(s, L, F, f)
    PROVE  Len(L) <= Capacity
<1> DEFINE S == 1 .. Len(L)
           T == 1 .. Len(s.slots)
<1>1. L \in Seq(Index) /\ Len(L) \in Nat /\ (\A j \in S : Oc(s, L[j])) /\ Distinct(L)
      /\ Len(s.slots) \in Nat /\ Len(s.slots) <= Capacity
    BY DEF Whole, Chain, Rest, Inner
<1>3. L \in [S -> T] /\ \A a, b \in S : L[a] = L[b] => a = b
    BY <1>1 DEF Oc, Distinct
<1>5. IsFiniteSet(S) /\ Cardinality(S) = Len(L) /\ IsFiniteSet(T) /\ Cardinality(T) = Len(s.slots)
    BY <1>1, CountTo
<1>7. Capacity \in Nat
    BY CacheAssumption
<1> HIDE DEF S, T
<1>4. L \in Injection(S, T)
    BY <1>3, Fun_IsInj
<1>6. Cardinality(S) <= Cardinality(T)
    BY <1>4, <1>5, FS_Injection
<1> QED
    BY <1>1, <1>5, <1>6, <1>7

\* Eviction leaves the longest prefix within the budget.
LEMMA TrimKept ==
    ASSUME NEW s, NEW L, NEW F, NEW f, Whole(s, L, F, f), Len(L) # 0
    PROVE  \E M, G, g : /\ Kept(evict_to_byte_budget(s), M, G, g)
                        /\ Trimmed(Entries(s, L), Entries(evict_to_byte_budget(s), M))
<1> DEFINE t == evict_to_byte_budget(s)
           E == Entries(s, L)
<1>1. PICK c : Cutting(s, L, f, t, c) /\ (c = 1 \/ f[c] <= MaxBytes)
    BY EvictWhole
<1>2. L \in Seq(Index) /\ Sums(E, f)
    BY DEF Whole, Chain, Rest
<1>3. Len(E) = Len(L) /\ Len(L) \in Nat /\ f \in [0 .. Len(L) -> Nat]
    <2>1. Len(E) = Len(L) /\ Len(L) \in Nat
        BY <1>2, EntriesIs
    <2> QED
        BY <2>1, <1>2 DEF Sums
<1> DEFINE M == First(L, c)
           g == FirstSums(f, c)
<1> HIDE DEF t, E
<1>4. /\ c \in 1 .. Len(L) /\ Entries(t, M) = First(E, c)
      /\ \A m \in c + 1 .. Len(L) : f[m] > MaxBytes
    BY <1>1 DEF Cutting, E
<1>5. PICK G : Whole(t, M, G, g)
    BY <1>1 DEF Cutting
<1>6. Len(M) = c /\ g[c] = f[c]
    <2>1. c \in 0 .. Len(L) /\ c \in 0 .. c
        BY <1>3, <1>4
    <2> QED
        BY <2>1, <1>2, FirstIs DEF FirstSums
<1>7. Trimmed(E, Entries(t, M))
    BY <1>1, <1>2, <1>3, <1>4 DEF Trimmed
<1>8. Kept(t, M, G, g)
    <2>1. f[c] \in Nat /\ MaxBytes \in Nat
        BY <1>3, <1>4, CacheAssumption
    <2> HIDE DEF M, g
    <2> QED
        BY <2>1, <1>1, <1>5, <1>6 DEF Kept
<1> QED
    BY <1>7, <1>8 DEF t, E

\* What the new entry goes in front of.
Room(E) == IF Len(E) >= Capacity THEN First(E, Len(E) - 1) ELSE E

\* insert of a new key: room first, then the entry, then the budget.
LEMMA AddKept ==
    ASSUME NEW s, NEW L, NEW F, NEW f, Kept(s, L, F, f),
           NEW k \in Key, k \notin DOMAIN s.map, NEW node \in Taken, node.key = k, Data(node) \in EntrySet
    PROVE  \E M, G, g : /\ Kept(AddEntry(s, k, node), M, G, g)
                        /\ Trimmed(Push(Data(node), Room(Entries(s, L))), Entries(AddEntry(s, k, node), M))
<1> DEFINE E == Entries(s, L)
           s1 == IF Cardinality(DOMAIN s.map) >= Capacity THEN evict_tail(s) ELSE s
           a == Added(s1, k, node)
<1>1. /\ Whole(s, L, F, f) /\ L \in Seq(Index) /\ Len(L) \in Nat /\ Len(E) = Len(L) /\ E \in Seq(EntrySet)
      /\ Len(L) <= Capacity /\ Cardinality(DOMAIN s.map) = Len(L) /\ Capacity \in Nat \ {0}
    <2>1. Whole(s, L, F, f) /\ L \in Seq(Index) /\ Len(L) \in Nat /\ E \in Seq(EntrySet)
        BY DEF Kept, Whole, Rest
    <2>2. Len(L) <= Capacity /\ Cardinality(DOMAIN s.map) = Len(L)
        BY <2>1, CountEntries, CountKeys
    <2> QED
        BY <2>1, <2>2, EntriesIs, CacheAssumption
<1>2. AddEntry(s, k, node) = evict_to_byte_budget(a)
    BY DEF AddEntry, Added, Filed, WithBytes
<1>3. PICK L1, F1, f1 : Whole(s1, L1, F1, f1) /\ Len(L1) < Capacity /\ Entries(s1, L1) = Room(E)
    <2>1. CASE Len(L) >= Capacity
        <3>1. s1 = evict_tail(s) /\ Room(E) = First(E, Len(L) - 1) /\ Len(L) # 0
            BY <2>1, <1>1 DEF Room
        <3>2. /\ \E G : Whole(evict_tail(s), First(L, Len(L) - 1), G, FirstSums(f, Len(L) - 1))
              /\ Entries(evict_tail(s), First(L, Len(L) - 1)) = First(E, Len(L) - 1)
            BY <1>1, <3>1, EvictTail
        <3>3. Len(First(L, Len(L) - 1)) = Len(L) - 1
            <4>1. Len(L) - 1 \in 0 .. Len(L)
                BY <1>1, <3>1
            <4> QED
                BY <4>1, <1>1, FirstIs
        <3> HIDE DEF E, s1
        <3>4. Len(First(L, Len(L) - 1)) < Capacity
            BY <1>1, <3>3
        <3> QED
            BY <3>1, <3>2, <3>4, Zenon
    <2>2. CASE ~(Len(L) >= Capacity)
        <3>1. s1 = s /\ Room(E) = E /\ Len(L) < Capacity
            BY <2>2, <1>1 DEF Room
        <3> HIDE DEF E, s1
        <3> QED
            BY <3>1, <1>1 DEF E
    <2> QED
        BY <2>1, <2>2
<1>4. k \notin DOMAIN s1.map
    <2>1. \A j \in 1 .. Len(L) : E[j].key # k
        BY <1>1, KeysIn
    <2>2. \A j \in 1 .. Len(L1) : Entries(s1, L1)[j].key # k
        <3>0. L1 \in Seq(Index) /\ Len(Entries(s1, L1)) = Len(L1)
            BY <1>3, EntriesIs DEF Whole, Rest
        <3> HIDE DEF E, s1
        <3>1. CASE Len(L) >= Capacity
            <4>1. Len(L) - 1 \in 0 .. Len(L)
                BY <1>1, <3>1
            <4>2. /\ Len(First(E, Len(L) - 1)) = Len(L) - 1
                  /\ \A j \in 1 .. Len(L) - 1 : First(E, Len(L) - 1)[j] = E[j]
                BY <4>1, <1>1, FirstIs
            <4>3. Room(E) = First(E, Len(L) - 1)
                BY <1>1, <3>1 DEF Room
            <4> QED
                BY <4>1, <4>2, <4>3, <3>0, <1>1, <1>3, <2>1
        <3>2. CASE ~(Len(L) >= Capacity)
            <4>1. Room(E) = E
                BY <1>1, <3>2 DEF Room
            <4> QED
                BY <4>1, <3>0, <1>1, <1>3, <2>1
        <3> QED
            BY <3>1, <3>2
    <2> HIDE DEF s1
    <2> QED
        BY <1>3, <2>2, KeysIn
<1> HIDE DEF s1, E
<1>5. PICK M, G, g : Whole(a, M, G, g) /\ Entries(a, M) = Push(Data(node), Entries(s1, L1))
    BY <1>3, <1>4, AddWhole
<1>6. Len(M) # 0
    <2>1. L1 \in Seq(Index) /\ M \in Seq(Index) /\ Entries(s1, L1) \in Seq(EntrySet)
        BY <1>3, <1>5 DEF Whole, Rest
    <2>2. Len(Entries(a, M)) = Len(M) /\ Len(Entries(s1, L1)) \in Nat
        BY <2>1, EntriesIs
    <2>3. Len(Push(Data(node), Entries(s1, L1))) = Len(Entries(s1, L1)) + 1
        BY <2>1, PushIs
    <2> QED
        BY <2>2, <2>3, <1>5
<1> HIDE DEF a
<1>7. \E N, H, h : /\ Kept(evict_to_byte_budget(a), N, H, h)
                   /\ Trimmed(Entries(a, M), Entries(evict_to_byte_budget(a), N))
    BY <1>5, <1>6, TrimKept
<1> QED
    BY <1>2, <1>3, <1>5, <1>7 DEF E

\* insert of a key that is there.
LEMMA ReplaceKept ==
    ASSUME NEW s, NEW L, NEW F, NEW f, Kept(s, L, F, f), NEW p \in 1 .. Len(L),
           NEW k, k \in DOMAIN s.map, L[p] = s.map[k],
           NEW node \in Taken, node.key = k, Data(node) \in EntrySet
    PROVE  \E M, G, g : /\ Kept(ReplaceEntry(s, k, node), M, G, g)
                        /\ Trimmed(Front(Swap(Entries(s, L), p, Data(node)), p),
                                   Entries(ReplaceEntry(s, k, node), M))
<1> DEFINE E == Entries(s, L)
           r == Replaced(s, L[p], node)
           a == move_to_head(r, L[p])
           D == Swap(E, p, Data(node))
<1>1. Whole(s, L, F, f) /\ Keyed(s) /\ L \in Seq(Index) /\ E \in Seq(EntrySet) /\ Len(E) = Len(L)
    <2>1. Whole(s, L, F, f) /\ Keyed(s) /\ L \in Seq(Index) /\ E \in Seq(EntrySet)
        BY DEF Kept, Whole, Rest
    <2> QED
        BY <2>1, EntriesIs
<1>2. Ky(s, L[p]) = k
    BY <1>1 DEF Keyed
<1>3. ReplaceEntry(s, k, node) = evict_to_byte_budget(a)
    BY DEF ReplaceEntry, Replaced, InPlace
<1>4. PICK g1 : Whole(r, L, F, g1) /\ Entries(r, L) = D
    BY <1>1, <1>2, ReplaceWhole
<1> HIDE DEF r
<1>5. PICK M, g : Whole(a, M, F, g) /\ Entries(a, M) = Front(D, p)
    BY <1>4, MoveToHead
<1>6. Len(M) # 0
    <2>1. M \in Seq(Index)
        BY <1>5 DEF Whole, Rest
    <2>2. Len(Entries(a, M)) = Len(M)
        BY <2>1, EntriesIs
    <2>3. D \in Seq(EntrySet) /\ Len(D) = Len(L) /\ Len(L) \in Nat
        <3> HIDE DEF E
        <3> QED
            BY <1>1, SwapIs
    <2> HIDE DEF D
    <2>4. Len(Front(D, p)) = Len(D)
        BY <2>3, FrontIs
    <2> QED
        BY <2>2, <2>3, <2>4, <1>5
<1> HIDE DEF a, D
<1>7. \E N, H, h : /\ Kept(evict_to_byte_budget(a), N, H, h)
                   /\ Trimmed(Entries(a, M), Entries(evict_to_byte_budget(a), N))
    BY <1>5, <1>6, TrimKept
<1> QED
    BY <1>3, <1>5, <1>7 DEF D
\* get of an entry that has not expired.
LEMMA MoveKept ==
    ASSUME NEW s, NEW L, NEW F, NEW f, Kept(s, L, F, f), NEW p \in 1 .. Len(L)
    PROVE  \E M, G, g : /\ Kept(move_to_head(s, L[p]), M, G, g)
                        /\ Entries(move_to_head(s, L[p]), M) = Front(Entries(s, L), p)
<1> DEFINE t == move_to_head(s, L[p])
           E == Entries(s, L)
<1>1. Whole(s, L, F, f) /\ L \in Seq(Index) /\ E \in Seq(EntrySet) /\ s.bytes_total = f[Len(L)]
    BY DEF Kept, Whole, Rest
<1>2. t.bytes_total = s.bytes_total
    BY <1>1, MoveToHead
<1>3. PICK M, g : Whole(t, M, F, g) /\ Entries(t, M) = Front(E, p)
    BY <1>1, MoveToHead
<1>4. Len(M) = Len(L)
    <2>1. M \in Seq(Index)
        BY <1>3 DEF Whole, Rest
    <2>2. Len(Entries(t, M)) = Len(M) /\ Len(E) = Len(L)
        BY <1>1, <2>1, EntriesIs
    <2> HIDE DEF E, t
    <2>3. Len(Front(E, p)) = Len(E)
        BY <1>1, <2>2, FrontIs
    <2> QED
        BY <1>3, <2>2, <2>3
<1>5. t.bytes_total = g[Len(M)]
    BY <1>3 DEF Whole, Rest
<1> HIDE DEF t, E
<1>6. Kept(t, M, F, g)
    BY <1>1, <1>2, <1>3, <1>4, <1>5 DEF Kept
<1> QED
    BY <1>3, <1>6 DEF t, E

\* get of an expired entry.
LEMMA RemoveKept ==
    ASSUME NEW s, NEW L, NEW F, NEW f, Kept(s, L, F, f), NEW p \in 1 .. Len(L)
    PROVE  \E M, G, g : /\ Kept(remove(s, L[p]), M, G, g)
                        /\ Entries(remove(s, L[p]), M) = Drop(Entries(s, L), p)
<1> DEFINE t == remove(s, L[p])
           E == Entries(s, L)
           M == Drop(L, p)
           g == DropSum(E, f, p)
<1>1. /\ Whole(s, L, F, f) /\ L \in Seq(Index) /\ Len(L) \in Nat /\ E \in Seq(EntrySet) /\ Sums(E, f)
      /\ f[Len(L)] > MaxBytes => Len(L) = 1
    BY DEF Kept, Whole, Rest
<1>2. Len(E) = Len(L)
    BY <1>1, EntriesIs
<1>3. Whole(t, M, Push(L[p], F), g) /\ Entries(t, M) = Drop(E, p)
    BY <1>1, RemoveWhole
<1>4. Len(M) = Len(L) - 1
    BY <1>1, DropIs
<1> HIDE DEF E
<1>9. p \in 1 .. Len(E)
    BY <1>2
<1>5. g[Len(L) - 1] = f[Len(L)] - E[p].bytes /\ f[Len(L)] >= E[p].bytes
    BY <1>1, <1>2, <1>9, SumsDrop
<1>6. E[p].bytes \in Nat /\ f[Len(L)] \in Nat /\ f[0] = 0 /\ MaxBytes \in Nat
    <2>1. E[p] \in EntrySet
        BY <1>1, <1>9
    <2>2. f \in [0 .. Len(L) -> Nat] /\ f[0] = 0
        BY <1>1, <1>2 DEF Sums
    <2>3. Len(L) \in 0 .. Len(L)
        BY <1>1
    <2> QED
        BY <2>1, <2>2, <2>3, CacheAssumption DEF EntrySet
<1>10. Len(L) = 1 => g[Len(L) - 1] = 0
    <2> SUFFICES ASSUME Len(L) = 1 PROVE g[Len(L) - 1] = 0
        OBVIOUS
    <2>1. 0 \in 0 .. Len(E) - 1 /\ 0 < p
        BY <1>2, <1>9
    <2>2. g[0] = f[0]
        BY <2>1 DEF DropSum
    <2> QED
        BY <2>2, <1>6
<1> HIDE DEF t, M, g
<1>7. g[Len(M)] <= MaxBytes
    <2>1. CASE Len(L) = 1
        BY <2>1, <1>4, <1>6, <1>10
    <2>2. CASE Len(L) # 1
        <3>1. f[Len(L)] <= MaxBytes
            BY <2>2, <1>1, <1>6
        <3> QED
            BY <3>1, <1>4, <1>5, <1>6
    <2> QED
        BY <2>1, <2>2
<1>11. g[Len(M)] \in Nat
    BY <1>4, <1>5, <1>6
<1>8. Kept(t, M, Push(L[p], F), g)
    BY <1>3, <1>6, <1>7, <1>11 DEF Kept
<1> QED
    BY <1>3, <1>8 DEF t, E

-----------------------------------------------------------------------------
(***************************************************************************)
(* The invariant is inductive                                              *)
(***************************************************************************)

CacheInv == clock \in 0 .. MaxClock /\ \E L, F, f : Kept(inner, L, F, f)

\* No record is shorter-lived than the entry.
LEMMA LifetimeIs ==
    ASSUME NEW msg \in Message, msg.records # {}
    PROVE  Lifetime(msg) \in Nat /\ \A r \in msg.records : Lifetime(msg) <= r.ttl
<1> DEFINE T == {RecordLife(r) : r \in msg.records}
<1>1. \A r \in msg.records : r.ttl \in Nat /\ r.minimum \in Nat
    BY CallsAssumption
<1>2. T \in SUBSET Nat /\ T # {} /\ \A r \in msg.records : RecordLife(r) \in T /\ RecordLife(r) <= r.ttl
    BY <1>1 DEF RecordLife
<1>3. \E x \in T : \A y \in T : x <= y
    BY <1>2, LeastNat
<1>4. Least(T) \in T /\ \A y \in T : Least(T) <= y
    <2> HIDE DEF T
    <2> QED
        BY <1>3 DEF Least
<1>5. Lifetime(msg) = Least(T)
    BY DEF Lifetime
<1> HIDE DEF T
<1>6. ASSUME NEW r \in msg.records PROVE Least(T) <= r.ttl
    <2>1. Least(T) \in Nat /\ RecordLife(r) \in Nat /\ r.ttl \in Nat /\ Least(T) <= RecordLife(r) /\ RecordLife(r) <= r.ttl
        BY <1>1, <1>2, <1>4
    <2> QED
        BY <2>1
<1> QED
    BY <1>2, <1>4, <1>5, <1>6

\* The node insert builds for a storable answer.
LEMMA NodeIs ==
    ASSUME NEW k \in Key, NEW msg \in Message, Storable(msg), NEW at \in Nat
    PROVE  /\ Node(k, msg, at) \in Taken /\ Node(k, msg, at).key = k
           /\ Data(Node(k, msg, at)) = Entry(k, msg, at) /\ Entry(k, msg, at) \in EntrySet
<1>1. Lifetime(msg) \in Nat /\ msg.bytes \in Nat
    BY LifetimeIs, CallsAssumption DEF Storable
<1>2. Node(k, msg, at) \in Taken /\ Node(k, msg, at).key = k
    BY <1>1 DEF Node, Taken, NONE
<1>3. Data(Node(k, msg, at)) = Entry(k, msg, at)
    BY DEF Node, Data, Entry
<1>4. Entry(k, msg, at) \in EntrySet
    BY <1>1 DEF Entry, EntrySet
<1> QED
    BY <1>2, <1>3, <1>4

\* The place of a key.
LEMMA PlaceIs ==
    ASSUME NEW s, NEW L, NEW F, NEW f, Kept(s, L, F, f), NEW k \in DOMAIN s.map
    PROVE  \E p \in 1 .. Len(L) : L[p] = s.map[k] /\ Entries(s, L)[p].key = k
<1>1. Whole(s, L, F, f)
    BY DEF Kept
<1>2. /\ \A c : c \in DOMAIN s.map <=> \E j \in 1 .. Len(L) : Entries(s, L)[j].key = c
      /\ \A j \in 1 .. Len(L) : s.map[Entries(s, L)[j].key] = L[j]
    BY <1>1, KeysIn
<1>3. PICK p \in 1 .. Len(L) : Entries(s, L)[p].key = k
    BY <1>2
<1> QED
    BY <1>2, <1>3

LEMMA InitKept == Init => CacheInv
<1> SUFFICES ASSUME Init PROVE CacheInv
    OBVIOUS
<1> DEFINE f == [j \in 0 .. 0 |-> 0]
           m == [k \in {} |-> 0]
<1>0. m \in Maps /\ DOMAIN m = {}
    <2>1. m \in [{} -> Nat]
        OBVIOUS
    <2> QED
        BY <2>1 DEF Maps
<1>1. /\ inner.slots = <<>> /\ inner.head = 0 /\ inner.tail = 0 /\ inner.free_head = 0
      /\ inner.bytes_total = 0 /\ inner.map = m
    BY DEF Init, Empty, NONE
<1>2. inner \in Inner
    <2> HIDE DEF m
    <2> QED
        BY <1>0 DEF Init, Empty, NONE, Inner, m
<1> HIDE DEF m
<1>3. \A i : ~Oc(inner, i) /\ ~Sp(inner, i)
    BY <1>1 DEF Oc, Sp
<1>4. Chain(inner, <<>>)
    BY <1>1 DEF Chain, Distinct
<1>5. Spares(inner, <<>>)
    BY <1>1 DEF Spares, Distinct
<1>6. Covered(inner, <<>>, <<>>) /\ Keyed(inner)
    BY <1>0, <1>1, <1>3 DEF Covered, Keyed
<1>7. Entries(inner, <<>>) = <<>>
    BY DEF Entries
<1>8. Sums(<<>>, f) /\ f[0] = 0
    BY DEF Sums
<1> HIDE DEF f
<1>9. Rest(inner, <<>>, <<>>, f)
    <2>1. Entries(inner, <<>>) \in Seq(EntrySet) /\ Sums(Entries(inner, <<>>), f)
        <3>1. <<>> \in Seq(EntrySet)
            OBVIOUS
        <3> QED
            BY <3>1, <1>7, <1>8, Zenon
    <2>2. inner.bytes_total = f[Len(<<>>)]
        BY <1>1, <1>8
    <2>3. Len(inner.slots) <= Capacity
        BY <1>1, CacheAssumption
    <2>4. <<>> \in Seq(Index) /\ \A j \in 1 .. Len(<<>>) : Oc(inner, <<>>[j])
        OBVIOUS
    <2> QED
        BY <2>1, <2>2, <2>3, <2>4, <1>5, <1>6 DEF Rest
<1>10. Kept(inner, <<>>, <<>>, f)
    <2>1. ~(f[Len(<<>>)] > MaxBytes)
        BY <1>8, CacheAssumption
    <2> QED
        BY <2>1, <1>2, <1>4, <1>9 DEF Kept, Whole
<1>11. clock \in 0 .. MaxClock
    BY CallsAssumption DEF Init
<1> QED
    BY <1>10, <1>11 DEF CacheInv

\* insert as a step, and the entries after it.
LEMMA InsertKept ==
    ASSUME NEW L, NEW F, NEW f, Kept(inner, L, F, f), NEW k \in Key, NEW msg \in Message,
           NEW at \in Nat, Storable(msg),
           inner' = IF k \in DOMAIN inner.map
                    THEN ReplaceEntry(inner, k, Node(k, msg, at))
                    ELSE AddEntry(inner, k, Node(k, msg, at))
    PROVE  \E M, G, g :
              /\ Kept(inner', M, G, g)
              /\ k \notin DOMAIN inner.map =>
                    Trimmed(Push(Entry(k, msg, at), Room(Entries(inner, L))), Entries(inner', M))
              /\ \A p \in 1 .. Len(L) : L[p] = inner.map[k] /\ k \in DOMAIN inner.map =>
                    Trimmed(Front(Swap(Entries(inner, L), p, Entry(k, msg, at)), p), Entries(inner', M))
<1> DEFINE node == Node(k, msg, at)
<1>1. node \in Taken /\ node.key = k /\ Data(node) = Entry(k, msg, at) /\ Data(node) \in EntrySet
    BY NodeIs
<1>4. inner' = IF k \in DOMAIN inner.map THEN ReplaceEntry(inner, k, node) ELSE AddEntry(inner, k, node)
    OBVIOUS
<1> HIDE DEF node
<1>2. CASE k \in DOMAIN inner.map
    <2>1. PICK p \in 1 .. Len(L) : L[p] = inner.map[k]
        BY <1>2, PlaceIs
    <2>2. PICK M, G, g : /\ Kept(ReplaceEntry(inner, k, node), M, G, g)
                         /\ Trimmed(Front(Swap(Entries(inner, L), p, Data(node)), p),
                                    Entries(ReplaceEntry(inner, k, node), M))
        BY <1>1, <1>2, <2>1, ReplaceKept
    <2>3. \A q \in 1 .. Len(L) : L[q] = inner.map[k] => q = p
        BY <2>1 DEF Kept, Whole, Chain, Distinct
    <2>4. inner' = ReplaceEntry(inner, k, node)
        BY <1>2, <1>4
    <2> QED
        BY <1>1, <1>2, <2>2, <2>3, <2>4, Zenon
<1>3. CASE k \notin DOMAIN inner.map
    <2>2. PICK M, G, g : /\ Kept(AddEntry(inner, k, node), M, G, g)
                         /\ Trimmed(Push(Data(node), Room(Entries(inner, L))),
                                    Entries(AddEntry(inner, k, node), M))
        BY <1>1, <1>3, AddKept
    <2>4. inner' = AddEntry(inner, k, node)
        BY <1>3, <1>4
    <2> QED
        BY <1>1, <1>3, <2>2, <2>4, Zenon
<1> QED
    BY <1>2, <1>3

LEMMA StepKept == CacheInv /\ [Next]_vars => CacheInv'
<1> SUFFICES ASSUME CacheInv, [Next]_vars PROVE CacheInv'
    OBVIOUS
<1>0. clock \in 0 .. MaxClock /\ MaxClock \in Nat
    BY CallsAssumption DEF CacheInv
<1>1. PICK L, F, f : Kept(inner, L, F, f)
    BY DEF CacheInv
<1>2. CASE UNCHANGED vars
    BY <1>0, <1>1, <1>2 DEF CacheInv, vars
<1>3. CASE Tick
    <2>1. clock' \in 0 .. MaxClock /\ inner' = inner
        BY <1>0, <1>3 DEF Tick
    <2> QED
        BY <2>1, <1>1 DEF CacheInv
<1>4. ASSUME NEW k \in Key, NEW at \in Instants, NEW msg \in Message, Insert(k, msg, at) PROVE CacheInv'
    <2>0. at \in Nat /\ clock' = clock
        BY <1>4 DEF Instants, Insert
    <2>1. CASE Storable(msg)
        <3>1. inner' = IF k \in DOMAIN inner.map
                       THEN ReplaceEntry(inner, k, Node(k, msg, at))
                       ELSE AddEntry(inner, k, Node(k, msg, at))
            BY <1>4, <2>1 DEF Insert
        <3>2. \E M, G, g : Kept(inner', M, G, g)
            BY <1>1, <2>0, <2>1, <3>1, InsertKept
        <3> QED
            BY <1>0, <2>0, <3>2 DEF CacheInv
    <2>2. CASE ~Storable(msg)
        BY <1>0, <1>1, <1>4, <2>2 DEF Insert, CacheInv
    <2> QED
        BY <2>1, <2>2
<1>5. ASSUME NEW k \in Key, GetAbsent(k) PROVE CacheInv'
    BY <1>0, <1>1, <1>5 DEF GetAbsent, CacheInv
<1>6. ASSUME NEW k \in Key, NEW at \in Instants, GetExpired(k, at) PROVE CacheInv'
    <2>1. PICK p \in 1 .. Len(L) : L[p] = inner.map[k]
        BY <1>1, <1>6, PlaceIs DEF GetExpired
    <2>2. \E M, G, g : Kept(remove(inner, L[p]), M, G, g)
        BY <1>1, RemoveKept
    <2>3. inner' = remove(inner, L[p]) /\ clock' = clock
        BY <1>6, <2>1 DEF GetExpired
    <2> QED
        BY <1>0, <2>2, <2>3 DEF CacheInv
<1>7. ASSUME NEW k \in Key, NEW at \in Instants, GetAnswer(k, at) PROVE CacheInv'
    <2>1. PICK p \in 1 .. Len(L) : L[p] = inner.map[k]
        BY <1>1, <1>7, PlaceIs DEF GetAnswer
    <2>2. \E M, G, g : Kept(move_to_head(inner, L[p]), M, G, g)
        BY <1>1, MoveKept
    <2>3. inner' = move_to_head(inner, L[p]) /\ clock' = clock
        BY <1>7, <2>1 DEF GetAnswer
    <2> QED
        BY <1>0, <2>2, <2>3 DEF CacheInv
<1> QED
    BY <1>2, <1>3, <1>4, <1>5, <1>6, <1>7 DEF Next
-----------------------------------------------------------------------------
(***************************************************************************)
(* What the invariant says of the walks, the free list and the sum         *)
(***************************************************************************)

\* g walks N steps from a along nx.
Walks(g, N, a, nx) == g = [n \in 1 .. N |-> IF n = 1 THEN a ELSE nx[g[n - 1]]]

\* Only one function walks so.
LEMMA OneWalk ==
    ASSUME NEW N \in Nat, NEW a, NEW nx, NEW g, NEW h, Walks(g, N, a, nx), Walks(h, N, a, nx)
    PROVE  g = h
<1> DEFINE P == {n \in 0 .. N : n = 0 \/ g[n] = h[n]}
<1>0. /\ \A n \in 1 .. N : g[n] = IF n = 1 THEN a ELSE nx[g[n - 1]]
      /\ \A n \in 1 .. N : h[n] = IF n = 1 THEN a ELSE nx[h[n - 1]]
    BY DEF Walks
<1>1. 0 \in P
    OBVIOUS
<1>2. ASSUME NEW n \in 1 .. N, n - 1 \in P PROVE n \in P
    <2>0. g[n] = (IF n = 1 THEN a ELSE nx[g[n - 1]]) /\ h[n] = (IF n = 1 THEN a ELSE nx[h[n - 1]])
        BY <1>0
    <2>1. CASE n = 1
        BY <2>0, <2>1
    <2>2. CASE n # 1
        <3>1. g[n - 1] = h[n - 1]
            BY <1>2, <2>2
        <3>2. g[n] = h[n]
            BY <2>0, <2>2, <3>1
        <3> QED
            BY <3>2
    <2> QED
        BY <2>1, <2>2
<1>3. 0 .. N \subseteq P
    <2> HIDE DEF P
    <2> QED
        BY <1>1, <1>2, UpTo
<1>4. ASSUME NEW n \in 1 .. N PROVE g[n] = h[n]
    <2>1. n \in 0 .. N /\ n # 0
        OBVIOUS
    <2> QED
        BY <1>3, <2>1
<1>5. ASSUME NEW n \in 1 .. N
      PROVE  (IF n = 1 THEN a ELSE nx[g[n - 1]]) = IF n = 1 THEN a ELSE nx[h[n - 1]]
    BY <1>0, <1>4
<1>6. [n \in 1 .. N |-> IF n = 1 THEN a ELSE nx[g[n - 1]]] = [n \in 1 .. N |-> IF n = 1 THEN a ELSE nx[h[n - 1]]]
    BY <1>5
<1> QED
    BY <1>6, Zenon DEF Walks

\* The recency list is what the walk meets.
LEMMA WalkIs ==
    ASSUME NEW L, NEW F, NEW f, Whole(inner, L, F, f)
    PROVE  Walk = L
<1> DEFINE n == Len(L)
           C == Cardinality(DOMAIN inner.map)
           one(at, j) == IF j = 1 THEN inner.head ELSE inner.slots[at[j - 1]].next
<1>1. L \in Seq(Index) /\ n \in Nat /\ C = n /\ DOMAIN L = 1 .. n /\ L = [j \in 1 .. n |-> L[j]]
    BY CountKeys DEF Whole, Rest
<1>2. ASSUME NEW j \in 1 .. n PROVE L[j] = one(L, j)
    <2>1. /\ inner.head = IF n = 0 THEN 0 ELSE L[1]
          /\ \A i \in 1 .. n : Nx(inner, L[i]) = IF i = n THEN 0 ELSE L[i + 1]
        BY DEF Whole, Chain
    <2> HIDE DEF n
    <2>2. CASE j = 1
        BY <1>1, <2>1, <2>2
    <2>3. CASE j # 1
        <3>1. j - 1 \in 1 .. n /\ j - 1 # n /\ j - 1 + 1 = j
            BY <1>1, <2>3
        <3>2. Nx(inner, L[j - 1]) = L[j]
            BY <2>1, <3>1
        <3> QED
            BY <2>3, <3>2 DEF Nx
    <2> QED
        BY <2>2, <2>3
<1>3. L = [j \in 1 .. C |-> one(L, j)]
    BY <1>1, <1>2
<1>4. Walk = CHOOSE at : at = [j \in 1 .. C |-> one(at, j)]
    BY DEF Walk
<1>5. Walk = [j \in 1 .. C |-> one(Walk, j)]
    BY <1>3, <1>4
<1> HIDE DEF n, C
<1>6. Walk = L
    <2> DEFINE W == Walk
               S == {L[j] : j \in 1 .. n} \cup {W[j] : j \in 1 .. n}
               nx == [i \in S |-> inner.slots[i].next]
    <2>1. W = [j \in 1 .. n |-> IF j = 1 THEN inner.head ELSE inner.slots[W[j - 1]].next]
        BY <1>1, <1>5
    <2>2. L = [j \in 1 .. n |-> IF j = 1 THEN inner.head ELSE inner.slots[L[j - 1]].next]
        BY <1>1, <1>3
    <2> HIDE DEF W
    <2>3. \A j \in 1 .. n : j # 1 => j - 1 \in 1 .. n
        BY <1>1
    <2>4. \A j \in 1 .. n : nx[L[j]] = inner.slots[L[j]].next /\ nx[W[j]] = inner.slots[W[j]].next
        OBVIOUS
    <2> HIDE DEF nx
    <2>5. \A j \in 1 .. n : (IF j = 1 THEN inner.head ELSE inner.slots[W[j - 1]].next)
                            = IF j = 1 THEN inner.head ELSE nx[W[j - 1]]
        BY <2>3, <2>4, Zenon
    <2>6. \A j \in 1 .. n : (IF j = 1 THEN inner.head ELSE inner.slots[L[j - 1]].next)
                            = IF j = 1 THEN inner.head ELSE nx[L[j - 1]]
        BY <2>3, <2>4, Zenon
    <2>7. [j \in 1 .. n |-> IF j = 1 THEN inner.head ELSE inner.slots[W[j - 1]].next]
          = [j \in 1 .. n |-> IF j = 1 THEN inner.head ELSE nx[W[j - 1]]]
        BY <2>5, Zenon
    <2>8. [j \in 1 .. n |-> IF j = 1 THEN inner.head ELSE inner.slots[L[j - 1]].next]
          = [j \in 1 .. n |-> IF j = 1 THEN inner.head ELSE nx[L[j - 1]]]
        BY <2>6, Zenon
    <2>9. Walks(W, n, inner.head, nx) /\ Walks(L, n, inner.head, nx)
        BY <2>1, <2>2, <2>7, <2>8, Zenon DEF Walks
    <2>10. W = L
        BY <1>1, <2>9, OneWalk
    <2> QED
        BY <2>10 DEF W
<1> QED
    BY <1>6

\* Which slots are taken.
LEMMA SlotsAre ==
    ASSUME NEW L, NEW F, NEW f, Whole(inner, L, F, f)
    PROVE  /\ OccupiedSlots = {L[j] : j \in 1 .. Len(L)}
           /\ FreeSlots = {F[j] : j \in 1 .. Len(F)}
           /\ \A i : i \in OccupiedSlots <=> Oc(inner, i)
<1>1. /\ L \in Seq(Index) /\ Len(L) \in Nat /\ \A j \in 1 .. Len(L) : Oc(inner, L[j])
      /\ F \in Seq(Index) /\ Len(F) \in Nat /\ \A j \in 1 .. Len(F) : Sp(inner, F[j])
      /\ Covered(inner, L, F) /\ inner.slots \in Seq(Taken \cup Spare)
    BY DEF Whole, Rest, Spares, Inner
<1>2. \A i \in 1 .. Len(inner.slots) : inner.slots[i] \in Taken \/ inner.slots[i] \in Spare
    BY <1>1
<1>3. (\A x \in Taken : x.tag = "occupied") /\ (\A x \in Spare : x.tag # "occupied")
    BY DEF Taken, Spare
<1>4. \A i : i \in OccupiedSlots <=> Oc(inner, i)
    BY <1>2, <1>3 DEF OccupiedSlots, Occupied, Oc
<1>5. \A i : i \in FreeSlots <=> Sp(inner, i)
    BY <1>2, <1>3 DEF FreeSlots, OccupiedSlots, Occupied, Sp
<1>6. \A i : ~(Oc(inner, i) /\ Sp(inner, i))
    BY <1>3 DEF Oc, Sp
<1>7. OccupiedSlots = {L[j] : j \in 1 .. Len(L)}
    <2>1. ASSUME NEW i, Oc(inner, i) PROVE i \in {L[j] : j \in 1 .. Len(L)}
        BY <1>1, <1>6, <2>1 DEF Covered, Oc
    <2> QED
        BY <2>1, <1>1, <1>4
<1>8. FreeSlots = {F[j] : j \in 1 .. Len(F)}
    <2>1. ASSUME NEW i, Sp(inner, i) PROVE i \in {F[j] : j \in 1 .. Len(F)}
        <3>1. i \in 1 .. Len(inner.slots)
            BY <2>1 DEF Sp
        <3>2. (\E j \in 1 .. Len(L) : L[j] = i) \/ \E j \in 1 .. Len(F) : F[j] = i
            BY <1>1, <3>1 DEF Covered
        <3>3. ~\E j \in 1 .. Len(L) : L[j] = i
            BY <1>1, <1>6, <2>1
        <3> QED
            BY <3>2, <3>3
    <2> QED
        BY <2>1, <1>1, <1>5
<1> QED
    BY <1>4, <1>7, <1>8

\* The parts of SlotsWhole, one by one.
LEMMA ListHolds ==
    ASSUME NEW L, NEW F, NEW f, Whole(inner, L, F, f)
    PROVE  ListWhole
<1> DEFINE n == Len(L)
<1>1. /\ L \in Seq(Index) /\ n \in Nat /\ Keyed(inner) /\ \A j \in 1 .. n : Oc(inner, L[j]) /\ L[j] # 0
      /\ \A j \in 1 .. n : Pv(inner, L[j]) = IF j = 1 THEN 0 ELSE L[j - 1]
      /\ \A j \in 1 .. n : Nx(inner, L[j]) = IF j = n THEN 0 ELSE L[j + 1]
      /\ inner.head = (IF n = 0 THEN 0 ELSE L[1]) /\ inner.tail = IF n = 0 THEN 0 ELSE L[n]
    BY DEF Whole, Chain, Rest, Index
<1>2. Cardinality(DOMAIN inner.map) = n /\ Walk = L
    BY CountKeys, WalkIs
<1>3. OccupiedSlots = {L[j] : j \in 1 .. n}
    BY SlotsAre
<1> HIDE DEF n
<1>4. (n = 0 <=> inner.head = 0) /\ (n = 0 <=> inner.tail = 0)
    BY <1>1
<1>5. \A i \in 1 .. n : inner.map[inner.slots[L[i]].key] = L[i]
    BY <1>1 DEF Keyed, Ky
<1>6. \A i \in 1 .. n : inner.slots[L[i]].prev = IF i = 1 THEN 0 ELSE L[i - 1]
    BY <1>1 DEF Pv
<1>7. n > 0 => L[n] = inner.tail /\ inner.slots[inner.tail].next = 0
    <2>1. n > 0 => n \in 1 .. n
        BY <1>1
    <2> QED
        BY <2>1, <1>1 DEF Nx
<1> QED
    BY <1>2, <1>3, <1>4, <1>5, <1>6, <1>7 DEF ListWhole, NONE

LEMMA FreeListHolds ==
    ASSUME NEW L, NEW F, NEW f, Whole(inner, L, F, f)
    PROVE  FreeListWhole
<1> DEFINE n == Len(F)
           free == Cardinality(FreeSlots)
           one(at, j) == IF j = 1 THEN inner.free_head
                         ELSE IF at[j - 1] \in FreeSlots THEN inner.slots[at[j - 1]].next_free ELSE NONE
           G == [j \in 1 .. n + 1 |-> IF j = n + 1 THEN 0 ELSE F[j]]
           A == CHOOSE at : at = [j \in 1 .. free + 1 |-> one(at, j)]
<1>1. /\ F \in Seq(Index) /\ n \in Nat /\ Distinct(F)
      /\ \A j \in 1 .. n : Nf(inner, F[j]) = IF j = n THEN 0 ELSE F[j + 1]
      /\ inner.free_head = IF n = 0 THEN 0 ELSE F[1]
      /\ Len(inner.slots) <= Capacity
    BY DEF Whole, Rest, Spares
<1>2. FreeSlots = {F[j] : j \in 1 .. n}
    BY SlotsAre
<1>3. free = n
    <2> DEFINE S == 1 .. n
               T == FreeSlots
    <2>1. F \in [S -> T] /\ (\A a, b \in S : F[a] = F[b] => a = b) /\ \A t \in T : \E j \in S : F[j] = t
        BY <1>1, <1>2 DEF Distinct
    <2>2. IsFiniteSet(S) /\ Cardinality(S) = n
        BY <1>1, CountTo
    <2> HIDE DEF S, T
    <2>3. F \in Bijection(S, T)
        BY <2>1, Fun_IsBij
    <2>4. ExistsBijection(S, T)
        BY <2>3 DEF ExistsBijection
    <2>5. Cardinality(T) = Cardinality(S)
        BY <2>2, <2>4, FS_Bijection
    <2> QED
        BY <2>2, <2>5 DEF T
<1>4. FreeListWhole <=> /\ {A[j] : j \in 1 .. free} = FreeSlots
                        /\ A[free + 1] = NONE
                        /\ Len(inner.slots) <= Capacity
    BY DEF FreeListWhole
<1> HIDE DEF n, free
<1>5. \A j \in 1 .. n + 1 : G[j] = one(G, j)
    <2> SUFFICES ASSUME NEW j \in 1 .. n + 1 PROVE G[j] = one(G, j)
        OBVIOUS
    <2>1. CASE j = 1
        BY <1>1, <2>1
    <2>2. CASE j # 1
        <3>1. j - 1 \in 1 .. n /\ j - 1 \in 1 .. n + 1 /\ j - 1 + 1 = j /\ j - 1 # n + 1
            BY <1>1, <2>2
        <3>2. G[j - 1] = F[j - 1] /\ G[j] = IF j - 1 = n THEN 0 ELSE F[j]
            BY <1>1, <3>1
        <3>3. F[j - 1] \in FreeSlots /\ Nf(inner, F[j - 1]) = IF j - 1 = n THEN 0 ELSE F[j]
            BY <1>1, <1>2, <3>1
        <3> HIDE DEF G
        <3> QED
            BY <2>2, <3>2, <3>3 DEF Nf
    <2> QED
        BY <2>1, <2>2
<1>6. G = [j \in 1 .. free + 1 |-> one(G, j)]
    BY <1>3, <1>5
<1> HIDE DEF G
<1>7. A = [j \in 1 .. free + 1 |-> one(A, j)]
    BY <1>6
<1> HIDE DEF A
<1>8. A = G
    <2> DEFINE N == n + 1
               S == {A[j] : j \in 1 .. N} \cup {G[j] : j \in 1 .. N}
               nx == [i \in S |-> IF i \in FreeSlots THEN inner.slots[i].next_free ELSE NONE]
    <2>1. A = [j \in 1 .. N |-> one(A, j)] /\ G = [j \in 1 .. N |-> one(G, j)]
        BY <1>3, <1>6, <1>7
    <2>2. N \in Nat
        BY <1>1
    <2> HIDE DEF N
    <2>3. \A j \in 1 .. N : j # 1 => j - 1 \in 1 .. N
        BY <2>2
    <2>4. \A j \in 1 .. N :
              /\ nx[A[j]] = IF A[j] \in FreeSlots THEN inner.slots[A[j]].next_free ELSE NONE
              /\ nx[G[j]] = IF G[j] \in FreeSlots THEN inner.slots[G[j]].next_free ELSE NONE
        OBVIOUS
    <2> HIDE DEF nx
    <2>5. \A j \in 1 .. N : one(A, j) = IF j = 1 THEN inner.free_head ELSE nx[A[j - 1]]
        BY <2>3, <2>4, Zenon
    <2>6. \A j \in 1 .. N : one(G, j) = IF j = 1 THEN inner.free_head ELSE nx[G[j - 1]]
        BY <2>3, <2>4, Zenon
    <2> HIDE DEF one
    <2>7. [j \in 1 .. N |-> one(A, j)] = [j \in 1 .. N |-> IF j = 1 THEN inner.free_head ELSE nx[A[j - 1]]]
        BY <2>5, Zenon
    <2>8. [j \in 1 .. N |-> one(G, j)] = [j \in 1 .. N |-> IF j = 1 THEN inner.free_head ELSE nx[G[j - 1]]]
        BY <2>6, Zenon
    <2>9. Walks(A, N, inner.free_head, nx) /\ Walks(G, N, inner.free_head, nx)
        BY <2>1, <2>7, <2>8, Zenon DEF Walks
    <2> QED
        BY <2>2, <2>9, OneWalk
<1>9. G[n + 1] = 0 /\ \A j \in 1 .. n : G[j] = F[j]
    BY <1>1 DEF G
<1>10. {A[j] : j \in 1 .. n} = FreeSlots
    BY <1>2, <1>8, <1>9
<1> QED
    BY <1>1, <1>3, <1>4, <1>8, <1>9, <1>10 DEF NONE

LEMMA BytesHold ==
    ASSUME NEW L, NEW F, NEW f, Kept(inner, L, F, f)
    PROVE  BytesExact
<1> DEFINE n == Len(L)
           E == Entries(inner, L)
           C == Cardinality(DOMAIN inner.map)
           one(sum, i) == IF i = 0 THEN 0 ELSE sum[i - 1] + inner.slots[Walk[i]].bytes
           B == CHOOSE sum : sum = [i \in 0 .. C |-> one(sum, i)]
<1>1. /\ Whole(inner, L, F, f) /\ L \in Seq(Index) /\ n \in Nat /\ Sums(E, f) /\ inner.bytes_total = f[n]
      /\ f[n] > MaxBytes => n = 1
    BY DEF Kept, Whole, Rest
<1>2. C = n /\ Walk = L
    BY <1>1, CountKeys, WalkIs
<1>3. Len(E) = n /\ \A j \in 1 .. n : E[j].bytes = inner.slots[L[j]].bytes
    <2>1. Len(E) = n /\ \A j \in 1 .. n : E[j] = Data(inner.slots[L[j]])
        BY <1>1, EntriesIs
    <2>2. \A e : Data(e).bytes = e.bytes
        BY DEF Data
    <2> HIDE DEF n, E
    <2> QED
        BY <2>1, <2>2
<1>4. BytesExact <=> inner.bytes_total = B[C] /\ (inner.bytes_total > MaxBytes => C = 1)
    BY DEF BytesExact
<1> HIDE DEF n, E, C
<1>5. f \in [0 .. n -> Nat] /\ f[0] = 0 /\ \A j \in 1 .. n : f[j] = f[j - 1] + E[j].bytes
    BY <1>1, <1>3 DEF Sums
<1>6. \A j \in 0 .. n : f[j] = one(f, j)
    <2> SUFFICES ASSUME NEW j \in 0 .. n PROVE f[j] = one(f, j)
        OBVIOUS
    <2>1. CASE j = 0
        BY <2>1, <1>5
    <2>2. CASE j # 0
        <3>1. j \in 1 .. n
            BY <2>2, <1>1
        <3>2. f[j] = f[j - 1] + inner.slots[Walk[j]].bytes
            BY <3>1, <1>2, <1>3, <1>5
        <3> QED
            BY <2>2, <3>2
    <2> QED
        BY <2>1, <2>2
<1>7. f = [j \in 0 .. C |-> one(f, j)]
    BY <1>2, <1>5, <1>6
<1>8. B = [j \in 0 .. C |-> one(B, j)]
    BY <1>7
<1> HIDE DEF B
<1>9. B[n] = f[n]
    <2> DEFINE P == {j \in 0 .. n : B[j] = f[j]}
    <2>0. \A j \in 0 .. n : B[j] = one(B, j)
        BY <1>2, <1>8
    <2>1. 0 \in P
        BY <1>1, <1>5, <2>0
    <2>2. ASSUME NEW j \in 1 .. n, j - 1 \in P PROVE j \in P
        <3>1. j \in 0 .. n /\ j # 0 /\ B[j - 1] = f[j - 1]
            BY <1>1, <2>2
        <3>2. B[j] = B[j - 1] + inner.slots[Walk[j]].bytes /\ f[j] = f[j - 1] + inner.slots[Walk[j]].bytes
            BY <1>6, <2>0, <3>1, Zenon
        <3> QED
            BY <3>1, <3>2
    <2>3. 0 .. n \subseteq P
        <3> HIDE DEF P
        <3> QED
            BY <1>1, <2>1, <2>2, UpTo
    <2> QED
        BY <1>1, <2>3
<1> QED
    BY <1>1, <1>2, <1>4, <1>9

LEMMA TypeHolds ==
    ASSUME NEW L, NEW F, NEW f, Whole(inner, L, F, f), clock \in 0 .. MaxClock
    PROVE  TypeOK
<1>1. /\ L \in Seq(Index) /\ Len(L) \in Nat /\ F \in Seq(Index) /\ Len(F) \in Nat
      /\ \A j \in 1 .. Len(L) : Oc(inner, L[j])
      /\ \A j \in 1 .. Len(F) : Sp(inner, F[j])
      /\ Keyed(inner) /\ inner.bytes_total \in Nat /\ Len(inner.slots) \in Nat /\ inner.map \in Maps
      /\ inner.head = (IF Len(L) = 0 THEN 0 ELSE L[1]) /\ inner.tail = (IF Len(L) = 0 THEN 0 ELSE L[Len(L)])
      /\ inner.free_head = IF Len(F) = 0 THEN 0 ELSE F[1]
    BY DEF Whole, Chain, Rest, Spares, Inner
<1>2. \A k \in DOMAIN inner.map : inner.map[k] \in OccupiedSlots
    BY <1>1, SlotsAre DEF Keyed
<1>3. DOMAIN inner.map \subseteq Key
    BY <1>1 DEF Maps
<1>4. {inner.head, inner.tail, inner.free_head} \subseteq 0 .. Len(inner.slots)
    <2>1. \A i : Oc(inner, i) \/ Sp(inner, i) => i \in 0 .. Len(inner.slots)
        BY <1>1 DEF Oc, Sp
    <2>2. inner.head \in 0 .. Len(inner.slots)
        <3>1. Len(L) # 0 => 1 \in 1 .. Len(L)
            BY <1>1
        <3> QED
            BY <2>1, <3>1, <1>1
    <2>3. inner.tail \in 0 .. Len(inner.slots)
        <3>1. Len(L) # 0 => Len(L) \in 1 .. Len(L)
            BY <1>1
        <3> QED
            BY <2>1, <3>1, <1>1
    <2>4. inner.free_head \in 0 .. Len(inner.slots)
        <3>1. Len(F) # 0 => 1 \in 1 .. Len(F)
            BY <1>1
        <3> QED
            BY <2>1, <3>1, <1>1
    <2> QED
        BY <2>2, <2>3, <2>4
<1> QED
    BY <1>1, <1>2, <1>3, <1>4 DEF TypeOK

LEMMA InvImplies == CacheInv => SlotsWhole
<1> SUFFICES ASSUME CacheInv PROVE SlotsWhole
    OBVIOUS
<1>1. PICK L, F, f : Kept(inner, L, F, f)
    BY DEF CacheInv
<1>2. Whole(inner, L, F, f) /\ clock \in 0 .. MaxClock
    BY <1>1 DEF Kept, CacheInv
<1>3. TypeOK /\ ListWhole /\ FreeListWhole /\ BytesExact
    BY <1>1, <1>2, TypeHolds, ListHolds, FreeListHolds, BytesHold
<1> QED
    BY <1>3 DEF SlotsWhole

\* For any keys, messages, capacity and budget, however long the cache runs:
\* the map, the recency list and the free list stay in step and the byte count
\* is exact (cache.rs: insert, get and remove, under the one mutex).
THEOREM SlotsStayWhole == Spec => []SlotsWhole
<1>1. Init => CacheInv
    BY InitKept
<1>2. CacheInv /\ [Next]_vars => CacheInv'
    BY StepKept
<1>3. CacheInv => SlotsWhole
    BY InvImplies
<1> QED
    BY <1>1, <1>2, <1>3, PTL DEF Spec
\* A fresh answer keeps within the data's lifetime: what its entry holds is the
\* shortest of its records' lives, and the caller's clock lags by MaxLag at most.
THEOREM FreshStaysWithinLifetime == Spec => FreshWithinLifetime
<1> DEFINE Act == \A k \in Key, at \in Instants :
                     GetAnswer(k, at) /\ out'.kind = "fresh" =>
                        LET e == inner.slots[inner.map[k]]
                        IN  \A r \in e.msg.records :
                               /\ AnswerTtl(e, r.ttl, at) >= 1
                               /\ clock + AnswerTtl(e, r.ttl, at) <= e.at + r.ttl + MaxLag
<1>1. ASSUME CacheInv PROVE Act
    <2> DEFINE e(k) == inner.slots[inner.map[k]]
    <2> SUFFICES ASSUME NEW k \in Key, NEW at \in Instants, GetAnswer(k, at), out'.kind = "fresh",
                        NEW r \in e(k).msg.records
                 PROVE  /\ AnswerTtl(e(k), r.ttl, at) >= 1
                        /\ clock + AnswerTtl(e(k), r.ttl, at) <= e(k).at + r.ttl + MaxLag
        OBVIOUS
    <2>1. at \in Nat /\ clock \in Nat /\ MaxLag \in Nat /\ clock <= at + MaxLag
        BY <1>1, CallsAssumption DEF Instants, CacheInv
    <2>2. PICK L, F, f : Kept(inner, L, F, f)
        BY <1>1 DEF CacheInv
    <2>3. PICK p \in 1 .. Len(L) : L[p] = inner.map[k]
        BY <2>2, PlaceIs DEF GetAnswer
    <2>4. Data(e(k)) \in EntrySet
        <3>1. L \in Seq(Index) /\ Entries(inner, L) \in Seq(EntrySet)
            BY <2>2 DEF Kept, Whole, Rest
        <3>2. Len(Entries(inner, L)) = Len(L) /\ Entries(inner, L)[p] = Data(e(k))
            BY <2>3, <3>1, EntriesIs
        <3> QED
            BY <2>3, <3>1, <3>2
    <2>5. out'.kind = IF Fresh(e(k), at) THEN "fresh" ELSE "stale"
        BY DEF GetAnswer, AnswerFrom
    <2>6. Fresh(e(k), at)
        BY <2>5
    <2> DEFINE msg == e(k).msg
               ttl == e(k).ttl
               born == e(k).at
               orig == r.ttl
               age == Age(e(k), at)
    <2>7. msg \in Message /\ ttl = Lifetime(msg) /\ ttl \in Nat /\ born \in Nat
        BY <2>4 DEF EntrySet, Data
    <2>8. ttl <= orig /\ orig \in Nat
        BY <2>7, LifetimeIs, CallsAssumption
    <2>9. age = (IF at > born THEN at - born ELSE 0) /\ age < ttl
        BY <2>6 DEF Age, Fresh
    <2>10. AnswerTtl(e(k), orig, at) = IF orig > age THEN orig - age ELSE 1
        BY <2>6 DEF AnswerTtl
    <2> HIDE DEF msg, ttl, born, orig, age
    <2>11. age \in Nat /\ at <= born + age
        BY <2>1, <2>7, <2>9
    <2>12. orig > age
        BY <2>7, <2>8, <2>9, <2>11
    <2>13. orig - age >= 1 /\ clock + (orig - age) <= born + orig + MaxLag
        BY <2>1, <2>7, <2>8, <2>11, <2>12
    <2>14. AnswerTtl(e(k), orig, at) >= 1 /\ clock + AnswerTtl(e(k), orig, at) <= born + orig + MaxLag
        BY <2>10, <2>12, <2>13
    <2> QED
        BY <2>14 DEF born, orig
<1>2. Spec => []CacheInv
    BY InitKept, StepKept, PTL DEF Spec
<1>3. CacheInv /\ [Next]_vars => [Act]_vars
    BY <1>1
<1> HIDE DEF Act
<1>4. Spec => [][Act]_vars
    BY <1>2, <1>3, PTL DEF Spec
<1> QED
    BY <1>4 DEF FreshWithinLifetime, Act

-----------------------------------------------------------------------------
(***************************************************************************)
(* The list operators of CacheEntries, place by place                      *)
(***************************************************************************)

OwnKeys(E) == \A i, j \in 1 .. Len(E) : E[i].key = E[j].key => i = j

\* Place and entry of a key.
LEMMA PlaceIn ==
    ASSUME NEW E, OwnKeys(E), NEW p \in 1 .. Len(E)
    PROVE  PlaceOf(E, E[p].key) = p /\ EntryOf(E, E[p].key) = E[p]
<1>1. \A i \in 1 .. Len(E) : E[i].key = E[p].key => i = p
    BY DEF OwnKeys
<1>2. PlaceOf(E, E[p].key) = p
    BY <1>1 DEF PlaceOf
<1> QED
    BY <1>2 DEF EntryOf

\* The list operators are Push, First, Drop and Front.
LEMMA OneThen ==
    ASSUME NEW T, NEW x \in T, NEW E \in Seq(T)
    PROVE  <<x>> \o E = Push(x, E)
<1> DEFINE a == <<x>>
           D == Push(x, E)
<1>1. a \in Seq(T) /\ Len(a) = 1 /\ a[1] = x /\ Len(E) \in Nat
    OBVIOUS
<1>2. D \in Seq(T) /\ Len(D) = Len(E) + 1 /\ \A j \in 1 .. Len(E) + 1 : D[j] = IF j = 1 THEN x ELSE E[j - 1]
    BY PushIs
<1> HIDE DEF a, D
<1>3. /\ a \o E \in Seq(T) /\ Len(a \o E) = Len(a) + Len(E)
      /\ \A j \in 1 .. Len(a) + Len(E) : (a \o E)[j] = IF j <= Len(a) THEN a[j] ELSE E[j - Len(a)]
    BY <1>1, ConcatProperties
<1> DEFINE c == a \o E
<1>6. c \in Seq(T) /\ Len(c) = Len(E) + 1 /\ \A j \in 1 .. Len(E) + 1 : c[j] = IF j <= 1 THEN a[j] ELSE E[j - 1]
    BY <1>1, <1>3
<1> HIDE DEF c
<1>4. \A j \in 1 .. Len(c) : c[j] = D[j]
    <2> SUFFICES ASSUME NEW j \in 1 .. Len(E) + 1 PROVE c[j] = D[j]
        BY <1>6
    <2>1. CASE j = 1
        BY <2>1, <1>1, <1>2, <1>6
    <2>2. CASE j # 1
        BY <2>2, <1>1, <1>2, <1>6
    <2> QED
        BY <2>1, <2>2
<1>5. c = D
    BY <1>2, <1>4, <1>6, SeqEqual
<1> QED
    BY <1>5 DEF a, D, c

LEMMA FirstIsSubSeq ==
    ASSUME NEW T, NEW E \in Seq(T), NEW c \in 0 .. Len(E)
    PROVE  SubSeq(E, 1, c) = First(E, c)
<1> DEFINE D == First(E, c)
           S == SubSeq(E, 1, c)
<1>1. D \in Seq(T) /\ Len(D) = c /\ (\A j \in 1 .. c : D[j] = E[j]) /\ Len(E) \in Nat /\ c \in Nat
    BY FirstIs
<1>2. S \in Seq(T) /\ Len(S) = (IF 1 <= c THEN c - 1 + 1 ELSE 0) /\ \A j \in 1 .. c - 1 + 1 : S[j] = E[1 + j - 1]
    <2>1. 1 \in Int /\ c \in Int /\ \A j \in 1 .. c : E[j] \in T
        BY <1>1
    <2> QED
        BY <2>1, SubSeqProperties
<1> HIDE DEF D, S
<1>3. Len(S) = c /\ \A j \in 1 .. c : S[j] = E[j]
    BY <1>1, <1>2
<1>4. S = D
    BY <1>1, <1>2, <1>3, SeqEqual
<1> QED
    BY <1>4 DEF S, D

LEMMA WithoutIs ==
    ASSUME NEW T, NEW E \in Seq(T), OwnKeys(E), NEW p \in 1 .. Len(E)
    PROVE  Without(E, E[p].key) = Drop(E, p)
<1> DEFINE n == Len(E)
           a == SubSeq(E, 1, p - 1)
           b == SubSeq(E, p + 1, n)
           D == Drop(E, p)
           c == a \o b
<1>1. n \in Nat /\ p \in 1 .. n /\ \A j \in 1 .. n : E[j] \in T
    OBVIOUS
<1>2. Without(E, E[p].key) = c
    <2>1. PlaceOf(E, E[p].key) = p
        BY PlaceIn
    <2> QED
        BY <2>1 DEF Without
<1>3. D \in Seq(T) /\ Len(D) = n - 1 /\ \A j \in 1 .. n - 1 : D[j] = IF j < p THEN E[j] ELSE E[j + 1]
    BY DropIs
<1>4. a \in Seq(T) /\ Len(a) = (IF 1 <= p - 1 THEN p - 1 - 1 + 1 ELSE 0) /\ \A j \in 1 .. p - 1 - 1 + 1 : a[j] = E[1 + j - 1]
    <2>1. 1 \in Int /\ p - 1 \in Int /\ \A j \in 1 .. p - 1 : E[j] \in T
        BY <1>1
    <2> QED
        BY <2>1, SubSeqProperties
<1>5. b \in Seq(T) /\ Len(b) = (IF p + 1 <= n THEN n - (p + 1) + 1 ELSE 0)
      /\ \A j \in 1 .. n - (p + 1) + 1 : b[j] = E[p + 1 + j - 1]
    <2>1. p + 1 \in Int /\ n \in Int /\ \A j \in p + 1 .. n : E[j] \in T
        BY <1>1
    <2> QED
        BY <2>1, SubSeqProperties
<1> HIDE DEF a, b, D, n
<1>6. Len(a) = p - 1 /\ (\A j \in 1 .. p - 1 : a[j] = E[j]) /\ Len(b) = n - p /\ \A j \in 1 .. n - p : b[j] = E[p + j]
    BY <1>1, <1>4, <1>5
<1>7. /\ c \in Seq(T) /\ Len(c) = Len(a) + Len(b)
      /\ \A j \in 1 .. Len(a) + Len(b) : c[j] = IF j <= Len(a) THEN a[j] ELSE b[j - Len(a)]
    BY <1>4, <1>5, ConcatProperties
<1> HIDE DEF c
<1>8. Len(c) = n - 1 /\ \A j \in 1 .. n - 1 : c[j] = IF j <= p - 1 THEN a[j] ELSE b[j - (p - 1)]
    BY <1>1, <1>6, <1>7
<1>9. ASSUME NEW j \in 1 .. n - 1 PROVE c[j] = D[j]
    <2>1. CASE j < p
        <3>1. j \in 1 .. p - 1 /\ j <= p - 1
            BY <1>1, <2>1
        <3> QED
            BY <3>1, <2>1, <1>3, <1>6, <1>8
    <2>2. CASE ~(j < p)
        <3>1. j - (p - 1) \in 1 .. n - p /\ ~(j <= p - 1) /\ p + (j - (p - 1)) = j + 1
            BY <1>1, <2>2
        <3>2. b[j - (p - 1)] = E[j + 1]
            BY <3>1, <1>6
        <3>3. c[j] = b[j - (p - 1)]
            BY <3>1, <1>8
        <3> QED
            BY <3>2, <3>3, <2>2, <1>3
    <2> QED
        BY <2>1, <2>2
<1>10. c = D
    BY <1>3, <1>7, <1>8, <1>9, SeqEqual
<1> QED
    BY <1>2, <1>10 DEF D

LEMMA TouchedIs ==
    ASSUME NEW T, NEW E \in Seq(T), OwnKeys(E), NEW p \in 1 .. Len(E)
    PROVE  Touched(E, E[p].key) = Front(E, p)
<1> DEFINE D == Drop(E, p)
<1>1. Without(E, E[p].key) = D /\ EntryOf(E, E[p].key) = E[p]
    BY WithoutIs, PlaceIn
<1>2. D \in Seq(T) /\ E[p] \in T
    BY DropIs
<1>3. Touched(E, E[p].key) = <<E[p]>> \o D
    BY <1>1 DEF Touched
<1> HIDE DEF D
<1>4. <<E[p]>> \o D = Push(E[p], D)
    BY <1>2, OneThen
<1> QED
    BY <1>3, <1>4 DEF Front, D

\* The entry swapped in and moved to the front is the entry pushed on the rest.
LEMMA FrontSwap ==
    ASSUME NEW T, NEW E \in Seq(T), NEW x \in T, NEW p \in 1 .. Len(E)
    PROVE  Front(Swap(E, p, x), p) = Push(x, Drop(E, p))
<1> DEFINE S == Swap(E, p, x)
           n == Len(E)
<1>1. S \in Seq(T) /\ Len(S) = n /\ n \in Nat /\ p \in 1 .. n /\ \A j \in 1 .. n : S[j] = IF j = p THEN x ELSE E[j]
    BY SwapIs
<1>2. Drop(S, p) = [j \in 1 .. n - 1 |-> IF j < p THEN S[j] ELSE S[j + 1]]
    BY <1>1 DEF Drop
<1>3. Drop(E, p) = [j \in 1 .. n - 1 |-> IF j < p THEN E[j] ELSE E[j + 1]]
    BY DEF Drop
<1> HIDE DEF S, n
<1>4. ASSUME NEW j \in 1 .. n - 1
      PROVE  (IF j < p THEN S[j] ELSE S[j + 1]) = IF j < p THEN E[j] ELSE E[j + 1]
    <2>1. CASE j < p
        <3>1. j \in 1 .. n /\ j # p
            BY <1>1, <2>1
        <3> QED
            BY <2>1, <3>1, <1>1
    <2>2. CASE ~(j < p)
        <3>1. j + 1 \in 1 .. n /\ j + 1 # p
            BY <1>1, <2>2
        <3> QED
            BY <2>2, <3>1, <1>1
    <2> QED
        BY <2>1, <2>2
<1>5. Drop(S, p) = Drop(E, p)
    BY <1>2, <1>3, <1>4
<1>6. S[p] = x
    BY <1>1
<1> QED
    BY <1>5, <1>6 DEF Front, S

\* The recursive sum and the cut it decides.
LEMMA BytesUpToIs ==
    ASSUME NEW E \in Seq(EntrySet), NEW f, Sums(E, f)
    PROVE  \A j \in 0 .. Len(E) : BytesUpTo(E)[j] = f[j]
<1> DEFINE n == Len(E)
           one(sum, i) == IF i = 0 THEN 0 ELSE sum[i - 1] + E[i].bytes
           B == BytesUpTo(E)
<1>1. n \in Nat
    OBVIOUS
<1>2. f \in [0 .. n -> Nat] /\ f[0] = 0 /\ \A j \in 1 .. n : f[j] = f[j - 1] + E[j].bytes
    BY DEF Sums
<1>3. B = CHOOSE sum : sum = [i \in 0 .. n |-> one(sum, i)]
    BY DEF BytesUpTo
<1> HIDE DEF n
<1>4. \A j \in 0 .. n : f[j] = one(f, j)
    <2> SUFFICES ASSUME NEW j \in 0 .. n PROVE f[j] = one(f, j)
        OBVIOUS
    <2>1. CASE j = 0
        BY <2>1, <1>2
    <2>2. CASE j # 0
        <3>1. j \in 1 .. n
            BY <2>2, <1>1
        <3> QED
            BY <2>2, <3>1, <1>2
    <2> QED
        BY <2>1, <2>2
<1>5. f = [i \in 0 .. n |-> one(f, i)]
    BY <1>2, <1>4
<1>6. B = [i \in 0 .. n |-> one(B, i)]
    BY <1>3, <1>5
<1> HIDE DEF B
<1>7. \A j \in 0 .. n : B[j] = one(B, j)
    BY <1>6
<1> DEFINE P == {j \in 0 .. n : B[j] = f[j]}
<1>8. 0 \in P
    BY <1>1, <1>2, <1>7
<1>9. ASSUME NEW j \in 1 .. n, j - 1 \in P PROVE j \in P
    <2>1. j \in 0 .. n /\ j # 0 /\ B[j - 1] = f[j - 1]
        BY <1>1, <1>9
    <2>2. B[j] = B[j - 1] + E[j].bytes /\ f[j] = f[j - 1] + E[j].bytes
        BY <1>4, <1>7, <2>1, Zenon
    <2> QED
        BY <2>1, <2>2
<1>10. 0 .. n \subseteq P
    <2> HIDE DEF P
    <2> QED
        BY <1>1, <1>8, <1>9, UpTo
<1> QED
    BY <1>10 DEF B, n

LEMMA TrimIs ==
    ASSUME NEW E \in Seq(EntrySet), NEW D, Trimmed(E, D)
    PROVE  Trim(E) = D
<1> DEFINE n == Len(E)
<1>1. PICK c, g : /\ Sums(E, g) /\ c \in 1 .. Len(E) /\ D = First(E, c)
                  /\ c = 1 \/ g[c] <= MaxBytes
                  /\ \A m \in c + 1 .. Len(E) : g[m] > MaxBytes
    BY DEF Trimmed
<1>2. (\A j \in 0 .. n : BytesUpTo(E)[j] = g[j]) /\ n \in Nat /\ c \in 1 .. n /\ g \in [0 .. n -> Nat] /\ MaxBytes \in Nat
    BY <1>1, BytesUpToIs, CacheAssumption DEF Sums
<1> HIDE DEF n
<1>3. \A m \in 1 .. n : Fits(E, m) <=> m = 1 \/ g[m] <= MaxBytes
    <2>1. \A m \in 1 .. n : m \in 0 .. n
        BY <1>2
    <2> QED
        BY <1>2, <2>1 DEF Fits
<1>4. Fits(E, c)
    BY <1>1, <1>2, <1>3
<1>5. ASSUME NEW m \in c + 1 .. n PROVE ~Fits(E, m)
    <2>1. m \in 1 .. n /\ m # 1 /\ g[m] \in Nat
        BY <1>2
    <2>2. g[m] > MaxBytes
        BY <1>1 DEF n
    <2> QED
        BY <1>2, <1>3, <2>1, <2>2
<1>6. ASSUME NEW a \in 1 .. n, Fits(E, a), \A m \in a + 1 .. n : ~Fits(E, m) PROVE a = c
    <2>1. ~(c \in a + 1 .. n) /\ ~(a \in c + 1 .. n)
        BY <1>4, <1>5, <1>6
    <2> QED
        BY <2>1, <1>2
<1>7. c = CHOOSE a \in 1 .. n : Fits(E, a) /\ \A m \in a + 1 .. n : ~Fits(E, m)
    BY <1>2, <1>4, <1>5, <1>6
<1>8. Trim(E) = SubSeq(E, 1, c)
    BY <1>7 DEF Trim, n
<1>9. c \in 0 .. Len(E)
    BY <1>2 DEF n
<1>10. SubSeq(E, 1, c) = First(E, c)
    BY <1>9, FirstIsSubSeq
<1> QED
    BY <1>1, <1>8, <1>10
-----------------------------------------------------------------------------
(***************************************************************************)
(* The refinement                                                          *)
(***************************************************************************)

\* Stored, for a new key and for one that is there.
LEMMA StoredNew ==
    ASSUME NEW E \in Seq(EntrySet), NEW x \in EntrySet, x.key \notin Keys(E), NEW D,
           Trimmed(Push(x, Room(E)), D)
    PROVE  Stored(E, x) = D
<1> DEFINE R == Room(E)
           S == IF Len(E) >= Capacity THEN SubSeq(E, 1, Len(E) - 1) ELSE E
<1>1. R \in Seq(EntrySet) /\ S = R
    <2>0. Len(E) \in Nat /\ Capacity \in Nat \ {0}
        BY CacheAssumption
    <2>1. CASE Len(E) >= Capacity
        <3>1. Len(E) - 1 \in 0 .. Len(E)
            BY <2>0, <2>1
        <3>2. First(E, Len(E) - 1) \in Seq(EntrySet) /\ SubSeq(E, 1, Len(E) - 1) = First(E, Len(E) - 1)
            BY <3>1, FirstIs, FirstIsSubSeq
        <3> QED
            BY <2>1, <3>2 DEF Room
    <2>2. CASE ~(Len(E) >= Capacity)
        BY <2>2 DEF Room
    <2> QED
        BY <2>1, <2>2
<1>2. Stored(E, x) = Trim(<<x>> \o S)
    BY DEF Stored
<1> HIDE DEF R, S
<1>3. <<x>> \o R = Push(x, R)
    BY <1>1, OneThen
<1>4. Push(x, R) \in Seq(EntrySet)
    BY <1>1, PushIs
<1>5. Trim(Push(x, R)) = D
    BY <1>4, TrimIs DEF R
<1> QED
    BY <1>1, <1>2, <1>3, <1>5

LEMMA StoredOver ==
    ASSUME NEW E \in Seq(EntrySet), OwnKeys(E), NEW x \in EntrySet, NEW p \in 1 .. Len(E), x.key = E[p].key, NEW D,
           Trimmed(Front(Swap(E, p, x), p), D)
    PROVE  Stored(E, x) = D
<1> DEFINE R == Drop(E, p)
<1>1. x.key \in Keys(E)
    BY DEF Keys
<1>2. Without(E, x.key) = R
    BY WithoutIs
<1>3. Stored(E, x) = Trim(<<x>> \o R)
    BY <1>1, <1>2 DEF Stored
<1>4. R \in Seq(EntrySet)
    BY DropIs
<1>5. Front(Swap(E, p, x), p) = Push(x, R)
    BY FrontSwap
<1> HIDE DEF R
<1>6. <<x>> \o R = Push(x, R) /\ Push(x, R) \in Seq(EntrySet)
    BY <1>4, OneThen, PushIs
<1>7. Trim(Push(x, R)) = D
    BY <1>5, <1>6, TrimIs
<1> QED
    BY <1>3, <1>6, <1>7

\* The abstract state.
LEMMA OrderIs ==
    ASSUME NEW L, NEW F, NEW f, Kept(inner, L, F, f)
    PROVE  /\ EntriesInOrder = Entries(inner, L)
           /\ Entries(inner, L) \in Seq(EntrySet) /\ Len(Entries(inner, L)) = Len(L)
           /\ OwnKeys(Entries(inner, L))
           /\ Keys(Entries(inner, L)) = DOMAIN inner.map
           /\ \A p \in 1 .. Len(L) : Entries(inner, L)[p] = Data(inner.slots[L[p]])
<1> DEFINE E == Entries(inner, L)
<1>1. Whole(inner, L, F, f) /\ L \in Seq(Index) /\ E \in Seq(EntrySet) /\ Distinct(L)
    BY DEF Kept, Whole, Rest, Chain
<1>2. Cardinality(DOMAIN inner.map) = Len(L) /\ Walk = L
    BY <1>1, CountKeys, WalkIs
<1>3. EntriesInOrder = E
    BY <1>2 DEF EntriesInOrder, Entries, Data
<1>4. Len(E) = Len(L) /\ \A p \in 1 .. Len(L) : E[p] = Data(inner.slots[L[p]])
    BY <1>1, EntriesIs
<1>5. /\ \A k : k \in DOMAIN inner.map <=> \E j \in 1 .. Len(L) : E[j].key = k
      /\ \A j \in 1 .. Len(L) : inner.map[E[j].key] = L[j]
    BY <1>1, KeysIn
<1> HIDE DEF E
<1>6. OwnKeys(E)
    BY <1>1, <1>4, <1>5 DEF OwnKeys, Distinct
<1>7. Keys(E) = DOMAIN inner.map
    BY <1>4, <1>5 DEF Keys
<1> QED
    BY <1>1, <1>3, <1>4, <1>6, <1>7 DEF E

Ordered == \A L, F, f : Kept(inner, L, F, f) => EntriesInOrder = Entries(inner, L)

LEMMA OrderNext == Ordered'
<1>1. Ordered
    BY OrderIs DEF Ordered
<1> QED
    BY <1>1, PTL

LEMMA OrderAfter ==
    ASSUME NEW L, NEW F, NEW f, Kept(inner', L, F, f)
    PROVE  EntriesInOrder' = Entries(inner', L)
BY OrderNext DEF Ordered

\* An answer depends on the data of an entry, not on its links.
LEMMA SameAnswer ==
    ASSUME NEW e, NEW at
    PROVE  (Expired(e, at) <=> Expired(Data(e), at)) /\ AnswerFrom(e, at) = AnswerFrom(Data(e), at)
<1>1. Data(e).at = e.at /\ Data(e).ttl = e.ttl /\ Data(e).msg = e.msg
    BY DEF Data
<1>2. Age(Data(e), at) = Age(e, at)
    BY <1>1 DEF Age
<1>3. (Expired(e, at) <=> Expired(Data(e), at)) /\ (Fresh(e, at) <=> Fresh(Data(e), at))
    BY <1>1, <1>2 DEF Expired, Fresh
<1>4. \A orig : AnswerTtl(e, orig, at) = AnswerTtl(Data(e), orig, at)
    BY <1>2, <1>3 DEF AnswerTtl
<1> QED
    BY <1>1, <1>3, <1>4 DEF AnswerFrom
\* The abstract machine's operators are those of CacheEntries.
LEMMA LruOperators ==
    ASSUME NEW E
    PROVE  /\ \A k, msg, at : Lru!Entry(k, msg, at) = Entry(k, msg, at)
           /\ \A x : Lru!Stored(E, x) = Stored(E, x)
           /\ \A k : Lru!Without(E, k) = Without(E, k) /\ Lru!Touched(E, k) = Touched(E, k)
           /\ \A k : Lru!EntryOf(E, k) = EntryOf(E, k)
           /\ Lru!Keys(E) = Keys(E)
           /\ \A msg : Lru!Storable(msg) <=> Storable(msg)
           /\ \A e, at : Lru!Expired(e, at) <=> Expired(e, at)
           /\ \A e, at : Lru!AnswerFrom(e, at) = AnswerFrom(e, at)
<1>1. \A k, msg, at : Lru!Entry(k, msg, at) = Entry(k, msg, at)
    BY DEF Lru!Entry, Lru!Lifetime, Lru!Least, Lru!RecordLife, Entry, Lifetime, Least, RecordLife
<1>2. /\ \A k : Lru!Without(E, k) = Without(E, k) /\ Lru!Touched(E, k) = Touched(E, k)
      /\ \A k : Lru!EntryOf(E, k) = EntryOf(E, k)
    BY DEF Lru!Without, Lru!Touched, Lru!EntryOf, Lru!PlaceOf, Without, Touched, EntryOf, PlaceOf
<1>3. Lru!Keys(E) = Keys(E)
    BY DEF Lru!Keys, Keys
<1>4. \A s : Lru!Trim(s) = Trim(s)
    BY DEF Lru!Trim, Lru!Fits, Lru!BytesUpTo, Trim, Fits, BytesUpTo
<1>5. \A x : Lru!Stored(E, x) = Stored(E, x)
    BY <1>2, <1>3, <1>4 DEF Lru!Stored, Stored
<1>6. \A msg : Lru!Storable(msg) <=> Storable(msg)
    BY DEF Lru!Storable, Storable
<1>7. /\ \A e, at : Lru!Expired(e, at) <=> Expired(e, at)
      /\ \A e, at : Lru!AnswerFrom(e, at) = AnswerFrom(e, at)
    BY DEF Lru!Expired, Lru!Age, Lru!AnswerFrom, Lru!Fresh, Lru!AnswerTtl,
           Expired, Age, AnswerFrom, Fresh, AnswerTtl
<1> QED
    BY <1>1, <1>2, <1>3, <1>5, <1>6, <1>7
\* Each method takes the step of the abstract machine.
LEMMA InsertRefines ==
    ASSUME NEW L, NEW F, NEW f, Kept(inner, L, F, f), NEW k \in Key, NEW msg \in Message, NEW at \in Nat,
           Insert(k, msg, at)
    PROVE  Lru!Insert(k, msg, at)
<1> DEFINE E == Entries(inner, L)
           x == Entry(k, msg, at)
<1>1. /\ EntriesInOrder = E /\ E \in Seq(EntrySet) /\ Len(E) = Len(L) /\ OwnKeys(E)
      /\ Keys(E) = DOMAIN inner.map
    BY OrderIs
<1>2. CASE Storable(msg)
    <2>1. /\ inner' = IF k \in DOMAIN inner.map
                      THEN ReplaceEntry(inner, k, Node(k, msg, at))
                      ELSE AddEntry(inner, k, Node(k, msg, at))
          /\ out' = [kind |-> "stored"] /\ clock' = clock
        BY <1>2 DEF Insert
    <2>2. PICK M, G, g :
              /\ Kept(inner', M, G, g)
              /\ k \notin DOMAIN inner.map => Trimmed(Push(x, Room(E)), Entries(inner', M))
              /\ \A p \in 1 .. Len(L) : L[p] = inner.map[k] /\ k \in DOMAIN inner.map =>
                    Trimmed(Front(Swap(E, p, x), p), Entries(inner', M))
        BY <1>2, <2>1, InsertKept
    <2>3. EntriesInOrder' = Entries(inner', M)
        BY <2>2, OrderAfter
    <2>4. x \in EntrySet /\ x.key = k
        BY <1>2, NodeIs DEF Entry
    <2> HIDE DEF E, x
    <2>5. Entries(inner', M) = Stored(E, x)
        <3>1. CASE k \notin DOMAIN inner.map
            BY <3>1, <1>1, <2>2, <2>4, StoredNew
        <3>2. CASE k \in DOMAIN inner.map
            <4>1. PICK p \in 1 .. Len(L) : L[p] = inner.map[k] /\ E[p].key = k
                BY <3>2, PlaceIs DEF E
            <4>2. Trimmed(Front(Swap(E, p, x), p), Entries(inner', M))
                BY <3>2, <4>1, <2>2
            <4>3. p \in 1 .. Len(E) /\ x.key = E[p].key
                BY <4>1, <1>1, <2>4
            <4> QED
                BY <4>2, <4>3, <1>1, <2>4, StoredOver
        <3> QED
            BY <3>1, <3>2
    <2>6. EntriesInOrder' = Lru!Stored(EntriesInOrder, Lru!Entry(k, msg, at)) /\ Lru!Storable(msg)
        BY <1>1, <1>2, <2>3, <2>5, LruOperators DEF x
    <2> QED
        BY <2>1, <2>6 DEF Lru!Insert
<1>3. CASE ~Storable(msg)
    <2>1. out' = [kind |-> "ignored"] /\ inner' = inner /\ clock' = clock
        BY <1>3 DEF Insert
    <2>2. EntriesInOrder' = EntriesInOrder
        BY <2>1 DEF EntriesInOrder, Walk
    <2>3. ~Lru!Storable(msg)
        BY <1>3, LruOperators
    <2> QED
        BY <2>1, <2>2, <2>3 DEF Lru!Insert
<1> QED
    BY <1>2, <1>3

LEMMA GetRefines ==
    ASSUME NEW L, NEW F, NEW f, Kept(inner, L, F, f), NEW k \in Key, NEW at,
           GetAbsent(k) \/ GetExpired(k, at) \/ GetAnswer(k, at)
    PROVE  Lru!Get(k, at)
<1> DEFINE E == Entries(inner, L)
<1>1. /\ EntriesInOrder = E /\ E \in Seq(EntrySet) /\ Len(E) = Len(L) /\ OwnKeys(E)
      /\ Keys(E) = DOMAIN inner.map
      /\ \A p \in 1 .. Len(L) : E[p] = Data(inner.slots[L[p]])
    BY OrderIs
<1>2. Lru!Keys(EntriesInOrder) = DOMAIN inner.map
    BY <1>1, LruOperators
<1>3. CASE GetAbsent(k)
    <2>1. k \notin DOMAIN inner.map /\ out' = [kind |-> "miss"] /\ inner' = inner /\ clock' = clock
        BY <1>3 DEF GetAbsent
    <2>2. EntriesInOrder' = EntriesInOrder
        BY <2>1 DEF EntriesInOrder, Walk
    <2> QED
        BY <2>1, <2>2, <1>2 DEF Lru!Get
<1>4. ASSUME k \in DOMAIN inner.map
      PROVE  \E p \in 1 .. Len(L) :
                /\ L[p] = inner.map[k]
                /\ Lru!EntryOf(EntriesInOrder, k) = Data(inner.slots[inner.map[k]])
                /\ Lru!Without(EntriesInOrder, k) = Drop(E, p) /\ Lru!Touched(EntriesInOrder, k) = Front(E, p)
    <2>1. PICK p \in 1 .. Len(L) : L[p] = inner.map[k] /\ E[p].key = k
        BY <1>4, PlaceIs
    <2>2. E[p] = Data(inner.slots[inner.map[k]])
        BY <1>1, <2>1
    <2> HIDE DEF E
    <2>3. EntryOf(E, E[p].key) = E[p] /\ Without(E, E[p].key) = Drop(E, p) /\ Touched(E, E[p].key) = Front(E, p)
        BY <1>1, PlaceIn, WithoutIs, TouchedIs
    <2>4. Lru!EntryOf(E, k) = EntryOf(E, k) /\ Lru!Without(E, k) = Without(E, k) /\ Lru!Touched(E, k) = Touched(E, k)
        BY LruOperators
    <2> QED
        BY <1>1, <2>1, <2>2, <2>3, <2>4
<1> HIDE DEF E
<1>5. CASE GetExpired(k, at)
    <2>1. /\ k \in DOMAIN inner.map /\ Expired(inner.slots[inner.map[k]], at)
          /\ inner' = remove(inner, inner.map[k]) /\ out' = [kind |-> "miss"] /\ clock' = clock
        BY <1>5 DEF GetExpired
    <2>2. PICK p \in 1 .. Len(L) :
                /\ L[p] = inner.map[k]
                /\ Lru!EntryOf(EntriesInOrder, k) = Data(inner.slots[inner.map[k]])
                /\ Lru!Without(EntriesInOrder, k) = Drop(E, p)
        BY <1>4, <2>1
    <2>3. PICK M, G, g : Kept(remove(inner, L[p]), M, G, g) /\ Entries(remove(inner, L[p]), M) = Drop(E, p)
        BY RemoveKept DEF E
    <2>4. Kept(inner', M, G, g) /\ Entries(inner', M) = Drop(E, p)
        BY <2>1, <2>2, <2>3
    <2>5. EntriesInOrder' = Lru!Without(EntriesInOrder, k)
        BY <2>2, <2>4, OrderAfter
    <2>6. Lru!Expired(Lru!EntryOf(EntriesInOrder, k), at)
        BY <2>1, <2>2, SameAnswer, LruOperators
    <2> QED
        BY <2>1, <2>5, <2>6, <1>2 DEF Lru!Get
<1>6. CASE GetAnswer(k, at)
    <2>1. /\ k \in DOMAIN inner.map /\ ~Expired(inner.slots[inner.map[k]], at)
          /\ inner' = move_to_head(inner, inner.map[k])
          /\ out' = AnswerFrom(inner.slots[inner.map[k]], at) /\ clock' = clock
        BY <1>6 DEF GetAnswer
    <2>2. PICK p \in 1 .. Len(L) :
                /\ L[p] = inner.map[k]
                /\ Lru!EntryOf(EntriesInOrder, k) = Data(inner.slots[inner.map[k]])
                /\ Lru!Touched(EntriesInOrder, k) = Front(E, p)
        BY <1>4, <2>1
    <2>3. PICK M, G, g : Kept(move_to_head(inner, L[p]), M, G, g) /\ Entries(move_to_head(inner, L[p]), M) = Front(E, p)
        BY MoveKept DEF E
    <2>4. Kept(inner', M, G, g) /\ Entries(inner', M) = Front(E, p)
        BY <2>1, <2>2, <2>3
    <2>5. EntriesInOrder' = Lru!Touched(EntriesInOrder, k)
        BY <2>2, <2>4, OrderAfter
    <2>6. ~Lru!Expired(Lru!EntryOf(EntriesInOrder, k), at)
        BY <2>1, <2>2, SameAnswer, LruOperators
    <2>7. out' = Lru!AnswerFrom(Lru!EntryOf(EntriesInOrder, k), at)
        BY <2>1, <2>2, SameAnswer, LruOperators
    <2> QED
        BY <2>1, <2>5, <2>6, <2>7, <1>2 DEF Lru!Get
<1> QED
    BY <1>3, <1>5, <1>6

LEMMA InitRefines == Init => Lru!Init
<1> SUFFICES ASSUME Init PROVE Lru!Init
    OBVIOUS
<1>1. DOMAIN inner.map = {} /\ clock = 0 /\ out = [kind |-> "none"]
    BY DEF Init, Empty
<1>2. Cardinality(DOMAIN inner.map) = 0
    BY <1>1, FS_EmptySet
<1>3. EntriesInOrder = <<>>
    BY <1>2 DEF EntriesInOrder
<1> QED
    BY <1>1, <1>3 DEF Lru!Init

LEMMA StepRefines == CacheInv /\ [Next]_vars => [Lru!Next]_<<EntriesInOrder, clock, out>>
<1> SUFFICES ASSUME CacheInv, [Next]_vars PROVE [Lru!Next]_<<EntriesInOrder, clock, out>>
    OBVIOUS
<1>1. PICK L, F, f : Kept(inner, L, F, f)
    BY DEF CacheInv
<1>2. inner' = inner => EntriesInOrder' = EntriesInOrder
    BY DEF EntriesInOrder, Walk
<1>3. CASE UNCHANGED vars
    BY <1>2, <1>3 DEF vars
<1>4. CASE Tick
    <2>1. Lru!Tick
        BY <1>2, <1>4 DEF Tick, Lru!Tick
    <2> QED
        BY <2>1 DEF Lru!Next
<1>5. \A at \in Instants : at \in Nat /\ at \in Lru!Instants
    BY DEF Instants, Lru!Instants
<1>6. ASSUME NEW k \in Key, NEW at \in Instants, NEW msg \in Message, Insert(k, msg, at)
      PROVE  Lru!Next
    <2>1. Lru!Insert(k, msg, at)
        BY <1>1, <1>5, <1>6, InsertRefines
    <2> QED
        BY <1>5, <2>1 DEF Lru!Next
<1>7. ASSUME NEW k \in Key, NEW at \in Instants, GetAbsent(k) \/ GetExpired(k, at) \/ GetAnswer(k, at)
      PROVE  Lru!Next
    <2>1. Lru!Get(k, at)
        BY <1>1, <1>7, GetRefines
    <2> QED
        BY <1>5, <2>1 DEF Lru!Next
<1> QED
    BY <1>3, <1>4, <1>6, <1>7 DEF Next

\* The slots, links, free list and byte count implement the abstract recency
\* list: every insert and get of cache.rs changes and answers as the list does.
THEOREM ImplementsLru == Spec => RefinesLru
<1>1. Spec => []CacheInv
    BY InitKept, StepKept, PTL DEF Spec
<1>2. Init => Lru!Init
    BY InitRefines
<1>3. CacheInv /\ [Next]_vars => [Lru!Next]_<<EntriesInOrder, clock, out>>
    BY StepRefines
<1> QED
    BY <1>1, <1>2, <1>3, PTL DEF Spec, RefinesLru, Lru!Spec
=============================================================================
