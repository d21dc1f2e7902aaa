---------------------------- MODULE LookupProofs ----------------------------
(***************************************************************************)
(* Theorems about the two tables a query is looked up in before an         *)
(* upstream is asked: the compiled filter with its parser, for every list  *)
(* and every name, and the failure cache, for every number of keys, every  *)
(* ladder of holds and every delay between a failure and its record.       *)
(***************************************************************************)
EXTENDS Filter, FailureHolds, FiniteSetTheorems, FunctionTheorems, SequenceTheorems,
        WellFoundedInduction, TLAPS

-----------------------------------------------------------------------------
(* Induction, and one step of each recursive function.                     *)

\* Every non-empty set of numbers has a least one.
LEMMA LeastNat ==
    ASSUME NEW T \in SUBSET Nat, T # {}
    PROVE  \E x \in T : \A y \in T : x <= y
<1>1. OpToRel(<, Nat) = {ss \in Nat \X Nat : ss[1] < ss[2]}
    BY Zenon DEF OpToRel
<1>2. \A a, b \in Nat : <<a, b>> \in {ss \in Nat \X Nat : ss[1] < ss[2]} <=> a < b
    OBVIOUS
<1>3. T \subseteq Nat
    OBVIOUS
<1>4. PICK x \in T : \A y \in T : ~(<<y, x>> \in OpToRel(<, Nat))
    BY <1>3, NatLessThanWellFounded, WFMin, Zenon
<1>5. \A y \in T : ~(y < x)
    BY <1>1, <1>2, <1>3, <1>4, Zenon
<1> QED
    BY <1>5, <1>3

\* A set of numbers with 0 and, up to L, every successor holds 0 .. L.
LEMMA UpTo ==
    ASSUME NEW L \in Nat, NEW P, 0 \in P, \A n \in 1 .. L : n - 1 \in P => n \in P
    PROVE  0 .. L \subseteq P
<1> DEFINE T == (0 .. L) \ P
<1> SUFFICES ASSUME T # {} PROVE FALSE
    OBVIOUS
<1>0. T \in SUBSET Nat
    OBVIOUS
<1>1. PICK x \in T : \A y \in T : x <= y
    <2> HIDE DEF T
    <2> QED
        BY <1>0, LeastNat
<1>2. x \in 1 .. L /\ x - 1 \in 0 .. L
    BY <1>1
<1>3. x - 1 \in P
    BY <1>1, <1>2
<1> QED
    BY <1>1, <1>2, <1>3

NumbersOne(S, L, f, n) ==
    IF n = 0 THEN <<>> ELSE IF n \in S THEN Append(f[n - 1], n) ELSE f[n - 1]

\* The recursions define functions.
LEMMA NumbersOfRec ==
    ASSUME NEW S, NEW L, L \in Nat
    PROVE  NumbersOf(S, L) = [n \in 0 .. L |-> NumbersOne(S, L, NumbersOf(S, L), n)]
<1> DEFINE P == {n \in 0 .. L : \E f : f = [m \in 0 .. n |-> NumbersOne(S, L, f, m)]}
<1>1. 0 \in P
    <2>1. [m \in 0 .. 0 |-> NumbersOne(S, L, <<>>, 0)]
             = [m \in 0 .. 0 |-> NumbersOne(S, L, [k \in 0 .. 0 |-> NumbersOne(S, L, <<>>, 0)], m)]
        BY DEF NumbersOne
    <2> QED
        BY <2>1
<1>2. ASSUME NEW n \in 1 .. L, n - 1 \in P PROVE n \in P
    <2>1. PICK f : f = [m \in 0 .. n - 1 |-> NumbersOne(S, L, f, m)]
        BY <1>2
    <2> DEFINE g == [m \in 0 .. n |-> IF m = n THEN NumbersOne(S, L, f, n) ELSE f[m]]
    <2>2. ASSUME NEW m \in 0 .. n PROVE g[m] = NumbersOne(S, L, g, m)
        <3>1. m = 0 \/ (m - 1 \in 0 .. n - 1 /\ g[m - 1] = f[m - 1])
            OBVIOUS
        <3>2. NumbersOne(S, L, g, m) = NumbersOne(S, L, f, m)
            BY <3>1 DEF NumbersOne
        <3> QED
            BY <2>1, <3>2
    <2>3. g = [m \in 0 .. n |-> NumbersOne(S, L, g, m)]
        BY <2>2
    <2>4. n \in 0 .. L
        OBVIOUS
    <2>5. \E h : h = [m \in 0 .. n |-> NumbersOne(S, L, h, m)]
        <3> HIDE DEF g
        <3> QED
            BY <2>3
    <2> QED
        BY <2>4, <2>5
<1>3. L \in P
    <2> HIDE DEF P
    <2>1. 0 .. L \subseteq P
        BY <1>1, <1>2, UpTo, Zenon
    <2> QED
        BY <2>1
<1>4. \E f : f = [n \in 0 .. L |-> NumbersOne(S, L, f, n)]
    BY <1>3
<1> QED
    BY <1>4 DEF NumbersOf, NumbersOne

LEMMA NumbersOfSteps ==
    ASSUME NEW S, NEW L, L \in Nat
    PROVE  /\ NumbersOf(S, L)[0] = NumbersOne(S, L, NumbersOf(S, L), 0)
           /\ \A n \in 1 .. L : NumbersOf(S, L)[n] = NumbersOne(S, L, NumbersOf(S, L), n)
<1>1. \A n \in 0 .. L : NumbersOf(S, L)[n] = NumbersOne(S, L, NumbersOf(S, L), n)
    BY NumbersOfRec
<1> QED
    BY <1>1

ConcatOne(ss, f, n) == IF n = 0 THEN <<>> ELSE f[n - 1] \o ss[n]

\* How sequences are put together.
LEMMA ConcatOfRec ==
    ASSUME NEW ss, Len(ss) \in Nat
    PROVE  ConcatOf(ss) = [n \in 0 .. Len(ss) |-> ConcatOne(ss, ConcatOf(ss), n)]
<1> DEFINE P == {n \in 0 .. Len(ss) : \E f : f = [m \in 0 .. n |-> ConcatOne(ss, f, m)]}
<1>1. 0 \in P
    <2>1. [m \in 0 .. 0 |-> ConcatOne(ss, <<>>, 0)]
             = [m \in 0 .. 0 |-> ConcatOne(ss, [k \in 0 .. 0 |-> ConcatOne(ss, <<>>, 0)], m)]
        BY DEF ConcatOne
    <2> QED
        BY <2>1
<1>2. ASSUME NEW n \in 1 .. Len(ss), n - 1 \in P PROVE n \in P
    <2>1. PICK f : f = [m \in 0 .. n - 1 |-> ConcatOne(ss, f, m)]
        BY <1>2
    <2> DEFINE g == [m \in 0 .. n |-> IF m = n THEN ConcatOne(ss, f, n) ELSE f[m]]
    <2>2. ASSUME NEW m \in 0 .. n PROVE g[m] = ConcatOne(ss, g, m)
        <3>1. m = 0 \/ (m - 1 \in 0 .. n - 1 /\ g[m - 1] = f[m - 1])
            OBVIOUS
        <3>2. ConcatOne(ss, g, m) = ConcatOne(ss, f, m)
            BY <3>1 DEF ConcatOne
        <3> QED
            BY <2>1, <3>2
    <2>3. g = [m \in 0 .. n |-> ConcatOne(ss, g, m)]
        BY <2>2
    <2>4. n \in 0 .. Len(ss)
        OBVIOUS
    <2>5. \E h : h = [m \in 0 .. n |-> ConcatOne(ss, h, m)]
        <3> HIDE DEF g
        <3> QED
            BY <2>3
    <2> QED
        BY <2>4, <2>5
<1>3. Len(ss) \in P
    <2> HIDE DEF P
    <2>1. 0 .. Len(ss) \subseteq P
        BY <1>1, <1>2, UpTo, Zenon
    <2> QED
        BY <2>1
<1>4. \E f : f = [n \in 0 .. Len(ss) |-> ConcatOne(ss, f, n)]
    BY <1>3
<1> QED
    BY <1>4 DEF ConcatOf, ConcatOne

LEMMA ConcatOfSteps ==
    ASSUME NEW ss, Len(ss) \in Nat
    PROVE  /\ ConcatOf(ss)[0] = ConcatOne(ss, ConcatOf(ss), 0)
           /\ \A n \in 1 .. Len(ss) : ConcatOf(ss)[n] = ConcatOne(ss, ConcatOf(ss), n)
<1>1. \A n \in 0 .. Len(ss) : ConcatOf(ss)[n] = ConcatOne(ss, ConcatOf(ss), n)
    BY ConcatOfRec
<1> QED
    BY <1>1

SortedOne(ix, order, f, n) == IF n = 0 THEN NoKeys ELSE Place(f[n - 1], ix, order[n])

\* How the sorted keys are placed.
LEMMA SortedOfRec ==
    ASSUME NEW ix, NEW order, Len(order) \in Nat
    PROVE  SortedOf(ix, order) = [n \in 0 .. Len(order) |-> SortedOne(ix, order, SortedOf(ix, order), n)]
<1> DEFINE P == {n \in 0 .. Len(order) : \E f : f = [m \in 0 .. n |-> SortedOne(ix, order, f, m)]}
<1>1. 0 \in P
    <2>1. [m \in 0 .. 0 |-> SortedOne(ix, order, <<>>, 0)]
             = [m \in 0 .. 0 |-> SortedOne(ix, order, [k \in 0 .. 0 |-> SortedOne(ix, order, <<>>, 0)], m)]
        BY DEF SortedOne
    <2> QED
        BY <2>1
<1>2. ASSUME NEW n \in 1 .. Len(order), n - 1 \in P PROVE n \in P
    <2>1. PICK f : f = [m \in 0 .. n - 1 |-> SortedOne(ix, order, f, m)]
        BY <1>2
    <2> DEFINE g == [m \in 0 .. n |-> IF m = n THEN SortedOne(ix, order, f, n) ELSE f[m]]
    <2>2. ASSUME NEW m \in 0 .. n PROVE g[m] = SortedOne(ix, order, g, m)
        <3>1. m = 0 \/ (m - 1 \in 0 .. n - 1 /\ g[m - 1] = f[m - 1])
            OBVIOUS
        <3>2. SortedOne(ix, order, g, m) = SortedOne(ix, order, f, m)
            BY <3>1 DEF SortedOne
        <3> QED
            BY <2>1, <3>2
    <2>3. g = [m \in 0 .. n |-> SortedOne(ix, order, g, m)]
        BY <2>2
    <2>4. n \in 0 .. Len(order)
        OBVIOUS
    <2>5. \E h : h = [m \in 0 .. n |-> SortedOne(ix, order, h, m)]
        <3> HIDE DEF g
        <3> QED
            BY <2>3
    <2> QED
        BY <2>4, <2>5
<1>3. Len(order) \in P
    <2> HIDE DEF P
    <2>1. 0 .. Len(order) \subseteq P
        BY <1>1, <1>2, UpTo, Zenon
    <2> QED
        BY <2>1
<1>4. \E f : f = [n \in 0 .. Len(order) |-> SortedOne(ix, order, f, n)]
    BY <1>3
<1> QED
    BY <1>4 DEF SortedOf, SortedOne

LEMMA SortedOfSteps ==
    ASSUME NEW ix, NEW order, Len(order) \in Nat
    PROVE  /\ SortedOf(ix, order)[0] = SortedOne(ix, order, SortedOf(ix, order), 0)
           /\ \A n \in 1 .. Len(order) : SortedOf(ix, order)[n] = SortedOne(ix, order, SortedOf(ix, order), n)
<1>1. \A n \in 0 .. Len(order) : SortedOf(ix, order)[n] = SortedOne(ix, order, SortedOf(ix, order), n)
    BY SortedOfRec
<1> QED
    BY <1>1

SearchOne(ix, needle, f, n) ==
    IF n = 0 THEN [lo |-> 0, hi |-> Len(ix.rules)] ELSE Halve(ix, needle, f[n - 1])

\* The rounds of a search.
LEMMA SearchOfRec ==
    ASSUME NEW ix, NEW needle, Len(ix.rules) \in Nat
    PROVE  SearchOf(ix, needle) = [n \in 0 .. Len(ix.rules) |-> SearchOne(ix, needle, SearchOf(ix, needle), n)]
<1> DEFINE P == {n \in 0 .. Len(ix.rules) : \E f : f = [m \in 0 .. n |-> SearchOne(ix, needle, f, m)]}
<1>1. 0 \in P
    <2>1. [m \in 0 .. 0 |-> SearchOne(ix, needle, <<>>, 0)]
             = [m \in 0 .. 0 |-> SearchOne(ix, needle, [k \in 0 .. 0 |-> SearchOne(ix, needle, <<>>, 0)], m)]
        BY DEF SearchOne
    <2> QED
        BY <2>1
<1>2. ASSUME NEW n \in 1 .. Len(ix.rules), n - 1 \in P PROVE n \in P
    <2>1. PICK f : f = [m \in 0 .. n - 1 |-> SearchOne(ix, needle, f, m)]
        BY <1>2
    <2> DEFINE g == [m \in 0 .. n |-> IF m = n THEN SearchOne(ix, needle, f, n) ELSE f[m]]
    <2>2. ASSUME NEW m \in 0 .. n PROVE g[m] = SearchOne(ix, needle, g, m)
        <3>1. m = 0 \/ (m - 1 \in 0 .. n - 1 /\ g[m - 1] = f[m - 1])
            OBVIOUS
        <3>2. SearchOne(ix, needle, g, m) = SearchOne(ix, needle, f, m)
            BY <3>1 DEF SearchOne
        <3> QED
            BY <2>1, <3>2
    <2>3. g = [m \in 0 .. n |-> SearchOne(ix, needle, g, m)]
        BY <2>2
    <2>4. n \in 0 .. Len(ix.rules)
        OBVIOUS
    <2>5. \E h : h = [m \in 0 .. n |-> SearchOne(ix, needle, h, m)]
        <3> HIDE DEF g
        <3> QED
            BY <2>3
    <2> QED
        BY <2>4, <2>5
<1>3. Len(ix.rules) \in P
    <2> HIDE DEF P
    <2>1. 0 .. Len(ix.rules) \subseteq P
        BY <1>1, <1>2, UpTo, Zenon
    <2> QED
        BY <2>1
<1>4. \E f : f = [n \in 0 .. Len(ix.rules) |-> SearchOne(ix, needle, f, n)]
    BY <1>3
<1> QED
    BY <1>4 DEF SearchOf, SearchOne

LEMMA SearchOfSteps ==
    ASSUME NEW ix, NEW needle, Len(ix.rules) \in Nat
    PROVE  /\ SearchOf(ix, needle)[0] = SearchOne(ix, needle, SearchOf(ix, needle), 0)
           /\ \A n \in 1 .. Len(ix.rules) : SearchOf(ix, needle)[n] = SearchOne(ix, needle, SearchOf(ix, needle), n)
<1>1. \A n \in 0 .. Len(ix.rules) : SearchOf(ix, needle)[n] = SearchOne(ix, needle, SearchOf(ix, needle), n)
    BY SearchOfRec
<1> QED
    BY <1>1

AddedOne(e, list, rules, f, n) == IF n = 0 THEN e ELSE add_rule(f[n - 1], list, rules[n])

\* How the rules of a list are added.
LEMMA AddedOfRec ==
    ASSUME NEW e, NEW list, NEW rules, Len(rules) \in Nat
    PROVE  AddedOf(e, list, rules) = [n \in 0 .. Len(rules) |-> AddedOne(e, list, rules, AddedOf(e, list, rules), n)]
<1> DEFINE P == {n \in 0 .. Len(rules) : \E f : f = [m \in 0 .. n |-> AddedOne(e, list, rules, f, m)]}
<1>1. 0 \in P
    <2>1. [m \in 0 .. 0 |-> AddedOne(e, list, rules, <<>>, 0)]
             = [m \in 0 .. 0 |-> AddedOne(e, list, rules, [k \in 0 .. 0 |-> AddedOne(e, list, rules, <<>>, 0)], m)]
        BY DEF AddedOne
    <2> QED
        BY <2>1
<1>2. ASSUME NEW n \in 1 .. Len(rules), n - 1 \in P PROVE n \in P
    <2>1. PICK f : f = [m \in 0 .. n - 1 |-> AddedOne(e, list, rules, f, m)]
        BY <1>2
    <2> DEFINE g == [m \in 0 .. n |-> IF m = n THEN AddedOne(e, list, rules, f, n) ELSE f[m]]
    <2>2. ASSUME NEW m \in 0 .. n PROVE g[m] = AddedOne(e, list, rules, g, m)
        <3>1. m = 0 \/ (m - 1 \in 0 .. n - 1 /\ g[m - 1] = f[m - 1])
            OBVIOUS
        <3>2. AddedOne(e, list, rules, g, m) = AddedOne(e, list, rules, f, m)
            BY <3>1 DEF AddedOne
        <3> QED
            BY <2>1, <3>2
    <2>3. g = [m \in 0 .. n |-> AddedOne(e, list, rules, g, m)]
        BY <2>2
    <2>4. n \in 0 .. Len(rules)
        OBVIOUS
    <2>5. \E h : h = [m \in 0 .. n |-> AddedOne(e, list, rules, h, m)]
        <3> HIDE DEF g
        <3> QED
            BY <2>3
    <2> QED
        BY <2>4, <2>5
<1>3. Len(rules) \in P
    <2> HIDE DEF P
    <2>1. 0 .. Len(rules) \subseteq P
        BY <1>1, <1>2, UpTo, Zenon
    <2> QED
        BY <2>1
<1>4. \E f : f = [n \in 0 .. Len(rules) |-> AddedOne(e, list, rules, f, n)]
    BY <1>3
<1> QED
    BY <1>4 DEF AddedOf, AddedOne

LEMMA AddedOfSteps ==
    ASSUME NEW e, NEW list, NEW rules, Len(rules) \in Nat
    PROVE  /\ AddedOf(e, list, rules)[0] = AddedOne(e, list, rules, AddedOf(e, list, rules), 0)
           /\ \A n \in 1 .. Len(rules) : AddedOf(e, list, rules)[n] = AddedOne(e, list, rules, AddedOf(e, list, rules), n)
<1>1. \A n \in 0 .. Len(rules) : AddedOf(e, list, rules)[n] = AddedOne(e, list, rules, AddedOf(e, list, rules), n)
    BY AddedOfRec
<1> QED
    BY <1>1

MatchedOne(pat, text, f, n) ==
    IF n = 0 THEN {Len(text) + 1}
    ELSE IF pat[Len(pat) + 1 - n] = Star
    THEN {t \in 1 .. Len(text) + 1 : \E u \in f[n - 1] : t <= u}
    ELSE {t \in 1 .. Len(text) : text[t] = pat[Len(pat) + 1 - n] /\ t + 1 \in f[n - 1]}

\* How the reference matches.
LEMMA MatchedFromRec ==
    ASSUME NEW pat, NEW text, Len(pat) \in Nat
    PROVE  MatchedFrom(pat, text) = [n \in 0 .. Len(pat) |-> MatchedOne(pat, text, MatchedFrom(pat, text), n)]
<1> DEFINE P == {n \in 0 .. Len(pat) : \E f : f = [m \in 0 .. n |-> MatchedOne(pat, text, f, m)]}
<1>1. 0 \in P
    <2>1. [m \in 0 .. 0 |-> MatchedOne(pat, text, <<>>, 0)]
             = [m \in 0 .. 0 |-> MatchedOne(pat, text, [k \in 0 .. 0 |-> MatchedOne(pat, text, <<>>, 0)], m)]
        BY DEF MatchedOne
    <2> QED
        BY <2>1
<1>2. ASSUME NEW n \in 1 .. Len(pat), n - 1 \in P PROVE n \in P
    <2>1. PICK f : f = [m \in 0 .. n - 1 |-> MatchedOne(pat, text, f, m)]
        BY <1>2
    <2> DEFINE g == [m \in 0 .. n |-> IF m = n THEN MatchedOne(pat, text, f, n) ELSE f[m]]
    <2>2. ASSUME NEW m \in 0 .. n PROVE g[m] = MatchedOne(pat, text, g, m)
        <3>1. m = 0 \/ (m - 1 \in 0 .. n - 1 /\ g[m - 1] = f[m - 1])
            OBVIOUS
        <3>2. MatchedOne(pat, text, g, m) = MatchedOne(pat, text, f, m)
            BY <3>1 DEF MatchedOne
        <3> QED
            BY <2>1, <3>2
    <2>3. g = [m \in 0 .. n |-> MatchedOne(pat, text, g, m)]
        BY <2>2
    <2>4. n \in 0 .. Len(pat)
        OBVIOUS
    <2>5. \E h : h = [m \in 0 .. n |-> MatchedOne(pat, text, h, m)]
        <3> HIDE DEF g
        <3> QED
            BY <2>3
    <2> QED
        BY <2>4, <2>5
<1>3. Len(pat) \in P
    <2> HIDE DEF P
    <2>1. 0 .. Len(pat) \subseteq P
        BY <1>1, <1>2, UpTo, Zenon
    <2> QED
        BY <2>1
<1>4. \E f : f = [n \in 0 .. Len(pat) |-> MatchedOne(pat, text, f, n)]
    BY <1>3
<1> QED
    BY <1>4 DEF MatchedFrom, MatchedOne

LEMMA MatchedFromSteps ==
    ASSUME NEW pat, NEW text, Len(pat) \in Nat
    PROVE  /\ MatchedFrom(pat, text)[0] = MatchedOne(pat, text, MatchedFrom(pat, text), 0)
           /\ \A n \in 1 .. Len(pat) : MatchedFrom(pat, text)[n] = MatchedOne(pat, text, MatchedFrom(pat, text), n)
<1>1. \A n \in 0 .. Len(pat) : MatchedFrom(pat, text)[n] = MatchedOne(pat, text, MatchedFrom(pat, text), n)
    BY MatchedFromRec
<1> QED
    BY <1>1

-----------------------------------------------------------------------------
(* Sequences.                                                              *)

LEMMA MinIn ==
    ASSUME NEW S \in SUBSET Nat, S # {}
    PROVE  Min(S) \in S /\ \A y \in S : Min(S) <= y
<1>1. \E x \in S : \A y \in S : x <= y
    BY LeastNat
<1> QED
    BY <1>1 DEF Min

LEMMA MaxIn ==
    ASSUME NEW n \in Nat, NEW S \in SUBSET (0 .. n), S # {}
    PROVE  Max(S) \in S /\ \A y \in S : y <= Max(S)
<1> DEFINE T == {m \in Nat : n - m \in S}
<1>1. PICK s \in S : TRUE
    OBVIOUS
<1>2. s \in 0 .. n /\ n - (n - s) = s /\ n - s \in Nat
    OBVIOUS
<1>3. T \in SUBSET Nat /\ T # {}
    BY <1>2
<1>4. PICK x \in T : \A y \in T : x <= y
    <2> HIDE DEF T
    <2> QED
        BY <1>3, LeastNat
<1>5. \A y \in S : n - y \in T
    OBVIOUS
<1>6. n - x \in S /\ \A y \in S : n - x >= y
    BY <1>4, <1>5
<1> QED
    BY <1>6 DEF Max

-----------------------------------------------------------------------------
(* Sequences.                                                              *)

LEMMA ToSetIs ==
    ASSUME NEW T, NEW s \in Seq(T)
    PROVE  /\ ToSet(s) \in SUBSET T
           /\ \A x : x \in ToSet(s) <=> \E i \in 1 .. Len(s) : s[i] = x
<1>1. DOMAIN s = 1 .. Len(s) /\ \A i \in 1 .. Len(s) : s[i] \in T
    OBVIOUS
<1> QED
    BY <1>1 DEF ToSet

LEMMA EmptyIs ==
    ASSUME NEW T
    PROVE  <<>> \in Seq(T) /\ Len(<<>>) = 0 /\ ToSet(<<>>) = {}
BY DEF ToSet

LEMMA ToSetConcat ==
    ASSUME NEW T, NEW s \in Seq(T), NEW t \in Seq(T)
    PROVE  s \o t \in Seq(T) /\ ToSet(s \o t) = ToSet(s) \cup ToSet(t)
<1>0. s \o t \in Seq(T) /\ Len(s \o t) = Len(s) + Len(t)
    OBVIOUS
<1>1. \A i \in 1 .. Len(s) : i \in 1 .. Len(s \o t) /\ (s \o t)[i] = s[i]
    OBVIOUS
<1>2. \A i \in 1 .. Len(t) : Len(s) + i \in 1 .. Len(s \o t) /\ (s \o t)[Len(s) + i] = t[i]
    OBVIOUS
<1>3. \A i \in 1 .. Len(s \o t) : \/ i \in 1 .. Len(s) /\ (s \o t)[i] = s[i]
                                  \/ i - Len(s) \in 1 .. Len(t) /\ (s \o t)[i] = t[i - Len(s)]
    OBVIOUS
<1>4. DOMAIN s = 1 .. Len(s) /\ DOMAIN t = 1 .. Len(t) /\ DOMAIN (s \o t) = 1 .. Len(s \o t)
    BY <1>0
<1>5. ToSet(s \o t) \subseteq ToSet(s) \cup ToSet(t)
    BY <1>3, <1>4 DEF ToSet
<1>6. ToSet(s) \subseteq ToSet(s \o t)
    BY <1>1, <1>4 DEF ToSet
<1>7. ToSet(t) \subseteq ToSet(s \o t)
    BY <1>2, <1>4 DEF ToSet
<1> QED
    BY <1>0, <1>5, <1>6, <1>7

LEMMA ToSetAppend ==
    ASSUME NEW T, NEW s \in Seq(T), NEW x \in T
    PROVE  Append(s, x) \in Seq(T) /\ ToSet(Append(s, x)) = ToSet(s) \cup {x}
<1>0. Append(s, x) \in Seq(T) /\ Len(Append(s, x)) = Len(s) + 1
    OBVIOUS
<1>1. \A i \in 1 .. Len(s) : Append(s, x)[i] = s[i]
    OBVIOUS
<1>2. Append(s, x)[Len(s) + 1] = x /\ Len(s) + 1 \in 1 .. Len(s) + 1
    OBVIOUS
<1>3. DOMAIN s = 1 .. Len(s) /\ DOMAIN Append(s, x) = 1 .. Len(s) + 1
    BY <1>0
<1>4. \A i \in 1 .. Len(s) + 1 : i \in 1 .. Len(s) \/ i = Len(s) + 1
    OBVIOUS
<1> QED
    BY <1>0, <1>1, <1>2, <1>3, <1>4 DEF ToSet

\* A part of a sequence.
LEMMA SubSeqIs ==
    ASSUME NEW T, NEW s \in Seq(T), NEW a \in Nat \ {0}, NEW z \in Nat, z <= Len(s)
    PROVE  /\ SubSeq(s, a, z) \in Seq(T)
           /\ Len(SubSeq(s, a, z)) = IF a <= z THEN z + 1 - a ELSE 0
           /\ a <= z + 1 => Len(SubSeq(s, a, z)) = z + 1 - a
           /\ \A i \in 1 .. Len(SubSeq(s, a, z)) : SubSeq(s, a, z)[i] = s[a + i - 1]
<1>1. CASE a <= z
    BY <1>1
<1>2. CASE a > z
    BY <1>2
<1> QED
    BY <1>1, <1>2

\* Sequences are equal that agree everywhere.
LEMMA SameSeq ==
    ASSUME NEW T, NEW s \in Seq(T), NEW t \in Seq(T), Len(s) = Len(t),
           \A i \in 1 .. Len(s) : s[i] = t[i]
    PROVE  s = t
OBVIOUS

LEMMA PrefixIs ==
    ASSUME NEW T, NEW s \in Seq(T), NEW t \in Seq(T)
    PROVE  IsPrefix(s, t) <=> Len(s) <= Len(t) /\ \A i \in 1 .. Len(s) : s[i] = t[i]
<1>1. SubSeq(s, 1, Len(s)) = s
    OBVIOUS
<1>2. ASSUME Len(s) <= Len(t)
      PROVE  SubSeq(t, 1, Len(s)) = s <=> \A i \in 1 .. Len(s) : s[i] = t[i]
    <2> DEFINE u == SubSeq(t, 1, Len(s))
    <2>1. u \in Seq(T) /\ Len(u) = Len(s) /\ \A i \in 1 .. Len(s) : u[i] = t[i]
        BY <1>2
    <2> HIDE DEF u
    <2>2. u = s <=> \A i \in 1 .. Len(s) : s[i] = t[i]
        BY <2>1, SameSeq
    <2> QED
        BY <2>2 DEF u
<1> QED
    BY <1>1, <1>2 DEF IsPrefix

\* InOrder lists the members of S up to n.
LEMMA InOrderIs ==
    ASSUME NEW S, NEW n \in Nat
    PROVE  /\ InOrder(S, n) \in Seq(1 .. n)
           /\ ToSet(InOrder(S, n)) = S \cap (1 .. n)
<1> DEFINE q(m) == NumbersOf(S, n)[m]
           P == {m \in 0 .. n : q(m) \in Seq(1 .. n) /\ ToSet(q(m)) = S \cap (1 .. m)}
<1>0. q(0) = <<>> /\ \A m \in 1 .. n : q(m) = IF m \in S THEN Append(q(m - 1), m) ELSE q(m - 1)
    BY NumbersOfSteps DEF NumbersOne
<1> HIDE DEF q
<1>1. 0 \in P
    <2>1. q(0) \in Seq(1 .. n) /\ ToSet(q(0)) = {}
        BY <1>0, EmptyIs, Zenon
    <2>2. 0 \in 0 .. n /\ 1 .. 0 = {}
        OBVIOUS
    <2> QED
        BY <2>1, <2>2
<1>2. ASSUME NEW m \in 1 .. n, m - 1 \in P PROVE m \in P
    <2>1. q(m - 1) \in Seq(1 .. n) /\ ToSet(q(m - 1)) = S \cap (1 .. m - 1)
        BY <1>2
    <2>2. 1 .. m = (1 .. m - 1) \cup {m} /\ m \in 0 .. n
        OBVIOUS
    <2>3. CASE m \in S
        <3>1. q(m) = Append(q(m - 1), m)
            BY <1>0, <2>3
        <3>2. q(m) \in Seq(1 .. n) /\ ToSet(q(m)) = ToSet(q(m - 1)) \cup {m}
            BY <3>1, <2>1, ToSetAppend
        <3> QED
            BY <3>2, <2>1, <2>2, <2>3
    <2>4. CASE m \notin S
        <3>1. q(m) = q(m - 1)
            BY <1>0, <2>4
        <3> QED
            BY <3>1, <2>1, <2>2, <2>4
    <2> QED
        BY <2>3, <2>4
<1>3. n \in P
    <2> HIDE DEF P
    <2>1. 0 .. n \subseteq P
        BY <1>1, <1>2, UpTo, Zenon
    <2> QED
        BY <2>1
<1> QED
    BY <1>3 DEF InOrder, q

\* Every number up to n is in one of two complements.
LEMMA InOrderSplit ==
    ASSUME NEW S, NEW R, NEW n \in Nat, \A k \in 1 .. n : k \in R <=> k \notin S
    PROVE  Len(InOrder(S, n)) + Len(InOrder(R, n)) = n
<1> DEFINE q(m) == NumbersOf(S, n)[m]
           r(m) == NumbersOf(R, n)[m]
           P == {m \in 0 .. n : /\ q(m) \in Seq(Nat) /\ r(m) \in Seq(Nat)
                                /\ Len(q(m)) + Len(r(m)) = m}
<1>0. /\ q(0) = <<>> /\ \A m \in 1 .. n : q(m) = IF m \in S THEN Append(q(m - 1), m) ELSE q(m - 1)
      /\ r(0) = <<>> /\ \A m \in 1 .. n : r(m) = IF m \in R THEN Append(r(m - 1), m) ELSE r(m - 1)
    BY NumbersOfSteps DEF NumbersOne
<1> HIDE DEF q, r
<1>1. 0 \in P
    <2>1. q(0) \in Seq(Nat) /\ Len(q(0)) = 0 /\ r(0) \in Seq(Nat) /\ Len(r(0)) = 0
        BY <1>0, EmptyIs, Zenon
    <2> QED
        BY <2>1
<1>2. ASSUME NEW m \in 1 .. n, m - 1 \in P PROVE m \in P
    <2>1. q(m - 1) \in Seq(Nat) /\ r(m - 1) \in Seq(Nat) /\ Len(q(m - 1)) + Len(r(m - 1)) = m - 1
        BY <1>2
    <2>2. CASE m \in S
        <3>0. q(m) = Append(q(m - 1), m) /\ r(m) = r(m - 1)
            BY <1>0, <2>2
        <3>1. q(m) \in Seq(Nat) /\ Len(q(m)) = Len(q(m - 1)) + 1 /\ r(m) = r(m - 1)
            BY <3>0, <2>1
        <3>2. Len(q(m - 1)) \in Nat /\ Len(r(m - 1)) \in Nat
            BY <2>1
        <3>3. Len(q(m)) + Len(r(m)) = m /\ m \in 0 .. n
            BY <3>1, <3>2, <2>1
        <3> QED
            BY <3>1, <3>3, <2>1
    <2>3. CASE m \notin S
        <3>0. r(m) = Append(r(m - 1), m) /\ q(m) = q(m - 1)
            BY <1>0, <2>3
        <3>1. r(m) \in Seq(Nat) /\ Len(r(m)) = Len(r(m - 1)) + 1 /\ q(m) = q(m - 1)
            BY <3>0, <2>1
        <3>2. Len(r(m - 1)) \in Nat /\ Len(q(m - 1)) \in Nat
            BY <2>1
        <3>3. Len(q(m)) + Len(r(m)) = m /\ m \in 0 .. n
            BY <3>1, <3>2, <2>1
        <3> QED
            BY <3>1, <3>3, <2>1
    <2> QED
        BY <2>2, <2>3
<1>3. n \in P
    <2> HIDE DEF P
    <2>1. 0 .. n \subseteq P
        BY <1>1, <1>2, UpTo, Zenon
    <2> QED
        BY <2>1
<1> QED
    BY <1>3 DEF InOrder, q, r

LEMMA ChosenIs ==
    ASSUME NEW T, NEW s \in Seq(T), NEW S
    PROVE  /\ Chosen(s, S) \in Seq(T)
           /\ Len(Chosen(s, S)) = Len(InOrder(S, Len(s)))
           /\ \A x : x \in ToSet(Chosen(s, S)) <=> \E i \in (1 .. Len(s)) \cap S : x = s[i]
<1> DEFINE places == InOrder(S, Len(s))
<1>1. places \in Seq(1 .. Len(s)) /\ ToSet(places) = S \cap (1 .. Len(s))
    BY InOrderIs
<1>2. Chosen(s, S) = [k \in 1 .. Len(places) |-> s[places[k]]]
    BY DEF Chosen
<1> HIDE DEF places
<1>3. \A k \in 1 .. Len(places) : places[k] \in 1 .. Len(s) /\ s[places[k]] \in T
    BY <1>1
<1>4. Chosen(s, S) \in Seq(T) /\ Len(Chosen(s, S)) = Len(places)
    BY <1>1, <1>2, <1>3
<1>5. \A x : x \in ToSet(Chosen(s, S)) <=> \E k \in 1 .. Len(places) : x = s[places[k]]
    BY <1>2 DEF ToSet
<1>6. \A i : i \in S \cap (1 .. Len(s)) <=> \E k \in 1 .. Len(places) : places[k] = i
    BY <1>1, ToSetIs
<1> QED
    BY <1>4, <1>5, <1>6 DEF places

\* What is in sequences put together is in one of them.
LEMMA ConcatIs ==
    ASSUME NEW T, NEW ss \in Seq(Seq(T))
    PROVE  /\ Concat(ss) \in Seq(T)
           /\ \A x : x \in ToSet(Concat(ss)) <=> \E k \in 1 .. Len(ss) : x \in ToSet(ss[k])
<1> DEFINE L == Len(ss)
           q(m) == ConcatOf(ss)[m]
           P == {m \in 0 .. L : /\ q(m) \in Seq(T)
                                /\ \A x : x \in ToSet(q(m)) <=> \E k \in 1 .. m : x \in ToSet(ss[k])}
<1>00. L \in Nat /\ \A m \in 1 .. L : ss[m] \in Seq(T)
    OBVIOUS
<1>01. q(0) = <<>> /\ \A m \in 1 .. L : q(m) = q(m - 1) \o ss[m]
    <2> DEFINE f == ConcatOf(ss)
    <2>1. f[0] = ConcatOne(ss, f, 0) /\ \A m \in 1 .. Len(ss) : f[m] = ConcatOne(ss, f, m)
        BY <1>00, ConcatOfSteps
    <2> HIDE DEF f
    <2>0. \A m \in 1 .. Len(ss) : m # 0
        BY <1>00
    <2>2. f[0] = <<>> /\ \A m \in 1 .. Len(ss) : f[m] = f[m - 1] \o ss[m]
        BY <2>0, <2>1, Zenon DEF ConcatOne
    <2>3. \A m \in 1 .. L : q(m) = q(m - 1) \o ss[m]
        BY <2>2, Zenon DEF f
    <2> QED
        BY <2>2, <2>3 DEF f
<1>0. L \in Nat /\ q(0) = <<>> /\ \A m \in 1 .. L : q(m) = q(m - 1) \o ss[m] /\ ss[m] \in Seq(T)
    BY <1>00, <1>01
<1> HIDE DEF q, L
<1>1. 0 \in P
    <2>1. q(0) \in Seq(T) /\ ToSet(q(0)) = {}
        BY <1>0, EmptyIs, Zenon
    <2>2. 0 \in 0 .. L /\ 1 .. 0 = {}
        BY <1>0
    <2> QED
        BY <2>1, <2>2
<1>2. ASSUME NEW m \in 1 .. L, m - 1 \in P PROVE m \in P
    <2>1. q(m - 1) \in Seq(T) /\ \A x : x \in ToSet(q(m - 1)) <=> \E k \in 1 .. m - 1 : x \in ToSet(ss[k])
        BY <1>2
    <2>2. 1 .. m = (1 .. m - 1) \cup {m} /\ m \in 0 .. L
        BY <1>0
    <2>3. q(m) = q(m - 1) \o ss[m] /\ ss[m] \in Seq(T)
        BY <1>0
    <2>4. q(m) \in Seq(T) /\ ToSet(q(m)) = ToSet(q(m - 1)) \cup ToSet(ss[m])
        BY <2>1, <2>3, ToSetConcat
    <2>5. \A x : x \in ToSet(q(m)) <=> \E k \in 1 .. m : x \in ToSet(ss[k])
        BY <2>1, <2>2, <2>4, Zenon
    <2> QED
        BY <2>2, <2>4, <2>5
<1>3. L \in P
    <2> HIDE DEF P
    <2>1. 0 .. L \subseteq P
        BY <1>0, <1>1, <1>2, UpTo, Zenon
    <2> QED
        BY <1>0, <2>1
<1> QED
    BY <1>3 DEF Concat, q, L

-----------------------------------------------------------------------------
(* What the parser makes of a line.                                        *)

Kinds == {"exact", "subtree", "wildcard"}
Reasons ==
    {"CosmeticRule", "UnsupportedModifier", "UnsupportedSyntax", "InvalidDomain",
     "UnsupportedHostsEntry"}

\* A name as a rule without stars has it.
PlainName(d) ==
    /\ d[1] # Dot /\ d[Len(d)] # Dot
    /\ \A i \in 1 .. Len(d) : d[i] # Star

\* Not every byte is a star.
HasByte(d) == \E i \in 1 .. Len(d) : d[i] # Star

GoodRule ==
    {r \in [except : BOOLEAN, kind : Kinds, name : Seq(Nat), include_subdomains : BOOLEAN,
            text : Seq(Nat), line : Nat] :
        /\ Len(r.name) \in 1 .. MaxName /\ HasByte(r.name)
        /\ r.kind # "wildcard" => PlainName(r.name) /\ ~r.include_subdomains
        /\ r.except => IsPrefix(<<At, At>>, r.text)}

RuleAt(no) == {r \in GoodRule : r.line = no}
IssueAt(no) == {x \in [line : Nat, reason : Reasons] : x.line = no}

\* An outcome of line no with n rules and issues.
Yields(o, no, n) ==
    /\ o \in [rules : Seq(RuleAt(no)), issues : Seq(IssueAt(no))]
    /\ Len(o.rules) + Len(o.issues) = n

LEMMA OneIs ==
    ASSUME NEW T, NEW x \in T
    PROVE  <<x>> \in Seq(T) /\ Len(<<x>>) = 1
OBVIOUS

LEMMA YieldsIs ==
    ASSUME NEW no, NEW R \in Seq(RuleAt(no)), NEW I \in Seq(IssueAt(no)),
           NEW n, Len(R) + Len(I) = n
    PROVE  Yields([rules |-> R, issues |-> I], no, n)
BY DEF Yields

LEMMA NothingYields ==
    ASSUME NEW no
    PROVE  Yields(Nothing, no, 0)
<1> DEFINE E == <<>>
<1>1. E \in Seq(RuleAt(no)) /\ E \in Seq(IssueAt(no)) /\ Len(E) = 0
    BY EmptyIs, Zenon
<1>2. Nothing = [rules |-> E, issues |-> E]
    BY DEF Nothing
<1> HIDE DEF E
<1>3. Len(E) + Len(E) = 0
    BY <1>1
<1> QED
    BY <1>1, <1>2, <1>3, YieldsIs

LEMMA RejectedYields ==
    ASSUME NEW no \in Nat, NEW reason \in Reasons
    PROVE  Yields(Rejected(no, reason), no, 1)
<1> DEFINE E == <<>>
           I == <<Issue(no, reason)>>
<1>1. E \in Seq(RuleAt(no)) /\ Len(E) = 0
    BY EmptyIs, Zenon
<1>2. Rejected(no, reason) = [rules |-> E, issues |-> I]
    BY DEF Rejected
<1>3. Issue(no, reason) \in IssueAt(no)
    BY DEF Issue, IssueAt
<1>4. I \in Seq(IssueAt(no)) /\ Len(I) = 1
    BY <1>3, OneIs, Zenon
<1> HIDE DEF E, I
<1>5. Len(E) + Len(I) = 1
    BY <1>1, <1>4
<1> QED
    BY <1>1, <1>2, <1>4, <1>5, YieldsIs

LEMMA AcceptedYields ==
    ASSUME NEW no \in Nat, NEW rule \in RuleAt(no)
    PROVE  Yields(Accepted(rule), no, 1)
<1> DEFINE E == <<>>
           R == <<rule>>
<1>1. E \in Seq(IssueAt(no)) /\ Len(E) = 0
    BY EmptyIs, Zenon
<1>2. Accepted(rule) = [rules |-> R, issues |-> E]
    BY DEF Accepted
<1>4. R \in Seq(RuleAt(no)) /\ Len(R) = 1
    BY OneIs, Zenon
<1> HIDE DEF E, R
<1>5. Len(R) + Len(E) = 1
    BY <1>1, <1>4
<1> QED
    BY <1>1, <1>2, <1>4, <1>5, YieldsIs

LEMMA BeforeIs ==
    ASSUME NEW s \in Seq(Nat), NEW sep
    PROVE  Before(s, sep) \in Seq(Nat)
<1> DEFINE S == {i \in DOMAIN s : s[i] = sep} \cup {Len(s) + 1}
<1>1. S \in SUBSET Nat /\ S # {} /\ \A i \in S : i >= 1 /\ Len(s) + 1 \in S
    OBVIOUS
<1>2. Before(s, sep) = SubSeq(s, 1, Min(S) - 1)
    BY DEF Before
<1> HIDE DEF S
<1>3. Min(S) \in Nat /\ Min(S) >= 1 /\ Min(S) <= Len(s) + 1
    BY <1>1, MinIn
<1>4. Min(S) - 1 \in Nat /\ Min(S) - 1 <= Len(s)
    BY <1>3
<1>5. SubSeq(s, 1, Min(S) - 1) \in Seq(Nat)
    BY <1>4, SubSeqIs
<1> QED
    BY <1>2, <1>5

LEMMA TrimIs ==
    ASSUME NEW s \in Seq(Nat)
    PROVE  Trim(s) \in Seq(Nat)
<1> DEFINE S == {i \in DOMAIN s : s[i] # Space}
<1>1. S \in SUBSET Nat /\ S \in SUBSET (0 .. Len(s)) /\ Len(s) \in Nat /\ \A i \in S : i >= 1
    OBVIOUS
<1>0. \A i \in S : i \in Nat \ {0} /\ i \in Nat /\ i <= Len(s)
    OBVIOUS
<1>2. Trim(s) = IF S = {} THEN <<>> ELSE SubSeq(s, Min(S), Max(S))
    BY DEF Trim
<1> HIDE DEF S
<1>3. CASE S = {}
    BY <1>2, <1>3, EmptyIs
<1>4. CASE S # {}
    <2>0. Min(S) \in S
        BY <1>1, <1>4, MinIn
    <2>00. Max(S) \in S
        <3> DEFINE n == Len(s)
        <3>1. n \in Nat /\ S \in SUBSET (0 .. n)
            BY <1>1
        <3> HIDE DEF n
        <3> QED
            BY <1>4, <3>1, MaxIn
    <2>1. Min(S) \in S /\ Max(S) \in S
        BY <2>0, <2>00
    <2>2. Min(S) \in Nat \ {0} /\ Max(S) \in Nat /\ Max(S) <= Len(s)
        BY <1>0, <2>1, Zenon
    <2>3. SubSeq(s, Min(S), Max(S)) \in Seq(Nat)
        BY <2>2, SubSeqIs
    <2> QED
        BY <1>2, <1>4, <2>3
<1> QED
    BY <1>3, <1>4

LEMMA SplitIs ==
    ASSUME NEW s \in Seq(Nat)
    PROVE  split_whitespace(s) \in Seq(Seq(Nat))
<1> DEFINE S == {i \in DOMAIN s : s[i] # Space /\ (i = 1 \/ s[i - 1] = Space)}
           begins == InOrder(S, Len(s))
<1>1. begins \in Seq(1 .. Len(s))
    BY InOrderIs
<1>2. split_whitespace(s) = [k \in 1 .. Len(begins) |-> Before(SubSeq(s, begins[k], Len(s)), Space)]
    BY DEF split_whitespace
<1> HIDE DEF begins
<1>3. ASSUME NEW k \in 1 .. Len(begins)
      PROVE  Before(SubSeq(s, begins[k], Len(s)), Space) \in Seq(Nat)
    <2>1. begins[k] \in Nat \ {0} /\ Len(s) \in Nat
        BY <1>1
    <2>2. SubSeq(s, begins[k], Len(s)) \in Seq(Nat)
        BY <2>1, SubSeqIs
    <2> QED
        BY <2>2, BeforeIs
<1>4. Len(begins) \in Nat
    BY <1>1
<1> QED
    BY <1>2, <1>3, <1>4

LEMMA HostNamesIs ==
    ASSUME NEW line \in Seq(Nat)
    PROVE  HostNames(line) \in Seq(Seq(Nat))
<1> DEFINE words == split_whitespace(Before(line, Hash))
           names == SubSeq(words, 2, Len(words))
<1>1. words \in Seq(Seq(Nat))
    BY BeforeIs, SplitIs
<1>2. HostNames(line) = Chosen(names, {i \in DOMAIN names : ~IsLocal(names[i])})
    BY DEF HostNames
<1> HIDE DEF words
<1>3. names \in Seq(Seq(Nat))
    <2>1. Len(words) \in Nat /\ Len(words) <= Len(words)
        BY <1>1
    <2> QED
        BY <1>1, <2>1, SubSeqIs
<1> HIDE DEF names
<1> QED
    BY <1>2, <1>3, ChosenIs

\* Two sequences that split a third have its length.
LEMMA ChosenSplit ==
    ASSUME NEW s \in Seq(Seq(Nat)), NEW S
    PROVE  Len(Chosen(s, S)) + Len(Chosen(s, DOMAIN s \ S)) = Len(s)
<1>1. Len(s) \in Nat /\ DOMAIN s = 1 .. Len(s)
    OBVIOUS
<1>2. \A k \in 1 .. Len(s) : k \in DOMAIN s \ S <=> k \notin S
    BY <1>1
<1>3. Len(InOrder(S, Len(s))) + Len(InOrder(DOMAIN s \ S, Len(s))) = Len(s)
    BY <1>1, <1>2, InOrderSplit
<1> QED
    BY <1>3, ChosenIs

LEMMA StripSuffixIs ==
    ASSUME NEW s \in Seq(Nat), NEW c
    PROVE  StripSuffix(s, c) \in Seq(Nat)
<1>1. CASE EndsWith(s, c)
    <2>1. Len(s) \in Nat \ {0}
        BY <1>1 DEF EndsWith
    <2>2. Len(s) - 1 \in Nat /\ Len(s) - 1 <= Len(s)
        BY <2>1
    <2>3. SubSeq(s, 1, Len(s) - 1) \in Seq(Nat)
        BY <2>2, SubSeqIs
    <2> QED
        BY <1>1, <2>3 DEF StripSuffix, Front
<1>2. CASE ~EndsWith(s, c)
    BY <1>2 DEF StripSuffix
<1> QED
    BY <1>1, <1>2

LEMMA LowercaseIs ==
    ASSUME NEW s \in Seq(Nat)
    PROVE  Lowercase(s) \in Seq(Nat) /\ Len(Lowercase(s)) = Len(s)
<1>1. DOMAIN s = 1 .. Len(s) /\ Len(s) \in Nat /\ \A i \in 1 .. Len(s) : s[i] \in Nat /\ s[i] + 32 \in Nat
    OBVIOUS
<1>2. Lowercase(s) = [i \in 1 .. Len(s) |-> IF s[i] \in Uppercase THEN s[i] + 32 ELSE s[i]]
    BY <1>1 DEF Lowercase
<1> QED
    BY <1>1, <1>2

LEMMA LowerStripIs ==
    ASSUME NEW s \in Seq(Nat)
    PROVE  lower_strip(s) \in Seq(Nat)
BY StripSuffixIs, LowercaseIs DEF lower_strip

\* A name whose labels are sound has no star and no dot at its ends.
LEMMA SoundLabels ==
    ASSUME NEW d \in Seq(Nat), d # <<>>,
           \A l \in Parts(d, Dot) :
              LabelOK(l) /\ ToSet(l) \subseteq Alphanumeric \cup {Hyphen, Underscore}
    PROVE  PlainName(d)
<1> DEFINE L == Len(d)
           E == Ends(d, Dot)
<1>0. L \in Nat \ {0} /\ DOMAIN d = 1 .. L
    OBVIOUS
<1>1. E = {i \in 1 .. L : d[i] = Dot} \cup {0, L + 1}
    BY <1>0 DEF Ends
<1>2. ASSUME NEW a \in E, NEW z \in E, a < z, \A i \in E : i <= a \/ z <= i
      PROVE  SubSeq(d, a + 1, z - 1) \in Parts(d, Dot)
    <2>1. <<a, z>> \in E \X E /\ <<a, z>>[1] = a /\ <<a, z>>[2] = z
        OBVIOUS
    <2> QED
        BY <1>2, <2>1 DEF Parts
<1> HIDE DEF E, L
<1>3. ASSUME NEW a \in 0 .. L, SubSeq(d, a + 1, a) \in Parts(d, Dot) PROVE FALSE
    <2>1. SubSeq(d, a + 1, a) = <<>>
        BY <1>0 DEF L
    <2> QED
        BY <1>3, <2>1 DEF LabelOK
<1>4. d[1] # Dot
    <2> SUFFICES ASSUME d[1] = Dot PROVE FALSE
        OBVIOUS
    <2>1. 0 \in E /\ 1 \in E /\ 0 < 1 /\ \A i \in E : i <= 0 \/ 1 <= i
        BY <1>0, <1>1
    <2>2. SubSeq(d, 0 + 1, 1 - 1) \in Parts(d, Dot)
        BY <1>2, <2>1
    <2>3. 0 \in 0 .. L /\ 1 - 1 = 0
        BY <1>0
    <2> QED
        BY <1>3, <2>2, <2>3
<1>5. d[L] # Dot
    <2> SUFFICES ASSUME d[L] = Dot PROVE FALSE
        OBVIOUS
    <2>1. L \in E /\ L + 1 \in E /\ L < L + 1 /\ \A i \in E : i <= L \/ L + 1 <= i
        BY <1>0, <1>1
    <2>2. SubSeq(d, L + 1, (L + 1) - 1) \in Parts(d, Dot)
        BY <1>2, <2>1
    <2>3. L \in 0 .. L /\ (L + 1) - 1 = L
        BY <1>0
    <2> QED
        BY <1>3, <2>2, <2>3
<1>6. ASSUME NEW i \in 1 .. L, d[i] = Star PROVE FALSE
    <2> DEFINE A == {e \in E : e < i}
               Z == {e \in E : e > i}
    <2>1. A \in SUBSET (0 .. L) /\ 0 \in A /\ Z \in SUBSET Nat /\ L + 1 \in Z
        BY <1>0, <1>1
    <2>2. Max(A) \in A /\ \A y \in A : y <= Max(A)
        <3> HIDE DEF A
        <3> QED
            BY <1>0, <2>1, MaxIn
    <2>3. Min(Z) \in Z /\ \A y \in Z : Min(Z) <= y
        <3> HIDE DEF Z
        <3> QED
            BY <2>1, MinIn
    <2>4. PICK a \in E : a < i /\ \A y \in E : y < i => y <= a
        BY <2>2
    <2>5. PICK z \in E : z > i /\ \A y \in E : y > i => z <= y
        BY <2>3
    <2>6. i \notin E
        BY <1>0, <1>1, <1>6 DEF Star, Dot
    <2>7. a \in 0 .. L + 1 /\ z \in 0 .. L + 1
        BY <1>0, <1>1
    <2>8. \A y \in E : y <= a \/ z <= y
        BY <1>0, <1>1, <2>4, <2>5, <2>6, <2>7
    <2> DEFINE l == SubSeq(d, a + 1, z - 1)
    <2>9. l \in Parts(d, Dot)
        BY <1>2, <2>4, <2>5, <2>7, <2>8
    <2>10. a + 1 \in Nat \ {0} /\ z - 1 \in Nat /\ z - 1 <= Len(d)
        BY <1>0, <2>5, <2>7 DEF L
    <2>11. /\ l \in Seq(Nat)
           /\ a + 1 <= (z - 1) + 1 => Len(l) = (z - 1) + 1 - (a + 1)
           /\ \A k \in 1 .. Len(l) : l[k] = d[a + 1 + k - 1]
        <3>1. \A s \in Seq(Nat), b \in Nat \ {0}, e \in Nat : e <= Len(s) =>
                 /\ SubSeq(s, b, e) \in Seq(Nat)
                 /\ b <= e + 1 => Len(SubSeq(s, b, e)) = e + 1 - b
                 /\ \A k \in 1 .. Len(SubSeq(s, b, e)) : SubSeq(s, b, e)[k] = s[b + k - 1]
            BY SubSeqIs
        <3> QED
            BY <2>10, <3>1, Zenon
    <2>12. Len(l) = z - 1 - a /\ i - a \in 1 .. Len(l)
        BY <1>0, <2>4, <2>5, <2>7, <2>11
    <2>13. l[i - a] = d[i]
        <3>1. a + 1 + (i - a) - 1 = i
            BY <2>7
        <3> QED
            BY <2>11, <2>12, <3>1
    <2> HIDE DEF l
    <2>14. Star \in ToSet(l)
        BY <1>6, <2>11, <2>12, <2>13, ToSetIs
    <2>15. Star \notin Alphanumeric \cup {Hyphen, Underscore}
        BY DEF Star, Alphanumeric, Hyphen, Underscore
    <2> QED
        BY <2>9, <2>14, <2>15
<1> QED
    BY <1>4, <1>5, <1>6 DEF PlainName, L

LEMMA DomainIs ==
    ASSUME NEW s \in Seq(Nat), normalize_domain(s) # <<>>
    PROVE  /\ normalize_domain(s) \in Seq(Nat)
           /\ Len(normalize_domain(s)) \in 1 .. MaxName
           /\ PlainName(normalize_domain(s))
<1> DEFINE d == lower_strip(s)
<1>1. d \in Seq(Nat)
    BY LowerStripIs
<1>2. /\ normalize_domain(s) = d /\ d # <<>> /\ Len(d) <= MaxName
      /\ \A l \in Parts(d, Dot) :
            LabelOK(l) /\ ToSet(l) \subseteq Alphanumeric \cup {Hyphen, Underscore}
    BY DEF normalize_domain
<1> HIDE DEF d
<1>3. Len(d) \in 1 .. MaxName
    <2>1. Len(d) \in Nat \ {0}
        BY <1>1, <1>2
    <2> QED
        BY <1>2, <2>1, ParserAssumption
<1>4. PlainName(d)
    BY <1>1, <1>2, SoundLabels
<1> QED
    BY <1>1, <1>2, <1>3, <1>4

LEMMA WildcardIs ==
    ASSUME NEW s \in Seq(Nat), normalize_wildcard(s) # <<>>
    PROVE  /\ normalize_wildcard(s) \in Seq(Nat)
           /\ Len(normalize_wildcard(s)) \in 1 .. MaxName
           /\ HasByte(normalize_wildcard(s))
<1> DEFINE d == lower_strip(s)
<1>1. d \in Seq(Nat)
    BY LowerStripIs
<1>2. normalize_wildcard(s) = d /\ d # <<>> /\ Len(d) <= MaxName /\ ToSet(d) \cap Alphanumeric # {}
    BY DEF normalize_wildcard
<1> HIDE DEF d
<1>4. HasByte(d)
    <2>1. PICK x : x \in ToSet(d) /\ x \in Alphanumeric
        BY <1>2
    <2>2. PICK i \in 1 .. Len(d) : d[i] = x
        BY <1>1, <2>1, ToSetIs
    <2>3. x # Star
        BY <2>1 DEF Alphanumeric, Star
    <2> QED
        BY <2>2, <2>3, Zenon DEF HasByte
<1>3. Len(d) \in 1 .. MaxName
    <2>1. Len(d) \in Nat \ {0}
        BY <1>1, <1>2
    <2> QED
        BY <1>2, <2>1, ParserAssumption
<1> QED
    BY <1>1, <1>2, <1>3, <1>4

LEMMA PlainHasByte ==
    ASSUME NEW d \in Seq(Nat), Len(d) \in 1 .. MaxName, PlainName(d)
    PROVE  HasByte(d)
<1>1. 1 \in 1 .. Len(d)
    OBVIOUS
<1> QED
    BY <1>1, Zenon DEF HasByte, PlainName

\* Each name of a hosts line is a rule or an issue.
LEMMA EachNameYields ==
    ASSUME NEW names \in Seq(Seq(Nat)), NEW line \in Seq(Nat), NEW no \in Nat
    PROVE  Yields(EachName(names, line, no), no, Len(names))
<1> DEFINE good == Chosen(names, Good(names))
           bad == Chosen(names, DOMAIN names \ Good(names))
           made(k) == Rule(FALSE, "exact", normalize_domain(good[k]), FALSE, line, no)
           R == [k \in 1 .. Len(good) |-> made(k)]
           I == [k \in 1 .. Len(bad) |-> Issue(no, "InvalidDomain")]
<1>1. /\ good \in Seq(Seq(Nat)) /\ bad \in Seq(Seq(Nat))
      /\ \A x : x \in ToSet(good) <=> \E i \in (1 .. Len(names)) \cap Good(names) : x = names[i]
    BY ChosenIs
<1>2. Len(good) + Len(bad) = Len(names)
    BY ChosenSplit
<1>3. EachName(names, line, no) = [rules |-> R, issues |-> I]
    BY DEF EachName
<1> HIDE DEF good, bad
<1>4. ASSUME NEW k \in 1 .. Len(good)
      PROVE  made(k) \in RuleAt(no)
    <2>1. good[k] \in ToSet(good) /\ good[k] \in Seq(Nat)
        BY <1>1, ToSetIs
    <2>2. normalize_domain(good[k]) # <<>>
        BY <1>1, <2>1 DEF Good
    <2> DEFINE d == normalize_domain(good[k])
    <2>3. d \in Seq(Nat) /\ Len(d) \in 1 .. MaxName /\ PlainName(d)
        BY <2>1, <2>2, DomainIs
    <2> HIDE DEF d
    <2>5. HasByte(d)
        BY <2>3, PlainHasByte
    <2>4. Rule(FALSE, "exact", d, FALSE, line, no) \in RuleAt(no)
        BY <2>3, <2>5 DEF Rule, RuleAt, GoodRule, Kinds
    <2> QED
        BY <2>4 DEF d
<1>5. Len(good) \in Nat /\ Len(bad) \in Nat
    BY <1>1
<1>6. R \in Seq(RuleAt(no)) /\ Len(R) = Len(good)
    <2> HIDE DEF made
    <2> QED
        BY <1>4, <1>5
<1>7. Issue(no, "InvalidDomain") \in IssueAt(no)
    BY DEF Issue, IssueAt, Reasons
<1>8. I \in Seq(IssueAt(no)) /\ Len(I) = Len(bad)
    BY <1>5, <1>7
<1> HIDE DEF R, I
<1>9. Len(R) + Len(I) = Len(names)
    BY <1>2, <1>6, <1>8
<1> QED
    BY <1>3, <1>6, <1>8, <1>9, YieldsIs

LEMMA StripPrefixIs ==
    ASSUME NEW s \in Seq(Nat), NEW p \in Seq(Nat)
    PROVE  StripPrefix(s, p) \in Seq(Nat)
<1>1. CASE IsPrefix(p, s)
    <2>1. Len(p) + 1 \in Nat \ {0} /\ Len(s) \in Nat /\ Len(s) <= Len(s)
        OBVIOUS
    <2>2. SubSeq(s, Len(p) + 1, Len(s)) \in Seq(Nat)
        BY <2>1, SubSeqIs
    <2> QED
        BY <1>1, <2>2 DEF StripPrefix
<1>2. CASE ~IsPrefix(p, s)
    BY <1>2 DEF StripPrefix
<1> QED
    BY <1>1, <1>2

\* A rule line is a rule or an issue.
LEMMA ParseRuleYields ==
    ASSUME NEW line \in Seq(Nat), NEW no \in Nat
    PROVE  Yields(ParseRule(line, no), no, 1)
<1> DEFINE body == StripPrefix(line, <<At, At>>)
           covers == IsPrefix(<<Pipe, Pipe>>, body)
           rest == StripSuffix(StripPrefix(body, <<Pipe, Pipe>>), Caret)
           wild == Contains(rest, Star)
           name == IF wild THEN normalize_wildcard(rest) ELSE normalize_domain(rest)
           kind == IF wild THEN "wildcard" ELSE IF covers THEN "subtree" ELSE "exact"
           except == IsPrefix(<<At, At>>, line)
           rule == Rule(except, kind, name, wild /\ covers, line, no)
<1>1. <<At, At>> \in Seq(Nat) /\ <<Pipe, Pipe>> \in Seq(Nat)
    BY DEF At, Pipe
<1>2. rest \in Seq(Nat)
    <2>1. body \in Seq(Nat)
        BY <1>1, StripPrefixIs
    <2> HIDE DEF body
    <2>2. StripPrefix(body, <<Pipe, Pipe>>) \in Seq(Nat)
        BY <1>1, <2>1, StripPrefixIs
    <2> QED
        BY <2>2, StripSuffixIs
<1>3. Yields(Rejected(no, "UnsupportedSyntax"), no, 1) /\ Yields(Rejected(no, "InvalidDomain"), no, 1)
    BY RejectedYields DEF Reasons
<1>4. ParseRule(line, no) = IF Contains(rest, Caret) \/ IsPrefix(<<Pipe>>, rest)
                            THEN Rejected(no, "UnsupportedSyntax")
                            ELSE IF name = <<>> THEN Rejected(no, "InvalidDomain")
                            ELSE Accepted(rule)
    BY DEF ParseRule
<1>5. ASSUME name # <<>> PROVE rule \in RuleAt(no)
    <2>1. except \in BOOLEAN /\ covers \in BOOLEAN /\ wild \in BOOLEAN
        BY DEF IsPrefix, Contains
    <2>2. except => IsPrefix(<<At, At>>, line)
        OBVIOUS
    <2>3. name \in Seq(Nat) /\ Len(name) \in 1 .. MaxName
        <3> HIDE DEF rest, wild
        <3> QED
            BY <1>2, <1>5, DomainIs, WildcardIs
    <2>4. ~wild => PlainName(name)
        <3> HIDE DEF rest, wild
        <3> QED
            BY <1>2, <1>5, DomainIs
    <2>40. HasByte(name)
        <3>1. wild => HasByte(name)
            <4> HIDE DEF rest, wild
            <4> QED
                BY <1>2, <1>5, WildcardIs
        <3> QED
            BY <2>3, <2>4, <3>1, PlainHasByte
    <2>5. kind \in Kinds /\ (kind # "wildcard" => ~wild)
        BY DEF Kinds
    <2> HIDE DEF except, covers, wild, name, kind
    <2>6. rule = [except |-> except, kind |-> kind, name |-> name,
                  include_subdomains |-> wild /\ covers, text |-> line, line |-> no]
        BY DEF Rule
    <2> HIDE DEF rule
    <2>7. (wild /\ covers) \in BOOLEAN /\ (kind # "wildcard" => ~(wild /\ covers))
        BY <2>1, <2>5
    <2>8. rule \in [except : BOOLEAN, kind : Kinds, name : Seq(Nat), include_subdomains : BOOLEAN,
                    text : Seq(Nat), line : Nat]
        BY <2>1, <2>3, <2>5, <2>6, <2>7
    <2>9. /\ rule.except = except /\ rule.kind = kind /\ rule.name = name
          /\ rule.include_subdomains = (wild /\ covers) /\ rule.text = line /\ rule.line = no
        BY <2>6
    <2>10. rule \in GoodRule
        BY <2>2, <2>3, <2>4, <2>40, <2>5, <2>7, <2>8, <2>9, Zenon DEF GoodRule
    <2> QED
        BY <2>9, <2>10 DEF RuleAt
<1> HIDE DEF rest, name, rule
<1>6. name # <<>> => Yields(Accepted(rule), no, 1)
    BY <1>5, AcceptedYields
<1> QED
    BY <1>3, <1>4, <1>6

\* What a line owes is what it yields.
LEMMA LineYields ==
    ASSUME NEW text \in Seq(Seq(Nat)), NEW no \in 1 .. Len(text)
    PROVE  Yields(Outcome(text, no), no, Due(Trim(text[no])))
<1> DEFINE line == Trim(text[no])
           ip == Before(split_whitespace(line)[1], Percent)
           names == HostNames(line)
<1>0. no \in Nat /\ text[no] \in Seq(Nat)
    OBVIOUS
<1>1. line \in Seq(Nat)
    BY <1>0, TrimIs
<1>2. names \in Seq(Seq(Nat))
    BY <1>1, HostNamesIs
<1>3. /\ Outcome(text, no) = IF IsComment(line) THEN skip_or_report_comment(line, no)
                                                ELSE parse_line(line, no)
      /\ Due(line) = IF IsComment(line) THEN IF OpensCosmetic(line) THEN 1 ELSE 0
                     ELSE IF ip \notin SinkIp \cup OtherIp THEN 1
                     ELSE IF ip \in SinkIp \/ Len(names) = 0 THEN Len(names) ELSE 1
    BY DEF Outcome, Due
<1>4. Yields(Nothing, no, 0) /\ \A x \in Reasons : Yields(Rejected(no, x), no, 1)
    BY <1>0, NothingYields, RejectedYields
<1>5. "CosmeticRule" \in Reasons /\ "UnsupportedModifier" \in Reasons
      /\ "UnsupportedSyntax" \in Reasons /\ "UnsupportedHostsEntry" \in Reasons
    BY DEF Reasons
<1>6. parse_line(line, no) = IF ip \in SinkIp \cup OtherIp THEN parse_hosts_line(line, ip, no)
        ELSE IF \E m \in Cosmetic : HasPart(line, m) THEN Rejected(no, "CosmeticRule")
        ELSE IF Contains(line, Dollar) THEN Rejected(no, "UnsupportedModifier")
        ELSE IF Len(line) > 1 /\ Head(line) = Slash /\ Last(line) = Slash
             THEN Rejected(no, "UnsupportedSyntax")
        ELSE ParseRule(line, no)
    BY DEF parse_line
<1>7. parse_hosts_line(line, ip, no) =
        IF names = <<>> THEN Nothing
        ELSE IF ip \notin SinkIp THEN Rejected(no, "UnsupportedHostsEntry")
        ELSE EachName(names, line, no)
    BY DEF parse_hosts_line
<1>8. Yields(EachName(names, line, no), no, Len(names))
    BY <1>0, <1>1, <1>2, EachNameYields
<1>9. Yields(ParseRule(line, no), no, 1)
    BY <1>0, <1>1, ParseRuleYields
<1>10. skip_or_report_comment(line, no) = IF OpensCosmetic(line) THEN Rejected(no, "CosmeticRule")
                                                                ELSE Nothing
    BY DEF skip_or_report_comment
<1>11. Len(names) = 0 <=> names = <<>>
    BY <1>2
<1> HIDE DEF line, ip, names
<1>12. CASE IsComment(line)
    BY <1>3, <1>4, <1>5, <1>10, <1>12, Zenon DEF line
<1>13. CASE ~IsComment(line) /\ ip \notin SinkIp \cup OtherIp
    <2>1. Due(line) = 1 /\ Outcome(text, no) = parse_line(line, no)
        BY <1>3, <1>13, Zenon
    <2>2. Yields(parse_line(line, no), no, 1)
        BY <1>4, <1>5, <1>6, <1>9, <1>13, Zenon
    <2> QED
        BY <2>1, <2>2 DEF line
<1>14. CASE ~IsComment(line) /\ ip \in SinkIp \cup OtherIp
    <2>1. Outcome(text, no) = parse_hosts_line(line, ip, no)
        BY <1>3, <1>6, <1>14, Zenon
    <2>2. CASE names = <<>>
        <3>1. Due(line) = 0
            BY <1>3, <1>11, <1>14, <2>2
        <3> QED
            BY <1>4, <1>7, <2>1, <2>2, <3>1, Zenon DEF line
    <2>3. CASE names # <<>> /\ ip \notin SinkIp
        <3>1. Due(line) = 1
            BY <1>3, <1>11, <1>14, <2>3
        <3> QED
            BY <1>4, <1>5, <1>7, <2>1, <2>3, <3>1, Zenon DEF line
    <2>4. CASE names # <<>> /\ ip \in SinkIp
        <3>1. Due(line) = Len(names)
            BY <1>3, <1>14, <2>4, Zenon
        <3> QED
            BY <1>7, <1>8, <2>1, <2>4, <3>1, Zenon DEF line
    <2> QED
        BY <2>2, <2>3, <2>4
<1> QED
    BY <1>12, <1>13, <1>14

-----------------------------------------------------------------------------
(* What the parser makes of a text.                                        *)

\* How sequences are put together, for a type of their elements.
LEMMA ConcatOfIs ==
    ASSUME NEW T, NEW ss \in Seq(Seq(T))
    PROVE  /\ ConcatOf(ss)[0] = <<>>
           /\ \A m \in 1 .. Len(ss) : ConcatOf(ss)[m] = ConcatOf(ss)[m - 1] \o ss[m]
<1> DEFINE f == ConcatOf(ss)
<1>1. Len(ss) \in Nat /\ \A m \in 1 .. Len(ss) : m # 0
    OBVIOUS
<1>2. f[0] = ConcatOne(ss, f, 0) /\ \A m \in 1 .. Len(ss) : f[m] = ConcatOne(ss, f, m)
    BY <1>1, ConcatOfSteps
<1> HIDE DEF f
<1>3. f[0] = <<>> /\ \A m \in 1 .. Len(ss) : f[m] = f[m - 1] \o ss[m]
    BY <1>1, <1>2, Zenon DEF ConcatOne
<1> QED
    BY <1>3, Zenon DEF f

\* If the elements of each of some sequences bear its number, those with a given
\* number are a stretch of the whole.
LEMMA LinesTogether ==
    ASSUME NEW T, NEW ss \in Seq(Seq(T)), NEW no \in 1 .. Len(ss),
           \A k \in 1 .. Len(ss) : \A i \in 1 .. Len(ss[k]) : ss[k][i].line = k
    PROVE  Cardinality(OfLine(Concat(ss), no)) = Len(ss[no])
<1> DEFINE L == Len(ss)
           q(m) == ConcatOf(ss)[m]
           a == Len(q(no - 1))
           z == Len(q(no))
           P == {m \in 0 .. L :
                    /\ q(m) \in Seq(T)
                    /\ \A i \in 1 .. Len(q(m)) : q(m)[i].line \in 1 .. m
                    /\ m >= no => /\ z \in Nat /\ z <= Len(q(m))
                                  /\ \A i \in 1 .. Len(q(m)) : q(m)[i].line = no <=> i \in a + 1 .. z}
<1>0. L \in Nat /\ no \in 1 .. L /\ no - 1 \in 0 .. L /\ no \in Nat
    OBVIOUS
<1>00. \A m \in 1 .. L : ss[m] \in Seq(T) /\ \A i \in 1 .. Len(ss[m]) : ss[m][i].line = m
    OBVIOUS
<1>01. q(0) = <<>> /\ \A m \in 1 .. L : q(m) = q(m - 1) \o ss[m]
    BY ConcatOfIs, Zenon
<1> HIDE DEF q, L
<1>1. 0 \in P
    <2>1. q(0) \in Seq(T) /\ Len(q(0)) = 0
        BY <1>01, EmptyIs, Zenon
    <2> QED
        BY <1>0, <2>1
<1>2. ASSUME NEW m \in 1 .. L, m - 1 \in P PROVE m \in P
    <2> DEFINE s == q(m - 1)
               t == ss[m]
               u == q(m)
    <2>1. /\ s \in Seq(T) /\ \A i \in 1 .. Len(s) : s[i].line \in 1 .. m - 1
          /\ m - 1 >= no => /\ z \in Nat /\ z <= Len(s)
                            /\ \A i \in 1 .. Len(s) : s[i].line = no <=> i \in a + 1 .. z
        BY <1>2
    <2>2. u = s \o t /\ t \in Seq(T) /\ \A i \in 1 .. Len(t) : t[i].line = m
        BY <1>00, <1>01
    <2>3. m = no => a = Len(s) /\ z = Len(u)
        BY DEF a, z
    <2> HIDE DEF s, t, u, a, z
    <2>4. /\ u \in Seq(T) /\ Len(u) = Len(s) + Len(t)
          /\ \A i \in 1 .. Len(s) : u[i] = s[i]
          /\ \A i \in 1 .. Len(u) : i > Len(s) => u[i] = t[i - Len(s)] /\ i - Len(s) \in 1 .. Len(t)
        BY <2>1, <2>2
    <2>5. Len(s) \in Nat /\ Len(t) \in Nat /\ m \in Nat
        BY <1>0, <2>1, <2>2
    <2>6. \A i \in 1 .. Len(u) : i > Len(s) => u[i].line = m
        BY <2>2, <2>4, <2>5
    <2>7. \A i \in 1 .. Len(u) : i <= Len(s) => i \in 1 .. Len(s) /\ u[i].line = s[i].line
        BY <2>4, <2>5
    <2>8. ASSUME NEW i \in 1 .. Len(u) PROVE u[i].line \in 1 .. m
        <3>1. CASE i <= Len(s)
            <4>1. s[i].line \in 1 .. m - 1 /\ u[i].line = s[i].line
                BY <2>1, <2>7, <3>1
            <4> QED
                BY <2>5, <4>1
        <3>2. CASE i > Len(s)
            <4>1. u[i].line = m
                BY <2>6, <3>2
            <4> QED
                BY <2>5, <4>1
        <3> QED
            BY <2>4, <2>5, <3>1, <3>2
    <2>9. CASE m = no
        <3>1. a = Len(s) /\ z = Len(u)
            BY <2>3, <2>9
        <3>2. ASSUME NEW i \in 1 .. Len(u) PROVE u[i].line = no <=> i \in a + 1 .. z
            <4>1. CASE i <= Len(s)
                <5>1. s[i].line \in 1 .. m - 1 /\ u[i].line = s[i].line
                    BY <2>1, <2>7, <4>1
                <5> QED
                    BY <2>5, <2>9, <3>1, <4>1, <5>1
            <4>2. CASE i > Len(s)
                <5>1. u[i].line = m
                    BY <2>6, <4>2
                <5> QED
                    BY <2>4, <2>5, <2>9, <3>1, <4>2, <5>1
            <4> QED
                BY <2>4, <2>5, <4>1, <4>2
        <3>3. z \in Nat /\ z <= Len(u) /\ m \in 0 .. L
            BY <1>0, <2>4, <2>5, <3>1
        <3> QED
            BY <2>4, <2>8, <3>2, <3>3 DEF u
    <2>10. CASE m > no
        <3>1. z \in Nat /\ z <= Len(s) /\ \A i \in 1 .. Len(s) : s[i].line = no <=> i \in a + 1 .. z
            BY <1>0, <2>1, <2>5, <2>10
        <3>2. ASSUME NEW i \in 1 .. Len(u) PROVE u[i].line = no <=> i \in a + 1 .. z
            <4>1. CASE i <= Len(s)
                BY <2>7, <3>1, <4>1
            <4>2. CASE i > Len(s)
                <5>1. u[i].line = m
                    BY <2>6, <4>2
                <5> QED
                    BY <1>0, <2>4, <2>5, <2>10, <3>1, <4>2, <5>1
            <4> QED
                BY <2>4, <2>5, <4>1, <4>2
        <3>3. z \in Nat /\ z <= Len(u) /\ m \in 0 .. L
            BY <1>0, <2>4, <2>5, <3>1
        <3> QED
            BY <2>4, <2>8, <3>2, <3>3 DEF u
    <2>11. CASE m < no
        <3>1. ~(m >= no) /\ m \in 0 .. L
            BY <1>0, <2>5, <2>11
        <3> QED
            BY <2>4, <2>8, <3>1 DEF u
    <2> QED
        BY <1>0, <2>5, <2>9, <2>10, <2>11
<1>3. 0 .. L \subseteq P
    <2> HIDE DEF P
    <2> QED
        BY <1>0, <1>1, <1>2, UpTo, Zenon
<1>4. q(no - 1) \in Seq(T) /\ q(no) = q(no - 1) \o ss[no] /\ ss[no] \in Seq(T)
    BY <1>0, <1>00, <1>01, <1>3
<1>5. a \in Nat /\ z = a + Len(ss[no]) /\ Len(ss[no]) \in Nat
    BY <1>4
<1>6. /\ q(L) \in Seq(T) /\ z <= Len(q(L))
      /\ \A i \in 1 .. Len(q(L)) : q(L)[i].line = no <=> i \in a + 1 .. z
    BY <1>0, <1>3
<1>7. Concat(ss) = q(L)
    BY DEF Concat, q, L
<1> HIDE DEF a, z
<1>8. DOMAIN q(L) = 1 .. Len(q(L)) /\ Len(q(L)) \in Nat
    BY <1>6
<1>9. OfLine(q(L), no) = a + 1 .. z
    BY <1>5, <1>6, <1>8 DEF OfLine
<1>10. a + 1 \in Int /\ z \in Int
    BY <1>5
<1>11. Cardinality(a + 1 .. z) = IF a + 1 > z THEN 0 ELSE z - (a + 1) + 1
    BY <1>10, FS_Interval
<1>12. Cardinality(a + 1 .. z) = Len(ss[no])
    BY <1>5, <1>11
<1> QED
    BY <1>7, <1>9, <1>12

LEMMA SeqMono ==
    ASSUME NEW S, NEW T, S \subseteq T, NEW s \in Seq(S)
    PROVE  s \in Seq(T)
OBVIOUS

\* A parsed text: its rules are good ones, and every line has what it is owed.
LEMMA ParsedIs ==
    ASSUME NEW text \in Seq(Seq(Nat))
    PROVE  /\ parse_list_streamed(text).rules \in Seq(GoodRule)
           /\ \A no \in 1 .. Len(text) :
                 Cardinality(OfLine(parse_list_streamed(text).rules, no))
                   + Cardinality(OfLine(parse_list_streamed(text).issues, no)) = Due(Trim(text[no]))
<1> DEFINE R == [no \in 1 .. Len(text) |-> Outcome(text, no).rules]
           I == [no \in 1 .. Len(text) |-> Outcome(text, no).issues]
           Issues == [line : Nat, reason : Reasons]
<1>1. parse_list_streamed(text).rules = Concat(R) /\ parse_list_streamed(text).issues = Concat(I)
    BY DEF parse_list_streamed
<1>2. Len(text) \in Nat
    OBVIOUS
<1>3. ASSUME NEW no \in 1 .. Len(text)
      PROVE  /\ Outcome(text, no).rules \in Seq(RuleAt(no))
             /\ Outcome(text, no).issues \in Seq(IssueAt(no))
             /\ Len(Outcome(text, no).rules) + Len(Outcome(text, no).issues) = Due(Trim(text[no]))
    <2> DEFINE o == Outcome(text, no)
               n == Due(Trim(text[no]))
    <2>1. Yields(o, no, n)
        BY LineYields
    <2> HIDE DEF o, n
    <2>2. o.rules \in Seq(RuleAt(no)) /\ o.issues \in Seq(IssueAt(no)) /\ Len(o.rules) + Len(o.issues) = n
        BY <2>1 DEF Yields
    <2> QED
        BY <2>2 DEF o, n
<1>01. \A no : RuleAt(no) \subseteq GoodRule /\ \A x \in RuleAt(no) : x.line = no
    BY Zenon DEF RuleAt
<1>02. \A no : IssueAt(no) \subseteq Issues /\ \A x \in IssueAt(no) : x.line = no
    BY Zenon DEF IssueAt
<1> HIDE DEF Issues
<1>03. \A S : \A s \in Seq(S) : \A i \in 1 .. Len(s) : s[i] \in S
    OBVIOUS
<1>4. ASSUME NEW no, NEW s \in Seq(RuleAt(no))
      PROVE  s \in Seq(GoodRule) /\ \A i \in 1 .. Len(s) : s[i].line = no
    BY <1>01, <1>03, SeqMono, Zenon
<1>5. ASSUME NEW no, NEW s \in Seq(IssueAt(no))
      PROVE  s \in Seq(Issues) /\ \A i \in 1 .. Len(s) : s[i].line = no
    BY <1>02, <1>03, SeqMono, Zenon
<1>6. /\ R \in Seq(Seq(GoodRule)) /\ I \in Seq(Seq(Issues)) /\ Len(R) = Len(text) /\ Len(I) = Len(text)
      /\ \A no \in 1 .. Len(text) : R[no] = Outcome(text, no).rules /\ I[no] = Outcome(text, no).issues
    <2>1. \A no \in 1 .. Len(text) : /\ Outcome(text, no).rules \in Seq(GoodRule)
                                      /\ Outcome(text, no).issues \in Seq(Issues)
        BY <1>3, <1>4, <1>5, Zenon
    <2> DEFINE P == Seq(GoodRule)
               J == Seq(Issues)
               ru(no) == Outcome(text, no).rules
               iss(no) == Outcome(text, no).issues
    <2>2. \A no \in 1 .. Len(text) : ru(no) \in P /\ iss(no) \in J
        BY <2>1
    <2> HIDE DEF P, J, ru, iss
    <2>3. R = [no \in 1 .. Len(text) |-> ru(no)] /\ I = [no \in 1 .. Len(text) |-> iss(no)]
        BY DEF ru, iss
    <2> HIDE DEF R, I
    <2>4. /\ R \in Seq(P) /\ I \in Seq(J) /\ Len(R) = Len(text) /\ Len(I) = Len(text)
          /\ \A no \in 1 .. Len(text) : R[no] = ru(no) /\ I[no] = iss(no)
        BY <1>2, <2>2, <2>3
    <2> QED
        BY <2>4 DEF P, J, ru, iss
<1> HIDE DEF R, I
<1>7. /\ \A k \in 1 .. Len(R) : \A i \in 1 .. Len(R[k]) : R[k][i].line = k
      /\ \A k \in 1 .. Len(I) : \A i \in 1 .. Len(I[k]) : I[k][i].line = k
    <2>1. \A k \in 1 .. Len(text) : R[k] \in Seq(RuleAt(k)) /\ I[k] \in Seq(IssueAt(k))
        BY <1>3, <1>6, Zenon
    <2> QED
        BY <1>4, <1>5, <1>6, <2>1, Zenon
<1>8. \A no \in 1 .. Len(text) : Cardinality(OfLine(Concat(R), no)) = Len(R[no])
    BY <1>6, <1>7, LinesTogether
<1>9. \A no \in 1 .. Len(text) : Cardinality(OfLine(Concat(I), no)) = Len(I[no])
    BY <1>6, <1>7, LinesTogether
<1>10. Concat(R) \in Seq(GoodRule)
    BY <1>6, ConcatIs
<1> QED
    BY <1>1, <1>3, <1>6, <1>8, <1>9, <1>10

-----------------------------------------------------------------------------
(* The matcher.                                                            *)

\* The pattern from place p on matches the text from place t on.
MatchesAt(pat, text, p, t) == t \in MatchedFrom(pat, text)[Len(pat) + 1 - p]

LEMMA MatchesAtIs ==
    ASSUME NEW pat \in Seq(Nat), NEW text \in Seq(Nat)
    PROVE  /\ \A t : MatchesAt(pat, text, Len(pat) + 1, t) <=> t = Len(text) + 1
           /\ \A p \in 1 .. Len(pat) + 1 : \A t : MatchesAt(pat, text, p, t) => t \in 1 .. Len(text) + 1
           /\ \A p \in 1 .. Len(pat) : pat[p] = Star =>
                 \A t \in 1 .. Len(text) + 1 :
                    MatchesAt(pat, text, p, t)
                      <=> \E u \in 1 .. Len(text) + 1 : t <= u /\ MatchesAt(pat, text, p + 1, u)
           /\ \A p \in 1 .. Len(pat) : pat[p] # Star =>
                 \A t : MatchesAt(pat, text, p, t)
                      <=> t \in 1 .. Len(text) /\ text[t] = pat[p] /\ MatchesAt(pat, text, p + 1, t + 1)
<1> DEFINE f == MatchedFrom(pat, text)
           m == Len(pat)
           n == Len(text)
<1>0. m \in Nat /\ n \in Nat
    OBVIOUS
<1>1. f[0] = MatchedOne(pat, text, f, 0) /\ \A k \in 1 .. m : f[k] = MatchedOne(pat, text, f, k)
    BY <1>0, MatchedFromSteps
<1> HIDE DEF f
<1>2. f[0] = {n + 1}
    BY <1>1 DEF MatchedOne
<1>3. \A p \in 1 .. m : pat[p] = Star => f[m + 1 - p] = {t \in 1 .. n + 1 : \E u \in f[m - p] : t <= u}
    <2> SUFFICES ASSUME NEW p \in 1 .. m, pat[p] = Star
                 PROVE  f[m + 1 - p] = {t \in 1 .. n + 1 : \E u \in f[m - p] : t <= u}
        OBVIOUS
    <2> DEFINE k == m + 1 - p
    <2>1. k \in 1 .. m /\ k # 0 /\ Len(pat) + 1 - k = p /\ k - 1 = m - p
        BY <1>0
    <2> HIDE DEF k, n
    <2>2. f[k] = {t \in 1 .. n + 1 : \E u \in f[k - 1] : t <= u}
        BY <1>1, <2>1, Zenon DEF MatchedOne, n
    <2> QED
        BY <2>1, <2>2 DEF k
<1>4. \A p \in 1 .. m : pat[p] # Star => f[m + 1 - p] = {t \in 1 .. n : text[t] = pat[p] /\ t + 1 \in f[m - p]}
    <2> SUFFICES ASSUME NEW p \in 1 .. m, pat[p] # Star
                 PROVE  f[m + 1 - p] = {t \in 1 .. n : text[t] = pat[p] /\ t + 1 \in f[m - p]}
        OBVIOUS
    <2> DEFINE k == m + 1 - p
    <2>1. k \in 1 .. m /\ k # 0 /\ Len(pat) + 1 - k = p /\ k - 1 = m - p
        BY <1>0
    <2> HIDE DEF k, n
    <2>2. f[k] = {t \in 1 .. n : text[t] = pat[p] /\ t + 1 \in f[k - 1]}
        BY <1>1, <2>1, Zenon DEF MatchedOne, n
    <2> QED
        BY <2>1, <2>2 DEF k
<1>5. \A p \in 1 .. m : m + 1 - (p + 1) = m - p
    BY <1>0
<1>6. m + 1 - (m + 1) = 0
    BY <1>0
<1>7. \A p \in 1 .. m + 1 : \A t \in f[m + 1 - p] : t \in 1 .. n + 1
    <2> TAKE p \in 1 .. m + 1
    <2>1. CASE p = m + 1
        BY <1>0, <1>2, <1>6, <2>1
    <2>2. CASE p # m + 1 /\ pat[p] = Star
        <3>1. p \in 1 .. m
            BY <1>0, <2>2
        <3> QED
            BY <1>3, <2>2, <3>1
    <2>3. CASE p # m + 1 /\ pat[p] # Star
        <3>1. p \in 1 .. m
            BY <1>0, <2>3
        <3>2. \A t \in 1 .. n : t \in 1 .. n + 1
            BY <1>0
        <3> QED
            BY <1>4, <2>3, <3>1, <3>2
    <2> QED
        BY <2>1, <2>2, <2>3
<1>8. \A p, t : MatchesAt(pat, text, p, t) <=> t \in f[m + 1 - p]
    BY DEF MatchesAt, f
<1> HIDE DEF m, n
<1>9. \A t : MatchesAt(pat, text, m + 1, t) <=> t = n + 1
    BY <1>2, <1>6, <1>8
<1>10. \A p \in 1 .. m + 1 : \A t : MatchesAt(pat, text, p, t) => t \in 1 .. n + 1
    BY <1>7, <1>8, Zenon
<1>11. ASSUME NEW p \in 1 .. m, pat[p] = Star, NEW t \in 1 .. n + 1
       PROVE  MatchesAt(pat, text, p, t)
                <=> \E u \in 1 .. n + 1 : t <= u /\ MatchesAt(pat, text, p + 1, u)
    <2>1. MatchesAt(pat, text, p, t) <=> \E u \in f[m - p] : t <= u
        BY <1>3, <1>8, <1>11
    <2>2. \A u : MatchesAt(pat, text, p + 1, u) <=> u \in f[m - p]
        BY <1>5, <1>8
    <2>3. \A u \in f[m - p] : u \in 1 .. n + 1
        <3>1. p + 1 \in 1 .. m + 1
            BY <1>0
        <3> QED
            BY <3>1, <1>5, <1>7
    <2> QED
        BY <2>1, <2>2, <2>3
<1>12. ASSUME NEW p \in 1 .. m, pat[p] # Star, NEW t
       PROVE  MatchesAt(pat, text, p, t)
                <=> t \in 1 .. n /\ text[t] = pat[p] /\ MatchesAt(pat, text, p + 1, t + 1)
    <2>1. MatchesAt(pat, text, p, t) <=> t \in 1 .. n /\ text[t] = pat[p] /\ t + 1 \in f[m - p]
        BY <1>4, <1>8, <1>12
    <2>2. \A u : MatchesAt(pat, text, p + 1, u) <=> u \in f[m - p]
        BY <1>5, <1>8
    <2> QED
        BY <2>1, <2>2
<1> QED
    BY <1>9, <1>10, <1>11, <1>12 DEF m, n

\* Where a pattern has no star it matches byte by byte.
LEMMA BytesMatch ==
    ASSUME NEW pat \in Seq(Nat), NEW text \in Seq(Nat), NEW p \in 1 .. Len(pat) + 1, NEW K \in Nat,
           p + K <= Len(pat) + 1, \A i \in 0 .. K - 1 : pat[p + i] # Star, NEW u \in 1 .. Len(text) + 1
    PROVE  MatchesAt(pat, text, p, u)
             <=> /\ u + K <= Len(text) + 1
                 /\ \A i \in 0 .. K - 1 : text[u + i] = pat[p + i]
                 /\ MatchesAt(pat, text, p + K, u + K)
<1> DEFINE m == Len(pat)
           n == Len(text)
           M(i, j) == MatchesAt(pat, text, i, j)
           P == {k \in 0 .. K :
                    M(p, u) <=> u + k <= n + 1 /\ (\A i \in 0 .. k - 1 : text[u + i] = pat[p + i]) /\ M(p + k, u + k)}
<1>0. m \in Nat /\ n \in Nat /\ p \in Nat /\ u \in Nat
    OBVIOUS
<1>1. /\ \A q \in 1 .. m : pat[q] # Star =>
            \A t : M(q, t) <=> t \in 1 .. n /\ text[t] = pat[q] /\ M(q + 1, t + 1)
    BY MatchesAtIs
<1> HIDE DEF M
<1>2. 0 \in P
    <2>1. u + 0 <= n + 1 /\ u + 0 = u /\ p + 0 = p /\ 0 .. 0 - 1 = {}
        BY <1>0
    <2> QED
        BY <2>1
<1>3. ASSUME NEW k \in 1 .. K, k - 1 \in P PROVE k \in P
    <2> DEFINE j == k - 1
    <2>1. M(p, u) <=> u + j <= n + 1 /\ (\A i \in 0 .. j - 1 : text[u + i] = pat[p + i]) /\ M(p + j, u + j)
        BY <1>3
    <2>2. j \in 0 .. K - 1 /\ p + j \in 1 .. m /\ (p + j) + 1 = p + k /\ (u + j) + 1 = u + k
        BY <1>0
    <2>3. M(p + j, u + j) <=> u + j \in 1 .. n /\ text[u + j] = pat[p + j] /\ M(p + k, u + k)
        BY <1>1, <2>2
    <2>4. 0 .. k - 1 = (0 .. j - 1) \cup {j}
        BY <2>2
    <2>5. u + j \in 1 .. n <=> u + k <= n + 1
        BY <1>0, <2>2
    <2>6. u + k <= n + 1 => u + j <= n + 1
        BY <1>0, <2>2
    <2> HIDE DEF j
    <2>7. (\A i \in 0 .. k - 1 : text[u + i] = pat[p + i])
             <=> (\A i \in 0 .. j - 1 : text[u + i] = pat[p + i]) /\ text[u + j] = pat[p + j]
        BY <2>4, Zenon
    <2>8. M(p, u) <=> u + k <= n + 1 /\ (\A i \in 0 .. k - 1 : text[u + i] = pat[p + i]) /\ M(p + k, u + k)
        BY <2>1, <2>3, <2>5, <2>6, <2>7, Zenon
    <2> QED
        BY <2>8
<1>4. K \in P
    <2> HIDE DEF P
    <2>1. 0 .. K \subseteq P
        BY <1>2, <1>3, UpTo, Zenon
    <2> QED
        BY <2>1
<1> QED
    BY <1>4 DEF M

\* A pattern without stars matches itself only.
LEMMA PlainMeans ==
    ASSUME NEW pat \in Seq(Nat), NEW text \in Seq(Nat), \A i \in 1 .. Len(pat) : pat[i] # Star
    PROVE  Means(pat, text) <=> text = pat
<1> DEFINE m == Len(pat)
           n == Len(text)
<1>0. m \in Nat /\ n \in Nat /\ 1 \in 1 .. m + 1 /\ 1 \in 1 .. n + 1 /\ 1 + m <= m + 1
    OBVIOUS
<1>1. Means(pat, text) <=> MatchesAt(pat, text, 1, 1)
    <2>1. m + 1 - 1 = m
        BY <1>0
    <2> QED
        BY <2>1 DEF Means, MatchesAt
<1>2. \A i \in 0 .. m - 1 : pat[1 + i] # Star
    BY <1>0
<1>3. MatchesAt(pat, text, 1, 1)
        <=> 1 + m <= n + 1 /\ (\A i \in 0 .. m - 1 : text[1 + i] = pat[1 + i]) /\ MatchesAt(pat, text, 1 + m, 1 + m)
    BY <1>0, <1>2, BytesMatch, ZenonT(30)
<1>4. 1 + m = m + 1 /\ (MatchesAt(pat, text, m + 1, m + 1) <=> m + 1 = n + 1)
    BY <1>0, MatchesAtIs
<1>41. m = n => 1 + m <= n + 1
    BY <1>0
<1>42. m + 1 = n + 1 <=> m = n
    BY <1>0
<1>43. MatchesAt(pat, text, 1 + m, 1 + m) <=> m = n
    BY <1>4, <1>42, Zenon
<1>5. MatchesAt(pat, text, 1, 1) <=> m = n /\ \A i \in 0 .. m - 1 : text[1 + i] = pat[1 + i]
    BY <1>3, <1>41, <1>43, Zenon
<1>6. m = n /\ (\A i \in 0 .. m - 1 : text[1 + i] = pat[1 + i]) => text = pat
    <2> HAVE m = n /\ (\A i \in 0 .. m - 1 : text[1 + i] = pat[1 + i])
    <2>1. \A i \in 1 .. m : i - 1 \in 0 .. m - 1 /\ 1 + (i - 1) = i
        BY <1>0
    <2>2. \A i \in 1 .. m : text[i] = pat[i]
        BY <2>1
    <2> QED
        BY <2>2, SameSeq
<1>7. text = pat => m = n /\ \A i \in 0 .. m - 1 : text[1 + i] = pat[1 + i]
    OBVIOUS
<1> HIDE DEF m, n
<1>8. MatchesAt(pat, text, 1, 1) <=> text = pat
    BY <1>5, <1>6, <1>7, Zenon
<1> QED
    BY <1>1, <1>8, Zenon

GlobOne(pat, text, go, s) ==
    IF s.t > Len(text) THEN \A i \in s.p .. Len(pat) : pat[i] = Star
    ELSE IF s.p <= Len(pat) /\ pat[s.p] = text[s.t]
    THEN go[[p |-> s.p + 1, t |-> s.t + 1, sp |-> s.sp, st |-> s.st]]
    ELSE IF s.p <= Len(pat) /\ pat[s.p] = Star
    THEN go[[p |-> s.p + 1, t |-> s.t, sp |-> s.p, st |-> s.t]]
    ELSE s.sp # 0 /\ go[[p |-> s.sp + 1, t |-> s.st + 1, sp |-> s.sp, st |-> s.st + 1]]

\* How far a state of the matcher is from the end at most.
Rank(m, n, s) == (n + 1 - s.st) * (m + 2) + (m + 1 - s.p)

LEMMA ProductGrows ==
    ASSUME NEW a \in Nat, NEW b \in Nat, NEW c \in Nat, a < b
    PROVE  a * c \in Nat /\ b * c \in Nat /\ a * c + c <= b * c
<1>1. (b - a - 1) * c \in Nat
    <2>1. b - a - 1 \in Nat
        OBVIOUS
    <2>2. \A x \in Nat : x * c \in Nat
        OBVIOUS
    <2> QED
        BY <2>1, <2>2
<1>2. (b - a - 1) * c = b * c - a * c - c
    OBVIOUS
<1>3. a * c \in Nat /\ b * c \in Nat
    OBVIOUS
<1> QED
    BY <1>1, <1>2, <1>3

States(m, n) ==
    {s \in [p : 1 .. m + 1, t : 1 .. n + 1, sp : 0 .. m, st : 0 .. n + 1] : s.sp < s.p /\ s.st <= s.t}

\* The states that a state of the matcher may go on to, each of a lower rank.
LEMMA StatesGoOn ==
    ASSUME NEW m \in Nat, NEW n \in Nat, NEW s \in States(m, n)
    PROVE  /\ Rank(m, n, s) \in Nat
           /\ Rank(m, n, s) <= (n + 1) * (m + 2) + m
           /\ s.t <= n /\ s.p <= m =>
                LET a == [p |-> s.p + 1, t |-> s.t + 1, sp |-> s.sp, st |-> s.st]
                    b == [p |-> s.p + 1, t |-> s.t, sp |-> s.p, st |-> s.t]
                IN  a \in States(m, n) /\ Rank(m, n, a) < Rank(m, n, s)
                    /\ b \in States(m, n) /\ Rank(m, n, b) < Rank(m, n, s)
           /\ s.t <= n /\ s.sp # 0 =>
                LET c == [p |-> s.sp + 1, t |-> s.st + 1, sp |-> s.sp, st |-> s.st + 1]
                IN  c \in States(m, n) /\ Rank(m, n, c) < Rank(m, n, s)
<1>0. m \in Nat /\ n \in Nat
    OBVIOUS
<1>1. /\ s.p \in 1 .. m + 1 /\ s.t \in 1 .. n + 1 /\ s.sp \in 0 .. m /\ s.st \in 0 .. n + 1
      /\ s.sp < s.p /\ s.st <= s.t
    BY DEF States
<1>2. ASSUME NEW x \in 1 .. m + 1, NEW y \in 1 .. n + 1, NEW u \in 0 .. m, NEW v \in 0 .. n + 1, u < x, v <= y
      PROVE  [p |-> x, t |-> y, sp |-> u, st |-> v] \in States(m, n)
    BY <1>2 DEF States
<1>3. ASSUME NEW a \in Nat, NEW b \in Nat, NEW x \in 0 .. m, NEW y \in 0 .. m,
             a < b \/ (a = b /\ x < y)
      PROVE  a * (m + 2) + x < b * (m + 2) + y
    <2>1. CASE a < b
        <3>1. a * (m + 2) \in Nat /\ b * (m + 2) \in Nat /\ a * (m + 2) + (m + 2) <= b * (m + 2)
            BY <1>0, <2>1, ProductGrows
        <3> QED
            BY <1>0, <3>1
    <2>2. CASE a = b /\ x < y
        <3>1. a * (m + 2) \in Nat
            BY <1>0
        <3> QED
            BY <2>2, <3>1
    <2> QED
        BY <1>3, <2>1, <2>2
<1> DEFINE k == n + 1 - s.st
           x == m + 1 - s.p
<1>4. k \in Nat /\ k <= n + 1 /\ x \in 0 .. m
    BY <1>0, <1>1
<1>5. Rank(m, n, s) = k * (m + 2) + x
    BY Zenon DEF Rank
<1> HIDE DEF k, x
<1>6. Rank(m, n, s) \in Nat
    <2>1. k * (m + 2) \in Nat
        BY <1>0, <1>4
    <2> QED
        BY <1>0, <1>4, <1>5, <2>1
<1>7. Rank(m, n, s) <= (n + 1) * (m + 2) + m
    <2> DEFINE r == k * (m + 2)
               w == (n + 1) * (m + 2)
    <2>1. r \in Nat /\ w \in Nat
        BY <1>0, <1>4
    <2>2. CASE k < n + 1
        <3>1. n + 1 \in Nat /\ m + 2 \in Nat
            BY <1>0
        <3>2. r + (m + 2) <= w
            BY <1>4, <2>2, <3>1, ProductGrows
        <3> HIDE DEF r, w
        <3>3. Rank(m, n, s) = r + x
            BY <1>5 DEF r
        <3>4. r + x <= w + m
            BY <1>0, <1>4, <2>1, <3>2
        <3> QED
            BY <3>3, <3>4 DEF w
    <2>3. CASE k = n + 1
        <3>1. r = w
            BY <2>3
        <3> HIDE DEF r, w
        <3>3. Rank(m, n, s) = r + x
            BY <1>5 DEF r
        <3>4. r + x <= w + m
            BY <1>0, <1>4, <2>1, <3>1
        <3> QED
            BY <3>3, <3>4 DEF w
    <2> QED
        BY <1>0, <1>4, <2>2, <2>3
<1>8. ASSUME s.t <= n, s.p <= m
      PROVE  LET a == [p |-> s.p + 1, t |-> s.t + 1, sp |-> s.sp, st |-> s.st]
             IN  a \in States(m, n) /\ Rank(m, n, a) < Rank(m, n, s)
    <2> DEFINE a == [p |-> s.p + 1, t |-> s.t + 1, sp |-> s.sp, st |-> s.st]
    <2>1. s.p + 1 \in 1 .. m + 1 /\ s.t + 1 \in 1 .. n + 1 /\ s.sp < s.p + 1 /\ s.st <= s.t + 1
        BY <1>0, <1>1, <1>8
    <2>2. a \in States(m, n)
        BY <1>1, <1>2, <2>1
    <2>3. m + 1 - a.p = x - 1 /\ n + 1 - a.st = k /\ x - 1 \in 0 .. m
        BY <1>0, <1>1, <1>8 DEF x, k
    <2>4. Rank(m, n, a) = k * (m + 2) + (x - 1)
        <3> HIDE DEF a
        <3> QED
            BY <2>3, Zenon DEF Rank
    <2>5. k * (m + 2) + (x - 1) < k * (m + 2) + x
        <3>1. x - 1 < x /\ k = k
            BY <1>4
        <3> QED
            BY <1>3, <1>4, <2>3, <3>1
    <2> QED
        BY <1>5, <2>2, <2>4, <2>5
<1>9. ASSUME s.t <= n, s.p <= m
      PROVE  LET b == [p |-> s.p + 1, t |-> s.t, sp |-> s.p, st |-> s.t]
             IN  b \in States(m, n) /\ Rank(m, n, b) < Rank(m, n, s)
    <2> DEFINE b == [p |-> s.p + 1, t |-> s.t, sp |-> s.p, st |-> s.t]
    <2>1. /\ s.p + 1 \in 1 .. m + 1 /\ s.t \in 1 .. n + 1 /\ s.p \in 0 .. m /\ s.t \in 0 .. n + 1
          /\ s.p < s.p + 1 /\ s.t <= s.t
        BY <1>0, <1>1, <1>9
    <2>2. b \in States(m, n)
        BY <1>2, <2>1
    <2> DEFINE j == n + 1 - s.t
    <2>3. m + 1 - b.p = x - 1 /\ n + 1 - b.st = j /\ x - 1 \in 0 .. m /\ j \in Nat
        BY <1>0, <1>1, <1>9 DEF x
    <2>6. x - 1 < x /\ (j < k \/ j = k)
        BY <1>0, <1>1, <1>4 DEF k
    <2>4. Rank(m, n, b) = j * (m + 2) + (x - 1)
        <3> HIDE DEF b
        <3> QED
            BY <2>3, Zenon DEF Rank
    <2> HIDE DEF j
    <2>5. j * (m + 2) + (x - 1) < k * (m + 2) + x
        BY <1>3, <1>4, <2>3, <2>6
    <2> QED
        BY <1>5, <2>2, <2>4, <2>5
<1>10. ASSUME s.t <= n, s.sp # 0
       PROVE  LET c == [p |-> s.sp + 1, t |-> s.st + 1, sp |-> s.sp, st |-> s.st + 1]
              IN  c \in States(m, n) /\ Rank(m, n, c) < Rank(m, n, s)
    <2> DEFINE c == [p |-> s.sp + 1, t |-> s.st + 1, sp |-> s.sp, st |-> s.st + 1]
    <2>1. /\ s.sp + 1 \in 1 .. m + 1 /\ s.st + 1 \in 1 .. n + 1 /\ s.st + 1 \in 0 .. n + 1
          /\ s.sp < s.sp + 1 /\ s.st + 1 <= s.st + 1
        BY <1>0, <1>1, <1>10
    <2>2. c \in States(m, n)
        BY <1>1, <1>2, <2>1
    <2> DEFINE y == m - s.sp
    <2>3. m + 1 - c.p = y /\ n + 1 - c.st = k - 1 /\ y \in 0 .. m /\ k - 1 \in Nat
        BY <1>0, <1>1, <1>10 DEF k
    <2>6. k - 1 < k
        BY <1>4
    <2>4. Rank(m, n, c) = (k - 1) * (m + 2) + y
        <3> HIDE DEF c
        <3> QED
            BY <2>3, Zenon DEF Rank
    <2> HIDE DEF y
    <2>5. (k - 1) * (m + 2) + y < k * (m + 2) + x
        BY <1>3, <1>4, <2>3, <2>6
    <2> QED
        BY <1>5, <2>2, <2>4, <2>5
<1> QED
    BY <1>6, <1>7, <1>8, <1>9, <1>10

LEMMA GlobGoesOn ==
    ASSUME NEW pat \in Seq(Nat), NEW text \in Seq(Nat), NEW s \in GlobState(pat, text)
    PROVE  /\ Rank(Len(pat), Len(text), s) \in Nat
           /\ Rank(Len(pat), Len(text), s) <= (Len(text) + 1) * (Len(pat) + 2) + Len(pat)
           /\ s.t <= Len(text) /\ s.p <= Len(pat) =>
                LET a == [p |-> s.p + 1, t |-> s.t + 1, sp |-> s.sp, st |-> s.st]
                    b == [p |-> s.p + 1, t |-> s.t, sp |-> s.p, st |-> s.t]
                IN  /\ a \in GlobState(pat, text)
                    /\ Rank(Len(pat), Len(text), a) < Rank(Len(pat), Len(text), s)
                    /\ b \in GlobState(pat, text)
                    /\ Rank(Len(pat), Len(text), b) < Rank(Len(pat), Len(text), s)
           /\ s.t <= Len(text) /\ s.sp # 0 =>
                LET c == [p |-> s.sp + 1, t |-> s.st + 1, sp |-> s.sp, st |-> s.st + 1]
                IN  /\ c \in GlobState(pat, text)
                    /\ Rank(Len(pat), Len(text), c) < Rank(Len(pat), Len(text), s)
<1>1. Len(pat) \in Nat /\ Len(text) \in Nat
    OBVIOUS
<1>2. GlobState(pat, text) = States(Len(pat), Len(text))
    BY DEF GlobState, States
<1> QED
    BY <1>1, <1>2, StatesGoOn, Zenon

\* The matcher's recursion looks only at states of a lower rank.
LEMMA GlobLooksDown ==
    ASSUME NEW pat \in Seq(Nat), NEW text \in Seq(Nat), NEW s \in GlobState(pat, text), NEW g, NEW h,
           \A z \in GlobState(pat, text) :
              Rank(Len(pat), Len(text), z) < Rank(Len(pat), Len(text), s) => g[z] = h[z]
    PROVE  GlobOne(pat, text, g, s) = GlobOne(pat, text, h, s)
<1> DEFINE a == [p |-> s.p + 1, t |-> s.t + 1, sp |-> s.sp, st |-> s.st]
           b == [p |-> s.p + 1, t |-> s.t, sp |-> s.p, st |-> s.t]
           c == [p |-> s.sp + 1, t |-> s.st + 1, sp |-> s.sp, st |-> s.st + 1]
<1>0. s.t \in Nat /\ Len(text) \in Nat
    BY DEF GlobState
<1>1. s.t <= Len(text) /\ s.p <= Len(pat) => g[a] = h[a] /\ g[b] = h[b]
    BY GlobGoesOn
<1>2. s.t <= Len(text) /\ s.sp # 0 => g[c] = h[c]
    BY GlobGoesOn
<1>3. s.t <= Len(text) <=> ~(s.t > Len(text))
    BY <1>0
<1> HIDE DEF a, b, c
<1>4. \A go : GlobOne(pat, text, go, s) =
        IF s.t > Len(text) THEN \A i \in s.p .. Len(pat) : pat[i] = Star
        ELSE IF s.p <= Len(pat) /\ pat[s.p] = text[s.t] THEN go[a]
        ELSE IF s.p <= Len(pat) /\ pat[s.p] = Star THEN go[b]
        ELSE s.sp # 0 /\ go[c]
    BY DEF GlobOne, a, b, c
<1>5. CASE s.t > Len(text)
    BY <1>4, <1>5, Zenon
<1>6. CASE s.t <= Len(text)
    <2> DEFINE F(go) == IF s.p <= Len(pat) /\ pat[s.p] = text[s.t] THEN go[a]
                        ELSE IF s.p <= Len(pat) /\ pat[s.p] = Star THEN go[b]
                        ELSE s.sp # 0 /\ go[c]
    <2>1. GlobOne(pat, text, g, s) = F(g) /\ GlobOne(pat, text, h, s) = F(h)
        BY <1>3, <1>4, <1>6, Zenon
    <2>2. CASE s.p <= Len(pat) /\ pat[s.p] = text[s.t]
        <3>1. F(g) = g[a] /\ F(h) = h[a]
            BY <2>2, Zenon
        <3> HIDE DEF F
        <3> QED
            BY <1>1, <1>6, <2>1, <2>2, <3>1, Zenon
    <2>3. CASE ~(s.p <= Len(pat) /\ pat[s.p] = text[s.t]) /\ s.p <= Len(pat) /\ pat[s.p] = Star
        <3>1. F(g) = g[b] /\ F(h) = h[b]
            BY <2>3, Zenon
        <3> HIDE DEF F
        <3> QED
            BY <1>1, <1>6, <2>1, <2>3, <3>1, Zenon
    <2>4. CASE ~(s.p <= Len(pat) /\ pat[s.p] = text[s.t]) /\ ~(s.p <= Len(pat) /\ pat[s.p] = Star)
        <3>1. F(g) = (s.sp # 0 /\ g[c]) /\ F(h) = (s.sp # 0 /\ h[c])
            BY <2>4, Zenon
        <3> HIDE DEF F
        <3>2. CASE s.sp = 0
            BY <2>1, <3>1, <3>2, Zenon
        <3>3. CASE s.sp # 0
            BY <1>2, <1>6, <2>1, <3>1, <3>3, Zenon
        <3> QED
            BY <3>2, <3>3, Zenon
    <2> QED
        BY <2>2, <2>3, <2>4, Zenon
<1> QED
    BY <1>3, <1>5, <1>6

LEMMA GlobFromRec ==
    ASSUME NEW pat \in Seq(Nat), NEW text \in Seq(Nat)
    PROVE  \A s \in GlobState(pat, text) :
              GlobFrom(pat, text)[s] = GlobOne(pat, text, GlobFrom(pat, text), s)
<1> DEFINE S == GlobState(pat, text)
           rank(s) == Rank(Len(pat), Len(text), s)
           one(g, s) == GlobOne(pat, text, g, s)
           B == (Len(text) + 1) * (Len(pat) + 2) + Len(pat) + 1
           P == {k \in 0 .. B : \E g : \A s \in S : rank(s) < k => g[s] = one(g, s)}
<1>0. B \in Nat /\ \A s \in S : rank(s) \in Nat /\ rank(s) < B
    <2>1. Len(pat) \in Nat /\ (Len(text) + 1) * (Len(pat) + 2) \in Nat
        <3>1. Len(pat) \in Nat /\ Len(text) \in Nat
            OBVIOUS
        <3>2. \A x, y \in Nat : (x + 1) * (y + 2) \in Nat
            OBVIOUS
        <3> QED
            BY <3>1, <3>2, Zenon
    <2>2. \A s \in S : rank(s) \in Nat /\ rank(s) <= (Len(text) + 1) * (Len(pat) + 2) + Len(pat)
        BY GlobGoesOn
    <2> DEFINE w == (Len(text) + 1) * (Len(pat) + 2)
    <2> HIDE DEF w, rank, S
    <2>3. w \in Nat /\ B = w + Len(pat) + 1 /\ \A s \in S : rank(s) \in Nat /\ rank(s) <= w + Len(pat)
        BY <2>1, <2>2 DEF w
    <2> HIDE DEF B
    <2> QED
        BY <2>1, <2>3
<1>1. \A s \in S : \A g, h : (\A z \in S : rank(z) < rank(s) => g[z] = h[z]) => one(g, s) = one(h, s)
    BY GlobLooksDown, Zenon
<1>2. GlobFrom(pat, text) = CHOOSE g : g = [s \in S |-> one(g, s)]
    BY DEF GlobFrom, GlobOne
<1> HIDE DEF S, rank, one, B
<1>3. 0 \in P
    <2>1. \A s \in S : ~(rank(s) < 0)
        BY <1>0
    <2>2. 0 \in 0 .. B
        BY <1>0
    <2> QED
        BY <2>1, <2>2
<1>4. ASSUME NEW k \in 1 .. B, k - 1 \in P PROVE k \in P
    <2>1. PICK g : \A s \in S : rank(s) < k - 1 => g[s] = one(g, s)
        BY <1>4
    <2> DEFINE h == [s \in S |-> one(g, s)]
    <2>2. \A z \in S : h[z] = one(g, z)
        OBVIOUS
    <2> HIDE DEF h
    <2>3. ASSUME NEW s \in S, rank(s) < k PROVE h[s] = one(h, s)
        <3>1. \A z \in S : rank(z) < rank(s) => rank(z) < k - 1
            BY <1>0, <2>3
        <3>2. \A z \in S : rank(z) < rank(s) => g[z] = h[z]
            BY <2>1, <2>2, <3>1, Zenon
        <3>3. one(g, s) = one(h, s)
            BY <1>1, <3>2, Zenon
        <3> QED
            BY <2>2, <3>3, Zenon
    <2>4. k \in 0 .. B
        BY <1>0
    <2>5. \E f : \A s \in S : rank(s) < k => f[s] = one(f, s)
        BY <2>3, Zenon
    <2> QED
        BY <2>4, <2>5
<1>5. B \in P
    <2> HIDE DEF P
    <2>1. 0 .. B \subseteq P
        BY <1>0, <1>3, <1>4, UpTo, Zenon
    <2> QED
        BY <1>0, <2>1
<1>6. PICK g : \A s \in S : g[s] = one(g, s)
    BY <1>0, <1>5
<1> DEFINE h == [s \in S |-> g[s]]
<1>7. \A z \in S : h[z] = g[z]
    OBVIOUS
<1>8. h = [s \in S |-> one(h, s)]
    <2>1. \A s \in S : one(h, s) = g[s]
        <3> HIDE DEF h
        <3> QED
            BY <1>1, <1>6, <1>7, Zenon
    <2> QED
        BY <2>1
<1>9. \E f : f = [s \in S |-> one(f, s)]
    <2> HIDE DEF h
    <2> QED
        BY <1>8, Zenon
<1> DEFINE f == GlobFrom(pat, text)
<1>10. f = [s \in S |-> one(f, s)]
    BY <1>2, <1>9, Zenon
<1> HIDE DEF f
<1>11. \A s \in S : f[s] = one(f, s)
    BY <1>10
<1> QED
    BY <1>11, Zenon DEF f, S, one

LEMMA GlobCases ==
    ASSUME NEW pat \in Seq(Nat), NEW text \in Seq(Nat), NEW s \in GlobState(pat, text)
    PROVE  LET go == GlobFrom(pat, text)
           IN  /\ s.t > Len(text) => (go[s] <=> \A i \in s.p .. Len(pat) : pat[i] = Star)
               /\ s.t <= Len(text) /\ s.p <= Len(pat) /\ pat[s.p] = text[s.t] =>
                    (go[s] <=> go[[p |-> s.p + 1, t |-> s.t + 1, sp |-> s.sp, st |-> s.st]])
               /\ s.t <= Len(text) /\ s.p <= Len(pat) /\ pat[s.p] # text[s.t] /\ pat[s.p] = Star =>
                    (go[s] <=> go[[p |-> s.p + 1, t |-> s.t, sp |-> s.p, st |-> s.t]])
               /\ s.t <= Len(text) /\ ~(s.p <= Len(pat) /\ pat[s.p] \in {text[s.t], Star}) =>
                    (go[s] <=> s.sp # 0 /\ go[[p |-> s.sp + 1, t |-> s.st + 1, sp |-> s.sp, st |-> s.st + 1]])
<1> DEFINE go == GlobFrom(pat, text)
           a == [p |-> s.p + 1, t |-> s.t + 1, sp |-> s.sp, st |-> s.st]
           b == [p |-> s.p + 1, t |-> s.t, sp |-> s.p, st |-> s.t]
           c == [p |-> s.sp + 1, t |-> s.st + 1, sp |-> s.sp, st |-> s.st + 1]
<1>1. go[s] = GlobOne(pat, text, go, s)
    BY GlobFromRec
<1>2. s.t \in Nat /\ Len(text) \in Nat
    BY DEF GlobState
<1>3. s.t <= Len(text) => ~(s.t > Len(text))
    BY <1>2
<1> HIDE DEF go, a, b, c
<1>4. GlobOne(pat, text, go, s) =
        IF s.t > Len(text) THEN \A i \in s.p .. Len(pat) : pat[i] = Star
        ELSE IF s.p <= Len(pat) /\ pat[s.p] = text[s.t] THEN go[a]
        ELSE IF s.p <= Len(pat) /\ pat[s.p] = Star THEN go[b]
        ELSE s.sp # 0 /\ go[c]
    BY DEF GlobOne, a, b, c
<1>5. s.t > Len(text) => (go[s] <=> \A i \in s.p .. Len(pat) : pat[i] = Star)
    BY <1>1, <1>4, Zenon
<1>6. s.t <= Len(text) /\ s.p <= Len(pat) /\ pat[s.p] = text[s.t] => (go[s] <=> go[a])
    BY <1>1, <1>3, <1>4, Zenon
<1>7. s.t <= Len(text) /\ s.p <= Len(pat) /\ pat[s.p] # text[s.t] /\ pat[s.p] = Star => (go[s] <=> go[b])
    BY <1>1, <1>3, <1>4, Zenon
<1>8. s.t <= Len(text) /\ ~(s.p <= Len(pat) /\ pat[s.p] \in {text[s.t], Star}) => (go[s] <=> s.sp # 0 /\ go[c])
    BY <1>1, <1>3, <1>4, Zenon
<1> QED
    BY <1>5, <1>6, <1>7, <1>8, Zenon DEF go, a, b, c

\* At the end of the text, what is left of the pattern must be stars.
LEMMA StarsMatch ==
    ASSUME NEW pat \in Seq(Nat), NEW text \in Seq(Nat), NEW p \in 1 .. Len(pat) + 1
    PROVE  MatchesAt(pat, text, p, Len(text) + 1) <=> \A i \in p .. Len(pat) : pat[i] = Star
<1> DEFINE m == Len(pat)
           e == Len(text) + 1
           M(i, j) == MatchesAt(pat, text, i, j)
           P == {k \in 0 .. m : M(m + 1 - k, e) <=> \A i \in m + 1 - k .. m : pat[i] = Star}
<1>0. m \in Nat /\ e \in Nat /\ e \in 1 .. e /\ e - 1 = Len(text)
    OBVIOUS
<1>1. /\ \A t : M(m + 1, t) <=> t = e
      /\ \A q \in 1 .. m : pat[q] = Star =>
            \A t \in 1 .. e : M(q, t) <=> \E u \in 1 .. e : t <= u /\ M(q + 1, u)
      /\ \A q \in 1 .. m : pat[q] # Star =>
            \A t : M(q, t) <=> t \in 1 .. e - 1 /\ text[t] = pat[q] /\ M(q + 1, t + 1)
    BY <1>0, MatchesAtIs
<1> HIDE DEF m, e, M
<1>2. 0 \in P
    <2>1. m + 1 - 0 = m + 1 /\ m + 1 .. m = {} /\ 0 \in 0 .. m
        BY <1>0
    <2>2. M(m + 1 - 0, e) <=> \A i \in m + 1 - 0 .. m : pat[i] = Star
        BY <1>1, <2>1
    <2> QED
        BY <2>1, <2>2
<1>3. ASSUME NEW k \in 1 .. m, k - 1 \in P PROVE k \in P
    <2> DEFINE q == m + 1 - k
    <2>1. q \in 1 .. m /\ m + 1 - (k - 1) = q + 1 /\ k \in 0 .. m
        BY <1>0
    <2>2. M(q + 1, e) <=> \A i \in q + 1 .. m : pat[i] = Star
        BY <1>3, <2>1
    <2>3. q .. m = {q} \cup (q + 1 .. m)
        BY <1>0, <2>1
    <2> HIDE DEF q
    <2>4. M(q, e) <=> \A i \in q .. m : pat[i] = Star
        <3>1. CASE pat[q] = Star
            <4>1. \A u \in 1 .. e : e <= u <=> u = e
                BY <1>0
            <4>3. M(q, e) <=> \E u \in 1 .. e : e <= u /\ M(q + 1, u)
                BY <1>0, <1>1, <2>1, <3>1, Zenon
            <4>2. M(q, e) <=> M(q + 1, e)
                BY <1>0, <4>1, <4>3
            <4> QED
                BY <2>2, <2>3, <3>1, <4>2, Zenon
        <3>2. CASE pat[q] # Star
            <4>1. e \notin 1 .. e - 1
                BY <1>0
            <4>2. ~M(q, e)
                BY <1>1, <2>1, <3>2, <4>1, Zenon
            <4> QED
                BY <2>3, <3>2, <4>2, Zenon
        <3> QED
            BY <3>1, <3>2
    <2>5. M(m + 1 - k, e) <=> \A i \in m + 1 - k .. m : pat[i] = Star
        BY <2>4 DEF q
    <2> QED
        BY <2>1, <2>5
<1>4. 0 .. m \subseteq P
    <2> HIDE DEF P
    <2> QED
        BY <1>0, <1>2, <1>3, UpTo, Zenon
<1>5. m + 1 - p \in 0 .. m /\ m + 1 - (m + 1 - p) = p
    BY <1>0 DEF m
<1>6. M(m + 1 - (m + 1 - p), e) <=> \A i \in m + 1 - (m + 1 - p) .. m : pat[i] = Star
    BY <1>4, <1>5
<1>7. M(p, e) <=> \A i \in p .. m : pat[i] = Star
    BY <1>5, <1>6, Zenon
<1> QED
    BY <1>7 DEF M, m, e

\* What a state of the matcher may still find: a match from here on, or one in
\* which the last star takes more bytes.
Hopes(pat, text, s) ==
    \/ MatchesAt(pat, text, s.p, s.t)
    \/ s.sp # 0 /\ \E u \in 1 .. Len(text) + 1 : u > s.st /\ MatchesAt(pat, text, s.sp + 1, u)

\* The last star is where the state says.
Starred(pat, s) == s.sp # 0 => pat[s.sp] = Star

\* No star has been passed since.
NoStarSince(pat, s) ==
    s.sp # 0 => s.t - s.st = s.p - s.sp - 1 /\ \A i \in s.sp + 1 .. s.p - 1 : pat[i] # Star

LEMMA LeastState ==
    ASSUME NEW pat \in Seq(Nat), NEW text \in Seq(Nat), NEW B \in SUBSET GlobState(pat, text), B # {}
    PROVE  \E s \in B : \A z \in B : ~(Rank(Len(pat), Len(text), z) < Rank(Len(pat), Len(text), s))
<1> DEFINE rank(s) == Rank(Len(pat), Len(text), s)
           R == {rank(s) : s \in B}
<1>1. \A s \in B : rank(s) \in Nat
    BY GlobGoesOn
<1> HIDE DEF rank
<1>2. R \in SUBSET Nat /\ R # {}
    BY <1>1
<1>3. PICK x \in R : \A y \in R : x <= y
    <2> HIDE DEF R
    <2> QED
        BY <1>2, LeastNat
<1>4. PICK s \in B : x = rank(s)
    BY <1>3
<1>5. \A z \in B : rank(s) <= rank(z)
    BY <1>3, <1>4
<1>6. \A z \in B : ~(rank(z) < rank(s))
    BY <1>1, <1>5
<1> QED
    BY <1>6 DEF rank

\* What the matcher finds is a match.
LEMMA GlobSound ==
    ASSUME NEW pat \in Seq(Nat), NEW text \in Seq(Nat)
    PROVE  \A s \in GlobState(pat, text) : Starred(pat, s) /\ GlobFrom(pat, text)[s] => Hopes(pat, text, s)
<1> DEFINE S == GlobState(pat, text)
           go == GlobFrom(pat, text)
           rank(s) == Rank(Len(pat), Len(text), s)
           m == Len(pat)
           n == Len(text)
           M(i, j) == MatchesAt(pat, text, i, j)
           B == {s \in S : Starred(pat, s) /\ go[s] /\ ~Hopes(pat, text, s)}
<1> SUFFICES ASSUME B # {} PROVE FALSE
    BY Zenon
<1>1. PICK s \in B : \A z \in B : ~(rank(z) < rank(s))
    BY LeastState, Zenon
<1>2. /\ s \in S /\ Starred(pat, s) /\ go[s] /\ ~Hopes(pat, text, s)
    BY <1>1
<1>3. \A z \in S : rank(z) < rank(s) /\ Starred(pat, z) /\ go[z] => Hopes(pat, text, z)
    BY <1>1
<1>0. m \in Nat /\ n \in Nat
    OBVIOUS
<1>4. /\ s.p \in 1 .. m + 1 /\ s.t \in 1 .. n + 1 /\ s.sp \in 0 .. m /\ s.st \in 0 .. n + 1
      /\ s.sp < s.p /\ s.st <= s.t
    BY <1>2 DEF GlobState
<1>5. ~M(s.p, s.t) /\ (s.sp # 0 => \A u \in 1 .. n + 1 : u > s.st => ~M(s.sp + 1, u))
    BY <1>2, Zenon DEF Hopes
<1>6. /\ \A q \in 1 .. m : pat[q] = Star =>
            \A t \in 1 .. n + 1 : M(q, t) <=> \E u \in 1 .. n + 1 : t <= u /\ M(q + 1, u)
      /\ \A q \in 1 .. m : pat[q] # Star =>
            \A t : M(q, t) <=> t \in 1 .. n /\ text[t] = pat[q] /\ M(q + 1, t + 1)
    BY MatchesAtIs
<1>7. CASE s.t > n
    <2>1. \A i \in s.p .. m : pat[i] = Star
        BY <1>2, <1>7, GlobCases, Zenon
    <2>2. M(s.p, n + 1)
        BY <1>4, <2>1, StarsMatch
    <2>3. s.t = n + 1
        BY <1>0, <1>4, <1>7
    <2> QED
        BY <1>5, <2>2, <2>3
<1>8. CASE s.t <= n /\ s.p <= m /\ pat[s.p] = text[s.t]
    <2> DEFINE a == [p |-> s.p + 1, t |-> s.t + 1, sp |-> s.sp, st |-> s.st]
    <2>1. a \in S /\ rank(a) < rank(s)
        BY <1>2, <1>8, GlobGoesOn, Zenon
    <2>2. go[a]
        BY <1>2, <1>8, GlobCases, Zenon
    <2>3. Starred(pat, a)
        BY <1>2 DEF Starred
    <2>4. Hopes(pat, text, a)
        <3> HIDE DEF a
        <3> QED
            BY <1>3, <2>1, <2>2, <2>3
    <2>5. M(s.p + 1, s.t + 1) \/ (s.sp # 0 /\ \E u \in 1 .. n + 1 : u > s.st /\ M(s.sp + 1, u))
        <3>1. a.p = s.p + 1 /\ a.t = s.t + 1 /\ a.sp = s.sp /\ a.st = s.st
            OBVIOUS
        <3> HIDE DEF a
        <3> QED
            BY <2>4, <3>1, Zenon DEF Hopes
    <2>6. M(s.p + 1, s.t + 1)
        BY <1>5, <2>5, Zenon
    <2>7. s.p \in 1 .. m /\ s.t \in 1 .. n /\ s.t \in 1 .. n + 1 /\ s.t + 1 \in 1 .. n + 1 /\ s.t <= s.t + 1
        <3> HIDE DEF m, n
        <3>1. s.p \in 1 .. m /\ s.t \in 1 .. n
            BY <1>0, <1>4, <1>8
        <3> QED
            BY <1>0, <3>1
    <2>8. M(s.p, s.t)
        <3>1. CASE pat[s.p] = Star
            BY <1>6, <2>6, <2>7, <3>1, ZenonT(30)
        <3>2. CASE pat[s.p] # Star
            BY <1>6, <1>8, <2>6, <2>7, <3>2, Zenon
        <3> QED
            BY <3>1, <3>2
    <2> QED
        BY <1>5, <2>8
<1>9. CASE s.t <= n /\ s.p <= m /\ pat[s.p] # text[s.t] /\ pat[s.p] = Star
    <2> DEFINE b == [p |-> s.p + 1, t |-> s.t, sp |-> s.p, st |-> s.t]
    <2>1. b \in S /\ rank(b) < rank(s)
        BY <1>2, <1>9, GlobGoesOn, Zenon
    <2>2. go[b]
        BY <1>2, <1>9, GlobCases, Zenon
    <2>3. Starred(pat, b)
        BY <1>9 DEF Starred
    <2>4. Hopes(pat, text, b)
        <3> HIDE DEF b
        <3> QED
            BY <1>3, <2>1, <2>2, <2>3
    <2>5. M(s.p + 1, s.t) \/ \E u \in 1 .. n + 1 : u > s.t /\ M(s.p + 1, u)
        <3>1. b.p = s.p + 1 /\ b.t = s.t /\ b.sp = s.p /\ b.st = s.t
            OBVIOUS
        <3> HIDE DEF b
        <3> QED
            BY <2>4, <3>1, Zenon DEF Hopes
    <2>6. s.p \in 1 .. m /\ s.t \in 1 .. n + 1 /\ s.t <= s.t /\ \A u \in 1 .. n + 1 : u > s.t => s.t <= u
        <3>1. \A k \in Nat : \A x \in 1 .. k + 1 :
                 (x <= k => x \in 1 .. k) /\ x <= x /\ \A u \in 1 .. k + 1 : u > x => x <= u
            OBVIOUS
        <3> QED
            BY <1>0, <1>4, <1>9, <3>1, Zenon
    <2>7. \E u \in 1 .. n + 1 : s.t <= u /\ M(s.p + 1, u)
        BY <2>5, <2>6, Zenon
    <2>8. M(s.p, s.t)
        BY <1>6, <1>9, <2>6, <2>7, Zenon
    <2> QED
        BY <1>5, <2>8
<1>10. CASE s.t <= n /\ ~(s.p <= m /\ pat[s.p] \in {text[s.t], Star})
    <2> DEFINE c == [p |-> s.sp + 1, t |-> s.st + 1, sp |-> s.sp, st |-> s.st + 1]
    <2>2. s.sp # 0 /\ go[c]
        BY <1>2, <1>10, GlobCases, Zenon
    <2>1. c \in S /\ rank(c) < rank(s)
        BY <1>2, <1>10, <2>2, GlobGoesOn, Zenon
    <2>3. Starred(pat, c)
        BY <1>2, <2>2 DEF Starred
    <2>4. Hopes(pat, text, c)
        <3> HIDE DEF c
        <3> QED
            BY <1>3, <2>1, <2>2, <2>3
    <2>5. M(s.sp + 1, s.st + 1) \/ \E u \in 1 .. n + 1 : u > s.st + 1 /\ M(s.sp + 1, u)
        <3>1. c.p = s.sp + 1 /\ c.t = s.st + 1 /\ c.sp = s.sp /\ c.st = s.st + 1
            OBVIOUS
        <3> HIDE DEF c
        <3> QED
            BY <2>4, <3>1, Zenon DEF Hopes
    <2>6. s.st + 1 \in 1 .. n + 1 /\ s.st + 1 > s.st /\ \A u \in 1 .. n + 1 : u > s.st + 1 => u > s.st
        <3>1. \A k \in Nat : \A x \in 1 .. k + 1, y \in 0 .. k + 1 : x <= k /\ y <= x =>
                 y + 1 \in 1 .. k + 1 /\ y + 1 > y /\ \A u \in 1 .. k + 1 : u > y + 1 => u > y
            OBVIOUS
        <3> QED
            BY <1>0, <1>4, <1>10, <3>1, Zenon
    <2> QED
        BY <1>5, <2>2, <2>5, <2>6, Zenon
<1>11. s.t > n \/ s.t <= n
    BY <1>0, <1>4
<1> QED
    BY <1>7, <1>8, <1>9, <1>10, <1>11, Zenon

LEMMA PlacesAhead ==
    ASSUME NEW m \in Nat, NEW p \in 1 .. m + 1, NEW sp \in 0 .. m, sp < p
    PROVE  /\ p - sp - 1 \in Nat /\ sp + 1 \in 1 .. m + 1
           /\ (sp + 1) + (p - sp - 1) = p /\ p <= m + 1
           /\ \A i \in 0 .. (p - sp - 1) - 1 : (sp + 1) + i \in sp + 1 .. p - 1
           /\ \A i \in sp + 1 .. (p + 1) - 1 : i \in sp + 1 .. p - 1 \/ i = p
OBVIOUS

LEMMA PlacesBeyond ==
    ASSUME NEW n \in Nat, NEW t \in 1 .. n + 1, NEW st \in 0 .. n + 1, NEW K \in Nat, t - st = K,
           NEW u \in 1 .. n + 1, u > st, u + K <= n + 1
    PROVE  u + K > t /\ u + K \in 1 .. n + 1
OBVIOUS

LEMMA NoStarYet ==
    ASSUME NEW pat, NEW s, NEW a, s.t \in Int /\ s.st \in Int /\ s.p \in Int /\ s.sp \in Int,
           a.p = s.p + 1 /\ a.t = s.t + 1 /\ a.sp = s.sp /\ a.st = s.st,
           pat[s.p] # Star, NoStarSince(pat, s)
    PROVE  NoStarSince(pat, a)
<1> DEFINE t == s.t
           st == s.st
           p == s.p
           sp == s.sp
<1>1. t \in Int /\ st \in Int /\ p \in Int /\ sp \in Int
    OBVIOUS
<1>2. sp # 0 => t - st = p - sp - 1 /\ \A i \in sp + 1 .. p - 1 : pat[i] # Star
    BY Zenon DEF NoStarSince
<1>3. pat[p] # Star
    OBVIOUS
<1>4. (sp # 0 => (t + 1) - st = (p + 1) - sp - 1 /\ \A i \in sp + 1 .. (p + 1) - 1 : pat[i] # Star)
        => NoStarSince(pat, a)
    BY Zenon DEF NoStarSince
<1> HIDE DEF t, st, p, sp
<1>5. t - st = p - sp - 1 => (t + 1) - st = (p + 1) - sp - 1
    BY <1>1
<1>6. \A i \in sp + 1 .. (p + 1) - 1 : i \in sp + 1 .. p - 1 \/ i = p
    BY <1>1
<1> QED
    BY <1>2, <1>3, <1>4, <1>5, <1>6, Zenon

\* In a text without stars every match is found: a star takes as few bytes as it
\* can, and what an earlier star could do the last one can do as well.
LEMMA GlobComplete ==
    ASSUME NEW pat \in Seq(Nat), NEW text \in Seq(Nat), \A i \in 1 .. Len(text) : text[i] # Star
    PROVE  \A s \in GlobState(pat, text) :
              Starred(pat, s) /\ NoStarSince(pat, s) /\ Hopes(pat, text, s) => GlobFrom(pat, text)[s]
<1> DEFINE S == GlobState(pat, text)
           go == GlobFrom(pat, text)
           rank(s) == Rank(Len(pat), Len(text), s)
           m == Len(pat)
           n == Len(text)
           M(i, j) == MatchesAt(pat, text, i, j)
           B == {s \in S : Starred(pat, s) /\ NoStarSince(pat, s) /\ Hopes(pat, text, s) /\ ~go[s]}
<1> SUFFICES ASSUME B # {} PROVE FALSE
    BY Zenon
<1>1. PICK s \in B : \A z \in B : ~(rank(z) < rank(s))
    BY LeastState, Zenon
<1>2. s \in S /\ Starred(pat, s) /\ NoStarSince(pat, s) /\ Hopes(pat, text, s) /\ ~go[s]
    BY <1>1
<1>3. \A z \in S : rank(z) < rank(s) /\ Starred(pat, z) /\ NoStarSince(pat, z) /\ Hopes(pat, text, z) => go[z]
    BY <1>1
<1>0. m \in Nat /\ n \in Nat
    OBVIOUS
<1>4. /\ s.p \in 1 .. m + 1 /\ s.t \in 1 .. n + 1 /\ s.sp \in 0 .. m /\ s.st \in 0 .. n + 1
      /\ s.sp < s.p /\ s.st <= s.t
    BY <1>2 DEF GlobState
<1>6. /\ \A q \in 1 .. m : pat[q] = Star =>
            \A t \in 1 .. n + 1 : M(q, t) <=> \E u \in 1 .. n + 1 : t <= u /\ M(q + 1, u)
      /\ \A q \in 1 .. m : pat[q] # Star =>
            \A t : M(q, t) <=> t \in 1 .. n /\ text[t] = pat[q] /\ M(q + 1, t + 1)
      /\ \A t : M(m + 1, t) <=> t = n + 1
    BY MatchesAtIs
\* What the last star could do with more bytes starts a match here, further on.
<1>12. ASSUME s.sp # 0, NEW u \in 1 .. n + 1, u > s.st, M(s.sp + 1, u)
       PROVE  LET w == u + (s.p - s.sp - 1) IN w \in 1 .. n + 1 /\ w > s.t /\ M(s.p, w)
    <2> DEFINE K == s.p - s.sp - 1
               q == s.sp + 1
    <2>1. s.t - s.st = K /\ \A i \in q .. s.p - 1 : pat[i] # Star
        BY <1>2, <1>12 DEF NoStarSince
    <2>20. /\ K \in Nat /\ q \in 1 .. m + 1 /\ q + K = s.p /\ s.p <= m + 1
           /\ \A i \in 0 .. K - 1 : q + i \in q .. s.p - 1
        BY <1>0, <1>4, PlacesAhead, ZenonT(30)
    <2>2. K \in Nat /\ q \in 1 .. m + 1 /\ q + K = s.p
        BY <2>20
    <2>3. q + K <= m + 1 /\ \A i \in 0 .. K - 1 : q + i \in q .. s.p - 1
        BY <2>20, Zenon
    <2>4. \A i \in 0 .. K - 1 : pat[q + i] # Star
        BY <2>1, <2>3, Zenon
    <2>5. M(q, u)
        BY <1>12
    <2> HIDE DEF K, q
    <2>6. u + K <= n + 1 /\ M(q + K, u + K)
        BY <2>2, <2>3, <2>4, <2>5, BytesMatch
    <2>7. u + K > s.t /\ u + K \in 1 .. n + 1
        BY <1>0, <1>4, <1>12, <2>1, <2>2, <2>6, PlacesBeyond, Zenon
    <2> QED
        BY <2>2, <2>6, <2>7, Zenon DEF K
<1>7. CASE s.t > n
    <2>1. s.t = n + 1
        <3> HIDE DEF m, n
        <3> QED
            BY <1>0, <1>4, <1>7
    <2>2. \A w \in 1 .. n + 1 : ~(w > s.t)
        <3> HIDE DEF m, n
        <3> QED
            BY <1>0, <2>1
    <2>3. M(s.p, s.t)
        BY <1>2, <1>12, <2>2, Zenon DEF Hopes
    <2>4. M(s.p, n + 1)
        BY <2>1, <2>3
    <2>5. \A i \in s.p .. m : pat[i] = Star
        BY <1>4, <2>4, StarsMatch
    <2> QED
        BY <1>2, <1>7, <2>5, GlobCases, Zenon
<1>8. CASE s.t <= n /\ s.p <= m /\ pat[s.p] = text[s.t]
    <2> DEFINE a == [p |-> s.p + 1, t |-> s.t + 1, sp |-> s.sp, st |-> s.st]
    <2>1. a \in S /\ rank(a) < rank(s)
        BY <1>2, <1>8, GlobGoesOn, Zenon
    <2>7. s.p \in 1 .. m /\ s.t \in 1 .. n
        <3> HIDE DEF m, n
        <3> QED
            BY <1>0, <1>4, <1>8
    <2>8. pat[s.p] # Star
        BY <1>8, <2>7
    <2>9. a.p = s.p + 1 /\ a.t = s.t + 1 /\ a.sp = s.sp /\ a.st = s.st
        OBVIOUS
    <2> HIDE DEF a
    <2>3. Starred(pat, a)
        BY <1>2, <2>9, Zenon DEF Starred
    <2>4. NoStarSince(pat, a)
        <3>1. s.t \in Int /\ s.st \in Int /\ s.p \in Int /\ s.sp \in Int
            <4> HIDE DEF m, n
            <4> QED
                BY <1>0, <1>4
        <3>2. NoStarSince(pat, s)
            BY <1>2
        <3> QED
            BY <2>8, <2>9, <3>1, <3>2, NoStarYet, Zenon
    <2>5. M(s.p, s.t) => M(s.p + 1, s.t + 1)
        BY <1>6, <2>7, <2>8, Zenon
    <2>6. Hopes(pat, text, a)
        BY <1>2, <2>5, <2>9, Zenon DEF Hopes
    <2>10. go[a]
        BY <1>3, <2>1, <2>3, <2>4, <2>6, Zenon
    <2> QED
        BY <1>2, <1>8, <2>10, GlobCases, Zenon DEF a
<1>9. CASE s.t <= n /\ s.p <= m /\ pat[s.p] # text[s.t] /\ pat[s.p] = Star
    <2> DEFINE b == [p |-> s.p + 1, t |-> s.t, sp |-> s.p, st |-> s.t]
    <2>1. b \in S /\ rank(b) < rank(s)
        BY <1>2, <1>9, GlobGoesOn, Zenon
    <2>7. s.p \in 1 .. m /\ s.p # 0 /\ s.t \in 1 .. n + 1
        <3> HIDE DEF m, n
        <3> QED
            BY <1>0, <1>4, <1>9
    <2>9. b.p = s.p + 1 /\ b.t = s.t /\ b.sp = s.p /\ b.st = s.t
        OBVIOUS
    <2> HIDE DEF b
    <2>3. Starred(pat, b)
        BY <1>9, <2>9, Zenon DEF Starred
    <2>4. NoStarSince(pat, b)
        <3>1. s.t - s.t = (s.p + 1) - s.p - 1 /\ s.p + 1 .. (s.p + 1) - 1 = {}
            <4> HIDE DEF m, n
            <4> QED
                BY <1>0, <1>4
        <3> QED
            BY <2>9, <3>1, Zenon DEF NoStarSince
    <2>5. \E u \in 1 .. n + 1 : s.t <= u /\ M(s.p + 1, u)
        <3>1. CASE M(s.p, s.t)
            BY <1>6, <1>9, <2>7, <3>1, Zenon
        <3>2. CASE s.sp # 0 /\ \E u \in 1 .. n + 1 : u > s.st /\ M(s.sp + 1, u)
            <4>1. PICK u \in 1 .. n + 1 : u > s.st /\ M(s.sp + 1, u)
                BY <3>2
            <4>2. PICK w \in 1 .. n + 1 : w > s.t /\ M(s.p, w)
                BY <1>12, <3>2, <4>1, Zenon
            <4>3. PICK v \in 1 .. n + 1 : w <= v /\ M(s.p + 1, v)
                BY <1>6, <1>9, <2>7, <4>2, Zenon
            <4>4. s.t <= v
                <5> HIDE DEF m, n, M
                <5> QED
                    BY <1>0, <1>4, <4>2, <4>3
            <4> QED
                BY <4>3, <4>4
        <3> QED
            BY <1>2, <3>1, <3>2, Zenon DEF Hopes
    <2>6. Hopes(pat, text, b)
        <3>1. PICK u \in 1 .. n + 1 : s.t <= u /\ M(s.p + 1, u)
            BY <2>5
        <3>2. u = s.t \/ u > s.t
            <4> HIDE DEF m, n, M
            <4> QED
                BY <1>0, <1>4, <3>1
        <3> QED
            BY <2>7, <2>9, <3>1, <3>2, Zenon DEF Hopes
    <2>10. go[b]
        BY <1>3, <2>1, <2>3, <2>4, <2>6, Zenon
    <2> QED
        BY <1>2, <1>9, <2>10, GlobCases, Zenon DEF b
<1>10. CASE s.t <= n /\ ~(s.p <= m /\ pat[s.p] \in {text[s.t], Star})
    <2> DEFINE c == [p |-> s.sp + 1, t |-> s.st + 1, sp |-> s.sp, st |-> s.st + 1]
    <2>1. ~M(s.p, s.t)
        <3>1. CASE s.p <= m
            <4>1. s.p \in 1 .. m
                <5> HIDE DEF m, n
                <5> QED
                    BY <1>0, <1>4, <3>1
            <4>2. pat[s.p] # Star /\ pat[s.p] # text[s.t]
                BY <1>10, <3>1, Zenon
            <4> QED
                BY <1>6, <4>1, <4>2, Zenon
        <3>2. CASE ~(s.p <= m)
            <4>1. s.p = m + 1 /\ s.t # n + 1
                <5> HIDE DEF m, n
                <5> QED
                    BY <1>0, <1>4, <1>10, <3>2
            <4> QED
                BY <1>6, <4>1
        <3> QED
            BY <3>1, <3>2
    <2>2. s.sp # 0 /\ \E u \in 1 .. n + 1 : u > s.st /\ M(s.sp + 1, u)
        BY <1>2, <2>1, Zenon DEF Hopes
    <2>3. c \in S /\ rank(c) < rank(s)
        BY <1>2, <1>10, <2>2, GlobGoesOn, Zenon
    <2>9. c.p = s.sp + 1 /\ c.t = s.st + 1 /\ c.sp = s.sp /\ c.st = s.st + 1
        OBVIOUS
    <2> HIDE DEF c
    <2>4. Starred(pat, c)
        BY <1>2, <2>9, Zenon DEF Starred
    <2>5. NoStarSince(pat, c)
        <3>1. (s.st + 1) - (s.st + 1) = (s.sp + 1) - s.sp - 1 /\ s.sp + 1 .. (s.sp + 1) - 1 = {}
            <4> HIDE DEF m, n
            <4> QED
                BY <1>0, <1>4
        <3> QED
            BY <2>9, <3>1, Zenon DEF NoStarSince
    <2>6. Hopes(pat, text, c)
        <3>1. PICK u \in 1 .. n + 1 : u > s.st /\ M(s.sp + 1, u)
            BY <2>2
        <3>2. u = s.st + 1 \/ u > s.st + 1
            <4>1. \A k \in Nat : \A y \in 0 .. k + 1, x \in 1 .. k + 1 : x > y => x = y + 1 \/ x > y + 1
                OBVIOUS
            <4> HIDE DEF m, n, M
            <4> QED
                BY <1>0, <1>4, <3>1, <4>1, Zenon
        <3> QED
            BY <2>2, <2>9, <3>1, <3>2, Zenon DEF Hopes
    <2>10. go[c]
        BY <1>3, <2>3, <2>4, <2>5, <2>6, Zenon
    <2> QED
        BY <1>2, <1>10, <2>2, <2>10, GlobCases, Zenon DEF c
<1>11. s.t > n \/ s.t <= n
    <2> HIDE DEF m, n
    <2> QED
        BY <1>0, <1>4
<1> QED
    BY <1>7, <1>8, <1>9, <1>10, <1>11, Zenon

\* The matcher finds only matches, and in a text without stars all of them.
LEMMA GlobMeans ==
    ASSUME NEW pat \in Seq(Nat), NEW text \in Seq(Nat)
    PROVE  /\ glob_match(pat, text) => Means(pat, text)
           /\ (\A i \in 1 .. Len(text) : text[i] # Star) => (Means(pat, text) => glob_match(pat, text))
<1> DEFINE s == [p |-> 1, t |-> 1, sp |-> 0, st |-> 0]
<1>0. Len(pat) \in Nat /\ Len(text) \in Nat
    OBVIOUS
<1>1. s \in GlobState(pat, text)
    BY <1>0 DEF GlobState
<1>2. s.sp = 0 /\ s.p = 1 /\ s.t = 1
    OBVIOUS
<1>3. glob_match(pat, text) = GlobFrom(pat, text)[s]
    BY DEF glob_match
<1> HIDE DEF s
<1>4. Starred(pat, s) /\ NoStarSince(pat, s)
    BY <1>2 DEF Starred, NoStarSince
<1>5. Hopes(pat, text, s) <=> MatchesAt(pat, text, 1, 1)
    BY <1>2, Zenon DEF Hopes
<1>6. Means(pat, text) <=> MatchesAt(pat, text, 1, 1)
    <2>1. Len(pat) + 1 - 1 = Len(pat)
        BY <1>0
    <2> QED
        BY <2>1 DEF Means, MatchesAt
<1>7. GlobFrom(pat, text)[s] => Hopes(pat, text, s)
    BY <1>1, <1>4, GlobSound, Zenon
<1>8. (\A i \in 1 .. Len(text) : text[i] # Star) => (Hopes(pat, text, s) => GlobFrom(pat, text)[s])
    BY <1>1, <1>4, GlobComplete, Zenon
<1> QED
    BY <1>3, <1>5, <1>6, <1>7, <1>8, Zenon

-----------------------------------------------------------------------------
(* The order of keys.                                                      *)

\* The first place at which s comes before t.
BelowAt(s, t, d) ==
    /\ d \in 1 .. Len(t) /\ d <= Len(s) + 1
    /\ \A j \in 1 .. d - 1 : s[j] = t[j]
    /\ d <= Len(s) => s[d] < t[d]

LEMMA BelowIs ==
    ASSUME NEW s \in Seq(Nat), NEW t \in Seq(Nat)
    PROVE  Below(s, t) <=> \E d : BelowAt(s, t, d)
<1> DEFINE m == Len(s)
           n == Len(t)
<1>0. m \in Nat /\ n \in Nat /\ DOMAIN s = 1 .. m /\ DOMAIN t = 1 .. n
    OBVIOUS
<1>1. IsPrefix(s, t) <=> m <= n /\ \A i \in 1 .. m : s[i] = t[i]
    BY PrefixIs
<1>2. m = n /\ (\A i \in 1 .. m : s[i] = t[i]) => s = t
    BY SameSeq
<1>3. s = t => m = n
    OBVIOUS
<1> HIDE DEF m, n
<1>4. ASSUME IsStrictPrefix(s, t) PROVE BelowAt(s, t, m + 1)
    <2>1. m <= n /\ (\A i \in 1 .. m : s[i] = t[i]) /\ m # n
        BY <1>1, <1>2, <1>4 DEF IsStrictPrefix
    <2>2. m + 1 \in 1 .. n /\ m + 1 <= m + 1 /\ 1 .. (m + 1) - 1 = 1 .. m /\ ~(m + 1 <= m)
        BY <1>0, <2>1
    <2> QED
        BY <2>1, <2>2, Zenon DEF BelowAt, m, n
<1>5. ASSUME NEW i \in DOMAIN s \cap DOMAIN t, s[i] < t[i], \A j \in 1 .. i - 1 : s[j] = t[j]
      PROVE  BelowAt(s, t, i)
    <2>1. i \in 1 .. n /\ i <= m + 1
        BY <1>0, <1>5
    <2> QED
        BY <1>5, <2>1, Zenon DEF BelowAt, m, n
<1>6. ASSUME NEW d, BelowAt(s, t, d) PROVE Below(s, t)
    <2>0. /\ d \in 1 .. n /\ d <= m + 1 /\ (\A j \in 1 .. d - 1 : s[j] = t[j])
          /\ d <= m => s[d] < t[d]
        BY <1>6 DEF BelowAt, m, n
    <2>1. CASE d <= m
        <3>1. d \in DOMAIN s \cap DOMAIN t
            BY <1>0, <2>0, <2>1
        <3> QED
            BY <2>0, <2>1, <3>1 DEF Below
    <2>2. CASE ~(d <= m)
        <3>1. d - 1 = m /\ m <= n /\ m # n
            BY <1>0, <2>0, <2>2
        <3>2. \A j \in 1 .. m : s[j] = t[j]
            BY <2>0, <3>1
        <3> QED
            BY <1>1, <1>3, <3>1, <3>2 DEF Below, IsStrictPrefix
    <2> QED
        BY <2>1, <2>2
<1> QED
    BY <1>4, <1>5, <1>6 DEF Below

LEMMA BelowIrreflexive ==
    ASSUME NEW s \in Seq(Nat)
    PROVE  ~Below(s, s)
<1> SUFFICES ASSUME NEW d, BelowAt(s, s, d) PROVE FALSE
    BY BelowIs
<1>1. d \in 1 .. Len(s) /\ (d <= Len(s) => s[d] < s[d])
    BY DEF BelowAt
<1>2. s[d] \in Nat /\ d <= Len(s)
    BY <1>1
<1> QED
    BY <1>1, <1>2

LEMMA BelowTransitive ==
    ASSUME NEW s \in Seq(Nat), NEW t \in Seq(Nat), NEW u \in Seq(Nat), Below(s, t), Below(t, u)
    PROVE  Below(s, u)
<1> DEFINE l == Len(s)
           m == Len(t)
           n == Len(u)
<1>1. PICK d : BelowAt(s, t, d)
    BY BelowIs
<1>2. PICK e : BelowAt(t, u, e)
    BY BelowIs
<1>3. /\ d \in 1 .. m /\ d <= l + 1 /\ (\A j \in 1 .. d - 1 : s[j] = t[j])
      /\ d <= l => s[d] < t[d]
    BY <1>1 DEF BelowAt
<1>4. /\ e \in 1 .. n /\ e <= m + 1 /\ (\A j \in 1 .. e - 1 : t[j] = u[j])
      /\ e <= m => t[e] < u[e]
    BY <1>2 DEF BelowAt
<1>5. l \in Nat /\ m \in Nat /\ n \in Nat
    OBVIOUS
<1>6. /\ \A i \in 1 .. l : s[i] \in Nat
      /\ \A i \in 1 .. m : t[i] \in Nat
      /\ \A i \in 1 .. n : u[i] \in Nat
    OBVIOUS
<1> HIDE DEF l, m, n
<1>7. CASE d < e
    <2>1. /\ d \in 1 .. n /\ d <= m /\ d \in 1 .. e - 1
          /\ \A j \in 1 .. d - 1 : j \in 1 .. e - 1
        BY <1>3, <1>4, <1>5, <1>7
    <2>2. \A j \in 1 .. d - 1 : s[j] = u[j]
        BY <1>3, <1>4, <2>1, Zenon
    <2>3. t[d] = u[d]
        BY <1>4, <2>1
    <2>4. BelowAt(s, u, d)
        BY <1>3, <2>1, <2>2, <2>3, Zenon DEF BelowAt, l, m, n
    <2> QED
        BY <2>4, BelowIs
<1>8. CASE d = e
    <2>1. \A j \in 1 .. d - 1 : s[j] = u[j]
        BY <1>3, <1>4, <1>8
    <2>2. d \in 1 .. n /\ d <= m
        BY <1>3, <1>4, <1>5, <1>8
    <2>3. d <= l => s[d] < u[d]
        <3> SUFFICES ASSUME d <= l PROVE s[d] < u[d]
            OBVIOUS
        <3>1. s[d] < t[d] /\ t[d] < u[d]
            BY <1>3, <1>4, <1>8, <2>2
        <3>2. s[d] \in Nat /\ t[d] \in Nat /\ u[d] \in Nat
            BY <1>3, <1>5, <1>6, <2>2
        <3> QED
            BY <3>1, <3>2
    <2>4. BelowAt(s, u, d)
        BY <1>3, <2>1, <2>2, <2>3, Zenon DEF BelowAt, l, m, n
    <2> QED
        BY <2>4, BelowIs
<1>9. CASE e < d
    <2>1. /\ e \in 1 .. n /\ e <= l + 1 /\ e <= m /\ e <= l /\ e \in 1 .. d - 1
          /\ \A j \in 1 .. e - 1 : j \in 1 .. d - 1
        BY <1>3, <1>4, <1>5, <1>9
    <2>2. \A j \in 1 .. e - 1 : s[j] = u[j]
        BY <1>3, <1>4, <2>1, Zenon
    <2>3. s[e] = t[e]
        BY <1>3, <2>1
    <2>4. BelowAt(s, u, e)
        BY <1>4, <2>1, <2>2, <2>3, Zenon DEF BelowAt, l, m, n
    <2> QED
        BY <2>4, BelowIs
<1> QED
    BY <1>3, <1>4, <1>5, <1>7, <1>8, <1>9

LEMMA BelowTotal ==
    ASSUME NEW s \in Seq(Nat), NEW t \in Seq(Nat), ~Below(s, t), ~Below(t, s)
    PROVE  s = t
<1> DEFINE m == Len(s)
           n == Len(t)
           D == {d \in Nat \ {0} : d > m \/ d > n \/ s[d] # t[d]}
<1>0. m \in Nat /\ n \in Nat
    OBVIOUS
<1>1. \A i \in 1 .. m : s[i] \in Nat
    OBVIOUS
<1>2. \A i \in 1 .. n : t[i] \in Nat
    OBVIOUS
<1>3. m = n /\ (\A i \in 1 .. m : s[i] = t[i]) => s = t
    BY SameSeq
<1> HIDE DEF m, n
<1>4. m + 1 \in D /\ D \in SUBSET Nat
    BY <1>0
<1>5. PICK d \in D : \A y \in D : d <= y
    <2> HIDE DEF D
    <2> QED
        BY <1>4, LeastNat
<1>6. /\ d \in Nat \ {0} /\ (d > m \/ d > n \/ s[d] # t[d])
      /\ d <= m + 1
    BY <1>4, <1>5
<1>7. \A j \in 1 .. d - 1 : j <= m /\ j <= n /\ s[j] = t[j]
    <2> SUFFICES ASSUME NEW j \in 1 .. d - 1 PROVE j <= m /\ j <= n /\ s[j] = t[j]
        OBVIOUS
    <2>1. ~(d <= j) /\ j \in Nat \ {0} /\ (j > m \/ j <= m) /\ (j > n \/ j <= n)
        BY <1>0, <1>6
    <2>2. j \notin D
        BY <1>5, <2>1, Zenon
    <2> QED
        BY <2>1, <2>2, Zenon
<1>8. d <= n + 1
    BY <1>0, <1>6, <1>7
<1>9. CASE d <= m /\ d <= n
    <2>1. s[d] # t[d] /\ s[d] \in Nat /\ t[d] \in Nat /\ d \in 1 .. n /\ d \in 1 .. m
        BY <1>0, <1>1, <1>2, <1>6, <1>9
    <2>2. CASE s[d] < t[d]
        <3>1. BelowAt(s, t, d)
            BY <1>6, <1>7, <2>1, <2>2, Zenon DEF BelowAt, m, n
        <3> QED
            BY <3>1, BelowIs
    <2>3. CASE t[d] < s[d]
        <3>1. \A j \in 1 .. d - 1 : t[j] = s[j]
            BY <1>7
        <3>2. BelowAt(t, s, d)
            BY <1>8, <2>1, <2>3, <3>1, Zenon DEF BelowAt, m, n
        <3> QED
            BY <3>2, BelowIs
    <2> QED
        BY <2>1, <2>2, <2>3
<1>10. CASE ~(d <= m) /\ d <= n
    <2>1. d \in 1 .. n
        BY <1>0, <1>6, <1>10
    <2>2. BelowAt(s, t, d)
        BY <1>6, <1>7, <1>10, <2>1, Zenon DEF BelowAt, m, n
    <2> QED
        BY <2>2, BelowIs
<1>11. CASE d <= m /\ ~(d <= n)
    <2>1. d \in 1 .. m /\ \A j \in 1 .. d - 1 : t[j] = s[j]
        BY <1>0, <1>6, <1>7, <1>11
    <2>2. BelowAt(t, s, d)
        BY <1>8, <1>11, <2>1, Zenon DEF BelowAt, m, n
    <2> QED
        BY <2>2, BelowIs
<1>12. CASE ~(d <= m) /\ ~(d <= n)
    <2>1. m = n /\ d - 1 = m
        BY <1>0, <1>6, <1>8, <1>12
    <2>2. \A i \in 1 .. m : s[i] = t[i]
        BY <1>7, <2>1
    <2> QED
        BY <1>3, <2>1, <2>2
<1> QED
    BY <1>9, <1>10, <1>11, <1>12

-----------------------------------------------------------------------------
(* Indexes.                                                                *)

LEMMA SliceIs ==
    ASSUME NEW s \in Seq(Nat), NEW off \in Nat, NEW len \in Nat, off + len <= Len(s)
    PROVE  /\ Slice(s, off, len) \in Seq(Nat) /\ Len(Slice(s, off, len)) = len
           /\ \A i \in 1 .. len : Slice(s, off, len)[i] = s[off + i]
<1>1. off + 1 \in Nat \ {0} /\ off + len \in Nat /\ off + 1 <= (off + len) + 1
    OBVIOUS
<1> DEFINE u == SubSeq(s, off + 1, off + len)
<1>2. /\ u \in Seq(Nat) /\ Len(u) = (off + len) + 1 - (off + 1)
      /\ \A i \in 1 .. Len(u) : u[i] = s[(off + 1) + i - 1]
    BY <1>1, SubSeqIs
<1> HIDE DEF u
<1>3. Len(u) = len
    BY <1>2
<1>4. \A i \in 1 .. len : (off + 1) + i - 1 = off + i
    OBVIOUS
<1> QED
    BY <1>2, <1>3, <1>4, Zenon DEF Slice, u

\* What is added at the end of an arena leaves the slices of it alone.
LEMMA SliceStays ==
    ASSUME NEW s \in Seq(Nat), NEW t \in Seq(Nat), NEW off \in Nat, NEW len \in Nat, off + len <= Len(s)
    PROVE  off + len <= Len(s \o t) /\ Slice(s \o t, off, len) = Slice(s, off, len)
<1>1. s \o t \in Seq(Nat) /\ off + len <= Len(s \o t) /\ \A i \in 1 .. len : (s \o t)[off + i] = s[off + i]
    OBVIOUS
<1> DEFINE u == Slice(s \o t, off, len)
           v == Slice(s, off, len)
<1>2. u \in Seq(Nat) /\ Len(u) = len /\ \A i \in 1 .. len : u[i] = (s \o t)[off + i]
    BY <1>1, SliceIs, Zenon
<1>3. v \in Seq(Nat) /\ Len(v) = len /\ \A i \in 1 .. len : v[i] = s[off + i]
    BY SliceIs, Zenon
<1> HIDE DEF u, v
<1>4. u = v
    BY <1>1, <1>2, <1>3, SameSeq
<1> QED
    BY <1>1, <1>4 DEF u, v

LEMMA SliceAdded ==
    ASSUME NEW s \in Seq(Nat), NEW t \in Seq(Nat)
    PROVE  Len(s) + Len(t) <= Len(s \o t) /\ Slice(s \o t, Len(s), Len(t)) = t
<1>1. /\ s \o t \in Seq(Nat) /\ Len(s) + Len(t) <= Len(s \o t) /\ Len(s) \in Nat /\ Len(t) \in Nat
      /\ \A i \in 1 .. Len(t) : (s \o t)[Len(s) + i] = t[i]
    OBVIOUS
<1> DEFINE u == Slice(s \o t, Len(s), Len(t))
<1>2. u \in Seq(Nat) /\ Len(u) = Len(t) /\ \A i \in 1 .. Len(t) : u[i] = (s \o t)[Len(s) + i]
    BY <1>1, SliceIs, Zenon
<1> HIDE DEF u
<1>4. u = t
    BY <1>1, <1>2, SameSeq
<1> QED
    BY <1>1, <1>4 DEF u

\* An index: as many places and lengths as rules, and every key inside the arena.
IsIndex(ix) ==
    /\ ix \in [arena : Seq(Nat), offs : Seq(Nat), lens : Seq(Nat), rules : Seq(Nat)]
    /\ Len(ix.offs) = Len(ix.rules) /\ Len(ix.lens) = Len(ix.rules)
    /\ \A i \in 1 .. Len(ix.rules) : ix.offs[i] + ix.lens[i] <= Len(ix.arena)

LEMMA ElementIs ==
    ASSUME NEW T, NEW s \in Seq(T), NEW i \in 1 .. Len(s)
    PROVE  s[i] \in T
OBVIOUS

LEMMA AppendIs ==
    ASSUME NEW T, NEW s \in Seq(T), NEW x \in T
    PROVE  /\ Append(s, x) \in Seq(T) /\ Len(Append(s, x)) = Len(s) + 1
           /\ Append(s, x)[Len(s) + 1] = x /\ \A i \in 1 .. Len(s) : Append(s, x)[i] = s[i]
OBVIOUS

LEMMA KeyIs ==
    ASSUME NEW ix, IsIndex(ix), NEW i \in 1 .. Len(ix.rules)
    PROVE  /\ ix.offs[i] \in Nat /\ ix.lens[i] \in Nat /\ ix.rules[i] \in Nat
           /\ KeyAt(ix, i) \in Seq(Nat) /\ Len(KeyAt(ix, i)) = ix.lens[i]
<1>1. /\ ix.arena \in Seq(Nat) /\ ix.offs \in Seq(Nat) /\ ix.lens \in Seq(Nat) /\ ix.rules \in Seq(Nat)
      /\ Len(ix.offs) = Len(ix.rules) /\ Len(ix.lens) = Len(ix.rules)
      /\ ix.offs[i] + ix.lens[i] <= Len(ix.arena)
    BY DEF IsIndex
<1>2. ix.offs[i] \in Nat /\ ix.lens[i] \in Nat /\ ix.rules[i] \in Nat
    BY <1>1, ElementIs, Zenon
<1> QED
    BY <1>1, <1>2, SliceIs, Zenon DEF KeyAt

\* An arena A with the keys of rules R, and one more key to come.
KeysIn(A, O, L, R, n) ==
    /\ A \in Seq(Nat) /\ O \in Seq(Nat) /\ L \in Seq(Nat) /\ R \in Seq(Nat) /\ n \in Nat
    /\ Len(O) = n /\ Len(L) = n /\ Len(R) = n /\ \A i \in 1 .. n : O[i] + L[i] <= Len(A)

Fits(A, more, off, len, rule) ==
    /\ more \in Seq(Nat) /\ off \in Nat /\ len \in Nat /\ rule \in Nat
    /\ off + len <= Len(A \o more)

SliceKept(A, B, off, len) == off + len <= Len(B) /\ Slice(B, off, len) = Slice(A, off, len)

LEMMA SlicesStay ==
    ASSUME NEW A, NEW O, NEW L, NEW R, NEW n, KeysIn(A, O, L, R, n), NEW more \in Seq(Nat), NEW i \in 1 .. n
    PROVE  SliceKept(A, A \o more, O[i], L[i])
<1> DEFINE x == O[i]
           y == L[i]
<1>0. A \in Seq(Nat) /\ O \in Seq(Nat) /\ L \in Seq(Nat) /\ i \in 1 .. Len(O) /\ i \in 1 .. Len(L) /\ x + y <= Len(A)
    BY Zenon DEF KeysIn
<1>1. x \in Nat /\ y \in Nat
    BY <1>0, ElementIs, Zenon
<1> HIDE DEF x, y
<1>2. x + y <= Len(A \o more) /\ Slice(A \o more, x, y) = Slice(A, x, y)
    BY <1>0, <1>1, SliceStays, Zenon
<1> QED
    BY <1>2, Zenon DEF x, y, SliceKept

Grew(A, O, L, R, n, B, P, M, S, off, len, rule) ==
    /\ \A i \in 1 .. n : S[i] = R[i] /\ Slice(B, P[i], M[i]) = Slice(A, O[i], L[i])
    /\ S[n + 1] = rule /\ P[n + 1] = off /\ M[n + 1] = len

LEMMA GrownSeqs ==
    ASSUME NEW A, NEW O, NEW L, NEW R, NEW n, KeysIn(A, O, L, R, n),
           NEW more, NEW off, NEW len, NEW rule, Fits(A, more, off, len, rule)
    PROVE  /\ KeysIn(A \o more, Append(O, off), Append(L, len), Append(R, rule), n + 1)
           /\ Grew(A, O, L, R, n, A \o more, Append(O, off), Append(L, len), Append(R, rule), off, len, rule)
<1> DEFINE B == A \o more
           P == Append(O, off)
           M == Append(L, len)
           S == Append(R, rule)
<1>0. /\ A \in Seq(Nat) /\ O \in Seq(Nat) /\ L \in Seq(Nat) /\ R \in Seq(Nat) /\ n \in Nat
      /\ Len(O) = n /\ Len(L) = n /\ Len(R) = n
    BY DEF KeysIn
<1>00. more \in Seq(Nat) /\ off \in Nat /\ len \in Nat /\ rule \in Nat /\ off + len <= Len(B)
    BY DEF Fits
<1>1. B \in Seq(Nat)
    BY <1>0, <1>00
<1>2. P \in Seq(Nat) /\ Len(P) = n + 1 /\ P[n + 1] = off /\ \A i \in 1 .. n : P[i] = O[i]
    BY <1>0, <1>00
<1>3. M \in Seq(Nat) /\ Len(M) = n + 1 /\ M[n + 1] = len /\ \A i \in 1 .. n : M[i] = L[i]
    BY <1>0, <1>00, SMTT(30)
<1>4. S \in Seq(Nat) /\ Len(S) = n + 1 /\ S[n + 1] = rule /\ \A i \in 1 .. n : S[i] = R[i]
    BY <1>0, <1>00
<1>5. \A i \in 1 .. n : O[i] + L[i] <= Len(B) /\ Slice(B, O[i], L[i]) = Slice(A, O[i], L[i])
    <2>1. \A i \in 1 .. n : SliceKept(A, B, O[i], L[i])
        BY <1>00, SlicesStay, Zenon
    <2> QED
        BY <2>1, Zenon DEF SliceKept
<1>6. n + 1 \in Nat /\ \A i \in 1 .. n + 1 : i \in 1 .. n \/ i = n + 1
    BY <1>0
<1> HIDE DEF B, P, M, S
<1>7. \A i \in 1 .. n : P[i] + M[i] <= Len(B) /\ Slice(B, P[i], M[i]) = Slice(A, O[i], L[i])
    BY <1>2, <1>3, <1>5, Zenon
<1>8. P[n + 1] + M[n + 1] <= Len(B)
    BY <1>00, <1>2, <1>3, Zenon
<1>9. \A i \in 1 .. n + 1 : P[i] + M[i] <= Len(B)
    BY <1>6, <1>7, <1>8, Zenon
<1>10. KeysIn(B, P, M, S, n + 1)
    BY <1>1, <1>2, <1>3, <1>4, <1>6, <1>9, Zenon DEF KeysIn
<1>11. \A i \in 1 .. n : S[i] = R[i] /\ Slice(B, P[i], M[i]) = Slice(A, O[i], L[i])
    BY <1>4, <1>7, Zenon
<1> QED
    <2>1. Grew(A, O, L, R, n, B, P, M, S, off, len, rule)
        BY <1>2, <1>3, <1>4, <1>11, Zenon DEF Grew
    <2> QED
        BY <1>10, <2>1, Zenon DEF B, P, M, S

LEMMA IndexKeys ==
    ASSUME NEW ix
    PROVE  IsIndex(ix) <=> /\ ix \in [arena : Seq(Nat), offs : Seq(Nat), lens : Seq(Nat), rules : Seq(Nat)]
                           /\ KeysIn(ix.arena, ix.offs, ix.lens, ix.rules, Len(ix.rules))
<1>1. ASSUME ix \in [arena : Seq(Nat), offs : Seq(Nat), lens : Seq(Nat), rules : Seq(Nat)]
      PROVE  /\ ix.arena \in Seq(Nat) /\ ix.offs \in Seq(Nat) /\ ix.lens \in Seq(Nat) /\ ix.rules \in Seq(Nat)
             /\ Len(ix.rules) \in Nat
    BY <1>1
<1> QED
    BY <1>1, Zenon DEF IsIndex, KeysIn

\* An index with one more key.
Grown(ix, more, off, len, rule) ==
    [arena |-> ix.arena \o more, offs |-> Append(ix.offs, off),
     lens |-> Append(ix.lens, len), rules |-> Append(ix.rules, rule)]

\* The earlier keys and rules are what they were.
Extends(new, ix, key, rule) ==
    /\ IsIndex(new) /\ Len(new.rules) = Len(ix.rules) + 1
    /\ \A i \in 1 .. Len(ix.rules) : new.rules[i] = ix.rules[i] /\ KeyAt(new, i) = KeyAt(ix, i)
    /\ new.rules[Len(ix.rules) + 1] = rule /\ KeyAt(new, Len(ix.rules) + 1) = key

LEMMA GrownIs ==
    ASSUME NEW ix, IsIndex(ix), NEW more, NEW off, NEW len, NEW rule, Fits(ix.arena, more, off, len, rule)
    PROVE  Extends(Grown(ix, more, off, len, rule), ix, Slice(ix.arena \o more, off, len), rule)
<1> DEFINE A == ix.arena
           O == ix.offs
           L == ix.lens
           R == ix.rules
           n == Len(R)
           new == Grown(ix, more, off, len, rule)
           B == A \o more
           P == Append(O, off)
           M == Append(L, len)
           S == Append(R, rule)
<1>1. KeysIn(A, O, L, R, n)
    BY IndexKeys, Zenon
<1>2. new = [arena |-> B, offs |-> P, lens |-> M, rules |-> S]
    BY Zenon DEF Grown
<1>3. Fits(A, more, off, len, rule)
    OBVIOUS
<1>11. \A i : KeyAt(ix, i) = Slice(A, O[i], L[i])
    BY Zenon DEF KeyAt
<1> HIDE DEF A, O, L, R, n
<1>40. KeysIn(B, P, M, S, n + 1)
    BY <1>1, <1>3, GrownSeqs, Zenon
<1>44. Grew(A, O, L, R, n, B, P, M, S, off, len, rule)
    BY <1>1, <1>3, GrownSeqs, Zenon
<1> HIDE DEF B, P, M, S, new
<1>41. \A i \in 1 .. n : S[i] = R[i] /\ Slice(B, P[i], M[i]) = Slice(A, O[i], L[i])
    BY <1>44, Zenon DEF Grew
<1>42. S[n + 1] = rule /\ P[n + 1] = off /\ M[n + 1] = len
    BY <1>44, Zenon DEF Grew
<1>5. new.arena = B /\ new.offs = P /\ new.lens = M /\ new.rules = S
    BY <1>2
<1>43. B \in Seq(Nat) /\ P \in Seq(Nat) /\ M \in Seq(Nat) /\ S \in Seq(Nat) /\ Len(S) = n + 1
    BY <1>40, Zenon DEF KeysIn
<1>6. new \in [arena : Seq(Nat), offs : Seq(Nat), lens : Seq(Nat), rules : Seq(Nat)]
    BY <1>2, <1>43
<1>7. IsIndex(new) /\ Len(new.rules) = n + 1
    BY <1>5, <1>6, <1>40, <1>43, IndexKeys, Zenon
<1>8. \A i : KeyAt(new, i) = Slice(B, P[i], M[i])
    BY <1>5, Zenon DEF KeyAt
<1>9. \A i \in 1 .. n : new.rules[i] = R[i] /\ KeyAt(new, i) = KeyAt(ix, i)
    BY <1>41, <1>5, <1>8, <1>11, Zenon
<1>10. new.rules[n + 1] = rule /\ KeyAt(new, n + 1) = Slice(B, off, len)
    BY <1>42, <1>5, <1>8, Zenon
<1>12. Extends(new, ix, Slice(B, off, len), rule)
    BY <1>7, <1>9, <1>10, Zenon DEF Extends, n, R
<1> QED
    BY <1>12, Zenon DEF new, B, A

LEMMA NoKeysIs == IsIndex(NoKeys) /\ Len(NoKeys.rules) = 0
BY DEF IsIndex, NoKeys

LEMMA InsertIs ==
    ASSUME NEW ix, IsIndex(ix), NEW key \in Seq(Nat), NEW rule \in Nat
    PROVE  Extends(insert(ix, key, rule), ix, key, rule)
<1> DEFINE off == Len(ix.arena)
           len == Len(key)
<1>1. ix.arena \in Seq(Nat)
    BY DEF IsIndex
<1>2. off \in Nat /\ len \in Nat
    BY <1>1
<1>3. off + len <= Len(ix.arena \o key) /\ Slice(ix.arena \o key, off, len) = key
    BY <1>1, SliceAdded, Zenon
<1>4. insert(ix, key, rule) = Grown(ix, key, off, len, rule)
    BY Zenon DEF insert, Grown
<1> HIDE DEF off, len
<1>5. Fits(ix.arena, key, off, len, rule)
    BY <1>2, <1>3 DEF Fits
<1>6. Extends(Grown(ix, key, off, len, rule), ix, Slice(ix.arena \o key, off, len), rule)
    BY <1>5, GrownIs, Zenon
<1> QED
    BY <1>3, <1>4, <1>6

LEMMA PlaceIs ==
    ASSUME NEW out, IsIndex(out), NEW ix, IsIndex(ix), NEW i \in 1 .. Len(ix.rules)
    PROVE  Extends(Place(out, ix, i), out, KeyAt(ix, i), ix.rules[i])
<1> DEFINE key == KeyAt(ix, i)
           n == Len(out.rules)
           again == out.offs # <<>> /\ KeyAt(out, Len(out.offs)) = key
           rule == ix.rules[i]
<1>1. /\ out.arena \in Seq(Nat) /\ out.offs \in Seq(Nat) /\ Len(out.offs) = n /\ Len(out.lens) = n
      /\ out.rules \in Seq(Nat)
      /\ \A j \in 1 .. n : out.offs[j] + out.lens[j] <= Len(out.arena)
    BY DEF IsIndex
<1>2. key \in Seq(Nat) /\ Len(key) = ix.lens[i] /\ ix.lens[i] \in Nat /\ rule \in Nat
    BY KeyIs, Zenon
<1>3. CASE again
    <2> DEFINE off == out.offs[n]
               len == ix.lens[i]
               empty == <<>>
    <2>1. n \in 1 .. n
        <3>1. out.offs # <<>>
            BY <1>3
        <3>2. Len(out.offs) # 0
            BY <1>1, <3>1
        <3> QED
            BY <1>1, <3>2
    <2>2. KeyAt(out, n) = key /\ Last(out.offs) = off
        BY <1>1, <1>3 DEF Last
    <2>3. off \in Nat /\ Len(KeyAt(out, n)) = out.lens[n]
        BY <2>1, KeyIs, Zenon
    <2>4. out.arena \o empty = out.arena /\ empty \in Seq(Nat)
        BY <1>1
    <2>5. off + len <= Len(out.arena \o empty)
        BY <1>1, <1>2, <2>1, <2>2, <2>3, <2>4, Zenon
    <2>6. Place(out, ix, i) = Grown(out, empty, off, len, rule)
        BY <1>3, <2>2, <2>4, Zenon DEF Place, Grown
    <2>7. Fits(out.arena, empty, off, len, rule)
        BY <1>2, <2>3, <2>4, <2>5, Zenon DEF Fits
    <2>8. Slice(out.arena \o empty, off, len) = key
        BY <1>2, <2>2, <2>3, <2>4, Zenon DEF KeyAt
    <2> HIDE DEF key, n, off, len, rule, empty
    <2>9. Extends(Grown(out, empty, off, len, rule), out, Slice(out.arena \o empty, off, len), rule)
        BY <2>7, GrownIs, Zenon
    <2> QED
        BY <2>6, <2>8, <2>9, Zenon DEF key, rule
<1>4. CASE ~again
    <2>1. Place(out, ix, i) = insert(out, key, rule)
        BY <1>2, <1>4, Zenon DEF Place, insert
    <2> HIDE DEF key, n, rule
    <2>3. Extends(insert(out, key, rule), out, key, rule)
        BY <1>2, InsertIs, Zenon
    <2> QED
        BY <2>1, <2>3, Zenon DEF key, rule
<1> QED
    BY <1>3, <1>4

\* The first n keys of an index that follow an order of another one's.
Follows(out, ix, order, n) ==
    /\ IsIndex(out) /\ Len(out.rules) = n
    /\ \A j \in 1 .. n : out.rules[j] = ix.rules[order[j]] /\ KeyAt(out, j) = KeyAt(ix, order[j])

LEMMA SortedIs ==
    ASSUME NEW ix, IsIndex(ix), NEW order \in Seq(1 .. Len(ix.rules))
    PROVE  Follows(Sorted(ix, order), ix, order, Len(order))
<1> DEFINE L == Len(order)
           q(n) == SortedOf(ix, order)[n]
           P == {n \in 0 .. L : Follows(q(n), ix, order, n)}
<1>0. L \in Nat /\ \A n \in 1 .. L : order[n] \in 1 .. Len(ix.rules)
    OBVIOUS
<1>1. q(0) = NoKeys /\ \A n \in 1 .. L : q(n) = Place(q(n - 1), ix, order[n])
    <2>1. q(0) = SortedOne(ix, order, SortedOf(ix, order), 0) /\ \A n \in 1 .. L : q(n) = SortedOne(ix, order, SortedOf(ix, order), n)
        BY <1>0, SortedOfSteps
    <2>2. \A n \in 1 .. L : n # 0
        BY <1>0
    <2> QED
        BY <2>1, <2>2, Zenon DEF SortedOne
<1> HIDE DEF L
<1>2. 0 \in P
    <2>1. 0 \in 0 .. L /\ 1 .. 0 = {}
        BY <1>0
    <2>2. IsIndex(q(0)) /\ Len(q(0).rules) = 0
        BY <1>1, NoKeysIs, Zenon
    <2>3. Follows(q(0), ix, order, 0)
        BY <2>1, <2>2, Zenon DEF Follows
    <2> QED
        BY <2>1, <2>3
<1>3. ASSUME NEW n \in 1 .. L, n - 1 \in P PROVE n \in P
    <2>0. n \in 0 .. L /\ (n - 1) + 1 = n /\ \A j \in 1 .. n : j \in 1 .. n - 1 \/ j = n
        BY <1>0
    <2> DEFINE out == q(n - 1)
               i == order[n]
               new == q(n)
    <2>1. Follows(out, ix, order, n - 1)
        BY <1>3
    <2>2. new = Place(out, ix, i) /\ i \in 1 .. Len(ix.rules)
        BY <1>0, <1>1, Zenon
    <2> HIDE DEF q, out, i, new
    <2>3. IsIndex(out) /\ Len(out.rules) = n - 1
        BY <2>1, Zenon DEF Follows
    <2>4. Extends(new, out, KeyAt(ix, i), ix.rules[i])
        BY <2>2, <2>3, PlaceIs, Zenon
    <2>5. IsIndex(new) /\ Len(new.rules) = n /\ new.rules[n] = ix.rules[i] /\ KeyAt(new, n) = KeyAt(ix, i)
        BY <2>0, <2>3, <2>4, Zenon DEF Extends
    <2>6. \A j \in 1 .. n - 1 : new.rules[j] = out.rules[j] /\ KeyAt(new, j) = KeyAt(out, j)
        BY <2>3, <2>4, Zenon DEF Extends
    <2>7. \A j \in 1 .. n - 1 : new.rules[j] = ix.rules[order[j]] /\ KeyAt(new, j) = KeyAt(ix, order[j])
        BY <2>1, <2>6, Zenon DEF Follows
    <2>8. \A j \in 1 .. n : new.rules[j] = ix.rules[order[j]] /\ KeyAt(new, j) = KeyAt(ix, order[j])
        BY <2>0, <2>5, <2>7, Zenon DEF i
    <2>9. Follows(new, ix, order, n)
        BY <2>5, <2>8, Zenon DEF Follows
    <2> QED
        BY <2>0, <2>9 DEF new
<1>4. L \in P
    <2>1. 0 .. L \subseteq P
        <3> HIDE DEF P
        <3> QED
            BY <1>0, <1>2, <1>3, UpTo, Zenon
    <2> QED
        BY <1>0, <2>1
<1> QED
    BY <1>4, Zenon DEF Sorted, L

\* No key comes before an earlier one.
KeysInOrder(ix) == \A i, j \in 1 .. Len(ix.rules) : i < j => ~Below(KeyAt(ix, j), KeyAt(ix, i))

LEMMA BelowMonotone ==
    ASSUME NEW ix, IsIndex(ix), KeysInOrder(ix), NEW needle \in Seq(Nat),
           NEW i \in 1 .. Len(ix.rules), NEW j \in 1 .. Len(ix.rules), i <= j, Below(KeyAt(ix, j), needle)
    PROVE  Below(KeyAt(ix, i), needle)
<1>1. KeyAt(ix, i) \in Seq(Nat) /\ KeyAt(ix, j) \in Seq(Nat)
    BY KeyIs, Zenon
<1>2. CASE i = j
    BY <1>2
<1>3. CASE i < j
    <2>1. ~Below(KeyAt(ix, j), KeyAt(ix, i))
        BY <1>3 DEF KeysInOrder
    <2>2. CASE Below(KeyAt(ix, i), KeyAt(ix, j))
        BY <1>1, <2>2, BelowTransitive, Zenon
    <2>3. CASE ~Below(KeyAt(ix, i), KeyAt(ix, j))
        <3>1. KeyAt(ix, i) = KeyAt(ix, j)
            BY <1>1, <2>1, <2>3, BelowTotal, Zenon
        <3> QED
            BY <3>1
    <2> QED
        BY <2>2, <2>3
<1>4. i = j \/ i < j
    <2> DEFINE n == Len(ix.rules)
    <2>1. i \in 1 .. n /\ j \in 1 .. n
        OBVIOUS
    <2> HIDE DEF n
    <2> QED
        BY <2>1
<1> QED
    BY <1>2, <1>3, <1>4

\* The keys before lo come before the needle, those after hi do not.
Between(ix, needle, lo, hi) ==
    /\ \A i \in 1 .. lo : Below(KeyAt(ix, i), needle)
    /\ \A i \in hi + 1 .. Len(ix.rules) : ~Below(KeyAt(ix, i), needle)

LEMMA HalfWay ==
    ASSUME NEW N \in Nat, NEW k \in 1 .. N, NEW lo \in Nat, NEW hi \in Nat, lo <= hi, hi <= N, hi - lo <= N - (k - 1),
           NEW mid, mid = lo + (hi - lo) \div 2
    PROVE  /\ lo >= hi => hi - lo <= N - k
           /\ ~(lo >= hi) =>
                /\ mid \in Nat /\ mid + 1 \in 1 .. N /\ mid + 1 <= hi /\ hi - (mid + 1) <= N - k
                /\ mid <= hi /\ lo <= mid /\ mid <= N /\ mid - lo <= N - k
                /\ \A i \in 1 .. mid + 1 : i \in 1 .. N /\ i <= mid + 1
                /\ \A i \in mid + 1 .. N : i \in 1 .. N /\ mid + 1 <= i
OBVIOUS

LEMMA SearchIs ==
    ASSUME NEW ix, IsIndex(ix), KeysInOrder(ix), NEW needle \in Seq(Nat)
    PROVE  /\ partition_point(ix, needle) \in 0 .. Len(ix.rules)
           /\ Between(ix, needle, partition_point(ix, needle), partition_point(ix, needle))
<1> DEFINE N == Len(ix.rules)
           q(k) == SearchOf(ix, needle)[k]
           S == [lo : Nat, hi : Nat]
           Narrowed(k, lo, hi) == lo <= hi /\ hi <= N /\ hi - lo <= N - k /\ Between(ix, needle, lo, hi)
           P == {k \in 0 .. N : q(k) \in S /\ Narrowed(k, q(k).lo, q(k).hi)}
<1>0. N \in Nat
    BY DEF IsIndex
<1>1. q(0) = [lo |-> 0, hi |-> N] /\ \A k \in 1 .. N : q(k) = Halve(ix, needle, q(k - 1))
    <2>1. q(0) = SearchOne(ix, needle, SearchOf(ix, needle), 0) /\ \A k \in 1 .. N : q(k) = SearchOne(ix, needle, SearchOf(ix, needle), k)
        BY <1>0, SearchOfSteps
    <2>2. \A k \in 1 .. N : k # 0
        BY <1>0
    <2> QED
        BY <2>1, <2>2, Zenon DEF SearchOne
<1>5. \A i, j \in 1 .. N : i <= j /\ Below(KeyAt(ix, j), needle) => Below(KeyAt(ix, i), needle)
    BY BelowMonotone, Zenon
<1>6. \A lo, hi : Between(ix, needle, lo, hi) <=>
          /\ \A i \in 1 .. lo : Below(KeyAt(ix, i), needle)
          /\ \A i \in hi + 1 .. N : ~Below(KeyAt(ix, i), needle)
    BY DEF Between
<1> HIDE DEF N, q
<1>2. 0 \in P
    <2>1. 0 \in 0 .. N /\ 1 .. 0 = {} /\ N + 1 .. N = {} /\ 0 <= N /\ N <= N /\ N - 0 <= N - 0
        BY <1>0
    <2>2. q(0) \in S /\ q(0).lo = 0 /\ q(0).hi = N
        BY <1>0, <1>1
    <2>3. Between(ix, needle, 0, N)
        BY <1>6, <2>1
    <2> QED
        BY <2>1, <2>2, <2>3, Zenon
<1>3. ASSUME NEW k \in 1 .. N, k - 1 \in P PROVE k \in P
    <2> DEFINE lo == q(k - 1).lo
               hi == q(k - 1).hi
               mid == lo + (hi - lo) \div 2
    <2>0. k \in 0 .. N
        BY <1>0
    <2>1. lo \in Nat /\ hi \in Nat /\ lo <= hi /\ hi <= N /\ hi - lo <= N - (k - 1) /\ Between(ix, needle, lo, hi)
        BY <1>3
    <2>2. q(k) = IF lo >= hi THEN q(k - 1)
                 ELSE IF Below(KeyAt(ix, mid + 1), needle) THEN [lo |-> mid + 1, hi |-> hi]
                 ELSE [lo |-> lo, hi |-> mid]
        BY <1>1, Zenon DEF Halve
    <2>6. q(k - 1) \in S
        BY <1>3
    <2>7. q(k - 1).lo = lo /\ q(k - 1).hi = hi
        OBVIOUS
    <2> HIDE DEF lo, hi
    <2>8. mid = lo + (hi - lo) \div 2
        OBVIOUS
    <2> HIDE DEF mid
    <2>3. CASE lo >= hi
        <3>1. q(k) = q(k - 1)
            BY <2>2, <2>3, Zenon
        <3>2. hi - lo <= N - k
            BY <1>0, <2>1, <2>3
        <3> QED
            BY <2>0, <2>1, <2>6, <2>7, <3>1, <3>2, Zenon
    <2>9. ASSUME ~(lo >= hi)
          PROVE  /\ mid \in Nat /\ mid + 1 \in 1 .. N /\ mid + 1 <= hi /\ hi - (mid + 1) <= N - k
                 /\ mid <= hi /\ lo <= mid /\ mid <= N /\ mid - lo <= N - k
                 /\ \A i \in 1 .. mid + 1 : i \in 1 .. N /\ i <= mid + 1
                 /\ \A i \in mid + 1 .. N : i \in 1 .. N /\ mid + 1 <= i
        BY <1>0, <2>1, <2>8, <2>9
    <2>4. CASE ~(lo >= hi) /\ Below(KeyAt(ix, mid + 1), needle)
        <3>1. q(k) = [lo |-> mid + 1, hi |-> hi]
            BY <2>2, <2>4, Zenon
        <3>2. q(k) \in S /\ q(k).lo = mid + 1 /\ q(k).hi = hi
            BY <2>1, <2>4, <2>9, <3>1
        <3>3. \A i \in 1 .. mid + 1 : Below(KeyAt(ix, i), needle)
            BY <1>5, <2>4, <2>9, Zenon
        <3>4. Between(ix, needle, mid + 1, hi)
            BY <1>6, <2>1, <3>3, Zenon
        <3> QED
            BY <2>0, <2>1, <2>4, <2>9, <3>2, <3>4, Zenon
    <2>5. CASE ~(lo >= hi) /\ ~Below(KeyAt(ix, mid + 1), needle)
        <3>1. q(k) = [lo |-> lo, hi |-> mid]
            BY <2>2, <2>5, Zenon
        <3>2. q(k) \in S /\ q(k).lo = lo /\ q(k).hi = mid
            BY <2>1, <2>5, <2>9, <3>1
        <3>3. \A i \in mid + 1 .. N : ~Below(KeyAt(ix, i), needle)
            BY <1>5, <2>5, <2>9, Zenon
        <3>4. Between(ix, needle, lo, mid)
            BY <1>6, <2>1, <3>3, Zenon
        <3> QED
            BY <2>0, <2>1, <2>5, <2>9, <3>2, <3>4, Zenon
    <2> QED
        BY <2>3, <2>4, <2>5
<1>4. N \in P
    <2>1. 0 .. N \subseteq P
        <3> HIDE DEF P
        <3> QED
            BY <1>0, <1>2, <1>3, UpTo, Zenon
    <2> QED
        BY <1>0, <2>1
<1> DEFINE lo == q(N).lo
           hi == q(N).hi
<1>7. lo \in Nat /\ hi \in Nat /\ lo <= hi /\ hi <= N /\ hi - lo <= N - N /\ Between(ix, needle, lo, hi)
    BY <1>4
<1>8. partition_point(ix, needle) = lo
    BY Zenon DEF partition_point, q, N
<1> HIDE DEF lo, hi
<1>9. lo = hi /\ lo \in 0 .. N
    BY <1>0, <1>7
<1> QED
    BY <1>7, <1>8, <1>9, Zenon DEF N

\* The search finds the rules with the key, and no others.
LEMMA EqualRangeIs ==
    ASSUME NEW ix, IsIndex(ix), KeysInOrder(ix), NEW needle \in Seq(Nat)
    PROVE  /\ equal_range(ix, needle) \in Seq(Nat)
           /\ \A x : x \in ToSet(equal_range(ix, needle))
                       <=> \E i \in 1 .. Len(ix.rules) : ix.rules[i] = x /\ KeyAt(ix, i) = needle
<1> DEFINE R == ix.rules
           N == Len(R)
           K(i) == KeyAt(ix, i)
           lo == partition_point(ix, needle)
           others == {i \in lo + 1 .. N : K(i) # needle}
           hi == IF others = {} THEN N ELSE Min(others) - 1
           found == SubSeq(R, lo + 1, hi)
<1>0. R \in Seq(Nat) /\ N \in Nat
    BY DEF IsIndex
<1>1. lo \in 0 .. N /\ Between(ix, needle, lo, lo)
    BY SearchIs, Zenon
<1>2. equal_range(ix, needle) = found
    BY Zenon DEF equal_range
<1>3. \A i \in 1 .. N : K(i) \in Seq(Nat)
    BY KeyIs, Zenon
<1>4. \A i \in 1 .. lo : Below(K(i), needle)
    BY <1>1 DEF Between
<1>5. \A i \in lo + 1 .. N : ~Below(K(i), needle)
    BY <1>1 DEF Between
<1>6. \A i, j \in 1 .. N : i < j => ~Below(K(j), K(i))
    BY DEF KeysInOrder
<1> HIDE DEF K, N, lo
<1>7. /\ \A i \in 1 .. lo : i \in 1 .. N
      /\ \A i \in lo + 1 .. N : i \in 1 .. N
      /\ \A i \in 1 .. N : i \in 1 .. lo \/ i \in lo + 1 .. N
    BY <1>0, <1>1
<1>8. \A i \in 1 .. lo : K(i) # needle
    BY <1>3, <1>4, <1>7, BelowIrreflexive, Zenon
<1>9. \A i \in others : Below(needle, K(i))
    <2>1. \A i \in others : K(i) \in Seq(Nat) /\ K(i) # needle /\ ~Below(K(i), needle)
        BY <1>3, <1>5, <1>7
    <2> QED
        BY <2>1, BelowTotal, Zenon
<1>10. \A i \in others, j \in 1 .. N : i < j => K(j) # needle
    BY <1>6, <1>7, <1>9, Zenon
<1>11. others \in SUBSET Nat /\ others \subseteq lo + 1 .. N
    BY <1>0, <1>1
<1>12. hi \in lo .. N /\ \A i \in 1 .. N : i \in lo + 1 .. hi <=> K(i) = needle
    <2>1. CASE others = {}
        <3>1. hi = N
            BY <2>1
        <3>2. \A i \in lo + 1 .. N : K(i) = needle
            BY <2>1
        <3> QED
            BY <1>0, <1>1, <1>7, <1>8, <3>1, <3>2
    <2>2. CASE others # {}
        <3> DEFINE m == Min(others)
        <3>1. m \in others /\ \A y \in others : m <= y
            <4> HIDE DEF others
            <4> QED
                BY <1>11, <2>2, MinIn, Zenon
        <3>2. hi = m - 1
            BY <2>2
        <3>3. m \in lo + 1 .. N /\ K(m) # needle
            BY <3>1
        <3>4. \A i \in lo + 1 .. N : i \in others \/ K(i) = needle
            OBVIOUS
        <3> HIDE DEF others, m, hi
        <3>5. hi \in lo .. N
            BY <1>0, <1>1, <3>2, <3>3
        <3>6. ASSUME NEW i \in lo + 1 .. hi PROVE K(i) = needle
            <4>1. i \in lo + 1 .. N /\ ~(m <= i)
                BY <1>0, <1>1, <3>2, <3>3
            <4> QED
                BY <3>1, <3>4, <4>1, Zenon
        <3>7. ASSUME NEW i \in 1 .. N, i \notin lo + 1 .. hi PROVE K(i) # needle
            <4>1. i \in 1 .. lo \/ i = m \/ m < i
                BY <1>0, <1>1, <3>2, <3>3, <3>7
            <4> QED
                BY <1>8, <1>10, <3>1, <3>3, <4>1, Zenon
        <3> QED
            BY <3>5, <3>6, <3>7, Zenon
    <2> QED
        BY <2>1, <2>2
<1> HIDE DEF hi, others
<1>13. lo + 1 \in Nat \ {0} /\ hi \in Nat /\ hi <= N /\ lo + 1 <= hi + 1
    BY <1>0, <1>1, <1>12
<1>14. /\ found \in Seq(Nat) /\ Len(found) = hi + 1 - (lo + 1)
       /\ \A i \in 1 .. Len(found) : found[i] = R[(lo + 1) + i - 1]
    <2>1. N = Len(R)
        BY DEF N
    <2> DEFINE a == lo + 1
    <2>2. a \in Nat \ {0} /\ hi \in Nat /\ hi <= Len(R) /\ a <= hi + 1
        BY <1>13, <2>1, Zenon
    <2> HIDE DEF a, R
    <2>3. /\ SubSeq(R, a, hi) \in Seq(Nat) /\ Len(SubSeq(R, a, hi)) = hi + 1 - a
          /\ \A i \in 1 .. Len(SubSeq(R, a, hi)) : SubSeq(R, a, hi)[i] = R[a + i - 1]
        BY <1>0, <2>2, SubSeqIs
    <2> QED
        BY <2>3, Zenon DEF a
<1> HIDE DEF found, R
<1>15. /\ \A i \in 1 .. Len(found) : (lo + 1) + i - 1 \in 1 .. N /\ (lo + 1) + i - 1 \in lo + 1 .. hi
       /\ \A i \in lo + 1 .. hi : i - lo \in 1 .. Len(found) /\ (lo + 1) + (i - lo) - 1 = i
    BY <1>0, <1>1, <1>12, <1>14
<1>16. \A x : x \in ToSet(found) <=> \E i \in 1 .. Len(found) : found[i] = x
    BY <1>14, ToSetIs, Zenon
<1>17. ASSUME NEW i \in 1 .. N, K(i) = needle PROVE R[i] \in ToSet(found)
    <2>1. i \in lo + 1 .. hi
        BY <1>12, <1>17
    <2>2. i - lo \in 1 .. Len(found) /\ found[i - lo] = R[i]
        BY <1>14, <1>15, <2>1
    <2> QED
        BY <1>16, <2>2
<1>18. ASSUME NEW x \in ToSet(found) PROVE \E i \in 1 .. N : R[i] = x /\ K(i) = needle
    <2>1. PICK i \in 1 .. Len(found) : found[i] = x
        BY <1>16
    <2> QED
        BY <1>12, <1>14, <1>15, <2>1, Zenon
<1>19. \A x : x \in ToSet(found) <=> \E i \in 1 .. N : R[i] = x /\ K(i) = needle
    BY <1>17, <1>18, Zenon
<1> QED
    BY <1>2, <1>14, <1>19, Zenon DEF K, N, R

\* A rule is filed under a key.
Files(ix, id, key) == \E i \in 1 .. Len(ix.rules) : ix.rules[i] = id /\ KeyAt(ix, i) = key

LEMMA NoKeysFiles == \A id, key : ~Files(NoKeys, id, key)
<1>1. 1 .. 0 = {}
    OBVIOUS
<1> QED
    BY <1>1, NoKeysIs DEF Files

LEMMA InsertFiles ==
    ASSUME NEW ix, IsIndex(ix), NEW key \in Seq(Nat), NEW rule \in Nat
    PROVE  /\ IsIndex(insert(ix, key, rule))
           /\ \A id, k : Files(insert(ix, key, rule), id, k) <=> Files(ix, id, k) \/ (id = rule /\ k = key)
<1> DEFINE new == insert(ix, key, rule)
           n == Len(ix.rules)
<1>1. Extends(new, ix, key, rule)
    BY InsertIs, Zenon
<1> HIDE DEF new
<1>2. /\ IsIndex(new) /\ Len(new.rules) = n + 1
      /\ \A i \in 1 .. n : new.rules[i] = ix.rules[i] /\ KeyAt(new, i) = KeyAt(ix, i)
      /\ new.rules[n + 1] = rule /\ KeyAt(new, n + 1) = key
    BY <1>1, Zenon DEF Extends
<1>3. n \in Nat
    BY DEF IsIndex
<1>30. \A id, k : Files(ix, id, k) <=> \E i \in 1 .. n : ix.rules[i] = id /\ KeyAt(ix, i) = k
    BY DEF Files
<1> HIDE DEF n
<1>31. \A id, k : Files(new, id, k) <=> \E i \in 1 .. n + 1 : new.rules[i] = id /\ KeyAt(new, i) = k
    BY <1>2 DEF Files
<1>4. n + 1 \in 1 .. n + 1 /\ \A i : i \in 1 .. n + 1 <=> i \in 1 .. n \/ i = n + 1
    BY <1>3
<1>5. ASSUME NEW id, NEW k
      PROVE  Files(new, id, k) <=> Files(ix, id, k) \/ (id = rule /\ k = key)
    <2>1. ASSUME Files(new, id, k) PROVE Files(ix, id, k) \/ (id = rule /\ k = key)
        <3>1. PICK i \in 1 .. n + 1 : new.rules[i] = id /\ KeyAt(new, i) = k
            BY <1>31, <2>1
        <3>2. CASE i \in 1 .. n
            BY <1>2, <1>30, <3>1, <3>2, Zenon
        <3>3. CASE i = n + 1
            BY <1>2, <3>1, <3>3, Zenon
        <3> QED
            BY <1>4, <3>1, <3>2, <3>3, Zenon
    <2>2. ASSUME Files(ix, id, k) PROVE Files(new, id, k)
        <3>1. PICK i \in 1 .. n : ix.rules[i] = id /\ KeyAt(ix, i) = k
            BY <1>30, <2>2
        <3>2. i \in 1 .. n + 1 /\ new.rules[i] = id /\ KeyAt(new, i) = k
            BY <1>2, <1>4, <3>1
        <3> QED
            BY <1>31, <3>2
    <2>3. ASSUME id = rule /\ k = key PROVE Files(new, id, k)
        BY <1>2, <1>4, <1>31, <2>3
    <2> QED
        BY <2>1, <2>2, <2>3
<1> QED
    BY <1>2, <1>5 DEF new

\* An order has every place once.
LEMMA OrderIs ==
    ASSUME NEW ix, IsIndex(ix), NEW o \in Orders(ix)
    PROVE  /\ o \in Seq(1 .. Len(ix.rules)) /\ Len(o) = Len(ix.rules)
           /\ \A j \in 1 .. Len(ix.rules) : \E n \in 1 .. Len(ix.rules) : o[n] = j
           /\ \A i, j \in 1 .. Len(ix.rules) : i < j => ~Below(KeyAt(ix, o[j]), KeyAt(ix, o[i]))
<1> DEFINE N == Len(ix.rules)
           D == 1 .. N
<1>0. N \in Nat /\ DOMAIN ix.rules = D
    BY DEF IsIndex
<1>1. o \in SetToSeqs(D) /\ \A i, j \in DOMAIN o : i < j => ~Below(KeyAt(ix, o[j]), KeyAt(ix, o[i]))
    BY <1>0 DEF Orders
<1> HIDE DEF N
<1>2. IsFiniteSet(D) /\ Cardinality(D) = N
    <2>1. /\ IsFiniteSet(1 .. N) /\ Cardinality(1 .. N) = IF 1 > N THEN 0 ELSE N - 1 + 1
        BY <1>0, FS_Interval
    <2> QED
        BY <1>0, <2>1
<1>3. o \in [D -> D] /\ \A i, j \in D : i # j => o[i] # o[j]
    BY <1>1, <1>2 DEF SetToSeqs
<1>4. o \in Seq(D) /\ Len(o) = N /\ DOMAIN o = D
    BY <1>0, <1>3
<1>5. o \in Injection(D, D)
    BY <1>3 DEF Injection, IsInjective
<1>6. o \in Surjection(D, D)
    BY <1>2, <1>5, FS_Injection
<1>7. \A j \in D : \E n \in D : o[n] = j
    BY <1>6 DEF Surjection
<1> QED
    BY <1>1, <1>4, <1>7, Zenon DEF N

\* Sorting leaves every rule under its key.
LEMMA SortedFiles ==
    ASSUME NEW ix, IsIndex(ix), NEW o \in Orders(ix)
    PROVE  /\ IsIndex(Sorted(ix, o)) /\ KeysInOrder(Sorted(ix, o))
           /\ \A id, k : Files(Sorted(ix, o), id, k) <=> Files(ix, id, k)
<1> DEFINE new == Sorted(ix, o)
           N == Len(ix.rules)
<1>1. /\ o \in Seq(1 .. N) /\ Len(o) = N
      /\ \A j \in 1 .. N : \E n \in 1 .. N : o[n] = j
      /\ \A i, j \in 1 .. N : i < j => ~Below(KeyAt(ix, o[j]), KeyAt(ix, o[i]))
    BY OrderIs, Zenon
<1>2. Follows(new, ix, o, N)
    <2>1. Follows(new, ix, o, Len(o))
        BY <1>1, SortedIs, Zenon
    <2> QED
        BY <1>1, <2>1
<1>3. \A n \in 1 .. N : o[n] \in 1 .. N
    BY <1>1, ElementIs, Zenon
<1> HIDE DEF new
<1>4. /\ IsIndex(new) /\ Len(new.rules) = N
      /\ \A j \in 1 .. N : new.rules[j] = ix.rules[o[j]] /\ KeyAt(new, j) = KeyAt(ix, o[j])
    BY <1>2, Zenon DEF Follows
<1>5. KeysInOrder(new)
    BY <1>1, <1>4, ZenonT(30) DEF KeysInOrder
<1>6. ASSUME NEW id, NEW k PROVE Files(new, id, k) <=> Files(ix, id, k)
    <2>1. ASSUME Files(new, id, k) PROVE Files(ix, id, k)
        <3>1. PICK i \in 1 .. N : new.rules[i] = id /\ KeyAt(new, i) = k
            BY <1>4, <2>1 DEF Files
        <3>2. o[i] \in 1 .. N /\ ix.rules[o[i]] = id /\ KeyAt(ix, o[i]) = k
            BY <1>3, <1>4, <3>1
        <3> QED
            BY <3>2 DEF Files
    <2>2. ASSUME Files(ix, id, k) PROVE Files(new, id, k)
        <3>1. PICK i \in 1 .. N : ix.rules[i] = id /\ KeyAt(ix, i) = k
            BY <2>2 DEF Files
        <3>2. PICK n \in 1 .. N : o[n] = i
            BY <1>1
        <3>3. new.rules[n] = id /\ KeyAt(new, n) = k
            BY <1>4, <3>1, <3>2
        <3>4. \E j \in 1 .. Len(new.rules) : new.rules[j] = id /\ KeyAt(new, j) = k
            BY <1>4, <3>3
        <3> QED
            BY <3>4 DEF Files
    <2> QED
        BY <2>1, <2>2
<1> QED
    BY <1>4, <1>5, <1>6 DEF new

LEMMA EqualRangeFiles ==
    ASSUME NEW ix, IsIndex(ix), KeysInOrder(ix), NEW needle \in Seq(Nat)
    PROVE  /\ equal_range(ix, needle) \in Seq(Nat)
           /\ \A x : x \in ToSet(equal_range(ix, needle)) <=> Files(ix, x, needle)
BY EqualRangeIs, Zenon DEF Files

-----------------------------------------------------------------------------
(* Reversed names.                                                         *)

\* A label of the first n bytes of x is between places b and a.
Label(x, n, b, a) ==
    /\ b \in 0 .. n /\ a \in 1 .. n + 1 /\ b < a
    /\ b = 0 \/ x[b] = Dot
    /\ a = n + 1 \/ x[a] = Dot
    /\ \A i \in b + 1 .. a - 1 : x[i] # Dot

\* r has the labels of x in reverse order.
Reversed(r, x, n) ==
    /\ \A j \in 1 .. n : x[j] = Dot => r[n + 1 - j] = Dot
    /\ \A b, a : Label(x, n, b, a) => \A j \in b + 1 .. a - 1 : r[n + 1 - j] = x[b + a - j]

\* Every byte that is not a dot is in a label.
LEMMA InLabel ==
    ASSUME NEW x, NEW n \in Nat, NEW j \in 1 .. n, x[j] # Dot
    PROVE  LET b == Max({i \in 1 .. j - 1 : x[i] = Dot} \cup {0})
               a == Min({i \in j + 1 .. n : x[i] = Dot} \cup {n + 1})
           IN  Label(x, n, b, a) /\ j \in b + 1 .. a - 1
<1> DEFINE B == {i \in 1 .. j - 1 : x[i] = Dot} \cup {0}
           A == {i \in j + 1 .. n : x[i] = Dot} \cup {n + 1}
           b == Max(B)
           a == Min(A)
<1>1. B \in SUBSET (0 .. n) /\ B # {} /\ A \in SUBSET Nat /\ A # {}
    OBVIOUS
<1>2. b \in B /\ \A y \in B : y <= b
    <2> HIDE DEF B
    <2> QED
        BY <1>1, MaxIn, Zenon
<1>3. a \in A /\ \A y \in A : a <= y
    <2> HIDE DEF A
    <2> QED
        BY <1>1, MinIn, Zenon
<1> HIDE DEF b, a
<1>4. b \in 0 .. j - 1 /\ (b = 0 \/ x[b] = Dot)
    BY <1>2
<1>5. a \in j + 1 .. n + 1 /\ (a = n + 1 \/ x[a] = Dot)
    BY <1>3
<1>6. ASSUME NEW i \in b + 1 .. a - 1 PROVE x[i] # Dot
    <2>1. CASE i < j
        <3>1. i \in 1 .. j - 1 /\ ~(i <= b)
            BY <1>4, <1>5, <2>1
        <3> QED
            BY <1>2, <3>1
    <2>2. CASE i > j
        <3>1. i \in j + 1 .. n /\ ~(a <= i)
            BY <1>4, <1>5, <2>2
        <3> QED
            BY <1>3, <3>1
    <2>3. CASE i = j
        BY <2>3
    <2>4. i < j \/ i > j \/ i = j
        BY <1>4, <1>5
    <2> QED
        BY <2>1, <2>2, <2>3, <2>4
<1>7. Label(x, n, b, a) /\ j \in b + 1 .. a - 1
    <2>1. b \in 0 .. n /\ a \in 1 .. n + 1 /\ b < a /\ j \in b + 1 .. a - 1
        BY <1>4, <1>5
    <2> QED
        BY <1>4, <1>5, <1>6, <2>1, Zenon DEF Label
<1> QED
    BY <1>7, Zenon DEF b, a, B, A

\* A byte is in one label only.
LEMMA OneLabel ==
    ASSUME NEW x, NEW n \in Nat, NEW b, NEW a, Label(x, n, b, a), NEW c, NEW d, Label(x, n, c, d),
           NEW j \in b + 1 .. a - 1, j \in c + 1 .. d - 1
    PROVE  b = c /\ a = d
<1>1. /\ b \in 0 .. n /\ a \in 1 .. n + 1 /\ b < a /\ (b = 0 \/ x[b] = Dot) /\ (a = n + 1 \/ x[a] = Dot)
      /\ \A i \in b + 1 .. a - 1 : x[i] # Dot
    BY DEF Label
<1>2. /\ c \in 0 .. n /\ d \in 1 .. n + 1 /\ c < d /\ (c = 0 \/ x[c] = Dot) /\ (d = n + 1 \/ x[d] = Dot)
      /\ \A i \in c + 1 .. d - 1 : x[i] # Dot
    BY DEF Label
<1>3. ~(b < c)
    <2> SUFFICES ASSUME b < c PROVE FALSE
        OBVIOUS
    <2>1. c \in b + 1 .. a - 1 /\ c # 0
        BY <1>1, <1>2
    <2> QED
        BY <1>1, <1>2, <2>1, Zenon
<1>4. ~(c < b)
    <2> SUFFICES ASSUME c < b PROVE FALSE
        OBVIOUS
    <2>1. b \in c + 1 .. d - 1 /\ b # 0
        BY <1>1, <1>2
    <2> QED
        BY <1>1, <1>2, <2>1, Zenon
<1>5. ~(a < d)
    <2> SUFFICES ASSUME a < d PROVE FALSE
        OBVIOUS
    <2>1. a \in c + 1 .. d - 1 /\ a # n + 1
        BY <1>1, <1>2
    <2> QED
        BY <1>1, <1>2, <2>1, Zenon
<1>6. ~(d < a)
    <2> SUFFICES ASSUME d < a PROVE FALSE
        OBVIOUS
    <2>1. d \in b + 1 .. a - 1 /\ d # n + 1
        BY <1>1, <1>2
    <2> QED
        BY <1>1, <1>2, <2>1, Zenon
<1>7. b \in Int /\ c \in Int /\ a \in Int /\ d \in Int
    BY <1>1, <1>2
<1> QED
    BY <1>3, <1>4, <1>5, <1>6, <1>7

LEMMA LabelMirror ==
    ASSUME NEW n \in Nat, NEW b \in 0 .. n, NEW a \in 1 .. n + 1, b < a, NEW j \in b + 1 .. a - 1
    PROVE  /\ j \in 1 .. n /\ n + 1 - j \in 1 .. n /\ n + 1 - (n + 1 - j) = j
           /\ b + a - j \in b + 1 .. a - 1 /\ b + a - j \in 1 .. n /\ b + a - (b + a - j) = j
OBVIOUS

\* A name that does not end with a dot is reversed.
LEMMA ReverseLabelsIs ==
    ASSUME NEW x \in Seq(Nat), Len(x) = 0 \/ x[Len(x)] # Dot
    PROVE  /\ reverse_labels(x) \in Seq(Nat) /\ Len(reverse_labels(x)) = Len(x)
           /\ Reversed(reverse_labels(x), x, Len(x))
<1> DEFINE l == Len(x)
           T == {i \in DOMAIN x : x[i] # Dot} \cup {0}
           n == Max(T)
           before(j) == Max({i \in 1 .. j - 1 : x[i] = Dot} \cup {0})
           after(j) == Min({i \in j + 1 .. n : x[i] = Dot} \cup {n + 1})
           turned(j) == IF x[j] = Dot THEN Dot ELSE x[before(j) + after(j) - j]
           r == reverse_labels(x)
<1>0. l \in Nat /\ DOMAIN x = 1 .. l /\ \A i \in 1 .. l : x[i] \in Nat
    OBVIOUS
<1>1. r = [k \in 1 .. n |-> turned(n + 1 - k)]
    BY Zenon DEF reverse_labels
<1>2. l = 0 \/ x[l] # Dot
    OBVIOUS
<1> HIDE DEF l, r
<1>3. n = l
    <2>1. T \in SUBSET (0 .. l) /\ T # {} /\ l \in T
        BY <1>0, <1>2
    <2>2. n \in T /\ \A y \in T : y <= n
        <3> HIDE DEF T
        <3> QED
            BY <1>0, <2>1, MaxIn, Zenon
    <2> HIDE DEF T, n
    <2>3. n \in 0 .. l /\ l <= n
        BY <2>1, <2>2
    <2> QED
        BY <1>0, <2>3
<1> HIDE DEF n
<1>4. \A j \in 1 .. l : x[j] # Dot => Label(x, l, before(j), after(j)) /\ j \in before(j) + 1 .. after(j) - 1
    BY <1>0, <1>3, InLabel, Zenon
<1>5. ASSUME NEW b, NEW a, Label(x, l, b, a), NEW j \in b + 1 .. a - 1 PROVE turned(j) = x[b + a - j] /\ j \in 1 .. l
    <2>1. b \in 0 .. l /\ a \in 1 .. l + 1 /\ b < a /\ x[j] # Dot
        BY <1>5 DEF Label
    <2>2. j \in 1 .. l
        BY <1>0, <2>1
    <2>3. Label(x, l, before(j), after(j)) /\ j \in before(j) + 1 .. after(j) - 1
        BY <1>4, <2>1, <2>2, Zenon
    <2> DEFINE c == before(j)
               d == after(j)
    <2>5. Label(x, l, c, d) /\ j \in c + 1 .. d - 1
        BY <2>3
    <2>6. turned(j) = x[c + d - j]
        BY <2>1, Zenon
    <2> HIDE DEF c, d, turned
    <2>4. b = c /\ a = d
        BY <1>0, <1>5, <2>5, OneLabel
    <2> QED
        BY <2>2, <2>4, <2>6
<1>6. \A j \in 1 .. l : turned(j) \in Nat
    <2> SUFFICES ASSUME NEW j \in 1 .. l, x[j] # Dot PROVE turned(j) \in Nat
        BY DEF Dot
    <2> HIDE DEF before, after
    <2>1. Label(x, l, before(j), after(j)) /\ j \in before(j) + 1 .. after(j) - 1
        BY <1>4, Zenon
    <2>2. before(j) \in 0 .. l /\ after(j) \in 1 .. l + 1 /\ before(j) < after(j)
        BY <2>1, Zenon DEF Label
    <2>3. before(j) + after(j) - j \in 1 .. l
        BY <1>0, <2>1, <2>2, LabelMirror, Zenon
    <2> QED
        BY <1>0, <2>3, Zenon
<1> HIDE DEF turned
<1>7. r = [k \in 1 .. l |-> turned(l + 1 - k)]
    BY <1>1, <1>3
<1>8. \A k \in 1 .. l : l + 1 - k \in 1 .. l
    BY <1>0
<1>9. \A j \in 1 .. l : l + 1 - j \in 1 .. l /\ r[l + 1 - j] = turned(j)
    <2>1. \A j \in 1 .. l : l + 1 - j \in 1 .. l /\ l + 1 - (l + 1 - j) = j
        BY <1>0
    <2> QED
        BY <1>7, <2>1, Zenon
<1>10. r \in Seq(Nat) /\ Len(r) = l
    BY <1>0, <1>6, <1>7, <1>8
<1>11. \A j \in 1 .. l : x[j] = Dot => r[l + 1 - j] = Dot
    BY <1>9 DEF turned
<1>12. Reversed(r, x, l)
    <2>1. ASSUME NEW b, NEW a, Label(x, l, b, a), NEW j \in b + 1 .. a - 1 PROVE r[l + 1 - j] = x[b + a - j]
        <3>1. turned(j) = x[b + a - j] /\ j \in 1 .. l
            BY <1>5, <2>1, Zenon
        <3> QED
            BY <1>9, <3>1, Zenon
    <2> QED
        BY <1>11, <2>1, Zenon DEF Reversed
<1> QED
    BY <1>10, <1>12, Zenon DEF r, l

LEMMA ReversedLabel ==
    ASSUME NEW r, NEW x, NEW n, Reversed(r, x, n), NEW b, NEW a, Label(x, n, b, a), NEW j \in b + 1 .. a - 1
    PROVE  r[n + 1 - j] = x[b + a - j]
BY ZenonT(30) DEF Reversed

LEMMA ReversedDots ==
    ASSUME NEW n \in Nat, NEW x, NEW r, Reversed(r, x, n), NEW j \in 1 .. n
    PROVE  r[n + 1 - j] = Dot <=> x[j] = Dot
<1>1. CASE x[j] = Dot
    BY <1>1 DEF Reversed
<1>2. CASE x[j] # Dot
    <2>1. PICK b, a : Label(x, n, b, a) /\ j \in b + 1 .. a - 1
        BY <1>2, InLabel
    <2>2. b \in 0 .. n /\ a \in 1 .. n + 1 /\ b < a /\ \A i \in b + 1 .. a - 1 : x[i] # Dot
        BY <2>1 DEF Label
    <2>3. b + a - j \in b + 1 .. a - 1
        BY <2>1, <2>2, LabelMirror, Zenon
    <2>4. r[n + 1 - j] = x[b + a - j]
        BY <2>1, ReversedLabel
    <2> QED
        BY <1>2, <2>2, <2>3, <2>4, Zenon
<1> QED
    BY <1>1, <1>2

\* Reversing is symmetric.
LEMMA ReversedBack ==
    ASSUME NEW n \in Nat, NEW x, NEW r, Reversed(r, x, n)
    PROVE  Reversed(x, r, n)
<1>0. \A i \in 1 .. n : n + 1 - i \in 1 .. n /\ n + 1 - (n + 1 - i) = i
    OBVIOUS
<1>1. \A j \in 1 .. n : r[n + 1 - j] = Dot <=> x[j] = Dot
    BY ReversedDots, Zenon
<1>2. \A j \in 1 .. n : r[j] = Dot <=> x[n + 1 - j] = Dot
    <2> SUFFICES ASSUME NEW j \in 1 .. n PROVE r[j] = Dot <=> x[n + 1 - j] = Dot
        OBVIOUS
    <2>1. n + 1 - j \in 1 .. n /\ n + 1 - (n + 1 - j) = j
        BY <1>0
    <2>2. r[n + 1 - (n + 1 - j)] = Dot <=> x[n + 1 - j] = Dot
        BY <1>1, <2>1, Zenon
    <2> QED
        BY <2>1, <2>2
<1>3. ASSUME NEW b, NEW a, Label(r, n, b, a), NEW j \in b + 1 .. a - 1
      PROVE  x[n + 1 - j] = r[b + a - j]
    <2>1. /\ b \in 0 .. n /\ a \in 1 .. n + 1 /\ b < a /\ (b = 0 \/ r[b] = Dot) /\ (a = n + 1 \/ r[a] = Dot)
          /\ \A i \in b + 1 .. a - 1 : r[i] # Dot
        BY <1>3 DEF Label
    <2> DEFINE c == n + 1 - a
               d == n + 1 - b
               m == n + 1 - (b + a - j)
    <2>2. /\ c \in 0 .. n /\ d \in 1 .. n + 1 /\ c < d
          /\ m \in c + 1 .. d - 1 /\ n + 1 - m = b + a - j /\ c + d - m = n + 1 - j
          /\ b # 0 => b \in 1 .. n /\ d # n + 1
          /\ b = 0 => d = n + 1
          /\ a # n + 1 => a \in 1 .. n
          /\ a = n + 1 => c = 0
        BY <2>1
    <2>3. \A i \in c + 1 .. d - 1 : i \in 1 .. n /\ n + 1 - i \in b + 1 .. a - 1
        BY <2>1
    <2>4. \A i \in c + 1 .. d - 1 : x[i] # Dot
        BY <1>1, <2>1, <2>3, Zenon
    <2>5. d = n + 1 \/ x[d] = Dot
        BY <1>2, <2>1, <2>2, Zenon
    <2>6. c = 0 \/ x[c] = Dot
        BY <1>2, <2>1, <2>2, Zenon
    <2> HIDE DEF c, d, m
    <2>7. Label(x, n, c, d)
        BY <2>2, <2>4, <2>5, <2>6, Zenon DEF Label
    <2>8. r[n + 1 - m] = x[c + d - m]
        <3>1. m \in c + 1 .. d - 1
            BY <2>2
        <3> QED
            BY <2>7, <3>1, ReversedLabel
    <2> QED
        BY <2>2, <2>8
<1> QED
    BY <1>2, <1>3, Zenon DEF Reversed

\* There is one reversed name, and one name that it is the reverse of.
LEMMA ReversedOnce ==
    ASSUME NEW n \in Nat, NEW x, NEW r \in Seq(Nat), NEW q \in Seq(Nat), Len(r) = n, Len(q) = n,
           Reversed(r, x, n), Reversed(q, x, n)
    PROVE  r = q
<1>1. ASSUME NEW k \in 1 .. n PROVE r[k] = q[k]
    <2> DEFINE j == n + 1 - k
    <2>1. j \in 1 .. n /\ n + 1 - j = k
        OBVIOUS
    <2> HIDE DEF j
    <2>2. CASE x[j] = Dot
        BY <2>1, <2>2 DEF Reversed
    <2>3. CASE x[j] # Dot
        <3>1. PICK b, a : Label(x, n, b, a) /\ j \in b + 1 .. a - 1
            BY <2>1, <2>3, InLabel
        <3>2. r[n + 1 - j] = x[b + a - j]
            BY <3>1, ReversedLabel
        <3>3. q[n + 1 - j] = x[b + a - j]
            BY <3>1, ReversedLabel
        <3> QED
            BY <2>1, <3>2, <3>3
    <2> QED
        BY <2>2, <2>3
<1> QED
    BY <1>1, SameSeq

LEMMA SameReversed ==
    ASSUME NEW n \in Nat, NEW r, NEW x \in Seq(Nat), NEW y \in Seq(Nat), Len(x) = n, Len(y) = n,
           Reversed(r, x, n), Reversed(r, y, n)
    PROVE  x = y
<1>1. Reversed(x, r, n) /\ Reversed(y, r, n)
    BY ReversedBack, Zenon
<1> QED
    BY <1>1, ReversedOnce

\* y is what follows place i of x, q the first m bytes of r.
EndAndStart(y, x, i, q, r, m) == \A j \in 1 .. m : y[j] = x[i + j] /\ q[j] = r[j]

\* What follows a dot is reversed to what comes before its mirror image.
LEMMA ReversedSuffix ==
    ASSUME NEW n \in Nat, NEW x, NEW r, Reversed(r, x, n), NEW i \in 0 .. n, i = 0 \/ x[i] = Dot,
           NEW y, NEW q, EndAndStart(y, x, i, q, r, n - i)
    PROVE  Reversed(q, y, n - i)
<1> DEFINE m == n - i
<1>0. m \in Nat /\ m + i = n
    OBVIOUS
<1>00. \A j \in 1 .. m : y[j] = x[i + j] /\ q[j] = r[j]
    BY DEF EndAndStart
<1>1. \A j \in 1 .. m : /\ m + 1 - j \in 1 .. m /\ i + j \in 1 .. n /\ n + 1 - (i + j) = m + 1 - j
    OBVIOUS
<1> HIDE DEF m
<1>2. ASSUME NEW j \in 1 .. m, y[j] = Dot PROVE q[m + 1 - j] = Dot
    <2>1. x[i + j] = Dot /\ i + j \in 1 .. n
        BY <1>00, <1>1, <1>2
    <2>2. r[n + 1 - (i + j)] = Dot
        BY <2>1, Zenon DEF Reversed
    <2> QED
        BY <1>00, <1>1, <2>2
<1>3. ASSUME NEW b, NEW a, Label(y, m, b, a), NEW j \in b + 1 .. a - 1
      PROVE  q[m + 1 - j] = y[b + a - j]
    <2>1. /\ b \in 0 .. m /\ a \in 1 .. m + 1 /\ b < a /\ (b = 0 \/ y[b] = Dot) /\ (a = m + 1 \/ y[a] = Dot)
          /\ \A k \in b + 1 .. a - 1 : y[k] # Dot
        BY <1>3 DEF Label
    <2> DEFINE c == i + b
               d == i + a
    <2>2. /\ c \in 0 .. n /\ d \in 1 .. n + 1 /\ c < d /\ i + j \in c + 1 .. d - 1
          /\ c + d - (i + j) = i + (b + a - j)
          /\ j \in 1 .. m /\ b + a - j \in 1 .. m
          /\ b = 0 => c = i
          /\ b # 0 => b \in 1 .. m
          /\ a = m + 1 => d = n + 1
          /\ a # m + 1 => a \in 1 .. m
        BY <1>0, <2>1
    <2>3. \A k \in c + 1 .. d - 1 : k - i \in b + 1 .. a - 1 /\ k - i \in 1 .. m /\ i + (k - i) = k
        BY <1>0, <2>1
    <2>4. \A k \in c + 1 .. d - 1 : x[k] # Dot
        <3> SUFFICES ASSUME NEW k \in c + 1 .. d - 1 PROVE x[k] # Dot
            OBVIOUS
        <3>1. k - i \in b + 1 .. a - 1 /\ k - i \in 1 .. m /\ i + (k - i) = k
            BY <2>3
        <3>2. y[k - i] # Dot /\ y[k - i] = x[i + (k - i)]
            BY <1>00, <2>1, <3>1, Zenon
        <3> QED
            BY <3>1, <3>2
    <2>5. d = n + 1 \/ x[d] = Dot
        BY <1>00, <2>1, <2>2, Zenon
    <2>6. c = 0 \/ x[c] = Dot
        BY <1>00, <2>1, <2>2, Zenon
    <2> HIDE DEF c, d
    <2>7. Label(x, n, c, d)
        BY <2>2, <2>4, <2>5, <2>6, Zenon DEF Label
    <2>8. r[n + 1 - (i + j)] = x[c + d - (i + j)]
        <3> DEFINE k == i + j
        <3>1. k \in c + 1 .. d - 1
            BY <2>2
        <3> HIDE DEF k
        <3>2. r[n + 1 - k] = x[c + d - k]
            BY <2>7, <3>1, ReversedLabel
        <3> QED
            BY <3>2 DEF k
    <2>9. x[i + (b + a - j)] = y[b + a - j]
        BY <1>00, <2>2, Zenon
    <2>10. n + 1 - (i + j) = m + 1 - j /\ q[m + 1 - j] = r[m + 1 - j]
        BY <1>00, <1>1, <2>2, Zenon
    <2> QED
        BY <2>2, <2>8, <2>9, <2>10
<1>4. Reversed(q, y, m)
    BY <1>2, <1>3, Zenon DEF Reversed
<1> QED
    BY <1>4 DEF m

\* The text of a rule can be rebuilt from its key.
LEMMA ReversedTwice ==
    ASSUME NEW x \in Seq(Nat), PlainName(x), Len(x) # 0
    PROVE  reverse_labels(reverse_labels(x)) = x
<1> DEFINE n == Len(x)
           r == reverse_labels(x)
           y == reverse_labels(r)
<1>0. n \in Nat
    OBVIOUS
<1>1. x[1] # Dot /\ x[n] # Dot
    BY DEF PlainName
<1>2. r \in Seq(Nat) /\ Len(r) = n /\ Reversed(r, x, n)
    BY <1>1, ReverseLabelsIs, Zenon
<1>9. n # 0
    OBVIOUS
<1> HIDE DEF n, r
<1>3. 1 \in 1 .. n /\ n + 1 - 1 = n
    BY <1>0, <1>9
<1>4. r[n] # Dot
    <2>1. r[n + 1 - 1] = Dot <=> x[1] = Dot
        <3>1. \A j \in 1 .. n : r[n + 1 - j] = Dot <=> x[j] = Dot
            BY <1>0, <1>2, ReversedDots, Zenon
        <3> QED
            BY <1>3, <3>1, Zenon
    <2> QED
        BY <1>1, <1>3, <2>1
<1>5. y \in Seq(Nat) /\ Len(y) = Len(r) /\ Reversed(y, r, Len(r))
    BY <1>2, <1>4, ReverseLabelsIs, Zenon
<1>6. Reversed(x, r, n)
    BY <1>0, <1>2, ReversedBack, Zenon
<1> HIDE DEF y
<1>7. y = x
    <2>1. Len(y) = n /\ Reversed(y, r, n) /\ Len(x) = n
        BY <1>2, <1>5 DEF n
    <2> QED
        BY <1>0, <1>5, <1>6, <2>1, ReversedOnce
<1> QED
    BY <1>7 DEF y, r

-----------------------------------------------------------------------------
(* Suffixes and prefixes of names.                                         *)

\* What follows place i of a name is a suffix of whole labels.
Cut(name, i) == i \in 0 .. Len(name) /\ (i = 0 \/ name[i] = Dot)
After(name, i) == SubSeq(name, i + 1, Len(name))

LEMMA AfterIs ==
    ASSUME NEW x \in Seq(Nat), NEW i \in 0 .. Len(x)
    PROVE  /\ After(x, i) \in Seq(Nat) /\ Len(After(x, i)) = Len(x) - i
           /\ \A j \in 1 .. Len(x) - i : After(x, i)[j] = x[i + j]
<1> DEFINE n == Len(x)
           a == i + 1
           y == SubSeq(x, a, n)
<1>0. n \in Nat /\ n = Len(x)
    OBVIOUS
<1> HIDE DEF n
<1>1. a \in Nat \ {0} /\ n <= Len(x) /\ a <= n + 1
    BY <1>0
<1>4. n + 1 - a = n - i /\ \A j \in 1 .. n - i : a + j - 1 = i + j
    BY <1>0
<1> HIDE DEF a
<1>2. /\ y \in Seq(Nat) /\ Len(y) = n + 1 - a
      /\ \A j \in 1 .. Len(y) : y[j] = x[a + j - 1]
    BY <1>0, <1>1, SubSeqIs
<1>3. After(x, i) = y
    BY Zenon DEF After, a, n
<1> HIDE DEF y
<1> QED
    BY <1>0, <1>2, <1>3, <1>4

LEMMA LabelSuffixesIs ==
    ASSUME NEW x \in Seq(Nat)
    PROVE  /\ LabelSuffixes(x) \in Seq(Seq(Nat))
           /\ \A y : y \in ToSet(LabelSuffixes(x)) <=> \E i : Cut(x, i) /\ y = After(x, i)
<1> DEFINE n == Len(x)
           S == {k \in 1 .. n + 1 : k = 1 \/ x[k - 1] = Dot}
           starts == InOrder(S, n + 1)
           at(k) == SubSeq(x, k, n)
           L == LabelSuffixes(x)
<1>0. n \in Nat
    OBVIOUS
<1>1. starts \in Seq(1 .. n + 1) /\ ToSet(starts) = S
    <2>1. n + 1 \in Nat /\ S \cap (1 .. n + 1) = S
        BY <1>0
    <2> HIDE DEF S
    <2> QED
        BY <2>1, InOrderIs
<1>2. L = [k \in 1 .. Len(starts) |-> at(starts[k])]
    BY Zenon DEF LabelSuffixes
<1>3. \A k \in 1 .. n + 1 : k - 1 \in 0 .. n /\ (k - 1) + 1 = k /\ (k = 1 <=> k - 1 = 0)
    BY <1>0
<1>4. \A i \in 0 .. n : i + 1 \in 1 .. n + 1 /\ (i + 1) - 1 = i /\ (i + 1 = 1 <=> i = 0)
    BY <1>0
<1>6. \A i \in 0 .. n : After(x, i) \in Seq(Nat)
    BY AfterIs, Zenon
<1>7. \A k \in 1 .. n + 1 : at(k) = After(x, k - 1) /\ at(k) \in Seq(Nat)
    <2> SUFFICES ASSUME NEW k \in 1 .. n + 1 PROVE at(k) = After(x, k - 1) /\ at(k) \in Seq(Nat)
        OBVIOUS
    <2>1. k - 1 \in 0 .. n /\ (k - 1) + 1 = k
        BY <1>3
    <2>2. After(x, k - 1) = SubSeq(x, (k - 1) + 1, n)
        BY Zenon DEF After
    <2>3. at(k) = After(x, k - 1)
        BY <2>1, <2>2
    <2> QED
        BY <1>6, <2>1, <2>3, Zenon
<1>8. \A k : k \in S <=> k \in 1 .. n + 1 /\ (k = 1 \/ x[k - 1] = Dot)
    OBVIOUS
<1>9. \A i : Cut(x, i) <=> i \in 0 .. n /\ (i = 0 \/ x[i] = Dot)
    BY DEF Cut
<1> HIDE DEF n, S, starts, at, L
<1>10. \A k : k \in S => Cut(x, k - 1) /\ at(k) = After(x, k - 1)
    BY <1>3, <1>7, <1>8, <1>9, Zenon
<1>11. \A i : Cut(x, i) => i + 1 \in S /\ at(i + 1) = After(x, i)
    <2> SUFFICES ASSUME NEW i, Cut(x, i) PROVE i + 1 \in S /\ at(i + 1) = After(x, i)
        OBVIOUS
    <2>1. i \in 0 .. n /\ (i = 0 \/ x[i] = Dot) /\ i + 1 \in 1 .. n + 1 /\ (i + 1) - 1 = i /\ (i + 1 = 1 <=> i = 0)
        BY <1>4, <1>9, Zenon
    <2>2. x[(i + 1) - 1] = x[i] /\ After(x, (i + 1) - 1) = After(x, i)
        BY <2>1
    <2> QED
        BY <1>7, <1>8, <2>1, <2>2, Zenon
<1>12. \A k \in 1 .. Len(starts) : starts[k] \in 1 .. n + 1 /\ starts[k] \in S
    <2>1. \A k \in 1 .. Len(starts) : starts[k] \in 1 .. n + 1
        BY <1>1, ElementIs, Zenon
    <2>2. \A k \in 1 .. Len(starts) : starts[k] \in ToSet(starts)
        BY <1>1, ToSetIs, Zenon
    <2> QED
        BY <1>1, <2>1, <2>2, Zenon
<1>13. L \in Seq(Seq(Nat)) /\ Len(L) = Len(starts) /\ \A k \in 1 .. Len(starts) : L[k] = at(starts[k])
    <2>1. Len(starts) \in Nat
        BY <1>1
    <2>2. \A k \in 1 .. Len(starts) : at(starts[k]) \in Seq(Nat)
        BY <1>7, <1>12, Zenon
    <2> QED
        BY <1>2, <2>1, <2>2
<1>14. \A y : y \in ToSet(L) <=> \E k \in 1 .. Len(L) : L[k] = y
    BY <1>13, ToSetIs, Zenon
<1>15. ASSUME NEW y \in ToSet(L) PROVE \E i : Cut(x, i) /\ y = After(x, i)
    <2>1. PICK k \in 1 .. Len(L) : L[k] = y
        BY <1>14
    <2>2. y = at(starts[k]) /\ starts[k] \in S
        BY <1>12, <1>13, <2>1
    <2> QED
        BY <1>10, <2>2, Zenon
<1>16. ASSUME NEW i, Cut(x, i) PROVE After(x, i) \in ToSet(L)
    <2>1. i + 1 \in ToSet(starts) /\ at(i + 1) = After(x, i)
        BY <1>1, <1>11, <1>16, Zenon
    <2>2. PICK k \in 1 .. Len(starts) : starts[k] = i + 1
        BY <1>1, <2>1, ToSetIs, Zenon
    <2>3. k \in 1 .. Len(L) /\ L[k] = After(x, i)
        BY <1>13, <2>1, <2>2
    <2> QED
        BY <1>14, <2>3
<1> QED
    BY <1>13, <1>15, <1>16, Zenon DEF L

LEMMA ReversedPrefixesIs ==
    ASSUME NEW r \in Seq(Nat)
    PROVE  /\ ReversedPrefixes(r) \in Seq(Seq(Nat))
           /\ \A y : y \in ToSet(ReversedPrefixes(r))
                       <=> \E k \in 1 .. Len(r) + 1 : (k = Len(r) + 1 \/ r[k] = Dot) /\ y = SubSeq(r, 1, k - 1)
<1> DEFINE n == Len(r)
           S == {k \in 1 .. n + 1 : k = n + 1 \/ r[k] = Dot}
           cuts == InOrder(S, n + 1)
           at(k) == SubSeq(r, 1, k - 1)
           L == ReversedPrefixes(r)
<1>0. n \in Nat
    OBVIOUS
<1>1. cuts \in Seq(1 .. n + 1) /\ ToSet(cuts) = S
    <2>1. n + 1 \in Nat /\ S \cap (1 .. n + 1) = S
        BY <1>0
    <2> HIDE DEF S
    <2> QED
        BY <2>1, InOrderIs
<1>2. L = [k \in 1 .. Len(cuts) |-> at(cuts[k])]
    BY Zenon DEF ReversedPrefixes
<1>7. \A k \in 1 .. n + 1 : at(k) \in Seq(Nat)
    <2> SUFFICES ASSUME NEW k \in 1 .. n + 1 PROVE at(k) \in Seq(Nat)
        OBVIOUS
    <2> DEFINE z == k - 1
    <2>1. 1 \in Nat \ {0} /\ z \in Nat /\ z <= Len(r)
        BY <1>0
    <2> HIDE DEF z
    <2>2. SubSeq(r, 1, z) \in Seq(Nat)
        BY <2>1, SubSeqIs
    <2> QED
        BY <2>2 DEF z
<1>8. \A k : k \in S <=> k \in 1 .. n + 1 /\ (k = n + 1 \/ r[k] = Dot)
    OBVIOUS
<1> HIDE DEF n, S, cuts, at, L
<1>12. \A k \in 1 .. Len(cuts) : cuts[k] \in 1 .. n + 1 /\ cuts[k] \in S
    <2>1. \A k \in 1 .. Len(cuts) : cuts[k] \in 1 .. n + 1
        BY <1>1, ElementIs, Zenon
    <2>2. \A k \in 1 .. Len(cuts) : cuts[k] \in ToSet(cuts)
        BY <1>1, ToSetIs, Zenon
    <2> QED
        BY <1>1, <2>1, <2>2, Zenon
<1>13. L \in Seq(Seq(Nat)) /\ Len(L) = Len(cuts) /\ \A k \in 1 .. Len(cuts) : L[k] = at(cuts[k])
    <2>1. Len(cuts) \in Nat
        BY <1>1
    <2>2. \A k \in 1 .. Len(cuts) : at(cuts[k]) \in Seq(Nat)
        BY <1>7, <1>12, Zenon
    <2> QED
        BY <1>2, <2>1, <2>2
<1>14. \A y : y \in ToSet(L) <=> \E k \in 1 .. Len(L) : L[k] = y
    BY <1>13, ToSetIs, Zenon
<1>15. ASSUME NEW y \in ToSet(L) PROVE \E k \in 1 .. n + 1 : (k = n + 1 \/ r[k] = Dot) /\ y = at(k)
    <2>1. PICK k \in 1 .. Len(L) : L[k] = y
        BY <1>14
    <2>2. y = at(cuts[k]) /\ cuts[k] \in S
        BY <1>12, <1>13, <2>1
    <2> QED
        BY <1>8, <2>2, Zenon
<1>16. ASSUME NEW i \in 1 .. n + 1, i = n + 1 \/ r[i] = Dot PROVE at(i) \in ToSet(L)
    <2>1. i \in ToSet(cuts)
        BY <1>1, <1>8, <1>16, Zenon
    <2>2. PICK k \in 1 .. Len(cuts) : cuts[k] = i
        BY <1>1, <2>1, ToSetIs, Zenon
    <2>3. k \in 1 .. Len(L) /\ L[k] = at(i)
        BY <1>13, <2>2
    <2> QED
        BY <1>14, <2>3
<1>17. \A y : y \in ToSet(L) <=> \E k \in 1 .. n + 1 : (k = n + 1 \/ r[k] = Dot) /\ y = at(k)
    BY <1>15, <1>16, Zenon
<1> QED
    BY <1>13, <1>17, Zenon DEF L, n, at

\* The prefixes of a reversed name are its suffixes, reversed.
LEMMA PrefixOfReversed ==
    ASSUME NEW q \in Seq(Nat), Len(q) # 0, q[Len(q)] # Dot, NEW i, Cut(q, i)
    PROVE  /\ i < Len(q)
           /\ SubSeq(reverse_labels(q), 1, Len(q) - i) = reverse_labels(After(q, i))
<1> DEFINE n == Len(q)
           r == reverse_labels(q)
           y == After(q, i)
           m == n - i
           p == SubSeq(r, 1, m)
           z == reverse_labels(y)
<1>0. n \in Nat /\ n # 0 /\ q[n] # Dot
    OBVIOUS
<1>1. i \in 0 .. n /\ (i = 0 \/ q[i] = Dot)
    BY DEF Cut
<1>2. r \in Seq(Nat) /\ Len(r) = n /\ Reversed(r, q, n)
    BY <1>0, ReverseLabelsIs, Zenon
<1>3. y \in Seq(Nat) /\ Len(y) = m /\ \A j \in 1 .. m : y[j] = q[i + j]
    BY <1>1, AfterIs
<1> HIDE DEF n
<1>4. i < n
    BY <1>0, <1>1
<1>5. m \in Nat /\ m \in 1 .. m /\ i + m = n /\ m <= n /\ 1 <= m + 1 /\ m + 1 - 1 = m /\ \A j \in 1 .. m : 1 + j - 1 = j
    BY <1>0, <1>1, <1>4
<1> HIDE DEF r, y, m
<1>6. p \in Seq(Nat) /\ Len(p) = m /\ \A j \in 1 .. m : p[j] = r[j]
    <2>1. /\ p \in Seq(Nat) /\ Len(p) = m + 1 - 1
          /\ \A j \in 1 .. Len(p) : p[j] = r[1 + j - 1]
        <3>1. 1 \in Nat \ {0} /\ m \in Nat /\ m <= Len(r) /\ 1 <= m + 1
            BY <1>2, <1>5
        <3> QED
            BY <1>2, <3>1, SubSeqIs
    <2> HIDE DEF p
    <2> QED
        BY <1>5, <2>1
<1> HIDE DEF p
<1>7. y[Len(y)] # Dot
    BY <1>0, <1>3, <1>5
<1>8. z \in Seq(Nat) /\ Len(z) = m /\ Reversed(z, y, m)
    BY <1>3, <1>7, ReverseLabelsIs, Zenon
<1>9. Reversed(p, y, m)
    <2>1. EndAndStart(y, q, i, p, r, n - i)
        BY <1>3, <1>6, Zenon DEF m, EndAndStart
    <2>2. Reversed(p, y, n - i)
        BY <1>0, <1>1, <1>2, <2>1, ReversedSuffix, Zenon
    <2> QED
        BY <2>2 DEF m
<1>10. p = z
    BY <1>5, <1>6, <1>8, <1>9, ReversedOnce
<1> QED
    BY <1>4, <1>10 DEF p, r, m, y, n

\* A subtree rule is found for a name exactly when its own name is a suffix of it.
LEMMA SubtreeFound ==
    ASSUME NEW q \in Seq(Nat), Len(q) # 0, q[Len(q)] # Dot, NEW d \in Seq(Nat), Len(d) # 0, PlainName(d)
    PROVE  reverse_labels(d) \in ToSet(ReversedPrefixes(reverse_labels(q)))
             <=> \E i : Cut(q, i) /\ After(q, i) = d
<1> DEFINE n == Len(q)
           r == reverse_labels(q)
           e == reverse_labels(d)
<1>0. n \in Nat /\ n # 0 /\ q[n] # Dot
    OBVIOUS
<1>2. r \in Seq(Nat) /\ Len(r) = n /\ Reversed(r, q, n)
    BY <1>0, ReverseLabelsIs, Zenon
<1>3. e \in Seq(Nat) /\ Len(e) = Len(d) /\ Reversed(e, d, Len(d)) /\ Len(d) \in Nat
    BY ReverseLabelsIs DEF PlainName
<1>4. \A y : y \in ToSet(ReversedPrefixes(r))
               <=> \E k \in 1 .. n + 1 : (k = n + 1 \/ r[k] = Dot) /\ y = SubSeq(r, 1, k - 1)
    <2>1. \A y : y \in ToSet(ReversedPrefixes(r))
                   <=> \E k \in 1 .. Len(r) + 1 : (k = Len(r) + 1 \/ r[k] = Dot) /\ y = SubSeq(r, 1, k - 1)
        BY <1>2, ReversedPrefixesIs, Zenon
    <2> QED
        BY <1>2, <2>1
<1>5. \A i : Cut(q, i) <=> i \in 0 .. n /\ (i = 0 \/ q[i] = Dot)
    BY DEF Cut
<1>6. \A i : Cut(q, i) => i < n /\ SubSeq(r, 1, n - i) = reverse_labels(After(q, i))
    BY PrefixOfReversed, Zenon
<1>7. \A j \in 1 .. n : r[n + 1 - j] = Dot <=> q[j] = Dot
    BY <1>0, <1>2, ReversedDots, Zenon
<1> HIDE DEF n, r, e
<1>8. ASSUME NEW i, Cut(q, i), After(q, i) = d PROVE e \in ToSet(ReversedPrefixes(r))
    <2>1. i \in 0 .. n /\ (i = 0 \/ q[i] = Dot)
        BY <1>5, <1>8
    <2> DEFINE k == n + 1 - i
    <2>2. k \in 1 .. n + 1 /\ k - 1 = n - i /\ (i = 0 => k = n + 1) /\ (i # 0 => i \in 1 .. n)
        BY <1>0, <2>1
    <2>3. k = n + 1 \/ r[k] = Dot
        BY <1>7, <2>1, <2>2, Zenon
    <2>4. SubSeq(r, 1, n - i) = reverse_labels(After(q, i))
        BY <1>6, <1>8
    <2>5. SubSeq(r, 1, k - 1) = e
        BY <1>8, <2>2, <2>4 DEF e
    <2> HIDE DEF k
    <2> QED
        BY <1>4, <2>2, <2>3, <2>5, Zenon
<1>9. ASSUME e \in ToSet(ReversedPrefixes(r)) PROVE \E i : Cut(q, i) /\ After(q, i) = d
    <2>1. PICK k \in 1 .. n + 1 : (k = n + 1 \/ r[k] = Dot) /\ e = SubSeq(r, 1, k - 1)
        BY <1>4, <1>9, Zenon
    <2> DEFINE i == n + 1 - k
    <2>2. i \in 0 .. n /\ n - i = k - 1 /\ (k = n + 1 => i = 0) /\ (k # n + 1 => i \in 1 .. n) /\ n + 1 - i = k
        BY <1>0
    <2> HIDE DEF i
    <2>3. i = 0 \/ q[i] = Dot
        <3>1. CASE k = n + 1
            BY <2>2, <3>1
        <3>2. CASE k # n + 1
            <4>1. r[n + 1 - i] = Dot
                BY <2>1, <2>2, <3>2
            <4> QED
                BY <1>7, <2>2, <3>2, <4>1, Zenon
        <3> QED
            BY <3>1, <3>2
    <2>4. Cut(q, i)
        BY <1>5, <2>2, <2>3, Zenon
    <2> DEFINE y == After(q, i)
    <2>5. i < n /\ e = reverse_labels(y)
        <3>1. i < n /\ SubSeq(r, 1, n - i) = reverse_labels(y)
            BY <1>6, <2>4, Zenon
        <3> QED
            BY <2>1, <2>2, <3>1
    <2>6. y \in Seq(Nat) /\ Len(y) = n - i /\ y[n - i] # Dot
        <3>1. y \in Seq(Nat) /\ Len(y) = n - i /\ \A j \in 1 .. n - i : y[j] = q[i + j]
            BY <2>2, AfterIs DEF n
        <3>2. n - i \in 1 .. n - i /\ i + (n - i) = n
            BY <1>0, <2>2, <2>5
        <3> HIDE DEF y
        <3>3. y[n - i] = q[n]
            BY <3>1, <3>2
        <3> QED
            BY <1>0, <3>1, <3>3
    <2> HIDE DEF y
    <2>7. Reversed(e, y, Len(y)) /\ Len(e) = Len(y)
        BY <2>5, <2>6, ReverseLabelsIs, Zenon
    <2>8. y = d
        <3>1. Len(y) = Len(d) /\ Reversed(e, y, Len(d))
            BY <1>3, <2>7
        <3> QED
            BY <1>3, <2>6, <3>1, SameReversed
    <2> QED
        BY <2>4, <2>8 DEF y
<1> QED
    BY <1>8, <1>9, Zenon DEF e, r

\* The rules under some needles.
LEMMA UnderIs ==
    ASSUME NEW ix, IsIndex(ix), KeysInOrder(ix), NEW needles \in Seq(Seq(Nat))
    PROVE  /\ Under(ix, needles) \in Seq(Nat)
           /\ \A id : id \in ToSet(Under(ix, needles)) <=> \E key \in ToSet(needles) : Files(ix, id, key)
<1> DEFINE one(k) == equal_range(ix, needles[k])
           ss == [k \in 1 .. Len(needles) |-> one(k)]
<1>1. \A k \in 1 .. Len(needles) : needles[k] \in Seq(Nat)
    BY ElementIs, Zenon
<1>2. \A k \in 1 .. Len(needles) :
          one(k) \in Seq(Nat) /\ \A id : id \in ToSet(one(k)) <=> Files(ix, id, needles[k])
    BY <1>1, EqualRangeFiles, Zenon
<1>3. Len(needles) \in Nat
    OBVIOUS
<1>4. Under(ix, needles) = Concat(ss)
    BY Zenon DEF Under
<1> HIDE DEF one
<1>5. ss \in Seq(Seq(Nat)) /\ Len(ss) = Len(needles) /\ \A k \in 1 .. Len(needles) : ss[k] = one(k)
    BY <1>2, <1>3
<1> HIDE DEF ss
<1>6. Concat(ss) \in Seq(Nat) /\ \A x : x \in ToSet(Concat(ss)) <=> \E k \in 1 .. Len(ss) : x \in ToSet(ss[k])
    BY <1>5, ConcatIs, Zenon
<1>7. \A y : y \in ToSet(needles) <=> \E k \in 1 .. Len(needles) : needles[k] = y
    BY ToSetIs, Zenon
<1>8. \A id : id \in ToSet(Concat(ss)) <=> \E k \in 1 .. Len(needles) : Files(ix, id, needles[k])
    BY <1>2, <1>5, <1>6
<1>9. \A id : id \in ToSet(Concat(ss)) <=> \E key \in ToSet(needles) : Files(ix, id, key)
    BY <1>7, <1>8, Zenon
<1> QED
    BY <1>4, <1>6, <1>9

-----------------------------------------------------------------------------
(* Wildcards.                                                              *)

\* A match passes every place of the pattern.
LEMMA PassesEveryPlace ==
    ASSUME NEW pat \in Seq(Nat), NEW text \in Seq(Nat), MatchesAt(pat, text, 1, 1), NEW p \in 1 .. Len(pat) + 1
    PROVE  \E u \in 1 .. Len(text) + 1 : MatchesAt(pat, text, p, u)
<1> DEFINE m == Len(pat)
           n == Len(text)
           M(i, j) == MatchesAt(pat, text, i, j)
           P == {k \in 0 .. m : \E u \in 1 .. n + 1 : M(k + 1, u)}
<1>0. m \in Nat /\ n \in Nat
    OBVIOUS
<1>1. /\ \A i \in 1 .. m + 1 : \A t : M(i, t) => t \in 1 .. n + 1
      /\ \A q \in 1 .. m : pat[q] = Star =>
            \A t \in 1 .. n + 1 : M(q, t) <=> \E u \in 1 .. n + 1 : t <= u /\ M(q + 1, u)
      /\ \A q \in 1 .. m : pat[q] # Star =>
            \A t : M(q, t) <=> t \in 1 .. n /\ text[t] = pat[q] /\ M(q + 1, t + 1)
    BY MatchesAtIs
<1>2. M(1, 1) /\ p \in 1 .. m + 1
    OBVIOUS
<1> HIDE DEF m, n, M
<1>3. 0 \in P
    <2>1. 1 \in 1 .. n + 1 /\ 0 \in 0 .. m /\ 0 + 1 = 1
        BY <1>0
    <2> QED
        BY <1>2, <2>1
<1>4. ASSUME NEW k \in 1 .. m, k - 1 \in P PROVE k \in P
    <2>1. (k - 1) + 1 = k /\ k \in 0 .. m
        BY <1>0
    <2>2. PICK u \in 1 .. n + 1 : M(k, u)
        BY <1>4, <2>1
    <2>3. CASE pat[k] = Star
        BY <1>1, <2>1, <2>2, <2>3
    <2>4. CASE pat[k] # Star
        <3>1. u \in 1 .. n /\ M(k + 1, u + 1)
            BY <1>1, <2>2, <2>4
        <3>2. u + 1 \in 1 .. n + 1
            BY <1>0, <3>1
        <3> QED
            BY <2>1, <3>1, <3>2
    <2> QED
        BY <2>3, <2>4
<1>5. 0 .. m \subseteq P
    <2> HIDE DEF P
    <2> QED
        BY <1>0, <1>3, <1>4, UpTo, Zenon
<1>6. p - 1 \in 0 .. m /\ (p - 1) + 1 = p
    BY <1>0, <1>2
<1>7. \E u \in 1 .. n + 1 : M((p - 1) + 1, u)
    BY <1>5, <1>6
<1>8. \E u \in 1 .. n + 1 : M(p, u)
    BY <1>6, <1>7
<1> QED
    BY <1>8 DEF M, n

\* A star-free end of a pattern that starts with a dot ends the text, at a cut.
LEMMA EndsTheText ==
    ASSUME NEW pat \in Seq(Nat), NEW text \in Seq(Nat), MatchesAt(pat, text, 1, 1),
           NEW d \in 1 .. Len(pat), pat[d] = Dot, \A i \in d .. Len(pat) : pat[i] # Star
    PROVE  \E u : Cut(text, u) /\ After(text, u) = After(pat, d)
<1> DEFINE m == Len(pat)
           n == Len(text)
           K == m + 1 - d
<1>0. m \in Nat /\ n \in Nat /\ d \in 1 .. m
    OBVIOUS
<1>9. pat[d] = Dot /\ \A i \in d .. m : pat[i] # Star
    OBVIOUS
<1>10. m = Len(pat) /\ n = Len(text)
    OBVIOUS
<1>11. \A t : MatchesAt(pat, text, m + 1, t) <=> t = n + 1
    BY MatchesAtIs
<1> HIDE DEF m, n
<1>1. K \in Nat /\ d + K = m + 1 /\ d + K <= m + 1 /\ d \in 1 .. m + 1 /\ \A i \in 0 .. K - 1 : d + i \in d .. m
    BY <1>0
<1>2. PICK u \in 1 .. n + 1 : MatchesAt(pat, text, d, u)
    BY <1>1, <1>10, PassesEveryPlace, Zenon
<1>3. \A i \in 0 .. K - 1 : pat[d + i] # Star
    BY <1>1, <1>9, Zenon
<1> HIDE DEF K
<1>4. /\ u + K <= n + 1
      /\ \A i \in 0 .. K - 1 : text[u + i] = pat[d + i]
      /\ MatchesAt(pat, text, d + K, u + K)
    <2>1. K \in Nat /\ d \in 1 .. Len(pat) + 1 /\ d + K <= Len(pat) + 1 /\ u \in 1 .. Len(text) + 1
        BY <1>1, <1>10
    <2> QED
        BY <1>2, <1>3, <1>10, <2>1, BytesMatch
<1>5. u + K = n + 1
    BY <1>1, <1>4, <1>11
<1>6. u \in 1 .. n /\ n - u = m - d /\ u + 0 = u /\ d + 0 = d /\ 0 \in 0 .. K - 1 /\ \A j \in 1 .. m - d : j \in 0 .. K - 1
    BY <1>0, <1>1, <1>5
<1>7. text[u] = Dot
    BY <1>4, <1>6, <1>9
<1>8. Cut(text, u)
    <2>1. u \in 0 .. n
        BY <1>0, <1>6
    <2> QED
        BY <1>7, <1>10, <2>1 DEF Cut
<1>12. u \in 0 .. Len(text) /\ d \in 0 .. Len(pat)
    BY <1>0, <1>6, <1>10
<1> DEFINE y == After(text, u)
           z == After(pat, d)
<1>13. y \in Seq(Nat) /\ Len(y) = n - u /\ \A j \in 1 .. n - u : y[j] = text[u + j]
    BY <1>10, <1>12, AfterIs
<1>14. z \in Seq(Nat) /\ Len(z) = m - d /\ \A j \in 1 .. m - d : z[j] = pat[d + j]
    BY <1>10, <1>12, AfterIs
<1> HIDE DEF y, z
<1>15. ASSUME NEW j \in 1 .. m - d PROVE y[j] = z[j]
    <2>1. j \in 1 .. n - u /\ j \in 0 .. K - 1
        BY <1>6, Zenon
    <2>2. y[j] = text[u + j] /\ z[j] = pat[d + j] /\ text[u + j] = pat[d + j]
        BY <1>4, <1>13, <1>14, <2>1, Zenon
    <2> QED
        BY <2>2
<1>16. y = z
    <2>1. Len(y) = Len(z) /\ \A j \in 1 .. Len(y) : y[j] = z[j]
        BY <1>6, <1>13, <1>14, <1>15, Zenon
    <2> QED
        BY <1>13, <1>14, <2>1, SameSeq, Zenon
<1> QED
    BY <1>8, <1>16 DEF y, z

LEMMA LastStarIs ==
    ASSUME NEW expr \in Seq(Nat)
    PROVE  LastStar(expr) \in 0 .. Len(expr) /\ \A i \in LastStar(expr) + 1 .. Len(expr) : expr[i] # Star
<1> DEFINE n == Len(expr)
           S == {i \in DOMAIN expr : expr[i] = Star} \cup {0}
           l == Max(S)
<1>0. n \in Nat /\ DOMAIN expr = 1 .. n
    OBVIOUS
<1> HIDE DEF n
<1>1. S \in SUBSET (0 .. n) /\ S # {}
    BY <1>0
<1>3. \A i \in 1 .. n : expr[i] = Star => i \in S
    BY <1>0
<1>2. l \in S /\ \A y \in S : y <= l
    <2> HIDE DEF S
    <2> QED
        BY <1>0, <1>1, MaxIn, Zenon
<1>5. LastStar(expr) = l
    BY Zenon DEF LastStar
<1> HIDE DEF l, S
<1>6. l \in 0 .. n
    BY <1>1, <1>2
<1>4. \A i \in l + 1 .. n : i \in 1 .. n /\ ~(i <= l)
    BY <1>0, <1>6
<1>7. \A i \in l + 1 .. n : expr[i] # Star
    BY <1>2, <1>3, <1>4, Zenon
<1> QED
    BY <1>5, <1>6, <1>7 DEF n

\* What a wildcard matches ends in its anchor.
LEMMA AnchorIs ==
    ASSUME NEW expr \in Seq(Nat)
    PROVE  /\ wildcard_anchor(expr) \in Seq(Nat)
           /\ \A text \in Seq(Nat) : Means(expr, text) /\ wildcard_anchor(expr) # <<>> =>
                 \E u : Cut(text, u) /\ After(text, u) = wildcard_anchor(expr)
<1> DEFINE n == Len(expr)
           l == LastStar(expr)
           dots == {i \in l + 1 .. n : expr[i] = Dot}
           d == Min(dots)
<1>0. n \in Nat
    OBVIOUS
<1>1. l \in 0 .. n /\ \A i \in l + 1 .. n : expr[i] # Star
    BY LastStarIs, Zenon
<1>2. wildcard_anchor(expr) = IF dots = {} THEN <<>> ELSE SubSeq(expr, d + 1, n)
    BY Zenon DEF wildcard_anchor
<1>3. CASE dots = {}
    BY <1>2, <1>3, EmptyIs, Zenon
<1>4. CASE dots # {}
    <2> HIDE DEF n, l
    <2>1. dots \in SUBSET Nat
        BY <1>0, <1>1
    <2>2. d \in dots
        <3> HIDE DEF dots
        <3> QED
            BY <1>4, <2>1, MinIn, Zenon
    <2>3. d \in l + 1 .. n /\ expr[d] = Dot
        BY <2>2
    <2>30. wildcard_anchor(expr) = SubSeq(expr, d + 1, n)
        BY <1>2, <1>4, Zenon
    <2> HIDE DEF d, dots
    <2>4. d \in 1 .. n /\ d \in 0 .. n /\ \A i \in d .. n : i \in l + 1 .. n
        BY <1>0, <1>1, <2>3
    <2>5. \A i \in d .. n : expr[i] # Star
        BY <1>1, <2>4, Zenon
    <2>6. wildcard_anchor(expr) = After(expr, d)
        BY <2>30, Zenon DEF After, n
    <2>7. After(expr, d) \in Seq(Nat)
        BY <2>4, AfterIs, Zenon DEF n
    <2>8. ASSUME NEW text \in Seq(Nat), Means(expr, text) PROVE \E u : Cut(text, u) /\ After(text, u) = After(expr, d)
        <3>1. MatchesAt(expr, text, 1, 1)
            <4>1. n + 1 - 1 = n
                BY <1>0
            <4> QED
                BY <2>8, <4>1 DEF Means, MatchesAt, n
        <3> QED
            BY <2>3, <2>4, <2>5, <3>1, EndsTheText, Zenon DEF n
    <2> QED
        BY <2>6, <2>7, <2>8, Zenon
<1> QED
    BY <1>3, <1>4

\* A suffix of a suffix is a suffix.
LEMMA CutTwice ==
    ASSUME NEW x \in Seq(Nat), NEW i, Cut(x, i), NEW u, Cut(After(x, i), u)
    PROVE  Cut(x, i + u) /\ After(x, i + u) = After(After(x, i), u)
<1> DEFINE n == Len(x)
           y == After(x, i)
           m == Len(y)
           v == After(y, u)
           w == After(x, i + u)
<1>0. n \in Nat
    OBVIOUS
<1>1. i \in 0 .. n /\ (i = 0 \/ x[i] = Dot)
    BY DEF Cut
<1>2. y \in Seq(Nat) /\ m = n - i /\ \A j \in 1 .. n - i : y[j] = x[i + j]
    BY <1>1, AfterIs
<1>3. u \in 0 .. m /\ (u = 0 \/ y[u] = Dot)
    BY DEF Cut
<1>4. v \in Seq(Nat) /\ Len(v) = m - u /\ \A j \in 1 .. m - u : v[j] = y[u + j]
    <2> HIDE DEF y
    <2> QED
        BY <1>2, <1>3, AfterIs
<1> HIDE DEF n, y, m, v
<1>5. i + u \in 0 .. n /\ n - (i + u) = m - u /\ (u = 0 => i + u = i) /\ (u # 0 => u \in 1 .. n - i)
    BY <1>0, <1>1, <1>2, <1>3
<1>6. i + u = 0 \/ x[i + u] = Dot
    BY <1>1, <1>2, <1>3, <1>5
<1>7. Cut(x, i + u)
    BY <1>5, <1>6, Zenon DEF Cut, n
<1>8. w \in Seq(Nat) /\ Len(w) = n - (i + u) /\ \A j \in 1 .. n - (i + u) : w[j] = x[(i + u) + j]
    <2> DEFINE k == i + u
    <2>1. k \in 0 .. n
        BY <1>5
    <2> HIDE DEF k
    <2>2. After(x, k) \in Seq(Nat) /\ Len(After(x, k)) = n - k /\ \A j \in 1 .. n - k : After(x, k)[j] = x[k + j]
        BY <2>1, AfterIs, Zenon DEF n
    <2> QED
        BY <2>2, Zenon DEF k
<1> HIDE DEF w
<1>9. \A j \in 1 .. m - u : u + j \in 1 .. n - i /\ (i + u) + j = i + (u + j)
    BY <1>0, <1>1, <1>2, <1>3
<1>10. ASSUME NEW j \in 1 .. m - u PROVE v[j] = w[j]
    <2>1. u + j \in 1 .. n - i /\ (i + u) + j = i + (u + j) /\ j \in 1 .. n - (i + u)
        BY <1>5, <1>9
    <2>2. v[j] = y[u + j] /\ y[u + j] = x[i + (u + j)] /\ w[j] = x[(i + u) + j]
        BY <1>2, <1>4, <1>8, <2>1, Zenon
    <2> QED
        BY <2>1, <2>2
<1>11. v = w
    BY <1>4, <1>5, <1>8, <1>10, SameSeq
<1> QED
    BY <1>7, <1>11 DEF v, w, y

-----------------------------------------------------------------------------
(* What the engine keeps of the rules added to it: R has them in the order *)
(* of their numbers, each with its list.                                   *)

Forms == {"subtree", "exact", "caret", "hosts", "verbatim"}
Entry == [list : Nat, line : Nat, except : BOOLEAN, form : Forms, off : Nat, len : Nat]
Sourced == [rule : GoodRule, list : Nat]
Keys == [arena : Seq(Nat), offs : Seq(Nat), lens : Seq(Nat), rules : Seq(Nat)]
Wild == [expr : Seq(Nat), rule : Nat, include_subdomains : BOOLEAN]
Buckets == UNION {[D -> Seq(Nat)] : D \in SUBSET Seq(Nat)}

Engine ==
    [store : Seq(Entry), verbatim : Seq(Nat), subtree : Keys, exact : Keys,
     wildcards : Seq(Wild), buckets : Buckets, unanchored : Seq(Nat)]

\* An entry of the store tells its rule.
Tells(s, o) ==
    /\ s.list = o.list /\ s.line = o.rule.line /\ s.except = o.rule.except /\ s.form = Form(o.rule)

\* The text of a rule that cannot be rebuilt, cut to the longest span.
Keeps(s, verbatim, text) ==
    s.form = "verbatim" =>
        /\ s.off + s.len <= Len(verbatim) /\ s.len = Min({Len(text), MaxSpan})
        /\ Slice(verbatim, s.off, s.len) = SubSeq(text, 1, s.len)

Stored(store, verbatim, R) ==
    /\ Len(store) = Len(R)
    /\ \A id \in 1 .. Len(R) : Tells(store[id], R[id]) /\ Keeps(store[id], verbatim, R[id].rule.text)

\* An index has the rules of a kind, and their keys.
FilesSubtree(ix, R) ==
    /\ IsIndex(ix)
    /\ \A id, key : Files(ix, id, key) <=>
          id \in 1 .. Len(R) /\ R[id].rule.kind = "subtree" /\ key = reverse_labels(R[id].rule.name)

FilesExact(ix, R) ==
    /\ IsIndex(ix)
    /\ \A id, key : Files(ix, id, key) <=>
          id \in 1 .. Len(R) /\ R[id].rule.kind = "exact" /\ key = R[id].rule.name

\* A wildcard is that of its rule.
IsWild(w, R) ==
    /\ w.rule \in 1 .. Len(R) /\ R[w.rule].rule.kind = "wildcard"
    /\ w.expr = R[w.rule].rule.name /\ w.include_subdomains = R[w.rule].rule.include_subdomains

\* Where a wildcard is looked for.
Anchored(i, anchor, buckets, unanchored) ==
    IF anchor = <<>> THEN i \in ToSet(unanchored)
    ELSE anchor \in DOMAIN buckets /\ i \in ToSet(buckets[anchor])

FilesWild(wildcards, buckets, unanchored, R) ==
    /\ \A i \in 1 .. Len(wildcards) :
          IsWild(wildcards[i], R) /\ Anchored(i, wildcard_anchor(wildcards[i].expr), buckets, unanchored)
    /\ \A id \in 1 .. Len(R) : R[id].rule.kind = "wildcard" => \E i \in 1 .. Len(wildcards) : wildcards[i].rule = id
    /\ \A i \in ToSet(unanchored) : i \in 1 .. Len(wildcards)
    /\ \A a \in DOMAIN buckets : \A i \in ToSet(buckets[a]) : i \in 1 .. Len(wildcards)

Compiled(e, R) ==
    /\ e \in Engine /\ R \in Seq(Sourced)
    /\ Stored(e.store, e.verbatim, R)
    /\ FilesSubtree(e.subtree, R) /\ FilesExact(e.exact, R)
    /\ FilesWild(e.wildcards, e.buckets, e.unanchored, R)

LEMMA NoneCompiled == Compiled(NoRules, <<>>)
<1>1. /\ NoRules.store = <<>> /\ NoRules.verbatim = <<>> /\ NoRules.subtree = NoKeys /\ NoRules.exact = NoKeys
      /\ NoRules.wildcards = <<>> /\ NoRules.unanchored = <<>> /\ NoRules.buckets = [anchor \in {} |-> <<>>]
    BY DEF NoRules
<1>2. <<>> \in Seq(Sourced) /\ Len(<<>>) = 0 /\ 1 .. 0 = {} /\ ToSet(<<>>) = {}
    BY EmptyIs
<1>3. NoKeys \in Keys
    BY DEF NoKeys, Keys
<1>4. [anchor \in {} |-> <<>>] \in Buckets /\ DOMAIN [anchor \in {} |-> <<>>] = {}
    <2>1. {} \in SUBSET Seq(Nat) /\ [anchor \in {} |-> <<>>] \in [{} -> Seq(Nat)]
        OBVIOUS
    <2> QED
        BY <2>1, Zenon DEF Buckets
<1>5. NoRules \in Engine
    <2>1. <<>> \in Seq(Entry) /\ <<>> \in Seq(Nat) /\ <<>> \in Seq(Wild)
        BY EmptyIs, Zenon
    <2> HIDE DEF NoKeys
    <2> QED
        BY <1>3, <1>4, <2>1, Zenon DEF NoRules, Engine
<1>6. Stored(<<>>, <<>>, <<>>)
    BY <1>2 DEF Stored
<1>7. FilesSubtree(NoKeys, <<>>) /\ FilesExact(NoKeys, <<>>)
    BY <1>2, NoKeysIs, NoKeysFiles, Zenon DEF FilesSubtree, FilesExact
<1>8. FilesWild(<<>>, [anchor \in {} |-> <<>>], <<>>, <<>>)
    BY <1>2, <1>4, Zenon DEF FilesWild
<1> QED
    BY <1>1, <1>2, <1>5, <1>6, <1>7, <1>8, Zenon DEF Compiled

LEMMA RuleIs ==
    ASSUME NEW r \in GoodRule
    PROVE  /\ r.name \in Seq(Nat) /\ r.text \in Seq(Nat) /\ r.line \in Nat /\ r.except \in BOOLEAN
           /\ r.kind \in {"exact", "subtree", "wildcard"} /\ r.include_subdomains \in BOOLEAN
           /\ Len(r.name) \in 1 .. MaxName /\ HasByte(r.name)
           /\ r.kind # "wildcard" => PlainName(r.name) /\ ~r.include_subdomains
           /\ r.except => IsPrefix(<<At, At>>, r.text)
           /\ Form(r) \in Forms
<1>1. /\ r.name \in Seq(Nat) /\ r.text \in Seq(Nat) /\ r.line \in Nat /\ r.except \in BOOLEAN
      /\ r.kind \in Kinds /\ r.include_subdomains \in BOOLEAN
    BY DEF GoodRule
<1>2. /\ Len(r.name) \in 1 .. MaxName /\ HasByte(r.name)
      /\ r.kind # "wildcard" => PlainName(r.name) /\ ~r.include_subdomains
      /\ r.except => IsPrefix(<<At, At>>, r.text)
    BY DEF GoodRule
<1>3. Form(r) \in Forms
    BY Zenon DEF Form, Forms
<1> QED
    BY <1>1, <1>2, <1>3 DEF Kinds

LEMMA KeepsStill ==
    ASSUME NEW s \in Entry, NEW verbatim \in Seq(Nat), NEW more \in Seq(Nat), NEW text, Keeps(s, verbatim, text)
    PROVE  Keeps(s, verbatim \o more, text)
<1> SUFFICES ASSUME s.form = "verbatim"
             PROVE  /\ s.off + s.len <= Len(verbatim \o more) /\ s.len = Min({Len(text), MaxSpan})
                    /\ Slice(verbatim \o more, s.off, s.len) = SubSeq(text, 1, s.len)
    BY Zenon DEF Keeps
<1> DEFINE off == s.off
           len == s.len
<1>1. off \in Nat /\ len \in Nat
    BY DEF Entry
<1>2. /\ off + len <= Len(verbatim) /\ len = Min({Len(text), MaxSpan})
      /\ Slice(verbatim, off, len) = SubSeq(text, 1, len)
    BY Zenon DEF Keeps
<1> HIDE DEF off, len
<1>3. off + len <= Len(verbatim \o more) /\ Slice(verbatim \o more, off, len) = Slice(verbatim, off, len)
    BY <1>1, <1>2, SliceStays, Zenon
<1>4. Slice(verbatim \o more, off, len) = SubSeq(text, 1, len)
    BY <1>2, <1>3
<1> QED
    BY <1>2, <1>3, <1>4 DEF off, len

LEMMA StoredMore ==
    ASSUME NEW store \in Seq(Entry), NEW verbatim \in Seq(Nat), NEW R \in Seq(Sourced), Stored(store, verbatim, R),
           NEW s \in Entry, NEW more \in Seq(Nat), NEW o \in Sourced, Tells(s, o), Keeps(s, verbatim \o more, o.rule.text)
    PROVE  Stored(Append(store, s), verbatim \o more, Append(R, o))
<1> DEFINE n == Len(R)
           T == Append(store, s)
           Q == Append(R, o)
           v == verbatim \o more
<1>1. n \in Nat /\ Len(store) = n
    BY DEF Stored
<1>2. Len(T) = n + 1 /\ T[n + 1] = s /\ \A id \in 1 .. n : T[id] = store[id] /\ store[id] \in Entry
    BY <1>1
<1>3. Len(Q) = n + 1 /\ Q[n + 1] = o /\ \A id \in 1 .. n : Q[id] = R[id]
    BY <1>1
<1>4. \A id \in 1 .. n : Tells(store[id], R[id]) /\ Keeps(store[id], verbatim, R[id].rule.text)
    BY DEF Stored
<1> HIDE DEF n, T, Q
<1>5. \A id \in 1 .. n : Keeps(store[id], v, R[id].rule.text)
    BY <1>2, <1>4, KeepsStill, Zenon
<1> HIDE DEF v
<1>50. Keeps(s, v, o.rule.text)
    BY DEF v
<1>6. \A id \in 1 .. n + 1 : id \in 1 .. n \/ id = n + 1
    BY <1>1
<1>7. ASSUME NEW id \in 1 .. n + 1 PROVE Tells(T[id], Q[id]) /\ Keeps(T[id], v, Q[id].rule.text)
    <2>1. CASE id \in 1 .. n
        BY <1>2, <1>3, <1>4, <1>5, <2>1
    <2>2. CASE id = n + 1
        BY <1>2, <1>3, <1>50, <2>2
    <2> QED
        BY <1>6, <2>1, <2>2, Zenon
<1>8. Stored(T, v, Q)
    BY <1>2, <1>3, <1>7, Zenon DEF Stored
<1> QED
    BY <1>8 DEF T, v, Q

LEMMA LesserIs ==
    ASSUME NEW a \in Nat, NEW b \in Nat
    PROVE  Min({a, b}) \in Nat /\ Min({a, b}) <= a /\ Min({a, b}) <= b /\ Min({a, b}) \in {a, b}
<1>1. {a, b} \in SUBSET Nat /\ {a, b} # {}
    OBVIOUS
<1> DEFINE S == {a, b}
<1>2. Min(S) \in S /\ \A y \in S : Min(S) <= y
    <2> HIDE DEF S
    <2> QED
        BY <1>1, MinIn, Zenon DEF S
<1> QED
    BY <1>2

LEMMA SliceOfAdded ==
    ASSUME NEW s \in Seq(Nat), NEW t \in Seq(Nat), NEW len \in Nat, len <= Len(t)
    PROVE  Len(s) + len <= Len(s \o t) /\ Slice(s \o t, Len(s), len) = SubSeq(t, 1, len)
<1>1. /\ s \o t \in Seq(Nat) /\ Len(s) + len <= Len(s \o t) /\ Len(s) \in Nat
      /\ \A i \in 1 .. len : (s \o t)[Len(s) + i] = t[i]
    OBVIOUS
<1> DEFINE u == Slice(s \o t, Len(s), len)
           v == SubSeq(t, 1, len)
<1>2. u \in Seq(Nat) /\ Len(u) = len /\ \A i \in 1 .. len : u[i] = (s \o t)[Len(s) + i]
    BY <1>1, SliceIs, Zenon
<1>3. v \in Seq(Nat) /\ Len(v) = len /\ \A i \in 1 .. len : v[i] = t[i]
    OBVIOUS
<1> HIDE DEF u, v
<1>4. u = v
    BY <1>1, <1>2, <1>3, SameSeq
<1> QED
    BY <1>1, <1>4 DEF u, v

\* The other parts of an engine stay as they are.
SameIndexes(f, e) ==
    /\ f.subtree = e.subtree /\ f.exact = e.exact /\ f.wildcards = e.wildcards
    /\ f.buckets = e.buckets /\ f.unanchored = e.unanchored

LEMMA PushIs ==
    ASSUME NEW e \in Engine, NEW R \in Seq(Sourced), Stored(e.store, e.verbatim, R), NEW list \in Nat, NEW rule \in GoodRule
    PROVE  LET f == push(e, list, rule)
               o == [rule |-> rule, list |-> list]
           IN  /\ f \in Engine /\ SameIndexes(f, e) /\ Len(f.store) = Len(R) + 1
               /\ Stored(f.store, f.verbatim, Append(R, o))
<1> DEFINE f == push(e, list, rule)
           o == [rule |-> rule, list |-> list]
           kept == Form(rule) = "verbatim"
           len == Min({Len(rule.text), MaxSpan})
           s == [list |-> list, line |-> rule.line, except |-> rule.except, form |-> Form(rule),
                 off |-> IF kept THEN Len(e.verbatim) ELSE 0,
                 len |-> IF kept THEN len ELSE 0]
           more == IF kept THEN rule.text ELSE <<>>
<1>1. /\ e.store \in Seq(Entry) /\ e.verbatim \in Seq(Nat) /\ e.subtree \in Keys /\ e.exact \in Keys
      /\ e.wildcards \in Seq(Wild) /\ e.buckets \in Buckets /\ e.unanchored \in Seq(Nat)
    BY DEF Engine
<1>2. rule.text \in Seq(Nat) /\ rule.line \in Nat /\ rule.except \in BOOLEAN /\ Form(rule) \in Forms
    BY RuleIs
<1>3. len \in Nat /\ len <= Len(rule.text)
    <2>1. Len(rule.text) \in Nat /\ MaxSpan \in Nat
        BY <1>2, FilterAssumption
    <2> QED
        BY <2>1, LesserIs, Zenon
<1>4. more \in Seq(Nat) /\ e.verbatim \o more = IF kept THEN e.verbatim \o rule.text ELSE e.verbatim
    <2>1. e.verbatim \o <<>> = e.verbatim /\ <<>> \in Seq(Nat)
        BY <1>1
    <2> QED
        BY <1>2, <2>1, Zenon
<1>5. s \in Entry
    <2>1. Len(e.verbatim) \in Nat
        BY <1>1
    <2> HIDE DEF len
    <2> QED
        BY <1>2, <1>3, <2>1 DEF Entry
<1>6. s.list = list /\ s.line = rule.line /\ s.except = rule.except /\ s.form = Form(rule)
      /\ (kept => s.off = Len(e.verbatim) /\ s.len = len)
    BY Zenon
<1>7. o \in Sourced /\ o.rule = rule /\ o.list = list
    BY DEF Sourced
<1>8. f = [e EXCEPT !.store = Append(@, s), !.verbatim = IF kept THEN @ \o rule.text ELSE @]
    BY Zenon DEF push
<1> HIDE DEF s, more, len, o, f
<1>9. f.store = Append(e.store, s) /\ f.verbatim = e.verbatim \o more /\ SameIndexes(f, e)
    <2>1. /\ f.store = Append(e.store, s) /\ f.verbatim = IF kept THEN e.verbatim \o rule.text ELSE e.verbatim
          /\ SameIndexes(f, e)
        BY <1>8 DEF SameIndexes, Engine
    <2> QED
        BY <1>4, <2>1, Zenon
<1>10. f.store \in Seq(Entry) /\ f.verbatim \in Seq(Nat)
    <2>1. Append(e.store, s) \in Seq(Entry)
        BY <1>1, <1>5, AppendIs, Zenon
    <2>2. e.verbatim \o more \in Seq(Nat)
        BY <1>1, <1>4, ToSetConcat, Zenon
    <2> QED
        BY <1>9, <2>1, <2>2, Zenon
<1>11. f \in Engine
    <2>1. f \in [store : Seq(Entry), verbatim : Seq(Nat), subtree : Keys, exact : Keys,
                 wildcards : Seq(Wild), buckets : Buckets, unanchored : Seq(Nat)]
        BY <1>8, <1>10 DEF Engine
    <2> QED
        BY <2>1, Zenon DEF Engine
<1>12. Tells(s, o)
    BY <1>6, <1>7, Zenon DEF Tells
<1>13. Keeps(s, e.verbatim \o more, o.rule.text)
    <2>1. CASE ~kept
        BY <1>6, <2>1 DEF Keeps
    <2>2. CASE kept
        <3>1. more = rule.text /\ s.off = Len(e.verbatim) /\ s.len = len
            BY <1>6, <2>2 DEF more
        <3>2. Len(e.verbatim) + len <= Len(e.verbatim \o rule.text)
              /\ Slice(e.verbatim \o rule.text, Len(e.verbatim), len) = SubSeq(rule.text, 1, len)
            BY <1>1, <1>2, <1>3, SliceOfAdded, Zenon
        <3> QED
            BY <1>7, <3>1, <3>2, Zenon DEF Keeps, len
    <2> QED
        BY <2>1, <2>2
<1>14. Stored(f.store, f.verbatim, Append(R, o))
    BY <1>1, <1>4, <1>5, <1>7, <1>9, <1>12, <1>13, StoredMore
<1>15. Len(f.store) = Len(R) + 1
    <2>1. Len(e.store) = Len(R)
        BY DEF Stored
    <2> QED
        BY <1>1, <1>5, <1>9, <2>1
<1> QED
    BY <1>9, <1>11, <1>14, <1>15 DEF f, o

-----------------------------------------------------------------------------
(* Adding a rule.                                                          *)

\* S is R and one more.
More(R, S, o, n) ==
    /\ R \in Seq(Sourced) /\ S \in Seq(Sourced) /\ n \in Nat /\ Len(R) = n /\ Len(S) = n + 1
    /\ S[n + 1] = o /\ n + 1 \in Nat /\ n + 1 \notin 1 .. n
    /\ \A i \in 1 .. n : S[i] = R[i]
    /\ \A i : i \in 1 .. n + 1 <=> i \in 1 .. n \/ i = n + 1

LEMMA MoreIs ==
    ASSUME NEW R \in Seq(Sourced), NEW o \in Sourced
    PROVE  More(R, Append(R, o), o, Len(R))
<1> DEFINE n == Len(R)
           S == Append(R, o)
<1>1. S \in Seq(Sourced) /\ Len(S) = n + 1 /\ S[n + 1] = o /\ \A i \in 1 .. n : S[i] = R[i]
    BY AppendIs
<1>2. n \in Nat
    OBVIOUS
<1> HIDE DEF n
<1>3. n + 1 \in Nat /\ n + 1 \notin 1 .. n /\ \A i : i \in 1 .. n + 1 <=> i \in 1 .. n \/ i = n + 1
    BY <1>2
<1> HIDE DEF S
<1>4. Len(R) = n
    BY DEF n
<1>5. More(R, S, o, n)
    BY <1>1, <1>2, <1>3, <1>4, Zenon DEF More
<1> QED
    BY <1>5, Zenon DEF S, n

LEMMA SubtreeSame ==
    ASSUME NEW R, NEW S, NEW o, NEW n, More(R, S, o, n), NEW ix, FilesSubtree(ix, R), o.rule.kind # "subtree"
    PROVE  FilesSubtree(ix, S)
<1>1. ASSUME NEW id, NEW key
      PROVE  Files(ix, id, key) <=> id \in 1 .. Len(S) /\ S[id].rule.kind = "subtree" /\ key = reverse_labels(S[id].rule.name)
    <2>1. Files(ix, id, key) <=> id \in 1 .. n /\ R[id].rule.kind = "subtree" /\ key = reverse_labels(R[id].rule.name)
        BY Zenon DEF FilesSubtree, More
    <2>2. id \in 1 .. Len(S) <=> id \in 1 .. n \/ id = n + 1
        BY Zenon DEF More
    <2>3. (id \in 1 .. n => S[id] = R[id]) /\ (id = n + 1 => S[id] = o) /\ n + 1 \notin 1 .. n
        BY Zenon DEF More
    <2> QED
        BY <2>1, <2>2, <2>3, Zenon
<1> QED
    BY <1>1, Zenon DEF FilesSubtree

LEMMA SubtreeMore ==
    ASSUME NEW R, NEW S, NEW o, NEW n, More(R, S, o, n), NEW ix, FilesSubtree(ix, R), o.rule.kind = "subtree",
           reverse_labels(o.rule.name) \in Seq(Nat)
    PROVE  FilesSubtree(insert(ix, reverse_labels(o.rule.name), n + 1), S)
<1> DEFINE new == insert(ix, reverse_labels(o.rule.name), n + 1)
<1>0. IsIndex(ix) /\ n + 1 \in Nat
    BY DEF FilesSubtree, More
<1>1. /\ IsIndex(new)
      /\ \A id, k : Files(new, id, k) <=> Files(ix, id, k) \/ (id = n + 1 /\ k = reverse_labels(o.rule.name))
    BY <1>0, InsertFiles, Zenon
<1> HIDE DEF new
<1>2. ASSUME NEW id, NEW key
      PROVE  Files(new, id, key) <=> id \in 1 .. Len(S) /\ S[id].rule.kind = "subtree" /\ key = reverse_labels(S[id].rule.name)
    <2>1. Files(ix, id, key) <=> id \in 1 .. n /\ R[id].rule.kind = "subtree" /\ key = reverse_labels(R[id].rule.name)
        BY Zenon DEF FilesSubtree, More
    <2>2. id \in 1 .. Len(S) <=> id \in 1 .. n \/ id = n + 1
        BY Zenon DEF More
    <2>3. (id \in 1 .. n => S[id] = R[id]) /\ (id = n + 1 => S[id] = o) /\ n + 1 \notin 1 .. n
        BY Zenon DEF More
    <2> QED
        BY <1>1, <2>1, <2>2, <2>3, Zenon
<1>3. FilesSubtree(new, S)
    BY <1>1, <1>2, Zenon DEF FilesSubtree
<1> QED
    BY <1>3 DEF new

LEMMA ExactSame ==
    ASSUME NEW R, NEW S, NEW o, NEW n, More(R, S, o, n), NEW ix, FilesExact(ix, R), o.rule.kind # "exact"
    PROVE  FilesExact(ix, S)
<1>1. ASSUME NEW id, NEW key
      PROVE  Files(ix, id, key) <=> id \in 1 .. Len(S) /\ S[id].rule.kind = "exact" /\ key = S[id].rule.name
    <2>1. Files(ix, id, key) <=> id \in 1 .. n /\ R[id].rule.kind = "exact" /\ key = R[id].rule.name
        BY Zenon DEF FilesExact, More
    <2>2. id \in 1 .. Len(S) <=> id \in 1 .. n \/ id = n + 1
        BY Zenon DEF More
    <2>3. (id \in 1 .. n => S[id] = R[id]) /\ (id = n + 1 => S[id] = o) /\ n + 1 \notin 1 .. n
        BY Zenon DEF More
    <2> QED
        BY <2>1, <2>2, <2>3, Zenon
<1> QED
    BY <1>1, Zenon DEF FilesExact

LEMMA ExactMore ==
    ASSUME NEW R, NEW S, NEW o, NEW n, More(R, S, o, n), NEW ix, FilesExact(ix, R), o.rule.kind = "exact",
           o.rule.name \in Seq(Nat)
    PROVE  FilesExact(insert(ix, o.rule.name, n + 1), S)
<1> DEFINE new == insert(ix, o.rule.name, n + 1)
<1>0. IsIndex(ix) /\ n + 1 \in Nat
    BY DEF FilesExact, More
<1>1. /\ IsIndex(new)
      /\ \A id, k : Files(new, id, k) <=> Files(ix, id, k) \/ (id = n + 1 /\ k = o.rule.name)
    BY <1>0, InsertFiles, Zenon
<1> HIDE DEF new
<1>2. ASSUME NEW id, NEW key
      PROVE  Files(new, id, key) <=> id \in 1 .. Len(S) /\ S[id].rule.kind = "exact" /\ key = S[id].rule.name
    <2>1. Files(ix, id, key) <=> id \in 1 .. n /\ R[id].rule.kind = "exact" /\ key = R[id].rule.name
        BY Zenon DEF FilesExact, More
    <2>2. id \in 1 .. Len(S) <=> id \in 1 .. n \/ id = n + 1
        BY Zenon DEF More
    <2>3. (id \in 1 .. n => S[id] = R[id]) /\ (id = n + 1 => S[id] = o) /\ n + 1 \notin 1 .. n
        BY Zenon DEF More
    <2> QED
        BY <1>1, <2>1, <2>2, <2>3, Zenon
<1>3. FilesExact(new, S)
    BY <1>1, <1>2, Zenon DEF FilesExact
<1> QED
    BY <1>3 DEF new

LEMMA WildStill ==
    ASSUME NEW R, NEW S, NEW o, NEW n, More(R, S, o, n), NEW w, IsWild(w, R)
    PROVE  IsWild(w, S)
<1>1. w.rule \in 1 .. n /\ w.rule \in 1 .. Len(S) /\ S[w.rule] = R[w.rule]
    BY Zenon DEF IsWild, More
<1> QED
    BY <1>1, Zenon DEF IsWild

LEMMA WildSame ==
    ASSUME NEW R, NEW S, NEW o, NEW n, More(R, S, o, n), NEW w, NEW b, NEW u, FilesWild(w, b, u, R),
           o.rule.kind # "wildcard"
    PROVE  FilesWild(w, b, u, S)
<1>1. \A i \in 1 .. Len(w) : IsWild(w[i], S)
    BY WildStill, Zenon DEF FilesWild
<1>2. ASSUME NEW id \in 1 .. Len(S), S[id].rule.kind = "wildcard"
      PROVE  \E i \in 1 .. Len(w) : w[i].rule = id
    <2>1. id \in 1 .. Len(R) /\ S[id] = R[id]
        BY <1>2, Zenon DEF More
    <2> QED
        BY <1>2, <2>1, Zenon DEF FilesWild
<1> QED
    BY <1>1, <1>2, Zenon DEF FilesWild

\* One more wildcard has been filed under its anchor.
Wider(b, u, B, U, anchor, idx) ==
    /\ B \in Buckets /\ U \in Seq(Nat)
    /\ \A i, a : Anchored(i, a, b, u) => Anchored(i, a, B, U)
    /\ Anchored(idx, anchor, B, U)
    /\ \A i \in ToSet(U) : i \in ToSet(u) \/ i = idx
    /\ \A a \in DOMAIN B : \A i \in ToSet(B[a]) : (a \in DOMAIN b /\ i \in ToSet(b[a])) \/ i = idx

LEMMA WiderLoose ==
    ASSUME NEW b \in Buckets, NEW u \in Seq(Nat), NEW idx \in Nat
    PROVE  Wider(b, u, b, Append(u, idx), <<>>, idx)
<1> DEFINE U == Append(u, idx)
<1>1. U \in Seq(Nat) /\ ToSet(U) = ToSet(u) \cup {idx}
    BY ToSetAppend
<1> HIDE DEF U
<1>2. \A i, a : Anchored(i, a, b, u) => Anchored(i, a, b, U)
    BY <1>1, Zenon DEF Anchored
<1>3. Anchored(idx, <<>>, b, U)
    BY <1>1, Zenon DEF Anchored
<1>4. Wider(b, u, b, U, <<>>, idx)
    BY <1>1, <1>2, <1>3, Zenon DEF Wider
<1> QED
    BY <1>4 DEF U

LEMMA WiderBucket ==
    ASSUME NEW b \in Buckets, NEW u \in Seq(Nat), NEW idx \in Nat, NEW anchor \in Seq(Nat), anchor # <<>>,
           NEW bucket, bucket = IF anchor \in DOMAIN b THEN b[anchor] ELSE <<>>
    PROVE  Wider(b, u, [a \in DOMAIN b \cup {anchor} |-> IF a = anchor THEN Append(bucket, idx) ELSE b[a]], u,
                 anchor, idx)
<1> DEFINE B == [a \in DOMAIN b \cup {anchor} |-> IF a = anchor THEN Append(bucket, idx) ELSE b[a]]
           D == DOMAIN b
<1>0. PICK E \in SUBSET Seq(Nat) : b \in [E -> Seq(Nat)]
    BY Zenon DEF Buckets
<1>1. D \in SUBSET Seq(Nat) /\ \A a \in D : b[a] \in Seq(Nat)
    BY <1>0
<1>2. bucket \in Seq(Nat)
    <2>1. <<>> \in Seq(Nat)
        BY EmptyIs, Zenon
    <2> QED
        BY <1>1, <2>1, Zenon
<1>3. Append(bucket, idx) \in Seq(Nat) /\ ToSet(Append(bucket, idx)) = ToSet(bucket) \cup {idx}
    <2>1. \A s \in Seq(Nat), x \in Nat : Append(s, x) \in Seq(Nat) /\ ToSet(Append(s, x)) = ToSet(s) \cup {x}
        BY ToSetAppend
    <2> QED
        BY <1>2, <2>1, Zenon
<1>4. DOMAIN B = D \cup {anchor} /\ B[anchor] = Append(bucket, idx) /\ \A a \in D : a # anchor => B[a] = b[a]
    BY Zenon
<1>5. B \in Buckets
    <2>1. D \cup {anchor} \in SUBSET Seq(Nat)
        BY <1>1
    <2>2. B \in [D \cup {anchor} -> Seq(Nat)]
        BY <1>1, <1>3, Zenon
    <2> HIDE DEF B
    <2> QED
        BY <2>1, <2>2, Zenon DEF Buckets
<1>6. ToSet(<<>>) = {}
    BY EmptyIs
<1> HIDE DEF B
<1>7. ASSUME NEW i, NEW a, Anchored(i, a, b, u) PROVE Anchored(i, a, B, u)
    <2>1. CASE a = <<>>
        BY <1>7, <2>1, Zenon DEF Anchored
    <2>2. CASE a # <<>>
        <3>1. a \in D /\ i \in ToSet(b[a])
            BY <1>7, <2>2, Zenon DEF Anchored
        <3>2. a \in DOMAIN B /\ i \in ToSet(B[a])
            <4>1. CASE a = anchor
                <5>1. bucket = b[a]
                    BY <3>1, <4>1, Zenon
                <5> QED
                    BY <1>3, <1>4, <3>1, <4>1, <5>1, Zenon
            <4>2. CASE a # anchor
                BY <1>4, <3>1, <4>2, Zenon
            <4> QED
                BY <4>1, <4>2
        <3> QED
            BY <2>2, <3>2, Zenon DEF Anchored
    <2> QED
        BY <2>1, <2>2
<1>8. Anchored(idx, anchor, B, u)
    BY <1>3, <1>4, Zenon DEF Anchored
<1>9. ASSUME NEW a \in DOMAIN B, NEW i \in ToSet(B[a])
      PROVE  (a \in D /\ i \in ToSet(b[a])) \/ i = idx
    <2>1. CASE a = anchor
        <3>1. i \in ToSet(bucket) \/ i = idx
            BY <1>3, <1>4, <1>9, <2>1, Zenon
        <3>2. CASE anchor \in D
            BY <2>1, <3>1, <3>2, Zenon
        <3>3. CASE anchor \notin D
            <4>1. bucket = <<>>
                BY <3>3, Zenon
            <4> QED
                BY <1>6, <3>1, <4>1, Zenon
        <3> QED
            BY <3>2, <3>3
    <2>2. CASE a # anchor
        BY <1>4, <1>9, <2>2, Zenon
    <2> QED
        BY <2>1, <2>2
<1>10. Wider(b, u, B, u, anchor, idx)
    BY <1>5, <1>7, <1>8, <1>9, Zenon DEF Wider
<1> QED
    BY <1>10 DEF B

LEMMA WildMore ==
    ASSUME NEW R, NEW S, NEW o, NEW n, More(R, S, o, n), NEW w \in Seq(Wild), NEW b, NEW u, FilesWild(w, b, u, R),
           NEW new \in Wild, IsWild(new, S), new.rule = n + 1,
           NEW B, NEW U, Wider(b, u, B, U, wildcard_anchor(new.expr), Len(w) + 1)
    PROVE  FilesWild(Append(w, new), B, U, S)
<1> DEFINE m == Len(w)
           W == Append(w, new)
<1>1. Len(W) = m + 1 /\ W[m + 1] = new /\ \A i \in 1 .. m : W[i] = w[i]
    BY AppendIs
<1>2. m \in Nat
    OBVIOUS
<1>20. m = Len(w)
    OBVIOUS
<1> HIDE DEF m, W
<1>3. \A i : i \in 1 .. m + 1 <=> i \in 1 .. m \/ i = m + 1
    BY <1>2
<1>4. ASSUME NEW i \in 1 .. Len(W)
      PROVE  IsWild(W[i], S) /\ Anchored(i, wildcard_anchor(W[i].expr), B, U)
    <2>1. CASE i \in 1 .. m
        <3>1. W[i] = w[i] /\ IsWild(w[i], R) /\ Anchored(i, wildcard_anchor(w[i].expr), b, u)
            BY <1>1, <1>20, <2>1, Zenon DEF FilesWild
        <3>2. IsWild(w[i], S)
            BY <3>1, WildStill, Zenon
        <3>3. Anchored(i, wildcard_anchor(w[i].expr), B, U)
            BY <3>1, Zenon DEF Wider
        <3> QED
            BY <3>1, <3>2, <3>3, Zenon
    <2>2. CASE i = m + 1
        <3>1. Anchored(m + 1, wildcard_anchor(new.expr), B, U)
            BY <1>20, Zenon DEF Wider
        <3> QED
            BY <1>1, <2>2, <3>1, Zenon
    <2> QED
        BY <1>1, <1>3, <2>1, <2>2, Zenon
<1>5. ASSUME NEW id \in 1 .. Len(S), S[id].rule.kind = "wildcard"
      PROVE  \E i \in 1 .. Len(W) : W[i].rule = id
    <2>1. id \in 1 .. n \/ id = n + 1
        BY Zenon DEF More
    <2>2. CASE id \in 1 .. n
        <3>1. id \in 1 .. Len(R) /\ S[id] = R[id]
            BY <2>2, Zenon DEF More
        <3>2. PICK i \in 1 .. m : w[i].rule = id
            BY <1>5, <1>20, <3>1, Zenon DEF FilesWild
        <3> QED
            BY <1>1, <1>3, <3>2, Zenon
    <2>3. CASE id = n + 1
        BY <1>1, <1>3, <2>3, Zenon
    <2> QED
        BY <2>1, <2>2, <2>3
<1>6. \A i \in ToSet(U) : i \in 1 .. Len(W)
    BY <1>1, <1>3, <1>20, Zenon DEF FilesWild, Wider
<1>7. \A a \in DOMAIN B : \A i \in ToSet(B[a]) : i \in 1 .. Len(W)
    BY <1>1, <1>3, <1>20, Zenon DEF FilesWild, Wider
<1>8. FilesWild(W, B, U, S)
    BY <1>4, <1>5, <1>6, <1>7, Zenon DEF FilesWild
<1> QED
    BY <1>8 DEF W

LEMMA SubtreeReplaced ==
    ASSUME NEW e \in Engine, NEW ix \in Keys
    PROVE  LET g == [e EXCEPT !.subtree = ix]
           IN  /\ g \in Engine /\ g.subtree = ix /\ g.exact = e.exact /\ g.store = e.store /\ g.verbatim = e.verbatim
               /\ g.wildcards = e.wildcards /\ g.buckets = e.buckets /\ g.unanchored = e.unanchored
BY DEF Engine

LEMMA ExactReplaced ==
    ASSUME NEW e \in Engine, NEW ix \in Keys
    PROVE  LET g == [e EXCEPT !.exact = ix]
           IN  /\ g \in Engine /\ g.exact = ix /\ g.subtree = e.subtree /\ g.store = e.store /\ g.verbatim = e.verbatim
               /\ g.wildcards = e.wildcards /\ g.buckets = e.buckets /\ g.unanchored = e.unanchored
BY DEF Engine

WildsReplaced(e, w, b, u) ==
    LET g == [e EXCEPT !.wildcards = w, !.buckets = b, !.unanchored = u]
    IN  /\ g \in Engine /\ g.subtree = e.subtree /\ g.exact = e.exact /\ g.store = e.store /\ g.verbatim = e.verbatim
        /\ g.wildcards = w /\ g.buckets = b /\ g.unanchored = u

LEMMA WildReplaced ==
    ASSUME NEW e \in Engine, NEW w \in Seq(Wild), NEW b \in Buckets, NEW u \in Seq(Nat)
    PROVE  WildsReplaced(e, w, b, u)
BY DEF Engine, WildsReplaced

\* An engine whose store is one rule ahead of its indexes.
Ahead(e, R, S, o, n) ==
    /\ More(R, S, o, n) /\ e \in Engine
    /\ Stored(e.store, e.verbatim, S)
    /\ FilesSubtree(e.subtree, R) /\ FilesExact(e.exact, R)
    /\ FilesWild(e.wildcards, e.buckets, e.unanchored, R)

LEMMA PushedAhead ==
    ASSUME NEW e, NEW R, Compiled(e, R), NEW list \in Nat, NEW rule \in GoodRule
    PROVE  LET o == [rule |-> rule, list |-> list]
           IN  /\ Ahead(push(e, list, rule), R, Append(R, o), o, Len(R))
               /\ Len(push(e, list, rule).store) = Len(R) + 1
<1> DEFINE f == push(e, list, rule)
           o == [rule |-> rule, list |-> list]
           S == Append(R, o)
<1>1. /\ e \in Engine /\ R \in Seq(Sourced) /\ Stored(e.store, e.verbatim, R)
      /\ FilesSubtree(e.subtree, R) /\ FilesExact(e.exact, R)
      /\ FilesWild(e.wildcards, e.buckets, e.unanchored, R)
    BY Zenon DEF Compiled
<1>2. f \in Engine /\ SameIndexes(f, e) /\ Len(f.store) = Len(R) + 1 /\ Stored(f.store, f.verbatim, S)
    BY <1>1, PushIs
<1>3. o \in Sourced
    BY DEF Sourced
<1>4. More(R, S, o, Len(R))
    BY <1>1, <1>3, MoreIs, Zenon
<1> HIDE DEF f, S, o
<1>5. Ahead(f, R, S, o, Len(R))
    BY <1>1, <1>2, <1>4, Zenon DEF Ahead, SameIndexes
<1> QED
    BY <1>2, <1>5 DEF f, S, o

LEMMA SubtreeCompiled ==
    ASSUME NEW e, NEW R, NEW S, NEW o, NEW n, Ahead(e, R, S, o, n), o.rule.kind = "subtree",
           reverse_labels(o.rule.name) \in Seq(Nat)
    PROVE  Compiled([e EXCEPT !.subtree = insert(@, reverse_labels(o.rule.name), n + 1)], S)
<1> DEFINE ix == insert(e.subtree, reverse_labels(o.rule.name), n + 1)
           g == [e EXCEPT !.subtree = ix]
<1>1. /\ More(R, S, o, n) /\ e \in Engine
      /\ Stored(e.store, e.verbatim, S)
      /\ FilesSubtree(e.subtree, R) /\ FilesExact(e.exact, R)
      /\ FilesWild(e.wildcards, e.buckets, e.unanchored, R)
    BY Zenon DEF Ahead
<1>2. FilesSubtree(ix, S)
    BY <1>1, SubtreeMore, Zenon
<1>3. o.rule.kind # "exact" /\ o.rule.kind # "wildcard"
    OBVIOUS
<1>4. FilesExact(e.exact, S)
    BY <1>1, <1>3, ExactSame, Zenon
<1>5. FilesWild(e.wildcards, e.buckets, e.unanchored, S)
    BY <1>1, <1>3, WildSame, Zenon
<1> HIDE DEF ix
<1>6. ix \in Keys
    BY <1>2, Zenon DEF FilesSubtree, IsIndex, Keys
<1>7. /\ g \in Engine /\ g.subtree = ix /\ g.exact = e.exact /\ g.store = e.store /\ g.verbatim = e.verbatim
      /\ g.wildcards = e.wildcards /\ g.buckets = e.buckets /\ g.unanchored = e.unanchored
    BY <1>1, <1>6, SubtreeReplaced
<1>8. S \in Seq(Sourced)
    BY <1>1, Zenon DEF More
<1>9. [e EXCEPT !.subtree = insert(@, reverse_labels(o.rule.name), n + 1)] = g
    BY Zenon DEF ix
<1> HIDE DEF g
<1>10. Compiled(g, S)
    BY <1>1, <1>2, <1>4, <1>5, <1>7, <1>8, Zenon DEF Compiled
<1> QED
    BY <1>9, <1>10, Zenon

LEMMA ExactCompiled ==
    ASSUME NEW e, NEW R, NEW S, NEW o, NEW n, Ahead(e, R, S, o, n), o.rule.kind = "exact",
           o.rule.name \in Seq(Nat)
    PROVE  Compiled([e EXCEPT !.exact = insert(@, o.rule.name, n + 1)], S)
<1> DEFINE ix == insert(e.exact, o.rule.name, n + 1)
           g == [e EXCEPT !.exact = ix]
<1>1. /\ More(R, S, o, n) /\ e \in Engine
      /\ Stored(e.store, e.verbatim, S)
      /\ FilesSubtree(e.subtree, R) /\ FilesExact(e.exact, R)
      /\ FilesWild(e.wildcards, e.buckets, e.unanchored, R)
    BY Zenon DEF Ahead
<1>2. FilesExact(ix, S)
    BY <1>1, ExactMore, Zenon
<1>3. o.rule.kind # "subtree" /\ o.rule.kind # "wildcard"
    OBVIOUS
<1>4. FilesSubtree(e.subtree, S)
    BY <1>1, <1>3, SubtreeSame, Zenon
<1>5. FilesWild(e.wildcards, e.buckets, e.unanchored, S)
    BY <1>1, <1>3, WildSame, Zenon
<1> HIDE DEF ix
<1>6. ix \in Keys
    BY <1>2, Zenon DEF FilesExact, IsIndex, Keys
<1>7. /\ g \in Engine /\ g.exact = ix /\ g.subtree = e.subtree /\ g.store = e.store /\ g.verbatim = e.verbatim
      /\ g.wildcards = e.wildcards /\ g.buckets = e.buckets /\ g.unanchored = e.unanchored
    BY <1>1, <1>6, ExactReplaced
<1>8. S \in Seq(Sourced)
    BY <1>1, Zenon DEF More
<1>9. [e EXCEPT !.exact = insert(@, o.rule.name, n + 1)] = g
    BY Zenon DEF ix
<1> HIDE DEF g
<1>10. Compiled(g, S)
    BY <1>1, <1>2, <1>4, <1>5, <1>7, <1>8, Zenon DEF Compiled
<1> QED
    BY <1>9, <1>10, Zenon

LEMMA WildcardCompiled ==
    ASSUME NEW e, NEW R, NEW S, NEW o, NEW n, Ahead(e, R, S, o, n), NEW rule \in GoodRule, o.rule = rule,
           rule.kind = "wildcard"
    PROVE  Compiled(PushWildcard(e, rule, n + 1), S)
<1> DEFINE anchor == wildcard_anchor(rule.name)
           idx == Len(e.wildcards) + 1
           bucket == IF anchor \in DOMAIN e.buckets THEN e.buckets[anchor] ELSE <<>>
           new == [expr |-> rule.name, rule |-> n + 1, include_subdomains |-> rule.include_subdomains]
           W == Append(e.wildcards, new)
           B == IF anchor = <<>> THEN e.buckets
                ELSE [a \in DOMAIN e.buckets \cup {anchor} |-> IF a = anchor THEN Append(bucket, idx) ELSE e.buckets[a]]
           U == IF anchor = <<>> THEN Append(e.unanchored, idx) ELSE e.unanchored
           g == [e EXCEPT !.wildcards = W, !.buckets = B, !.unanchored = U]
<1>1. /\ More(R, S, o, n) /\ e \in Engine
      /\ Stored(e.store, e.verbatim, S)
      /\ FilesSubtree(e.subtree, R) /\ FilesExact(e.exact, R)
      /\ FilesWild(e.wildcards, e.buckets, e.unanchored, R)
    BY Zenon DEF Ahead
<1>2. e.wildcards \in Seq(Wild) /\ e.buckets \in Buckets /\ e.unanchored \in Seq(Nat)
    BY <1>1 DEF Engine
<1>3. rule.name \in Seq(Nat) /\ rule.include_subdomains \in BOOLEAN
    BY RuleIs
<1>4. n + 1 \in Nat /\ S[n + 1] = o /\ n + 1 \in 1 .. Len(S) /\ S \in Seq(Sourced)
    BY <1>1, Zenon DEF More
<1>5. new \in Wild /\ new.expr = rule.name /\ new.rule = n + 1 /\ new.include_subdomains = rule.include_subdomains
    BY <1>3, <1>4 DEF Wild
<1>6. anchor \in Seq(Nat) /\ idx \in Nat
    BY <1>2, <1>3, AnchorIs
<1>7. PushWildcard(e, rule, n + 1) = g
    BY Zenon DEF PushWildcard
<1> HIDE DEF new, anchor, idx, bucket, W
<1>8. Wider(e.buckets, e.unanchored, B, U, anchor, idx)
    <2>1. CASE anchor = <<>>
        <3>1. B = e.buckets /\ U = Append(e.unanchored, idx)
            BY <2>1, Zenon
        <3>2. Wider(e.buckets, e.unanchored, e.buckets, Append(e.unanchored, idx), <<>>, idx)
            BY <1>2, <1>6, WiderLoose, Zenon
        <3> HIDE DEF B, U
        <3> QED
            BY <2>1, <3>1, <3>2, Zenon
    <2>2. CASE anchor # <<>>
        <3> DEFINE C == [a \in DOMAIN e.buckets \cup {anchor} |-> IF a = anchor THEN Append(bucket, idx) ELSE e.buckets[a]]
        <3>1. B = C /\ U = e.unanchored
            BY <2>2, Zenon
        <3>3. bucket = IF anchor \in DOMAIN e.buckets THEN e.buckets[anchor] ELSE <<>>
            BY DEF bucket
        <3>2. Wider(e.buckets, e.unanchored, C, e.unanchored, anchor, idx)
            BY <1>2, <1>6, <2>2, <3>3, WiderBucket, Zenon
        <3> HIDE DEF B, U, C
        <3> QED
            BY <3>1, <3>2, Zenon
    <2> QED
        BY <2>1, <2>2
<1> HIDE DEF B, U
<1>9. IsWild(new, S)
    BY <1>4, <1>5, Zenon DEF IsWild
<1>10. FilesWild(W, B, U, S)
    <2>1. Wider(e.buckets, e.unanchored, B, U, wildcard_anchor(new.expr), Len(e.wildcards) + 1)
        BY <1>5, <1>8, Zenon DEF anchor, idx
    <2>2. FilesWild(Append(e.wildcards, new), B, U, S)
        BY <1>1, <1>2, <1>5, <1>9, <2>1, WildMore, Zenon
    <2> QED
        BY <2>2 DEF W
<1>11. W \in Seq(Wild) /\ B \in Buckets /\ U \in Seq(Nat)
    <2>1. W \in Seq(Wild)
        BY <1>2, <1>5, AppendIs, Zenon DEF W
    <2> QED
        BY <1>8, <2>1, Zenon DEF Wider
<1>12. /\ g \in Engine /\ g.subtree = e.subtree /\ g.exact = e.exact /\ g.store = e.store /\ g.verbatim = e.verbatim
       /\ g.wildcards = W /\ g.buckets = B /\ g.unanchored = U
    <2>1. \A w \in Seq(Wild), b \in Buckets, u \in Seq(Nat) : WildsReplaced(e, w, b, u)
        BY <1>1, WildReplaced, Zenon
    <2>2. WildsReplaced(e, W, B, U)
        BY <1>11, <2>1, Zenon
    <2> QED
        BY <2>2, Zenon DEF WildsReplaced
<1>13. FilesSubtree(e.subtree, S) /\ FilesExact(e.exact, S)
    <2>1. o.rule.kind # "subtree" /\ o.rule.kind # "exact"
        OBVIOUS
    <2>2. FilesSubtree(e.subtree, S)
        BY <1>1, <2>1, SubtreeSame, Zenon
    <2>3. FilesExact(e.exact, S)
        BY <1>1, <2>1, ExactSame, Zenon
    <2> QED
        BY <2>2, <2>3
<1> HIDE DEF g
<1>14. Compiled(g, S)
    BY <1>1, <1>4, <1>10, <1>12, <1>13, Zenon DEF Compiled
<1> QED
    BY <1>7, <1>14, Zenon

LEMMA RuleCompiled ==
    ASSUME NEW e, NEW R, Compiled(e, R), NEW list \in Nat, NEW rule \in GoodRule
    PROVE  Compiled(add_rule(e, list, rule), Append(R, [rule |-> rule, list |-> list]))
<1> DEFINE f == push(e, list, rule)
           o == [rule |-> rule, list |-> list]
           S == Append(R, o)
           n == Len(R)
           g == add_rule(e, list, rule)
<1>1. Ahead(f, R, S, o, n) /\ Len(f.store) = n + 1
    BY PushedAhead
<1>2. /\ rule.name \in Seq(Nat) /\ rule.kind \in {"exact", "subtree", "wildcard"} /\ Len(rule.name) # 0
      /\ rule.kind # "wildcard" => rule.name[Len(rule.name)] # Dot
    BY RuleIs DEF PlainName
<1>3. o.rule = rule
    OBVIOUS
<1>4. g = IF rule.kind = "wildcard" THEN PushWildcard(f, rule, n + 1)
          ELSE IF rule.kind = "subtree"
          THEN [f EXCEPT !.subtree = insert(@, reverse_labels(o.rule.name), n + 1)]
          ELSE [f EXCEPT !.exact = insert(@, o.rule.name, n + 1)]
    BY <1>1, <1>3, Zenon DEF add_rule
<1> HIDE DEF f, o, S, n, g
<1>5. CASE rule.kind = "wildcard"
    BY <1>1, <1>3, <1>4, <1>5, WildcardCompiled, Zenon DEF g, S, o
<1>6. CASE rule.kind = "subtree"
    <2>1. rule.kind # "wildcard" /\ reverse_labels(rule.name) \in Seq(Nat)
        <3>1. rule.kind # "wildcard"
            BY <1>6
        <3> QED
            BY <1>2, <3>1, ReverseLabelsIs, Zenon
    <2>2. g = [f EXCEPT !.subtree = insert(@, reverse_labels(o.rule.name), n + 1)]
        BY <1>4, <1>6, <2>1, Zenon
    <2>3. Compiled([f EXCEPT !.subtree = insert(@, reverse_labels(o.rule.name), n + 1)], S)
        BY <1>1, <1>3, <1>6, <2>1, SubtreeCompiled, Zenon
    <2> QED
        BY <2>2, <2>3, Zenon DEF g, S, o
<1>7. CASE rule.kind = "exact"
    <2>1. rule.kind # "wildcard" /\ rule.kind # "subtree"
        BY <1>7
    <2>2. g = [f EXCEPT !.exact = insert(@, o.rule.name, n + 1)]
        BY <1>4, <2>1, Zenon
    <2>3. Compiled([f EXCEPT !.exact = insert(@, o.rule.name, n + 1)], S)
        BY <1>1, <1>2, <1>3, <1>7, ExactCompiled, Zenon
    <2> QED
        BY <2>2, <2>3, Zenon DEF g, S, o
<1> QED
    BY <1>2, <1>5, <1>6, <1>7, Zenon

\* The first n rules of a list.
OfList(list, rules, n) == {[rule |-> rules[k], list |-> list] : k \in 1 .. n}

\* A list can be added to an engine with the rules R.
Takes(e, R, list, rules) ==
    \E S : /\ Compiled(AddedOf(e, list, rules)[Len(rules)], S)
           /\ ToSet(S) = ToSet(R) \cup OfList(list, rules, Len(rules))

LEMMA ListCompiled ==
    ASSUME NEW e, NEW R, Compiled(e, R), NEW list \in Nat, NEW rules \in Seq(GoodRule)
    PROVE  Takes(e, R, list, rules)
<1> DEFINE f == AddedOf(e, list, rules)
           L == Len(rules)
           Added(n) == \E S : Compiled(f[n], S) /\ ToSet(S) = ToSet(R) \cup OfList(list, rules, n)
           P == {n \in 0 .. L : Added(n)}
<1>0. L \in Nat
    OBVIOUS
<1>1. f[0] = AddedOne(e, list, rules, f, 0) /\ \A n \in 1 .. L : f[n] = AddedOne(e, list, rules, f, n)
    BY <1>0, AddedOfSteps, Zenon
<1>20. \A n \in 1 .. L : rules[n] \in GoodRule
    BY ElementIs
<1> HIDE DEF f, L
<1>2. f[0] = e /\ \A n \in 1 .. L : f[n] = add_rule(f[n - 1], list, rules[n])
    <2>1. \A n \in 1 .. L : n # 0
        OBVIOUS
    <2> QED
        BY <1>1, <2>1, Zenon DEF AddedOne
<1>3. 0 \in P
    <2>1. OfList(list, rules, 0) = {}
        BY DEF OfList
    <2>2. Added(0)
        BY <1>2, <2>1, Zenon
    <2> QED
        BY <1>0, <2>2
<1>4. ASSUME NEW n \in 1 .. L, n - 1 \in P PROVE n \in P
    <2> DEFINE o == [rule |-> rules[n], list |-> list]
    <2>1. PICK S : Compiled(f[n - 1], S) /\ ToSet(S) = ToSet(R) \cup OfList(list, rules, n - 1)
        BY <1>4
    <2>2. Compiled(f[n], Append(S, o))
        BY <1>2, <1>20, <2>1, RuleCompiled, Zenon
    <2>3. S \in Seq(Sourced) /\ o \in Sourced
        <3>1. S \in Seq(Sourced)
            BY <2>1, Zenon DEF Compiled
        <3> QED
            BY <1>20, <3>1 DEF Sourced
    <2>4. ToSet(Append(S, o)) = ToSet(S) \cup {o}
        <3> HIDE DEF o
        <3>1. \A s \in Seq(Sourced), x \in Sourced : ToSet(Append(s, x)) = ToSet(s) \cup {x}
            BY ToSetAppend
        <3> QED
            BY <2>3, <3>1, Zenon
    <2>5. OfList(list, rules, n) = OfList(list, rules, n - 1) \cup {o}
        <3>1. \A k : k \in 1 .. n <=> k \in 1 .. n - 1 \/ k = n
            BY <1>0
        <3> DEFINE A == 1 .. n
                   B == 1 .. n - 1
                   at(k) == [rule |-> rules[k], list |-> list]
        <3>2. o = at(n)
            OBVIOUS
        <3> HIDE DEF A, B, at, o
        <3>3. \A k : k \in A <=> k \in B \/ k = n
            BY <3>1 DEF A, B
        <3>4. {at(k) : k \in A} = {at(k) : k \in B} \cup {o}
            BY <3>2, <3>3
        <3> QED
            BY <3>4 DEF OfList, A, B, at
    <2> HIDE DEF o
    <2>6. Added(n)
        <3>1. ToSet(Append(S, o)) = ToSet(R) \cup OfList(list, rules, n)
            BY <2>1, <2>4, <2>5
        <3> QED
            BY <2>2, <3>1, Zenon
    <2>7. n \in 0 .. L
        BY <1>0
    <2> HIDE DEF Added
    <2> QED
        BY <2>6, <2>7, Zenon
<1>5. 0 .. L \subseteq P
    <2> HIDE DEF P
    <2> QED
        BY <1>0, <1>3, <1>4, UpTo, Zenon
<1>6. L \in P
    <2>1. L \in 0 .. L
        BY <1>0
    <2> QED
        BY <1>5, <2>1, Zenon
<1> QED
    BY <1>6, Zenon DEF f, L, Takes

-----------------------------------------------------------------------------
(* The engine that is built.                                               *)

SameRule(s, t) == s.list = t.list /\ s.line = t.line /\ s.except = t.except /\ s.form = t.form

\* An entry has been given the place of its key.
PlacedAt(s, id, ix) ==
    \E i \in 1 .. Len(ix.rules) : ix.rules[i] = id /\ s.off = ix.offs[i] /\ s.len = ix.lens[i]

MayBePlaced(s, a, b) ==
    LET t == [s EXCEPT !.off = a, !.len = b]
    IN  t \in Entry /\ SameRule(t, s) /\ t.off = a /\ t.len = b

LEMMA OnePlaced ==
    ASSUME NEW s \in Entry, NEW a \in Nat, NEW b \in Nat
    PROVE  MayBePlaced(s, a, b)
BY DEF Entry, SameRule, MayBePlaced

\* What an entry may become.
Moves(t, s, id, ix, forms) ==
    /\ t \in Entry /\ SameRule(t, s)
    /\ s.form \notin forms => t = s
    /\ s.form \in forms => PlacedAt(t, id, ix)

LEMMA RelocatedIs ==
    ASSUME NEW store \in Seq(Entry), NEW ix, IsIndex(ix), NEW forms,
           \A id \in 1 .. Len(store) : store[id].form \in forms => \E i \in 1 .. Len(ix.rules) : ix.rules[i] = id
    PROVE  /\ Relocated(store, ix, forms) \in Seq(Entry) /\ Len(Relocated(store, ix, forms)) = Len(store)
           /\ \A id \in 1 .. Len(store) : Moves(Relocated(store, ix, forms)[id], store[id], id, ix, forms)
<1> DEFINE at(id) == CHOOSE i \in DOMAIN ix.rules : ix.rules[i] = id
           one(id) == IF store[id].form \in forms
                      THEN [store[id] EXCEPT !.off = ix.offs[at(id)], !.len = ix.lens[at(id)]]
                      ELSE store[id]
           N == Len(store)
           new == [id \in 1 .. N |-> one(id)]
<1>0. N \in Nat /\ DOMAIN store = 1 .. N /\ DOMAIN ix.rules = 1 .. Len(ix.rules)
    BY DEF IsIndex
<1>1. Relocated(store, ix, forms) = new
    BY <1>0, Zenon DEF Relocated
<1>2. ASSUME NEW id \in 1 .. N PROVE Moves(one(id), store[id], id, ix, forms)
    <2>1. store[id] \in Entry
        BY ElementIs
    <2>2. CASE store[id].form \notin forms
        <3>1. one(id) = store[id]
            BY <2>2, Zenon
        <3> HIDE DEF one
        <3>2. SameRule(store[id], store[id])
            BY DEF SameRule
        <3> QED
            BY <2>1, <2>2, <3>1, <3>2, Zenon DEF Moves
    <2>3. CASE store[id].form \in forms
        <3> DEFINE i == at(id)
                   a == ix.offs[i]
                   b == ix.lens[i]
                   t == [store[id] EXCEPT !.off = a, !.len = b]
        <3>1. \E j \in DOMAIN ix.rules : ix.rules[j] = id
            BY <1>0, <2>3, Zenon
        <3>2. i \in DOMAIN ix.rules /\ ix.rules[i] = id
            BY <3>1, Zenon
        <3>3. one(id) = t
            BY <2>3, Zenon
        <3> HIDE DEF i, one
        <3>4. i \in 1 .. Len(ix.rules)
            BY <1>0, <3>2, Zenon
        <3>5. a \in Nat /\ b \in Nat
            BY <3>4, KeyIs
        <3>6. t \in Entry /\ SameRule(t, store[id]) /\ t.off = a /\ t.len = b
            <4>1. MayBePlaced(store[id], a, b)
                BY <2>1, <3>5, OnePlaced, Zenon
            <4> QED
                BY <4>1, Zenon DEF MayBePlaced
        <3> HIDE DEF t
        <3>7. PlacedAt(t, id, ix)
            BY <3>2, <3>4, <3>6, Zenon DEF PlacedAt
        <3> QED
            BY <2>3, <3>3, <3>6, <3>7, Zenon DEF Moves
    <2> QED
        BY <2>2, <2>3
<1> HIDE DEF one, N
<1>3. \A id \in 1 .. N : new[id] = one(id)
    OBVIOUS
<1>4. \A id \in 1 .. N : one(id) \in Entry
    BY <1>2, Zenon DEF Moves
<1>5. new \in Seq(Entry) /\ Len(new) = N
    BY <1>0, <1>4
<1> HIDE DEF new
<1>6. \A id \in 1 .. N : Moves(new[id], store[id], id, ix, forms)
    BY <1>2, <1>3, Zenon
<1> QED
    BY <1>1, <1>5, <1>6, Zenon DEF N

LEMMA FormIs ==
    ASSUME NEW r \in GoodRule
    PROVE  /\ Form(r) = "subtree" => r.kind = "subtree"
           /\ Form(r) \in {"exact", "caret", "hosts"} => r.kind = "exact"
<1>1. r.kind \in {"exact", "subtree", "wildcard"}
    BY RuleIs
<1>2. r.kind = "subtree" => Form(r) \in {"subtree", "verbatim"}
    BY Zenon DEF Form
<1>3. r.kind = "wildcard" => Form(r) = "verbatim"
    <2>1. r.kind = "wildcard" => r.kind # "subtree"
        OBVIOUS
    <2> QED
        BY <2>1, Zenon DEF Form
<1>4. r.kind = "exact" => Form(r) \in {"exact", "caret", "hosts", "verbatim"}
    <2>1. r.kind = "exact" => r.kind # "subtree" /\ r.kind # "wildcard"
        OBVIOUS
    <2> QED
        BY <2>1, Zenon DEF Form
<1> QED
    BY <1>1, <1>2, <1>3, <1>4

\* An entry whose text is rebuilt has the place of its key.
Borrows(s, subtree, exact, rule) ==
    /\ s.form = "subtree" => Slice(subtree.arena, s.off, s.len) = reverse_labels(rule.name)
    /\ s.form \in {"exact", "caret", "hosts"} => Slice(exact.arena, s.off, s.len) = rule.name

Built(e, R) ==
    /\ Compiled(e, R)
    /\ KeysInOrder(e.subtree) /\ KeysInOrder(e.exact)
    /\ \A id \in 1 .. Len(R) : Borrows(e.store[id], e.subtree, e.exact, R[id].rule)

LEMMA PlacedFiles ==
    ASSUME NEW ix, NEW s, NEW id, PlacedAt(s, id, ix)
    PROVE  Files(ix, id, Slice(ix.arena, s.off, s.len))
<1>1. PICK i \in 1 .. Len(ix.rules) : ix.rules[i] = id /\ s.off = ix.offs[i] /\ s.len = ix.lens[i]
    BY Zenon DEF PlacedAt
<1>2. KeyAt(ix, i) = Slice(ix.arena, s.off, s.len)
    BY <1>1, Zenon DEF KeyAt
<1> QED
    BY <1>1, <1>2, Zenon DEF Files

LEMMA EntryBuilt ==
    ASSUME NEW R, NEW id \in 1 .. Len(R), NEW A, FilesSubtree(A, R), NEW B, FilesExact(B, R),
           NEW s, NEW t, NEW u, Moves(t, s, id, A, {"subtree"}), Moves(u, t, id, B, {"exact", "caret", "hosts"}),
           NEW v, Tells(s, R[id]), Keeps(s, v, R[id].rule.text)
    PROVE  Tells(u, R[id]) /\ Keeps(u, v, R[id].rule.text) /\ Borrows(u, A, B, R[id].rule)
<1> DEFINE form == s.form
<1>1. SameRule(t, s) /\ SameRule(u, t)
    BY Zenon DEF Moves
<1>2. /\ u.list = s.list /\ u.line = s.line /\ u.except = s.except /\ u.form = form /\ t.form = form
    BY <1>1, Zenon DEF SameRule
<1>3. Tells(u, R[id])
    BY <1>2, Zenon DEF Tells
<1>4. (form # "subtree" => t = s) /\ (form = "subtree" => PlacedAt(t, id, A))
    BY Zenon DEF Moves
<1>5. /\ (form \notin {"exact", "caret", "hosts"} => u = t)
      /\ (form \in {"exact", "caret", "hosts"} => PlacedAt(u, id, B))
    BY <1>2, Zenon DEF Moves
<1> HIDE DEF form
<1>6. Keeps(u, v, R[id].rule.text)
    <2>1. CASE form = "verbatim"
        <3>1. form # "subtree" /\ form \notin {"exact", "caret", "hosts"}
            BY <2>1
        <3> QED
            BY <1>4, <1>5, <3>1, Zenon
    <2>2. CASE form # "verbatim"
        BY <1>2, <2>2, Zenon DEF Keeps
    <2> QED
        BY <2>1, <2>2
<1>7. ASSUME form = "subtree" PROVE Slice(A.arena, u.off, u.len) = reverse_labels(R[id].rule.name)
    <2>1. form \notin {"exact", "caret", "hosts"}
        BY <1>7
    <2>2. u = t /\ PlacedAt(u, id, A)
        BY <1>4, <1>5, <1>7, <2>1, Zenon
    <2>3. Files(A, id, Slice(A.arena, u.off, u.len))
        BY <2>2, PlacedFiles, Zenon
    <2> QED
        BY <2>3, Zenon DEF FilesSubtree
<1>8. ASSUME form \in {"exact", "caret", "hosts"} PROVE Slice(B.arena, u.off, u.len) = R[id].rule.name
    <2>2. PlacedAt(u, id, B)
        BY <1>5, <1>8, Zenon
    <2>3. Files(B, id, Slice(B.arena, u.off, u.len))
        BY <2>2, PlacedFiles, Zenon
    <2> QED
        BY <2>3, Zenon DEF FilesExact
<1>9. Borrows(u, A, B, R[id].rule)
    BY <1>2, <1>7, <1>8, Zenon DEF Borrows
<1> QED
    BY <1>3, <1>6, <1>9

LEMMA FiledIs ==
    ASSUME NEW ix, NEW id, NEW key, Files(ix, id, key)
    PROVE  \E i \in 1 .. Len(ix.rules) : ix.rules[i] = id
BY Zenon DEF Files

Finished(e, st, A, B) ==
    LET g == [e EXCEPT !.subtree = A, !.exact = B, !.store = st]
    IN  /\ g \in Engine /\ g.subtree = A /\ g.exact = B /\ g.store = st /\ g.verbatim = e.verbatim
        /\ g.wildcards = e.wildcards /\ g.buckets = e.buckets /\ g.unanchored = e.unanchored

LEMMA FinishedIs ==
    ASSUME NEW e \in Engine, NEW st \in Seq(Entry), NEW A \in Keys, NEW B \in Keys
    PROVE  Finished(e, st, A, B)
BY DEF Engine, Finished

LEMMA FinishBuilt ==
    ASSUME NEW e, NEW R, Compiled(e, R), NEW so \in Orders(e.subtree), NEW eo \in Orders(e.exact)
    PROVE  Built(finish(e, Sorted(e.subtree, so), Sorted(e.exact, eo)), R)
<1> DEFINE A == Sorted(e.subtree, so)
           B == Sorted(e.exact, eo)
           ef == {"exact", "caret", "hosts"}
           st1 == Relocated(e.store, A, {"subtree"})
           st2 == Relocated(st1, B, ef)
           N == Len(R)
           g == [e EXCEPT !.subtree = A, !.exact = B, !.store = st2]
<1>1. /\ e \in Engine /\ R \in Seq(Sourced) /\ Stored(e.store, e.verbatim, R)
      /\ FilesSubtree(e.subtree, R) /\ FilesExact(e.exact, R)
      /\ FilesWild(e.wildcards, e.buckets, e.unanchored, R)
    BY Zenon DEF Compiled
<1>2. e.store \in Seq(Entry) /\ Len(e.store) = N
    <2>1. e.store \in Seq(Entry)
        BY <1>1 DEF Engine
    <2> QED
        BY <1>1, <2>1, Zenon DEF Stored
<1>3. IsIndex(A) /\ KeysInOrder(A) /\ FilesSubtree(A, R)
    <2>1. IsIndex(e.subtree)
        BY <1>1, Zenon DEF FilesSubtree
    <2>2. IsIndex(A) /\ KeysInOrder(A) /\ \A id, k : Files(A, id, k) <=> Files(e.subtree, id, k)
        BY <2>1, SortedFiles, Zenon
    <2> HIDE DEF A
    <2> QED
        BY <1>1, <2>2, Zenon DEF FilesSubtree
<1>4. IsIndex(B) /\ KeysInOrder(B) /\ FilesExact(B, R)
    <2>1. IsIndex(e.exact)
        BY <1>1, Zenon DEF FilesExact
    <2>2. IsIndex(B) /\ KeysInOrder(B) /\ \A id, k : Files(B, id, k) <=> Files(e.exact, id, k)
        BY <2>1, SortedFiles, Zenon
    <2> HIDE DEF B
    <2> QED
        BY <1>1, <2>2, Zenon DEF FilesExact
<1>5. finish(e, A, B) = g
    BY Zenon DEF finish
<1> HIDE DEF A, B
<1>6. ASSUME NEW id \in 1 .. N
      PROVE  /\ e.store[id].form = "subtree" => \E i \in 1 .. Len(A.rules) : A.rules[i] = id
             /\ e.store[id].form \in ef => \E i \in 1 .. Len(B.rules) : B.rules[i] = id
    <2>1. R[id] \in Sourced
        BY <1>1, ElementIs, Zenon
    <2>2. R[id].rule \in GoodRule
        BY <2>1 DEF Sourced
    <2>3. e.store[id].form = Form(R[id].rule)
        BY <1>1, Zenon DEF Stored, Tells
    <2>4. ASSUME e.store[id].form = "subtree" PROVE \E i \in 1 .. Len(A.rules) : A.rules[i] = id
        <3>1. R[id].rule.kind = "subtree"
            BY <2>2, <2>3, <2>4, FormIs, Zenon
        <3>2. Files(A, id, reverse_labels(R[id].rule.name))
            BY <1>3, <3>1, Zenon DEF FilesSubtree
        <3> QED
            BY <3>2, FiledIs, Zenon
    <2>5. ASSUME e.store[id].form \in ef PROVE \E i \in 1 .. Len(B.rules) : B.rules[i] = id
        <3>1. R[id].rule.kind = "exact"
            BY <2>2, <2>3, <2>5, FormIs, Zenon
        <3>2. Files(B, id, R[id].rule.name)
            BY <1>4, <3>1, Zenon DEF FilesExact
        <3> QED
            BY <3>2, FiledIs, Zenon
    <2> QED
        BY <2>4, <2>5
<1>7. /\ st1 \in Seq(Entry) /\ Len(st1) = N
      /\ \A id \in 1 .. N : Moves(st1[id], e.store[id], id, A, {"subtree"})
    <2>1. \A id \in 1 .. Len(e.store) : e.store[id].form \in {"subtree"} => \E i \in 1 .. Len(A.rules) : A.rules[i] = id
        BY <1>2, <1>6
    <2>2. /\ st1 \in Seq(Entry) /\ Len(st1) = Len(e.store)
          /\ \A id \in 1 .. Len(e.store) : Moves(st1[id], e.store[id], id, A, {"subtree"})
        BY <1>2, <1>3, <2>1, RelocatedIs, Zenon
    <2> QED
        BY <1>2, <2>2, Zenon
<1> HIDE DEF st1, ef
<1>8. /\ st2 \in Seq(Entry) /\ Len(st2) = N
      /\ \A id \in 1 .. N : Moves(st2[id], st1[id], id, B, ef)
    <2>1. \A id \in 1 .. Len(st1) : st1[id].form \in ef => \E i \in 1 .. Len(B.rules) : B.rules[i] = id
        <3>1. \A id \in 1 .. N : st1[id].form = e.store[id].form
            BY <1>7, Zenon DEF Moves, SameRule
        <3> QED
            BY <1>6, <1>7, <3>1, Zenon
    <2>2. /\ st2 \in Seq(Entry) /\ Len(st2) = Len(st1)
          /\ \A id \in 1 .. Len(st1) : Moves(st2[id], st1[id], id, B, ef)
        BY <1>4, <1>7, <2>1, RelocatedIs, Zenon
    <2> QED
        BY <1>7, <2>2, Zenon
<1> HIDE DEF st2
<1>9. \A id \in 1 .. N : /\ Tells(st2[id], R[id]) /\ Keeps(st2[id], e.verbatim, R[id].rule.text)
                         /\ Borrows(st2[id], A, B, R[id].rule)
    <2> TAKE id \in 1 .. N
    <2>1. Moves(st1[id], e.store[id], id, A, {"subtree"}) /\ Moves(st2[id], st1[id], id, B, {"exact", "caret", "hosts"})
        BY <1>7, <1>8, Zenon DEF ef
    <2>2. Tells(e.store[id], R[id]) /\ Keeps(e.store[id], e.verbatim, R[id].rule.text)
        BY <1>1, Zenon DEF Stored
    <2> QED
        BY <1>3, <1>4, <2>1, <2>2, EntryBuilt, Zenon
<1>10. A \in Keys /\ B \in Keys
    BY <1>3, <1>4, Zenon DEF IsIndex, Keys
<1>11. /\ g \in Engine /\ g.subtree = A /\ g.exact = B /\ g.store = st2 /\ g.verbatim = e.verbatim
       /\ g.wildcards = e.wildcards /\ g.buckets = e.buckets /\ g.unanchored = e.unanchored
    <2>1. Finished(e, st2, A, B)
        BY <1>1, <1>8, <1>10, FinishedIs, Zenon
    <2> QED
        BY <2>1, Zenon DEF Finished
<1> HIDE DEF g
<1>12. Stored(g.store, g.verbatim, R)
    BY <1>8, <1>9, <1>11, Zenon DEF Stored, N
<1>13. Compiled(g, R)
    BY <1>1, <1>3, <1>4, <1>11, <1>12, Zenon DEF Compiled
<1>14. Built(g, R)
    BY <1>3, <1>4, <1>9, <1>11, <1>13, Zenon DEF Built, N
<1> QED
    BY <1>5, <1>14, Zenon DEF A, B

-----------------------------------------------------------------------------
(* The rules that a name is compared with.                                 *)

\* Where a rule may start in a name.
StartsAt(rule, name, i) == Cut(name, i) /\ (i = 0 \/ rule.kind = "subtree" \/ rule.include_subdomains)

LEMMA AppliesIs ==
    ASSUME NEW rule, NEW name
    PROVE  Applies(rule, name) <=> \E i : StartsAt(rule, name, i) /\ Means(rule.name, After(name, i))
BY Zenon DEF Applies, StartsAt, Cut, After

LEMMA AfterNothing ==
    ASSUME NEW x \in Seq(Nat)
    PROVE  Cut(x, 0) /\ After(x, 0) = x
<1>1. Len(x) \in Nat
    OBVIOUS
<1>2. 0 \in 0 .. Len(x)
    BY <1>1
<1>3. Cut(x, 0)
    BY <1>2, Zenon DEF Cut
<1> DEFINE y == After(x, 0)
<1>4. y \in Seq(Nat) /\ Len(y) = Len(x) - 0 /\ \A j \in 1 .. Len(x) - 0 : y[j] = x[0 + j]
    BY <1>2, AfterIs, Zenon
<1> HIDE DEF y
<1>5. Len(y) = Len(x) /\ \A j \in 1 .. Len(y) : y[j] = x[j]
    BY <1>1, <1>4
<1>6. y = x
    BY <1>4, <1>5, SameSeq
<1> QED
    BY <1>3, <1>6 DEF y

LEMMA AfterCut ==
    ASSUME NEW x \in Seq(Nat), NEW i, Cut(x, i)
    PROVE  /\ After(x, i) \in Seq(Nat)
           /\ (\A j \in 1 .. Len(x) : x[j] # Star) => \A j \in 1 .. Len(After(x, i)) : After(x, i)[j] # Star
<1>1. i \in 0 .. Len(x) /\ Len(x) \in Nat
    BY DEF Cut
<1>2. /\ After(x, i) \in Seq(Nat) /\ Len(After(x, i)) = Len(x) - i
      /\ \A j \in 1 .. Len(x) - i : After(x, i)[j] = x[i + j]
    BY <1>1, AfterIs, Zenon
<1>3. \A j \in 1 .. Len(x) - i : i + j \in 1 .. Len(x)
    BY <1>1
<1> QED
    BY <1>2, <1>3, Zenon

LEMMA ExactApplies ==
    ASSUME NEW rule \in GoodRule, rule.kind = "exact", NEW name \in Seq(Nat)
    PROVE  Applies(rule, name) <=> name = rule.name
<1>1. rule.name \in Seq(Nat) /\ ~rule.include_subdomains /\ \A i \in 1 .. Len(rule.name) : rule.name[i] # Star
    BY RuleIs DEF PlainName
<1>2. \A i : StartsAt(rule, name, i) <=> i = 0
    <2>1. rule.kind # "subtree"
        OBVIOUS
    <2> QED
        BY <1>1, <2>1, AfterNothing, Zenon DEF StartsAt
<1>3. After(name, 0) = name
    BY AfterNothing
<1>4. Means(rule.name, name) <=> name = rule.name
    BY <1>1, PlainMeans, Zenon
<1> QED
    BY <1>2, <1>3, <1>4, AppliesIs, Zenon

LEMMA SubtreeApplies ==
    ASSUME NEW rule \in GoodRule, rule.kind = "subtree", NEW name \in Seq(Nat)
    PROVE  Applies(rule, name) <=> \E i : Cut(name, i) /\ After(name, i) = rule.name
<1>1. rule.name \in Seq(Nat) /\ \A i \in 1 .. Len(rule.name) : rule.name[i] # Star
    BY RuleIs DEF PlainName
<1>2. \A i : StartsAt(rule, name, i) <=> Cut(name, i)
    BY Zenon DEF StartsAt
<1>3. \A i : Cut(name, i) => After(name, i) \in Seq(Nat)
    BY AfterCut, Zenon
<1>4. \A t \in Seq(Nat) : Means(rule.name, t) <=> t = rule.name
    BY <1>1, PlainMeans, Zenon
<1> QED
    BY <1>2, <1>3, <1>4, AppliesIs, Zenon

LEMMA WildcardApplies ==
    ASSUME NEW rule \in GoodRule, rule.kind = "wildcard", NEW name \in Seq(Nat),
           NEW w, w.expr = rule.name, w.include_subdomains = rule.include_subdomains
    PROVE  /\ wildcard_matches(w, name) => Applies(rule, name)
           /\ (\A j \in 1 .. Len(name) : name[j] # Star) => (Applies(rule, name) => wildcard_matches(w, name))
<1>1. rule.name \in Seq(Nat) /\ rule.kind # "subtree"
    BY RuleIs
<1>2. Cut(name, 0) /\ After(name, 0) = name
    BY AfterNothing
<1>3. \A y : y \in ToSet(LabelSuffixes(name)) <=> \E i : Cut(name, i) /\ y = After(name, i)
    BY LabelSuffixesIs, Zenon
<1>4. \A i : Cut(name, i) => After(name, i) \in Seq(Nat)
    BY AfterCut, Zenon
<1>5. \A t \in Seq(Nat) : glob_match(rule.name, t) => Means(rule.name, t)
    BY <1>1, GlobMeans, Zenon
<1>6. ASSUME wildcard_matches(w, name) PROVE Applies(rule, name)
    <2>1. CASE glob_match(w.expr, name)
        <3>1. Means(rule.name, After(name, 0))
            BY <1>2, <1>5, <2>1, Zenon
        <3>2. StartsAt(rule, name, 0)
            BY <1>2, Zenon DEF StartsAt
        <3> QED
            BY <3>1, <3>2, AppliesIs, Zenon
    <2>2. CASE w.include_subdomains /\ \E rest \in ToSet(LabelSuffixes(name)) : rest # name /\ glob_match(w.expr, rest)
        <3>1. PICK rest \in ToSet(LabelSuffixes(name)) : glob_match(w.expr, rest)
            BY <2>2, Zenon
        <3>2. PICK i : Cut(name, i) /\ rest = After(name, i)
            BY <1>3, <3>1, Zenon
        <3>3. StartsAt(rule, name, i)
            BY <2>2, <3>2, Zenon DEF StartsAt
        <3>4. Means(rule.name, After(name, i))
            BY <1>4, <1>5, <3>1, <3>2, Zenon
        <3> QED
            BY <3>3, <3>4, AppliesIs, Zenon
    <2> QED
        BY <1>6, <2>1, <2>2, Zenon DEF wildcard_matches
<1>7. ASSUME \A j \in 1 .. Len(name) : name[j] # Star, Applies(rule, name) PROVE wildcard_matches(w, name)
    <2>1. PICK i : StartsAt(rule, name, i) /\ Means(rule.name, After(name, i))
        BY <1>7, AppliesIs, Zenon
    <2>2. Cut(name, i) /\ (i = 0 \/ rule.include_subdomains)
        BY <1>1, <2>1, Zenon DEF StartsAt
    <2>3. glob_match(w.expr, After(name, i))
        <3>1. After(name, i) \in Seq(Nat) /\ \A j \in 1 .. Len(After(name, i)) : After(name, i)[j] # Star
            BY <1>7, <2>2, AfterCut, Zenon
        <3> QED
            BY <1>1, <2>1, <3>1, GlobMeans, Zenon
    <2>4. CASE After(name, i) = name
        BY <2>3, <2>4, Zenon DEF wildcard_matches
    <2>5. CASE After(name, i) # name
        <3>1. i # 0
            BY <1>2, <2>5, Zenon
        <3>2. After(name, i) \in ToSet(LabelSuffixes(name))
            BY <1>3, <2>2, Zenon
        <3> QED
            BY <2>2, <2>3, <2>5, <3>1, <3>2, Zenon DEF wildcard_matches
    <2> QED
        BY <2>4, <2>5
<1> QED
    BY <1>6, <1>7

LEMMA TriedIs ==
    ASSUME NEW e \in Engine, NEW name \in Seq(Nat)
    PROVE  /\ Tried(e, name) \in Seq(Nat)
           /\ \A i : i \in ToSet(Tried(e, name)) <=>
                 \/ i \in ToSet(e.unanchored)
                 \/ \E y \in ToSet(LabelSuffixes(name)) : y \in DOMAIN e.buckets /\ i \in ToSet(e.buckets[y])
<1> DEFINE ends == LabelSuffixes(name)
           one(y) == IF y \in DOMAIN e.buckets THEN e.buckets[y] ELSE <<>>
           ss == [k \in 1 .. Len(ends) |-> one(ends[k])]
           n == Len(ends)
<1>1. ends \in Seq(Seq(Nat))
    BY LabelSuffixesIs, Zenon
<1>2. e.unanchored \in Seq(Nat) /\ e.buckets \in Buckets
    BY DEF Engine
<1>3. PICK E \in SUBSET Seq(Nat) : e.buckets \in [E -> Seq(Nat)]
    BY <1>2, Zenon DEF Buckets
<1>4. \A y : one(y) \in Seq(Nat)
    <2>1. <<>> \in Seq(Nat)
        BY EmptyIs, Zenon
    <2>2. \A y \in DOMAIN e.buckets : e.buckets[y] \in Seq(Nat)
        BY <1>3
    <2> QED
        BY <2>1, <2>2, Zenon
<1>5. ToSet(<<>>) = {}
    BY EmptyIs
<1>6. \A i, y : i \in ToSet(one(y)) <=> y \in DOMAIN e.buckets /\ i \in ToSet(e.buckets[y])
    BY <1>5, Zenon
<1>7. Tried(e, name) = Concat(ss) \o e.unanchored
    BY Zenon DEF Tried
<1>8. n \in Nat
    BY <1>1
<1>9. \A y : y \in ToSet(ends) <=> \E k \in 1 .. n : ends[k] = y
    BY <1>1, ToSetIs, Zenon
<1> HIDE DEF one, ends, n
<1>10. ss \in Seq(Seq(Nat)) /\ Len(ss) = n /\ \A k \in 1 .. n : ss[k] = one(ends[k])
    BY <1>4, <1>8 DEF n
<1> HIDE DEF ss
<1>11. Concat(ss) \in Seq(Nat) /\ \A x : x \in ToSet(Concat(ss)) <=> \E k \in 1 .. n : x \in ToSet(ss[k])
    <2>1. Concat(ss) \in Seq(Nat) /\ \A x : x \in ToSet(Concat(ss)) <=> \E k \in 1 .. Len(ss) : x \in ToSet(ss[k])
        BY <1>10, ConcatIs, Zenon
    <2> QED
        BY <1>10, <2>1, Zenon
<1>12. Concat(ss) \o e.unanchored \in Seq(Nat)
       /\ ToSet(Concat(ss) \o e.unanchored) = ToSet(Concat(ss)) \cup ToSet(e.unanchored)
    <2>1. \A s \in Seq(Nat), t \in Seq(Nat) : s \o t \in Seq(Nat) /\ ToSet(s \o t) = ToSet(s) \cup ToSet(t)
        BY ToSetConcat
    <2> QED
        BY <1>2, <1>11, <2>1, Zenon
<1>13. \A x : x \in ToSet(Concat(ss)) <=> \E y \in ToSet(ends) : y \in DOMAIN e.buckets /\ x \in ToSet(e.buckets[y])
    <2>1. \A x : \A k \in 1 .. n :
             x \in ToSet(ss[k]) <=> ends[k] \in DOMAIN e.buckets /\ x \in ToSet(e.buckets[ends[k]])
        <3> TAKE x
        <3> TAKE k \in 1 .. n
        <3>1. ss[k] = one(ends[k])
            BY <1>10, Zenon
        <3> QED
            BY <1>6, <3>1, Zenon
    <2>2. ASSUME NEW x, x \in ToSet(Concat(ss))
          PROVE  \E y \in ToSet(ends) : y \in DOMAIN e.buckets /\ x \in ToSet(e.buckets[y])
        <3>1. PICK k \in 1 .. n : x \in ToSet(ss[k])
            BY <1>11, <2>2, Zenon
        <3> QED
            BY <1>9, <2>1, <3>1, Zenon
    <2>3. ASSUME NEW x, NEW y \in ToSet(ends), y \in DOMAIN e.buckets, x \in ToSet(e.buckets[y])
          PROVE  x \in ToSet(Concat(ss))
        <3>1. PICK k \in 1 .. n : ends[k] = y
            BY <1>9, <2>3, Zenon
        <3>2. x \in ToSet(ss[k])
            BY <2>1, <2>3, <3>1, Zenon
        <3> QED
            BY <1>11, <3>2, Zenon
    <2> QED
        BY <2>2, <2>3, Zenon
<1> QED
    BY <1>7, <1>12, <1>13, Zenon DEF ends

\* The rules of the wildcards that match.
WildRules(e, name) ==
    LET tried == Tried(e, name)
        wild == Chosen(tried, {k \in DOMAIN tried : wildcard_matches(e.wildcards[tried[k]], name)})
    IN  [k \in 1 .. Len(wild) |-> e.wildcards[wild[k]].rule]

LEMMA WildRulesAre ==
    ASSUME NEW e \in Engine, NEW R, FilesWild(e.wildcards, e.buckets, e.unanchored, R), NEW name \in Seq(Nat)
    PROVE  /\ WildRules(e, name) \in Seq(Nat)
           /\ \A x : x \in ToSet(WildRules(e, name)) <=>
                 \E i \in ToSet(Tried(e, name)) :
                    /\ i \in 1 .. Len(e.wildcards) /\ wildcard_matches(e.wildcards[i], name)
                    /\ e.wildcards[i].rule = x
<1> DEFINE tried == Tried(e, name)
           w == e.wildcards
           K == {k \in DOMAIN tried : wildcard_matches(w[tried[k]], name)}
           wild == Chosen(tried, K)
           n == Len(wild)
           rs == [k \in 1 .. n |-> w[wild[k]].rule]
<1>1. tried \in Seq(Nat) /\ w \in Seq(Wild)
    BY TriedIs DEF Engine
<1>2. \A i \in ToSet(tried) : i \in 1 .. Len(w)
    BY TriedIs, Zenon DEF FilesWild
<1>3. wild \in Seq(Nat) /\ \A x : x \in ToSet(wild) <=> \E k \in (1 .. Len(tried)) \cap K : x = tried[k]
    <2> HIDE DEF K, tried
    <2> QED
        BY <1>1, ChosenIs
<1>4. \A x : x \in ToSet(tried) <=> \E k \in 1 .. Len(tried) : tried[k] = x
    <2> HIDE DEF tried
    <2> QED
        BY <1>1, ToSetIs, Zenon
<1>5. DOMAIN tried = 1 .. Len(tried)
    BY <1>1
<1>6. \A x : x \in ToSet(wild) <=> x \in ToSet(tried) /\ wildcard_matches(w[x], name)
    <2> HIDE DEF tried, wild, w
    <2> QED
        BY <1>3, <1>4, <1>5, Zenon DEF K
<1>7. WildRules(e, name) = rs
    BY Zenon DEF WildRules
<1>8. n \in Nat
    BY <1>3
<1>9. \A x : x \in ToSet(wild) <=> \E k \in 1 .. n : wild[k] = x
    <2> HIDE DEF wild
    <2> QED
        BY <1>3, ToSetIs, Zenon DEF n
<1> HIDE DEF tried, wild, n, w
<1>10. ASSUME NEW k \in 1 .. n PROVE w[wild[k]].rule \in Nat
    <2>1. wild[k] \in 1 .. Len(w)
        BY <1>2, <1>6, <1>9, Zenon
    <2>2. w[wild[k]] \in Wild
        BY <1>1, <2>1, ElementIs, Zenon
    <2> QED
        BY <2>2 DEF Wild
<1>11. rs \in Seq(Nat) /\ Len(rs) = n /\ \A k \in 1 .. n : rs[k] = w[wild[k]].rule
    BY <1>8, <1>10
<1> HIDE DEF rs
<1>12. \A x : x \in ToSet(rs) <=> \E k \in 1 .. n : rs[k] = x
    <2>1. \A x : x \in ToSet(rs) <=> \E k \in 1 .. Len(rs) : rs[k] = x
        BY <1>11, ToSetIs, Zenon
    <2> QED
        BY <1>11, <2>1, Zenon
<1>13. ASSUME NEW x, x \in ToSet(rs)
       PROVE  \E i \in ToSet(tried) : i \in 1 .. Len(w) /\ wildcard_matches(w[i], name) /\ w[i].rule = x
    <2>1. PICK k \in 1 .. n : rs[k] = x
        BY <1>12, <1>13, Zenon
    <2>2. wild[k] \in ToSet(wild)
        BY <1>9, Zenon
    <2>3. wild[k] \in ToSet(tried) /\ wildcard_matches(w[wild[k]], name)
        BY <1>6, <2>2, Zenon
    <2>4. wild[k] \in 1 .. Len(w) /\ w[wild[k]].rule = x
        BY <1>2, <1>11, <2>1, <2>3, Zenon
    <2> QED
        BY <2>3, <2>4, Zenon
<1>14. ASSUME NEW i \in ToSet(tried), wildcard_matches(w[i], name) PROVE w[i].rule \in ToSet(rs)
    <2>1. PICK k \in 1 .. n : wild[k] = i
        BY <1>6, <1>9, <1>14, Zenon
    <2>2. rs[k] = w[i].rule
        BY <1>11, <2>1, Zenon
    <2> QED
        BY <1>12, <2>2, Zenon
<1>15. \A x : x \in ToSet(rs) <=>
          \E i \in ToSet(tried) : i \in 1 .. Len(w) /\ wildcard_matches(w[i], name) /\ w[i].rule = x
    BY <1>13, <1>14, Zenon
<1> QED
    BY <1>7, <1>11, <1>15, Zenon DEF tried, w

\* A wildcard that applies is tried.
LEMMA AppliesIsTried ==
    ASSUME NEW e \in Engine, NEW R, FilesWild(e.wildcards, e.buckets, e.unanchored, R), NEW name \in Seq(Nat),
           NEW i \in 1 .. Len(e.wildcards), NEW rule \in GoodRule, e.wildcards[i].expr = rule.name, Applies(rule, name)
    PROVE  i \in ToSet(Tried(e, name))
<1> DEFINE expr == e.wildcards[i].expr
           anchor == wildcard_anchor(expr)
<1>1. expr \in Seq(Nat)
    BY RuleIs
<1>2. Anchored(i, anchor, e.buckets, e.unanchored)
    BY Zenon DEF FilesWild
<1>3. CASE anchor = <<>>
    <2>1. i \in ToSet(e.unanchored)
        BY <1>2, <1>3, Zenon DEF Anchored
    <2> QED
        BY <2>1, TriedIs, Zenon
<1>4. CASE anchor # <<>>
    <2>1. anchor \in DOMAIN e.buckets /\ i \in ToSet(e.buckets[anchor])
        BY <1>2, <1>4, Zenon DEF Anchored
    <2>2. PICK c : StartsAt(rule, name, c) /\ Means(expr, After(name, c))
        BY AppliesIs, Zenon
    <2>3. Cut(name, c)
        BY <2>2, Zenon DEF StartsAt
    <2>4. After(name, c) \in Seq(Nat)
        BY <2>3, AfterCut, Zenon
    <2>5. PICK u : Cut(After(name, c), u) /\ After(After(name, c), u) = anchor
        <3>1. \A text \in Seq(Nat) : Means(expr, text) /\ wildcard_anchor(expr) # <<>> =>
                 \E u : Cut(text, u) /\ After(text, u) = wildcard_anchor(expr)
            <4> HIDE DEF expr
            <4> QED
                BY <1>1, AnchorIs, Zenon
        <3> QED
            BY <1>4, <2>2, <2>4, <3>1, Zenon
    <2>6. Cut(name, c + u) /\ After(name, c + u) = anchor
        <3>1. Cut(name, c + u) /\ After(name, c + u) = After(After(name, c), u)
            <4>1. Cut(After(name, c), u)
                BY <2>5
            <4> QED
                BY <2>3, <4>1, CutTwice
        <3> QED
            BY <2>5, <3>1, Zenon
    <2>7. anchor \in ToSet(LabelSuffixes(name))
        BY <2>6, LabelSuffixesIs, Zenon
    <2> QED
        BY <2>1, <2>7, TriedIs, Zenon
<1> QED
    BY <1>3, <1>4

\* A rule that is found applies, and the other way round when no byte of the name is a star.
Finds(ids, R, name) ==
    /\ ids \in Seq(Nat)
    /\ \A id \in ToSet(ids) : id \in 1 .. Len(R) /\ Applies(R[id].rule, name)
    /\ (\A j \in 1 .. Len(name) : name[j] # Star) =>
          \A id \in 1 .. Len(R) : Applies(R[id].rule, name) => id \in ToSet(ids)

LEMMA ConsideredIs ==
    ASSUME NEW e, NEW R, Built(e, R), NEW name \in Seq(Nat), Len(name) # 0, name[Len(name)] # Dot
    PROVE  Finds(Considered(e, name), R, name)
<1> DEFINE found == equal_range(e.exact, name)
           rev == ReversedPrefixes(reverse_labels(name))
           under == Under(e.subtree, rev)
           wild == WildRules(e, name)
           ids == (found \o under) \o wild
           T == {"exact", "subtree", "wildcard"}
<1>1. /\ e \in Engine /\ R \in Seq(Sourced)
      /\ FilesSubtree(e.subtree, R) /\ FilesExact(e.exact, R)
      /\ FilesWild(e.wildcards, e.buckets, e.unanchored, R)
      /\ KeysInOrder(e.subtree) /\ KeysInOrder(e.exact)
    BY Zenon DEF Built, Compiled
<1>2. Considered(e, name) = ids
    BY Zenon DEF Considered, WildRules
<1>3. found \in Seq(Nat) /\ \A x : x \in ToSet(found) <=> Files(e.exact, x, name)
    BY <1>1, EqualRangeFiles, Zenon DEF FilesExact
<1>4. rev \in Seq(Seq(Nat))
    <2>1. reverse_labels(name) \in Seq(Nat)
        BY ReverseLabelsIs, Zenon
    <2> QED
        BY <2>1, ReversedPrefixesIs, Zenon
<1>5. under \in Seq(Nat) /\ \A x : x \in ToSet(under) <=> \E key \in ToSet(rev) : Files(e.subtree, x, key)
    BY <1>1, <1>4, UnderIs, Zenon DEF FilesSubtree
<1>6. /\ wild \in Seq(Nat)
      /\ \A x : x \in ToSet(wild) <=>
            \E i \in ToSet(Tried(e, name)) :
               i \in 1 .. Len(e.wildcards) /\ wildcard_matches(e.wildcards[i], name) /\ e.wildcards[i].rule = x
    BY <1>1, WildRulesAre, Zenon
<1> HIDE DEF found, under, wild
<1>7. ids \in Seq(Nat) /\ ToSet(ids) = (ToSet(found) \cup ToSet(under)) \cup ToSet(wild)
    <2>1. \A s \in Seq(Nat), t \in Seq(Nat) : s \o t \in Seq(Nat) /\ ToSet(s \o t) = ToSet(s) \cup ToSet(t)
        BY ToSetConcat
    <2>2. found \o under \in Seq(Nat) /\ ToSet(found \o under) = ToSet(found) \cup ToSet(under)
        BY <1>3, <1>5, <2>1, Zenon
    <2>3. ids \in Seq(Nat) /\ ToSet(ids) = ToSet(found \o under) \cup ToSet(wild)
        BY <1>6, <2>1, <2>2, Zenon
    <2> QED
        BY <2>2, <2>3, Zenon
<1> HIDE DEF ids
<1>8. \A id \in 1 .. Len(R) : R[id].rule \in GoodRule
    <2>1. \A id \in 1 .. Len(R) : R[id] \in Sourced
        BY <1>1, ElementIs, Zenon
    <2> QED
        BY <2>1 DEF Sourced
<1>9. \A id : id \in ToSet(found) <=> id \in 1 .. Len(R) /\ R[id].rule.kind = "exact" /\ Applies(R[id].rule, name)
    <2> TAKE id
    <2>1. id \in ToSet(found) <=> id \in 1 .. Len(R) /\ R[id].rule.kind = "exact" /\ name = R[id].rule.name
        BY <1>1, <1>3, Zenon DEF FilesExact
    <2>2. id \in 1 .. Len(R) /\ R[id].rule.kind = "exact" => (Applies(R[id].rule, name) <=> name = R[id].rule.name)
        BY <1>8, ExactApplies, Zenon
    <2> QED
        BY <2>1, <2>2, Zenon
<1>10. \A id : id \in ToSet(under) <=> id \in 1 .. Len(R) /\ R[id].rule.kind = "subtree" /\ Applies(R[id].rule, name)
    <2> TAKE id
    <2>1. id \in ToSet(under) <=> /\ id \in 1 .. Len(R) /\ R[id].rule.kind = "subtree"
                                  /\ reverse_labels(R[id].rule.name) \in ToSet(rev)
        BY <1>1, <1>5, Zenon DEF FilesSubtree
    <2>2. ASSUME id \in 1 .. Len(R) /\ R[id].rule.kind = "subtree"
          PROVE  Applies(R[id].rule, name) <=> reverse_labels(R[id].rule.name) \in ToSet(rev)
        <3> DEFINE r == R[id].rule
                   d == r.name
        <3>1. r \in GoodRule /\ r.kind = "subtree"
            BY <1>8, <2>2, Zenon
        <3> HIDE DEF r
        <3>2. d \in Seq(Nat) /\ Len(d) # 0 /\ PlainName(d)
            BY <3>1, RuleIs
        <3>3. Applies(r, name) <=> \E i : Cut(name, i) /\ After(name, i) = d
            BY <3>1, SubtreeApplies, Zenon
        <3>4. reverse_labels(d) \in ToSet(rev) <=> \E i : Cut(name, i) /\ After(name, i) = d
            <4> HIDE DEF d
            <4> QED
                BY <3>2, SubtreeFound, Zenon
        <3> QED
            BY <3>3, <3>4, Zenon DEF r
    <2> QED
        BY <2>1, <2>2, Zenon
<1>11. ASSUME NEW id \in ToSet(wild)
       PROVE  id \in 1 .. Len(R) /\ R[id].rule.kind = "wildcard" /\ Applies(R[id].rule, name)
    <2>1. PICK i \in 1 .. Len(e.wildcards) : wildcard_matches(e.wildcards[i], name) /\ e.wildcards[i].rule = id
        BY <1>6, <1>11, Zenon
    <2>2. IsWild(e.wildcards[i], R)
        BY <1>1, Zenon DEF FilesWild
    <2>3. /\ id \in 1 .. Len(R) /\ R[id].rule.kind = "wildcard"
          /\ e.wildcards[i].expr = R[id].rule.name /\ e.wildcards[i].include_subdomains = R[id].rule.include_subdomains
        BY <2>1, <2>2, Zenon DEF IsWild
    <2>4. R[id].rule \in GoodRule
        BY <1>8, <2>3, Zenon
    <2> QED
        BY <2>1, <2>3, <2>4, WildcardApplies, Zenon
<1>12. ASSUME \A j \in 1 .. Len(name) : name[j] # Star, NEW id \in 1 .. Len(R), R[id].rule.kind = "wildcard",
              Applies(R[id].rule, name)
       PROVE  id \in ToSet(wild)
    <2>1. PICK i \in 1 .. Len(e.wildcards) : e.wildcards[i].rule = id
        BY <1>1, <1>12, Zenon DEF FilesWild
    <2>2. IsWild(e.wildcards[i], R)
        BY <1>1, Zenon DEF FilesWild
    <2>3. e.wildcards[i].expr = R[id].rule.name /\ e.wildcards[i].include_subdomains = R[id].rule.include_subdomains
        BY <2>1, <2>2, Zenon DEF IsWild
    <2>4. R[id].rule \in GoodRule
        BY <1>8, Zenon
    <2>5. wildcard_matches(e.wildcards[i], name)
        BY <1>12, <2>3, <2>4, WildcardApplies, Zenon
    <2>6. i \in ToSet(Tried(e, name))
        BY <1>1, <1>12, <2>3, <2>4, AppliesIsTried, Zenon
    <2> QED
        BY <1>6, <2>1, <2>5, <2>6, Zenon
<1>13. \A id \in ToSet(ids) : id \in 1 .. Len(R) /\ Applies(R[id].rule, name)
    BY <1>7, <1>9, <1>10, <1>11, Zenon
<1>14. ASSUME \A j \in 1 .. Len(name) : name[j] # Star, NEW id \in 1 .. Len(R), Applies(R[id].rule, name)
       PROVE  id \in ToSet(ids)
    <2>1. R[id].rule.kind \in {"exact", "subtree", "wildcard"}
        BY <1>8, RuleIs, Zenon
    <2>2. R[id].rule.kind = "exact" \/ R[id].rule.kind = "subtree" \/ R[id].rule.kind = "wildcard"
        BY <2>1, Zenon
    <2>3. id \in ToSet(found) \/ id \in ToSet(under) \/ id \in ToSet(wild)
        BY <1>9, <1>10, <1>12, <1>14, <2>2, Zenon
    <2> QED
        BY <1>7, <2>3, Zenon
<1>15. Finds(ids, R, name)
    BY <1>7, <1>13, <1>14, Zenon DEF Finds
<1> QED
    BY <1>2, <1>15, Zenon

-----------------------------------------------------------------------------
(* What a lookup reports.                                                  *)

\* A text as it is reported: a very long one is cut.
AsWritten(text, full) == text = full \/ (Len(full) > MaxSpan /\ text = SubSeq(full, 1, MaxSpan))

LEMMA CutIsWritten ==
    ASSUME NEW full \in Seq(Nat), NEW len, len = Min({Len(full), MaxSpan})
    PROVE  AsWritten(SubSeq(full, 1, len), full)
<1> DEFINE n == Len(full)
<1>0. n \in Nat /\ MaxSpan \in Nat
    BY FilterAssumption
<1>1. SubSeq(full, 1, n) = full
    OBVIOUS
<1>2. len <= n /\ len <= MaxSpan /\ len \in {n, MaxSpan}
    BY <1>0, LesserIs, Zenon
<1>3. CASE n <= MaxSpan
    <2>1. len = n
        <3> HIDE DEF n
        <3> QED
            BY <1>0, <1>2, <1>3
    <2> QED
        BY <1>1, <2>1, Zenon DEF AsWritten
<1>4. CASE ~(n <= MaxSpan)
    <2>1. len = MaxSpan /\ n > MaxSpan
        <3> HIDE DEF n
        <3> QED
            BY <1>0, <1>2, <1>4
    <2> QED
        BY <2>1, Zenon DEF AsWritten
<1> QED
    BY <1>3, <1>4

LEMMA PrefixBack ==
    ASSUME NEW text \in Seq(Nat), NEW p \in Seq(Nat), IsPrefix(p, text)
    PROVE  p \o StripPrefix(text, p) = text
<1> DEFINE rest == SubSeq(text, Len(p) + 1, Len(text))
           n == Len(text)
           m == Len(p)
           all == p \o rest
<1>1. StripPrefix(text, p) = rest
    BY Zenon DEF StripPrefix
<1>2. m <= n /\ \A i \in 1 .. m : p[i] = text[i]
    <2>1. \A s, t \in Seq(Nat) : IsPrefix(s, t) <=> Len(s) <= Len(t) /\ \A i \in 1 .. Len(s) : s[i] = t[i]
        BY PrefixIs
    <2> QED
        BY <2>1, Zenon
<1>3. m \in Nat /\ n \in Nat
    OBVIOUS
<1>4. rest \in Seq(Nat) /\ Len(rest) = n - m /\ \A i \in 1 .. n - m : rest[i] = text[m + i]
    <2>1. m + 1 \in Nat \ {0} /\ n \in Nat /\ n <= Len(text) /\ m + 1 <= n + 1 /\ n + 1 - (m + 1) = n - m
          /\ \A i \in 1 .. n - m : m + 1 + i - 1 = m + i
        BY <1>2, <1>3
    <2>2. rest \in Seq(Nat) /\ Len(rest) = n + 1 - (m + 1) /\ \A i \in 1 .. Len(rest) : rest[i] = text[m + 1 + i - 1]
        BY <2>1, SubSeqIs
    <2> HIDE DEF rest, n, m
    <2> QED
        BY <2>1, <2>2, Zenon
<1> HIDE DEF rest
<1>5. all \in Seq(Nat) /\ Len(all) = m + (n - m)
      /\ \A i \in 1 .. Len(all) : all[i] = IF i <= m THEN p[i] ELSE rest[i - m]
    BY <1>4
<1> HIDE DEF all, n, m
<1>6. Len(all) = n
    BY <1>3, <1>5
<1>7. ASSUME NEW i \in 1 .. n PROVE all[i] = text[i]
    <2>1. CASE i <= m
        <3>1. i \in 1 .. m
            BY <1>3, <2>1
        <3> QED
            BY <1>2, <1>5, <1>6, <2>1, <3>1, Zenon
    <2>2. CASE ~(i <= m)
        <3>1. i - m \in 1 .. n - m /\ m + (i - m) = i
            BY <1>3, <2>2
        <3>2. all[i] = rest[i - m]
            BY <1>5, <1>6, <2>2, Zenon
        <3>3. rest[i - m] = text[m + (i - m)]
            BY <1>4, <3>1, Zenon
        <3> QED
            BY <3>1, <3>2, <3>3, Zenon
    <2> QED
        BY <2>1, <2>2
<1>8. all = text
    <2>1. Len(all) = Len(text)
        BY <1>6 DEF n
    <2>2. \A i \in 1 .. Len(all) : all[i] = text[i]
        BY <1>6, <1>7
    <2> QED
        BY <1>5, <2>1, <2>2, SameSeq
<1> QED
    BY <1>1, <1>8 DEF all

Marks(except) == IF except THEN <<At, At>> ELSE <<>>
Body(rule) == IF rule.except THEN StripPrefix(rule.text, <<At, At>>) ELSE rule.text

LEMMA MarkedBody ==
    ASSUME NEW rule \in GoodRule
    PROVE  Marks(rule.except) \in Seq(Nat) /\ Marks(rule.except) \o Body(rule) = rule.text
<1>1. rule.text \in Seq(Nat) /\ (rule.except => IsPrefix(<<At, At>>, rule.text))
    BY RuleIs
<1>2. <<At, At>> \in Seq(Nat) /\ <<>> \in Seq(Nat)
    BY DEF At
<1>3. CASE rule.except
    <2>1. Marks(rule.except) = <<At, At>> /\ Body(rule) = StripPrefix(rule.text, <<At, At>>)
        BY <1>3, Zenon DEF Marks, Body
    <2>2. <<At, At>> \o StripPrefix(rule.text, <<At, At>>) = rule.text
        BY <1>1, <1>2, <1>3, PrefixBack, Zenon
    <2> QED
        BY <1>2, <2>1, <2>2, Zenon
<1>4. CASE ~rule.except
    <2>1. Marks(rule.except) = <<>> /\ Body(rule) = rule.text
        BY <1>4, Zenon DEF Marks, Body
    <2>2. <<>> \o rule.text = rule.text
        BY <1>1
    <2> QED
        BY <1>2, <2>1, <2>2, Zenon
<1> QED
    BY <1>3, <1>4

LEMMA FormSays ==
    ASSUME NEW rule \in GoodRule
    PROVE  /\ Form(rule) = "subtree" => Body(rule) = <<Pipe, Pipe>> \o Append(rule.name, Caret)
           /\ Form(rule) = "exact" => Body(rule) = rule.name
           /\ Form(rule) = "caret" => Body(rule) = Append(rule.name, Caret)
           /\ Form(rule) = "hosts" => Body(rule) = HostsZero \o rule.name /\ ~rule.except
<1> DEFINE b == Body(rule)
           sub == b = <<Pipe, Pipe>> \o Append(rule.name, Caret)
           ex == b = rule.name
           ca == b = Append(rule.name, Caret)
           ho == ~rule.except /\ b = HostsZero \o rule.name
           f == Form(rule)
<1>1. f = IF rule.kind = "subtree" THEN IF sub THEN "subtree" ELSE "verbatim"
          ELSE IF rule.kind = "wildcard" THEN "verbatim"
          ELSE IF ex THEN "exact"
          ELSE IF ca THEN "caret"
          ELSE IF ho THEN "hosts"
          ELSE "verbatim"
    BY Zenon DEF Form, Body
<1> HIDE DEF b, f, sub, ex, ca, ho
<1>2. /\ f = "subtree" => sub
      /\ f = "exact" => ex
      /\ f = "caret" => ca
      /\ f = "hosts" => ho
    BY <1>1
<1> QED
    BY <1>2, Zenon DEF b, f, sub, ex, ca, ho

\* The text of an entry with its key.
Text(s, key, verbatim) ==
    LET at == Marks(s.except)
    IN  CASE s.form = "subtree" -> at \o <<Pipe, Pipe>> \o Append(reverse_labels(key), Caret)
          [] s.form = "exact" -> at \o key
          [] s.form = "caret" -> at \o Append(key, Caret)
          [] s.form = "hosts" -> HostsZero \o key
          [] OTHER -> Slice(verbatim, s.off, s.len)

SaysText(s, key, verbatim) ==
    /\ s.form = "subtree" =>
         Text(s, key, verbatim) = (Marks(s.except) \o <<Pipe, Pipe>>) \o Append(reverse_labels(key), Caret)
    /\ s.form = "exact" => Text(s, key, verbatim) = Marks(s.except) \o key
    /\ s.form = "caret" => Text(s, key, verbatim) = Marks(s.except) \o Append(key, Caret)
    /\ s.form = "hosts" => Text(s, key, verbatim) = HostsZero \o key
    /\ s.form = "verbatim" => Text(s, key, verbatim) = Slice(verbatim, s.off, s.len)

LEMMA TextCases ==
    ASSUME NEW s, NEW key, NEW verbatim, s.form \in Forms
    PROVE  SaysText(s, key, verbatim)
<1> DEFINE f == s.form
           a == (Marks(s.except) \o <<Pipe, Pipe>>) \o Append(reverse_labels(key), Caret)
           b == Marks(s.except) \o key
           c == Marks(s.except) \o Append(key, Caret)
           d == HostsZero \o key
           v == Slice(verbatim, s.off, s.len)
           t == Text(s, key, verbatim)
<1>1. t = CASE f = "subtree" -> a [] f = "exact" -> b [] f = "caret" -> c [] f = "hosts" -> d [] OTHER -> v
    BY Zenon DEF Text
<1> HIDE DEF f, a, b, c, d, v, t
<1>2. /\ f = "subtree" => t = a
      /\ f = "exact" => t = b
      /\ f = "caret" => t = c
      /\ f = "hosts" => t = d
      /\ f = "verbatim" => t = v
    BY <1>1
<1> QED
    BY <1>2, Zenon DEF f, a, b, c, d, v, t, SaysText

\* A report tells the rule.
Reports(m, o) ==
    /\ m.kind = IF o.rule.except THEN "Except" ELSE "Block"
    /\ m.list = o.list /\ m.line = o.rule.line /\ AsWritten(m.text, o.rule.text)

LEMMA JoinedIs ==
    ASSUME NEW s \in Seq(Nat), NEW t \in Seq(Nat), NEW u \in Seq(Nat)
    PROVE  (s \o t) \o u = s \o (t \o u)
BY ConcatAssociative, SMTT(30)

\* The text is that of the rule.
LEMMA TextIs ==
    ASSUME NEW rule \in GoodRule, NEW s, s.form = Form(rule), s.except = rule.except, NEW verbatim,
           Keeps(s, verbatim, rule.text), NEW key,
           s.form = "subtree" => key = reverse_labels(rule.name),
           s.form \in {"exact", "caret", "hosts"} => key = rule.name
    PROVE  AsWritten(Text(s, key, verbatim), rule.text)
<1> DEFINE t == Text(s, key, verbatim)
           at == Marks(rule.except)
           name == rule.name
<1>0. s.form \in Forms /\ rule.text \in Seq(Nat) /\ name \in Seq(Nat) /\ Len(name) # 0
    BY RuleIs
<1>1. /\ s.form = "subtree" => t = (at \o <<Pipe, Pipe>>) \o Append(reverse_labels(key), Caret)
      /\ s.form = "exact" => t = at \o key
      /\ s.form = "caret" => t = at \o Append(key, Caret)
      /\ s.form = "hosts" => t = HostsZero \o key
      /\ s.form = "verbatim" => t = Slice(verbatim, s.off, s.len)
    <2>1. Marks(s.except) = at
        BY Zenon
    <2>2. SaysText(s, key, verbatim)
        BY <1>0, TextCases, Zenon
    <2> QED
        BY <2>1, <2>2, Zenon DEF SaysText
<1>2. at \in Seq(Nat) /\ at \o Body(rule) = rule.text
    BY MarkedBody, Zenon
<1>3. /\ s.form = "subtree" => Body(rule) = <<Pipe, Pipe>> \o Append(name, Caret)
      /\ s.form = "exact" => Body(rule) = name
      /\ s.form = "caret" => Body(rule) = Append(name, Caret)
      /\ s.form = "hosts" => Body(rule) = HostsZero \o name /\ ~rule.except
    BY FormSays, Zenon
<1>4. ASSUME t = rule.text PROVE AsWritten(t, rule.text)
    BY <1>4, Zenon DEF AsWritten
<1> HIDE DEF t, at
<1>5. CASE s.form = "subtree"
    <2>1. rule.kind # "wildcard"
        <3>1. rule.kind = "subtree"
            BY <1>5, FormIs, Zenon
        <3> QED
            BY <3>1
    <2>2. PlainName(name)
        BY <2>1, RuleIs, Zenon
    <2>3. reverse_labels(key) = name
        BY <1>0, <1>5, <2>2, ReversedTwice, Zenon
    <2> DEFINE pp == <<Pipe, Pipe>>
               nc == Append(name, Caret)
    <2>4. pp \in Seq(Nat) /\ nc \in Seq(Nat)
        BY <1>0 DEF Pipe, Caret
    <2>5. t = (at \o pp) \o nc /\ Body(rule) = pp \o nc
        BY <1>1, <1>3, <1>5, <2>3, Zenon
    <2> HIDE DEF pp, nc
    <2>6. (at \o pp) \o nc = at \o (pp \o nc)
        BY <1>2, <2>4, JoinedIs, Zenon
    <2> QED
        BY <1>2, <1>4, <2>5, <2>6, Zenon DEF t
<1>6. CASE s.form = "exact"
    BY <1>1, <1>2, <1>3, <1>4, <1>6, Zenon DEF t
<1>7. CASE s.form = "caret"
    BY <1>1, <1>2, <1>3, <1>4, <1>7, Zenon DEF t
<1>8. CASE s.form = "hosts"
    <2>1. Body(rule) = rule.text
        BY <1>3, <1>8, Zenon DEF Body
    <2>2. key = name
        BY <1>8, Zenon
    <2>3. t = HostsZero \o name /\ Body(rule) = HostsZero \o name
        BY <1>1, <1>3, <1>8, <2>2, Zenon
    <2> QED
        BY <1>4, <2>1, <2>3, Zenon DEF t
<1>9. CASE s.form = "verbatim"
    <2>1. s.len = Min({Len(rule.text), MaxSpan}) /\ Slice(verbatim, s.off, s.len) = SubSeq(rule.text, 1, s.len)
        BY <1>9, Zenon DEF Keeps
    <2>2. t = SubSeq(rule.text, 1, s.len)
        BY <1>1, <1>9, <2>1, Zenon
    <2>3. AsWritten(SubSeq(rule.text, 1, s.len), rule.text)
        BY <1>0, <2>1, CutIsWritten, Zenon
    <2> QED
        BY <2>2, <2>3, Zenon DEF t
<1> QED
    BY <1>0, <1>5, <1>6, <1>7, <1>8, <1>9, Zenon DEF Forms

LEMMA MatchedIs ==
    ASSUME NEW e, NEW R, Built(e, R), NEW id \in 1 .. Len(R)
    PROVE  Reports(matched(e, id), R[id]) /\ e.store[id].except = R[id].rule.except
<1> DEFINE s == e.store[id]
           o == R[id]
           key == Slice(IF s.form = "subtree" THEN e.subtree.arena ELSE e.exact.arena, s.off, s.len)
           text == Text(s, key, e.verbatim)
           m == matched(e, id)
<1>1. R \in Seq(Sourced) /\ Stored(e.store, e.verbatim, R) /\ Borrows(s, e.subtree, e.exact, o.rule)
    BY Zenon DEF Built, Compiled
<1>2. o \in Sourced
    BY <1>1, ElementIs, Zenon
<1>3. o.rule \in GoodRule
    BY <1>2 DEF Sourced
<1>4. Tells(s, o) /\ Keeps(s, e.verbatim, o.rule.text)
    BY <1>1, Zenon DEF Stored
<1>5. s.list = o.list /\ s.line = o.rule.line /\ s.except = o.rule.except /\ s.form = Form(o.rule)
    BY <1>4, Zenon DEF Tells
<1>6. m = [kind |-> IF s.except THEN "Except" ELSE "Block", list |-> s.list, line |-> s.line, text |-> text]
    BY Zenon DEF matched, Text, Marks
<1>7. s.form = "subtree" => key = reverse_labels(o.rule.name)
    BY <1>1, Zenon DEF Borrows
<1>8. s.form \in {"exact", "caret", "hosts"} => key = o.rule.name
    <2>1. s.form \in {"exact", "caret", "hosts"} => s.form # "subtree"
        OBVIOUS
    <2> QED
        BY <1>1, <2>1, Zenon DEF Borrows
<1> HIDE DEF key, s, o
<1>9. AsWritten(text, o.rule.text)
    BY <1>3, <1>4, <1>5, <1>7, <1>8, TextIs, Zenon
<1> HIDE DEF text, m
<1>10. m.kind = (IF s.except THEN "Except" ELSE "Block") /\ m.list = s.list /\ m.line = s.line /\ m.text = text
    BY <1>6
<1>11. Reports(m, o)
    BY <1>5, <1>9, <1>10, Zenon DEF Reports
<1> QED
    BY <1>5, <1>11, Zenon DEF m, o, s

\* The first exception, or else the first rule, decides.
LEMMA DecidesIs ==
    ASSUME NEW ids \in Seq(Nat), ids # <<>>, NEW store
    PROVE  LET excepts == Chosen(ids, {k \in DOMAIN ids : store[ids[k]].except})
               h == Head(excepts \o ids)
           IN  h \in ToSet(ids) /\ (store[h].except \/ \A id \in ToSet(ids) : ~store[id].except)
<1> DEFINE K == {k \in DOMAIN ids : store[ids[k]].except}
           excepts == Chosen(ids, K)
           h == Head(excepts \o ids)
<1>1. DOMAIN ids = 1 .. Len(ids) /\ Len(ids) \in Nat \ {0}
    OBVIOUS
<1>2. excepts \in Seq(Nat) /\ \A x : x \in ToSet(excepts) <=> \E i \in (1 .. Len(ids)) \cap K : x = ids[i]
    <2> HIDE DEF K
    <2> QED
        BY ChosenIs
<1>3. \A x : x \in ToSet(ids) <=> \E i \in 1 .. Len(ids) : ids[i] = x
    BY ToSetIs
<1>4. \A x : x \in ToSet(excepts) <=> x \in ToSet(ids) /\ store[x].except
    <2> HIDE DEF excepts
    <2> QED
        BY <1>1, <1>2, <1>3, Zenon DEF K
<1>5. \A s \in Seq(Nat) : s # <<>> => Len(s) \in Nat \ {0} /\ 1 \in 1 .. Len(s) /\ Head(s) = s[1]
    OBVIOUS
<1> HIDE DEF excepts
<1>6. ASSUME excepts = <<>>
      PROVE  h \in ToSet(ids) /\ (store[h].except \/ \A id \in ToSet(ids) : ~store[id].except)
    <2>1. h = Head(ids)
        <3>1. <<>> \o ids = ids
            OBVIOUS
        <3> QED
            BY <1>6, <3>1, Zenon
    <2>2. h \in ToSet(ids)
        <3>1. Len(ids) \in Nat \ {0} /\ 1 \in 1 .. Len(ids) /\ h = ids[1]
            BY <2>1
        <3> QED
            BY <1>3, <3>1, Zenon
    <2>3. ToSet(excepts) = {}
        BY <1>6, EmptyIs
    <2> QED
        BY <1>4, <2>2, <2>3, Zenon
<1>7. ASSUME excepts # <<>>
      PROVE  h \in ToSet(ids) /\ (store[h].except \/ \A id \in ToSet(ids) : ~store[id].except)
    <2>1. Head(excepts \o ids) = Head(excepts)
        <3>1. \A s \in Seq(Nat), u \in Seq(Nat) : s # <<>> => Head(s \o u) = Head(s)
            OBVIOUS
        <3> QED
            BY <1>2, <1>7, <3>1, Zenon
    <2>2. \A x : x \in ToSet(excepts) <=> \E i \in 1 .. Len(excepts) : excepts[i] = x
        BY <1>2, ToSetIs
    <2>3. Head(excepts) \in ToSet(excepts)
        BY <1>2, <1>5, <1>7, <2>2, Zenon
    <2> QED
        BY <1>4, <2>1, <2>3, Zenon
<1> QED
    BY <1>6, <1>7, Zenon DEF excepts

LEMMA NothingForEmpty ==
    ASSUME NEW rule \in GoodRule, NEW name \in Seq(Nat), Len(name) = 0
    PROVE  ~Applies(rule, name)
<1> DEFINE pat == rule.name
<1>1. pat \in Seq(Nat) /\ HasByte(pat)
    BY RuleIs
<1>2. ASSUME NEW i, Cut(name, i), Means(pat, After(name, i)) PROVE FALSE
    <2>1. i = 0
        BY <1>2 DEF Cut
    <2>2. Means(pat, name)
        BY <1>2, <2>1, AfterNothing, Zenon
    <2> HIDE DEF pat
    <2>3. Len(pat) \in Nat /\ 1 \in 1 .. Len(pat) + 1 /\ Len(pat) + 1 - 1 = Len(pat) /\ Len(name) + 1 = 1
        BY <1>1
    <2>4. MatchesAt(pat, name, 1, Len(name) + 1)
        BY <2>2, <2>3, Zenon DEF Means, MatchesAt
    <2>5. \A j \in 1 .. Len(pat) : pat[j] = Star
        BY <1>1, <2>3, <2>4, StarsMatch, Zenon
    <2> QED
        BY <1>1, <2>5, Zenon DEF HasByte
<1> QED
    BY <1>2, AppliesIs, Zenon DEF StartsAt

NoStar(name) == \A j \in 1 .. Len(name) : name[j] # Star

LEMMA LowerNoStar ==
    ASSUME NEW s \in Seq(Nat), ~Contains(s, Star)
    PROVE  NoStar(lower_strip(s))
<1> DEFINE t == StripSuffix(s, Dot)
<1>1. NoStar(s)
    BY DEF Contains, NoStar
<1>2. t \in Seq(Nat) /\ NoStar(t)
    <2>1. CASE EndsWith(s, Dot)
        <3>1. t = Front(s) /\ s # <<>>
            BY <2>1, Zenon DEF StripSuffix, EndsWith
        <3>2. Front(s) = SubSeq(s, 1, Len(s) - 1)
            BY DEF Front
        <3>3. 1 \in Nat \ {0} /\ Len(s) - 1 \in Nat /\ Len(s) - 1 <= Len(s) /\ Len(s) \in Nat \ {0}
            BY <3>1
        <3> DEFINE u == SubSeq(s, 1, Len(s) - 1)
        <3>4. u \in Seq(Nat) /\ Len(u) = Len(s) - 1 /\ \A i \in 1 .. Len(u) : u[i] = s[1 + i - 1]
            <4>1. \A z \in Nat : z <= Len(s) =>
                     /\ SubSeq(s, 1, z) \in Seq(Nat) /\ Len(SubSeq(s, 1, z)) = z
                     /\ \A i \in 1 .. Len(SubSeq(s, 1, z)) : SubSeq(s, 1, z)[i] = s[1 + i - 1]
                OBVIOUS
            <4> QED
                BY <3>3, <4>1, Zenon
        <3> HIDE DEF u
        <3>5. \A i \in 1 .. Len(u) : 1 + i - 1 \in 1 .. Len(s)
            BY <3>3, <3>4
        <3>6. NoStar(u)
            BY <1>1, <3>4, <3>5, Zenon DEF NoStar
        <3> QED
            BY <3>1, <3>2, <3>4, <3>6, Zenon DEF u
    <2>2. CASE ~EndsWith(s, Dot)
        <3>1. t = s
            BY <2>2, Zenon DEF StripSuffix
        <3> QED
            BY <1>1, <3>1, Zenon
    <2> QED
        BY <2>1, <2>2
<1> HIDE DEF t
<1>3. lower_strip(s) = Lowercase(t)
    BY DEF lower_strip, t
<1>4. Lowercase(t) \in Seq(Nat) /\ Len(Lowercase(t)) = Len(t)
    BY <1>2, LowercaseIs, Zenon
<1>5. \A i \in 1 .. Len(t) : Lowercase(t)[i] = IF t[i] \in Uppercase THEN t[i] + 32 ELSE t[i]
    BY <1>2 DEF Lowercase
<1>6. ASSUME NEW i \in 1 .. Len(t) PROVE Lowercase(t)[i] # Star
    <2>1. t[i] \in Nat /\ t[i] # Star
        <3>1. t[i] \in Nat
            BY <1>2, ElementIs, Zenon
        <3> QED
            BY <1>2, <3>1, Zenon DEF NoStar
    <2>2. t[i] \in Uppercase => t[i] + 32 # Star
        <3>1. \A c \in Nat : c \in Uppercase => c + 32 # Star
            BY DEF Uppercase, Star
        <3> QED
            BY <2>1, <3>1, Zenon
    <2> QED
        BY <1>5, <2>1, <2>2, Zenon
<1> QED
    BY <1>3, <1>4, <1>6, Zenon DEF NoStar

\* What a verdict says of the rules.
Found(R, name, id) == id \in 1 .. Len(R) /\ Applies(R[id].rule, name)

Answers(v, R, name) ==
    /\ v = NoMatch \/ \E id : Found(R, name, id) /\ Reports(v, R[id])
    /\ NoStar(name) =>
          /\ Len(name) <= MaxName /\ (\E id : Found(R, name, id) /\ R[id].rule.except) => v.kind = "Except"
          /\ /\ Len(name) <= MaxName /\ \E id : Found(R, name, id)
             /\ ~\E id : Found(R, name, id) /\ R[id].rule.except
             => v.kind = "Block"
          /\ ~(Len(name) <= MaxName) \/ (~\E id : Found(R, name, id)) => v.kind = "NoMatch"

LEMMA NoMatchAnswers ==
    ASSUME NEW R, NEW name, NoStar(name) /\ Len(name) <= MaxName => ~\E id : Found(R, name, id)
    PROVE  Answers(NoMatch, R, name)
<1>1. NoMatch.kind = "NoMatch"
    BY DEF NoMatch
<1> QED
    BY <1>1, Zenon DEF Answers

LEMMA RuleAnswers ==
    ASSUME NEW v, NEW R, NEW name, Len(name) <= MaxName, NEW h, Found(R, name, h), Reports(v, R[h]),
           R[h].rule.except \/ (NoStar(name) => ~\E id : Found(R, name, id) /\ R[id].rule.except)
    PROVE  Answers(v, R, name)
<1>1. v.kind = IF R[h].rule.except THEN "Except" ELSE "Block"
    BY Zenon DEF Reports
<1> QED
    BY <1>1, Zenon DEF Answers

LEMMA VerdictIs ==
    ASSUME NEW e, NEW R, Built(e, R), NEW query \in Seq(Nat), ~EndsWith(lower_strip(query), Dot)
    PROVE  Answers(verdict(e, query), R, lower_strip(query))
<1> DEFINE name == lower_strip(query)
           ids == Considered(e, name)
           excepts == Chosen(ids, {k \in DOMAIN ids : e.store[ids[k]].except})
           h == Head(excepts \o ids)
           v == verdict(e, query)
<1>1. name \in Seq(Nat)
    BY LowerStripIs
<1>2. v = IF Len(name) \notin 1 .. MaxName \/ ids = <<>> THEN NoMatch ELSE matched(e, h)
    BY Zenon DEF verdict
<1>3. R \in Seq(Sourced)
    BY Zenon DEF Built, Compiled
<1>4. \A id \in 1 .. Len(R) : R[id].rule \in GoodRule
    <2>1. \A id \in 1 .. Len(R) : R[id] \in Sourced
        BY <1>3, ElementIs, Zenon
    <2> QED
        BY <2>1 DEF Sourced
<1>5. Len(name) \in Nat /\ MaxName \in Nat
    BY <1>1, ParserAssumption
<1>50. Len(name) # 0 => name[Len(name)] # Dot
    BY <1>1 DEF EndsWith, Last
<1>60. ids # <<>> /\ ids \in Seq(Nat) => h \in ToSet(ids) /\ (e.store[h].except \/ \A id \in ToSet(ids) : ~e.store[id].except)
    BY DecidesIs, Zenon
<1> HIDE DEF name, v, h
<1>6. CASE ~(Len(name) <= MaxName)
    <2>1. v = NoMatch
        <3>1. Len(name) \notin 1 .. MaxName
            BY <1>5, <1>6
        <3> QED
            BY <1>2, <3>1, Zenon
    <2> QED
        BY <1>6, <2>1, NoMatchAnswers, Zenon DEF v, name
<1>7. CASE Len(name) = 0
    <2>1. v = NoMatch
        <3>1. Len(name) \notin 1 .. MaxName
            BY <1>7
        <3> QED
            BY <1>2, <3>1, Zenon
    <2>2. \A id : ~Found(R, name, id)
        BY <1>1, <1>4, <1>7, NothingForEmpty, Zenon DEF Found
    <2> QED
        BY <2>1, <2>2, NoMatchAnswers, Zenon DEF v, name
<1>8. CASE Len(name) # 0 /\ Len(name) <= MaxName
    <2>1. Finds(ids, R, name)
        BY <1>1, <1>8, <1>50, ConsideredIs, Zenon
    <2> HIDE DEF ids
    <2>2. /\ ids \in Seq(Nat) /\ (\A id \in ToSet(ids) : Found(R, name, id))
          /\ NoStar(name) => \A id : Found(R, name, id) => id \in ToSet(ids)
        BY <2>1, Zenon DEF Finds, Found, NoStar
    <2>3. Len(name) \in 1 .. MaxName
        BY <1>5, <1>8
    <2>4. CASE ids = <<>>
        <3>1. ToSet(ids) = {}
            BY <2>4, EmptyIs
        <3>2. v = NoMatch
            BY <1>2, <2>4, Zenon
        <3>3. NoStar(name) => ~\E id : Found(R, name, id)
            BY <2>2, <3>1, Zenon
        <3> QED
            BY <3>2, <3>3, NoMatchAnswers, Zenon DEF v, name
    <2>5. CASE ids # <<>>
        <3>1. v = matched(e, h)
            BY <1>2, <2>3, <2>5, Zenon
        <3>2. h \in ToSet(ids) /\ (e.store[h].except \/ \A id \in ToSet(ids) : ~e.store[id].except)
            BY <1>60, <2>2, <2>5, Zenon
        <3>3. Found(R, name, h)
            BY <2>2, <3>2, Zenon
        <3>4. Reports(v, R[h])
            BY <3>1, <3>3, MatchedIs, Zenon DEF Found
        <3>5. \A id : Found(R, name, id) => e.store[id].except = R[id].rule.except
            BY MatchedIs, Zenon DEF Found
        <3>6. R[h].rule.except \/ (NoStar(name) => ~\E id : Found(R, name, id) /\ R[id].rule.except)
            BY <2>2, <3>2, <3>3, <3>5, Zenon
        <3>7. Answers(v, R, name)
            BY <1>8, <3>3, <3>4, <3>6, RuleAnswers, Zenon
        <3> QED
            BY <3>7 DEF v, name
    <2> QED
        BY <2>4, <2>5
<1> QED
    BY <1>6, <1>7, <1>8

-----------------------------------------------------------------------------
(* The invariant.                                                          *)

Logged(text) ==
    [text |-> text, rules |-> parse_list_streamed(text).rules, issues |-> parse_list_streamed(text).issues]
Logs == {Logged(text) : text \in List}

\* R has the rules of the lists L.
Collects(R, L) ==
    \A o : o \in ToSet(R) <=> o \in Sourced /\ o.list \in 1 .. Len(L) /\ o.rule \in ToSet(L[o.list].rules)

Holds(R) ==
    /\ R \in Seq(Sourced) /\ Collects(R, lists)
    /\ phase = "adding" => Compiled(engine, R) /\ asked = None
    /\ phase = "built" => Built(engine, R)
    /\ asked # None => asked.name \in QueryName /\ Answers(asked.verdict, R, lower_strip(asked.name))

FilterInv ==
    /\ phase \in {"adding", "built"} /\ lists \in Seq(Logs)
    /\ \E R : Holds(R)

LEMMA LoggedIs ==
    ASSUME NEW L \in Seq(Logs), NEW l \in 1 .. Len(L)
    PROVE  /\ L[l].rules \in Seq(GoodRule)
           /\ \A no \in DOMAIN L[l].text :
                 Cardinality(OfLine(L[l].rules, no)) + Cardinality(OfLine(L[l].issues, no)) = Due(Trim(L[l].text[no]))
<1>1. L[l] \in Logs
    BY ElementIs
<1>2. PICK text \in List : L[l] = Logged(text)
    BY <1>1, Zenon DEF Logs
<1>3. text \in Seq(Seq(Nat)) /\ DOMAIN text = 1 .. Len(text)
    BY FilterAssumption
<1> DEFINE out == parse_list_streamed(text)
<1>4. /\ out.rules \in Seq(GoodRule)
      /\ \A no \in 1 .. Len(text) :
            Cardinality(OfLine(out.rules, no)) + Cardinality(OfLine(out.issues, no)) = Due(Trim(text[no]))
    BY <1>3, ParsedIs, Zenon
<1>5. L[l].rules = out.rules /\ L[l].issues = out.issues /\ L[l].text = text
    BY <1>2 DEF Logged
<1> HIDE DEF out
<1> QED
    BY <1>3, <1>4, <1>5, Zenon

LEMMA CollectsNone == Collects(<<>>, <<>>)
<1>1. ToSet(<<>>) = {} /\ Len(<<>>) = 0 /\ 1 .. 0 = {}
    BY EmptyIs
<1> QED
    BY <1>1, Zenon DEF Collects

LEMMA OfListIs ==
    ASSUME NEW list \in Nat, NEW rules \in Seq(GoodRule), NEW o
    PROVE  o \in OfList(list, rules, Len(rules)) <=> o \in Sourced /\ o.list = list /\ o.rule \in ToSet(rules)
<1>1. \A x : x \in ToSet(rules) <=> \E i \in 1 .. Len(rules) : rules[i] = x
    BY ToSetIs
<1>2. ASSUME o \in OfList(list, rules, Len(rules)) PROVE o \in Sourced /\ o.list = list /\ o.rule \in ToSet(rules)
    <2>1. PICK k \in 1 .. Len(rules) : o = [rule |-> rules[k], list |-> list]
        BY <1>2, Zenon DEF OfList
    <2>2. rules[k] \in GoodRule
        BY ElementIs
    <2>3. o \in Sourced /\ o.list = list /\ o.rule = rules[k]
        BY <2>1, <2>2 DEF Sourced
    <2> QED
        BY <1>1, <2>3, Zenon
<1>3. ASSUME o \in Sourced, o.list = list, o.rule \in ToSet(rules) PROVE o \in OfList(list, rules, Len(rules))
    <2>1. PICK k \in 1 .. Len(rules) : rules[k] = o.rule
        BY <1>1, <1>3, Zenon
    <2>2. o = [rule |-> o.rule, list |-> o.list]
        BY <1>3 DEF Sourced
    <2>3. o = [rule |-> rules[k], list |-> list]
        BY <1>3, <2>1, <2>2, Zenon
    <2> QED
        BY <2>3, Zenon DEF OfList
<1> QED
    BY <1>2, <1>3

LEMMA CollectsMore ==
    ASSUME NEW R, NEW L \in Seq(Logs), Collects(R, L), NEW new \in Logs, NEW rules \in Seq(GoodRule), new.rules = rules,
           NEW S, ToSet(S) = ToSet(R) \cup OfList(Len(L) + 1, rules, Len(rules))
    PROVE  Collects(S, Append(L, new))
<1> DEFINE n == Len(L)
           M == Append(L, new)
<1>1. Len(M) = n + 1 /\ M[n + 1] = new /\ \A i \in 1 .. n : M[i] = L[i]
    BY AppendIs
<1>2. n \in Nat
    OBVIOUS
<1>3. \A o : o \in ToSet(R) <=> o \in Sourced /\ o.list \in 1 .. n /\ o.rule \in ToSet(L[o.list].rules)
    BY Zenon DEF Collects
<1>4. \A o : o \in ToSet(S) <=> o \in ToSet(R) \/ o \in OfList(n + 1, rules, Len(rules))
    BY Zenon
<1> HIDE DEF n, M
<1>5. n + 1 \in Nat /\ n + 1 \notin 1 .. n /\ \A i : i \in 1 .. n + 1 <=> i \in 1 .. n \/ i = n + 1
    BY <1>2
<1>6. ASSUME NEW o
      PROVE  o \in ToSet(S) <=> o \in Sourced /\ o.list \in 1 .. Len(M) /\ o.rule \in ToSet(M[o.list].rules)
    <2>1. o \in OfList(n + 1, rules, Len(rules)) <=> o \in Sourced /\ o.list = n + 1 /\ o.rule \in ToSet(rules)
        BY <1>5, OfListIs, Zenon
    <2>2. CASE o.list \in 1 .. n
        <3>1. M[o.list] = L[o.list] /\ o.list \in 1 .. Len(M) /\ o.list # n + 1
            BY <1>1, <1>5, <2>2, Zenon
        <3> QED
            BY <1>3, <1>4, <2>1, <2>2, <3>1, Zenon
    <2>3. CASE o.list = n + 1
        <3>1. M[o.list].rules = rules /\ o.list \in 1 .. Len(M) /\ o.list \notin 1 .. n
            BY <1>1, <1>5, <2>3, Zenon
        <3> QED
            BY <1>3, <1>4, <2>1, <2>3, <3>1, Zenon
    <2>4. CASE o.list \notin 1 .. n /\ o.list # n + 1
        <3>1. o.list \notin 1 .. Len(M)
            BY <1>1, <1>5, <2>4, Zenon
        <3> QED
            BY <1>3, <1>4, <2>1, <2>4, <3>1, Zenon
    <2> QED
        BY <2>2, <2>3, <2>4
<1>7. Collects(S, M)
    BY <1>6, Zenon DEF Collects
<1> QED
    BY <1>7 DEF M

LEMMA InitHolds == Init => FilterInv
<1> SUFFICES ASSUME Init PROVE FilterInv
    OBVIOUS
<1>1. engine = NoRules /\ phase = "adding" /\ lists = <<>> /\ asked = None
    BY DEF Init
<1>2. <<>> \in Seq(Sourced) /\ <<>> \in Seq(Logs)
    BY EmptyIs
<1>3. phase # "built"
    BY <1>1
<1>4. Holds(<<>>)
    BY <1>1, <1>2, <1>3, NoneCompiled, CollectsNone, Zenon DEF Holds
<1> QED
    BY <1>1, <1>2, <1>4, Zenon DEF FilterInv

LEMMA AddHolds ==
    ASSUME FilterInv, NEW text \in List, add_list_text(text)
    PROVE  FilterInv'
<1> DEFINE out == parse_list_streamed(text)
           rules == out.rules
           n == Len(lists) + 1
<1>1. /\ phase = "adding" /\ phase' = phase /\ asked' = asked
      /\ engine' = AddedOf(engine, n, rules)[Len(rules)]
      /\ lists' = Append(lists, Logged(text))
    BY Zenon DEF add_list_text, Logged
<1>2. PICK R : Holds(R)
    BY Zenon DEF FilterInv
<1>3. lists \in Seq(Logs) /\ Logged(text) \in Logs
    BY Zenon DEF FilterInv, Logs
<1>4. R \in Seq(Sourced) /\ Collects(R, lists) /\ Compiled(engine, R) /\ asked = None
    BY <1>1, <1>2, Zenon DEF Holds
<1>5. rules \in Seq(GoodRule)
    <2>1. text \in Seq(Seq(Nat))
        BY FilterAssumption
    <2> QED
        BY <2>1, ParsedIs, Zenon
<1>6. Logged(text).rules = rules
    BY DEF Logged
<1>7. n \in Nat
    BY <1>3
<1> HIDE DEF rules, n
<1>8. PICK S : Compiled(AddedOf(engine, n, rules)[Len(rules)], S) /\ ToSet(S) = ToSet(R) \cup OfList(n, rules, Len(rules))
    <2>2. Takes(engine, R, n, rules)
        BY <1>4, <1>5, <1>7, ListCompiled, Zenon
    <2> QED
        BY <2>2, Zenon DEF Takes
<1>9. S \in Seq(Sourced)
    BY <1>8, Zenon DEF Compiled
<1>10. Collects(S, Append(lists, Logged(text)))
    <2>1. ToSet(S) = ToSet(R) \cup OfList(Len(lists) + 1, rules, Len(rules))
        BY <1>8 DEF n
    <2> QED
        BY <1>3, <1>4, <1>5, <1>6, <2>1, CollectsMore, Zenon
<1>11. lists' \in Seq(Logs)
    <2>1. Append(lists, Logged(text)) \in Seq(Logs)
        BY <1>3, AppendIs, Zenon
    <2> QED
        BY <1>1, <2>1, Zenon
<1>12. phase' = "adding" /\ phase' # "built" /\ asked' = None
    BY <1>1, <1>4
<1>13. Holds(S)'
    BY <1>1, <1>8, <1>9, <1>10, <1>12, Zenon DEF Holds
<1> QED
    BY <1>11, <1>12, <1>13, Zenon DEF FilterInv

LEMMA BuildHolds ==
    ASSUME FilterInv, build
    PROVE  FilterInv'
<1>1. PICK so \in Orders(engine.subtree), eo \in Orders(engine.exact) :
         engine' = finish(engine, Sorted(engine.subtree, so), Sorted(engine.exact, eo))
    BY Zenon DEF build
<1>2. phase = "adding" /\ phase' = "built" /\ lists' = lists /\ asked' = asked
    BY Zenon DEF build
<1>3. PICK R : Holds(R)
    BY Zenon DEF FilterInv
<1>4. R \in Seq(Sourced) /\ Collects(R, lists) /\ Compiled(engine, R) /\ asked = None
    BY <1>2, <1>3, Zenon DEF Holds
<1>5. Built(engine', R)
    <2>1. Built(finish(engine, Sorted(engine.subtree, so), Sorted(engine.exact, eo)), R)
        BY <1>1, <1>4, FinishBuilt, Zenon
    <2> QED
        BY <1>1, <2>1, Zenon
<1>6. phase' # "adding"
    BY <1>2
<1>7. Holds(R)'
    BY <1>2, <1>4, <1>5, <1>6, Zenon DEF Holds
<1> QED
    BY <1>2, <1>7, Zenon DEF FilterInv

LEMMA QueryHolds ==
    ASSUME FilterInv, NEW name \in QueryName, Query(name)
    PROVE  FilterInv'
<1>1. /\ phase = "built" /\ phase' = phase /\ engine' = engine /\ lists' = lists
      /\ asked' = [name |-> name, verdict |-> verdict(engine, name)]
    BY Zenon DEF Query
<1>2. PICK R : Holds(R)
    BY Zenon DEF FilterInv
<1>3. R \in Seq(Sourced) /\ Collects(R, lists) /\ Built(engine, R)
    BY <1>1, <1>2, Zenon DEF Holds
<1>4. name \in Seq(Nat) /\ ~EndsWith(lower_strip(name), Dot)
    BY FilterAssumption
<1>5. Answers(verdict(engine, name), R, lower_strip(name))
    BY <1>3, <1>4, VerdictIs, Zenon
<1>6. asked'.name = name /\ asked'.verdict = verdict(engine, name)
    BY <1>1, Zenon
<1>7. phase' # "adding"
    BY <1>1
<1>8. Holds(R)'
    BY <1>1, <1>3, <1>5, <1>6, <1>7, Zenon DEF Holds
<1> QED
    BY <1>1, <1>8, Zenon DEF FilterInv

LEMMA FilterInvariant == Spec => []FilterInv
<1>1. FilterInv /\ [Next]_vars => FilterInv'
    <2> SUFFICES ASSUME FilterInv, [Next]_vars PROVE FilterInv'
        OBVIOUS
    <2>1. ASSUME NEW text \in List, add_list_text(text) PROVE FilterInv'
        BY <2>1, AddHolds
    <2>2. CASE build
        BY <2>2, BuildHolds
    <2>3. ASSUME NEW name \in QueryName, Query(name) PROVE FilterInv'
        BY <2>3, QueryHolds
    <2>4. CASE UNCHANGED vars
        <3>1. engine' = engine /\ phase' = phase /\ lists' = lists /\ asked' = asked
            BY <2>4 DEF vars
        <3>2. PICK R : Holds(R)
            BY Zenon DEF FilterInv
        <3>3. Holds(R)'
            BY <3>1, <3>2, Zenon DEF Holds
        <3> QED
            BY <3>1, <3>3, Zenon DEF FilterInv
    <2> QED
        BY <2>1, <2>2, <2>3, <2>4, Zenon DEF Next
<1> QED
    BY <1>1, InitHolds, PTL DEF Spec

\* The rules that apply are those found.
LEMMA ApplyingIs ==
    ASSUME FilterInv, NEW R, Holds(R), NEW name, NEW r
    PROVE  r \in Applying(name) <=> \E id : Found(R, name, id) /\ R[id].rule = r
<1>1. R \in Seq(Sourced) /\ Collects(R, lists) /\ lists \in Seq(Logs)
    BY Zenon DEF FilterInv, Holds
<1>2. \A o : o \in ToSet(R) <=> \E id \in 1 .. Len(R) : R[id] = o
    BY <1>1, ToSetIs, Zenon
<1>3. DOMAIN lists = 1 .. Len(lists)
    BY <1>1
<1>4. r \in Applying(name) <=> (\E l \in 1 .. Len(lists) : r \in ToSet(lists[l].rules)) /\ Applies(r, name)
    BY <1>3, Zenon DEF Applying
<1>5. ASSUME NEW l \in 1 .. Len(lists), r \in ToSet(lists[l].rules) PROVE \E id \in 1 .. Len(R) : R[id].rule = r
    <2> DEFINE o == [rule |-> r, list |-> l]
    <2>1. lists[l].rules \in Seq(GoodRule)
        BY <1>1, LoggedIs, Zenon
    <2>2. r \in GoodRule
        BY <1>5, <2>1, ToSetIs
    <2>3. o \in Sourced /\ o.rule = r /\ o.list = l
        BY <2>2 DEF Sourced
    <2> HIDE DEF o
    <2>4. o \in ToSet(R)
        BY <1>1, <1>5, <2>3, Zenon DEF Collects
    <2> QED
        BY <1>2, <2>3, <2>4, Zenon
<1>6. ASSUME NEW id \in 1 .. Len(R) PROVE \E l \in 1 .. Len(lists) : R[id].rule \in ToSet(lists[l].rules)
    <2>1. R[id] \in ToSet(R)
        BY <1>2, Zenon
    <2> QED
        BY <1>1, <2>1, Zenon DEF Collects
<1> QED
    BY <1>4, <1>5, <1>6, Zenon DEF Found

LEMMA InvVerdict ==
    ASSUME FilterInv
    PROVE  VerdictAgrees
<1> SUFFICES ASSUME asked # None, ~Contains(asked.name, Star) PROVE AsScanned
    BY DEF VerdictAgrees
<1> DEFINE name == lower_strip(asked.name)
           v == asked.verdict
           rules == IF Len(name) <= MaxName THEN Applying(name) ELSE {}
<1>1. PICK R : Holds(R)
    BY Zenon DEF FilterInv
<1>2. asked.name \in QueryName /\ Answers(v, R, name)
    BY <1>1, Zenon DEF Holds
<1>3. asked.name \in Seq(Nat)
    BY <1>2, FilterAssumption
<1>4. NoStar(name)
    BY <1>3, LowerNoStar, Zenon
<1>5. \A r : r \in Applying(name) <=> \E id : Found(R, name, id) /\ R[id].rule = r
    BY <1>1, ApplyingIs, Zenon
<1>6. AsScanned <=> v.kind = IF \E r \in rules : r.except THEN "Except" ELSE IF rules # {} THEN "Block" ELSE "NoMatch"
    BY Zenon DEF AsScanned
<1> HIDE DEF name, v
<1>7. /\ Len(name) <= MaxName /\ (\E id : Found(R, name, id) /\ R[id].rule.except) => v.kind = "Except"
      /\ /\ Len(name) <= MaxName /\ \E id : Found(R, name, id)
         /\ ~\E id : Found(R, name, id) /\ R[id].rule.except
         => v.kind = "Block"
      /\ ~(Len(name) <= MaxName) \/ (~\E id : Found(R, name, id)) => v.kind = "NoMatch"
    BY <1>2, <1>4, Zenon DEF Answers
<1>8. (\E r \in rules : r.except) <=> Len(name) <= MaxName /\ \E id : Found(R, name, id) /\ R[id].rule.except
    <2>1. ASSUME NEW r \in rules, r.except
          PROVE  Len(name) <= MaxName /\ \E id : Found(R, name, id) /\ R[id].rule.except
        <3>1. Len(name) <= MaxName /\ r \in Applying(name)
            BY <2>1, Zenon
        <3> QED
            BY <1>5, <2>1, <3>1, Zenon
    <2>2. ASSUME Len(name) <= MaxName, NEW id, Found(R, name, id), R[id].rule.except
          PROVE  \E r \in rules : r.except
        <3>1. R[id].rule \in Applying(name)
            BY <1>5, <2>2, Zenon
        <3>2. R[id].rule \in rules
            BY <2>2, <3>1, Zenon
        <3> QED
            BY <2>2, <3>2, Zenon
    <2> QED
        BY <2>1, <2>2, Zenon
<1>9. rules # {} <=> Len(name) <= MaxName /\ \E id : Found(R, name, id)
    <2>1. rules # {} <=> \E r : r \in rules
        BY Zenon
    <2>2. (\E r : r \in rules) <=> Len(name) <= MaxName /\ \E id : Found(R, name, id)
        BY <1>5, Zenon
    <2> QED
        BY <2>1, <2>2, Zenon
<1> HIDE DEF rules
<1>10. CASE \E r \in rules : r.except
    BY <1>6, <1>7, <1>8, <1>10, Zenon
<1>11. CASE (~\E r \in rules : r.except) /\ rules # {}
    BY <1>6, <1>7, <1>8, <1>9, <1>11, Zenon
<1>12. CASE (~\E r \in rules : r.except) /\ rules = {}
    BY <1>6, <1>7, <1>8, <1>9, <1>12, Zenon
<1> QED
    BY <1>10, <1>11, <1>12, Zenon

LEMMA InvReports ==
    ASSUME FilterInv
    PROVE  ReportsItsRule
<1> DEFINE v == asked.verdict
           name == lower_strip(asked.name)
           right(r) == /\ r.line = v.line /\ r.except = (v.kind = "Except")
                       /\ Applies(r, name)
                       /\ \/ v.text = r.text
                          \/ Len(r.text) > MaxSpan /\ v.text = SubSeq(r.text, 1, MaxSpan)
<1> SUFFICES ASSUME asked # None, v # NoMatch PROVE \E r \in ToSet(lists[v.list].rules) : right(r)
    BY Zenon DEF ReportsItsRule
<1>1. PICK R : Holds(R)
    BY Zenon DEF FilterInv
<1>2. Answers(v, R, name) /\ R \in Seq(Sourced) /\ Collects(R, lists)
    BY <1>1, Zenon DEF Holds
<1>3. PICK id : Found(R, name, id) /\ Reports(v, R[id])
    BY <1>2, Zenon DEF Answers
<1> DEFINE r == R[id].rule
<1>4. id \in 1 .. Len(R) /\ Applies(r, name)
    BY <1>3, Zenon DEF Found
<1>5. R[id] \in ToSet(R) /\ R[id] \in Sourced
    <2>1. \A o : o \in ToSet(R) <=> \E i \in 1 .. Len(R) : R[i] = o
        BY <1>2, ToSetIs, Zenon
    <2>2. R[id] \in ToSet(R)
        BY <1>4, <2>1, Zenon
    <2> QED
        BY <1>2, <2>2, Zenon DEF Collects
<1>6. r \in GoodRule
    BY <1>5 DEF Sourced
<1>7. r.except \in BOOLEAN
    BY <1>6, RuleIs, Zenon
<1>8. r \in ToSet(lists[R[id].list].rules)
    BY <1>2, <1>5, Zenon DEF Collects
<1>9. v.kind = (IF r.except THEN "Except" ELSE "Block") /\ v.list = R[id].list /\ v.line = r.line /\ AsWritten(v.text, r.text)
    BY <1>3, Zenon DEF Reports
<1> HIDE DEF r, v
<1>10. r.except = (v.kind = "Except")
    <2>1. CASE r.except
        <3>1. v.kind = "Except"
            BY <1>9, <2>1, Zenon
        <3> QED
            BY <1>7, <2>1, <3>1
    <2>2. CASE ~r.except
        <3>1. v.kind = "Block"
            BY <1>9, <2>2, Zenon
        <3> QED
            BY <1>7, <2>2, <3>1
    <2> QED
        BY <2>1, <2>2
<1>11. right(r)
    BY <1>4, <1>9, <1>10, Zenon DEF AsWritten
<1> QED
    BY <1>8, <1>9, <1>11, Zenon

LEMMA InvAccounted ==
    ASSUME FilterInv
    PROVE  EachLineAccounted
<1>1. lists \in Seq(Logs)
    BY Zenon DEF FilterInv
<1>2. DOMAIN lists = 1 .. Len(lists)
    BY <1>1
<1>3. \A l \in 1 .. Len(lists) : \A no \in DOMAIN lists[l].text :
         Cardinality(OfLine(lists[l].rules, no)) + Cardinality(OfLine(lists[l].issues, no)) = Due(Trim(lists[l].text[no]))
    BY <1>1, LoggedIs, Zenon
<1> QED
    BY <1>2, <1>3, Zenon DEF EachLineAccounted

\* For every set of lists and names: the sorted indexes with their binary search,
\* the walks over reversed labels, the anchors of wildcards and the matcher that
\* backtracks give the verdict of a scan of all rules (engine.rs: finish,
\* partition_point, wildcard_anchor, glob_match, verdict), of every name in which
\* no byte is a star.
THEOREM LookupAgrees == Spec => []VerdictAgrees
BY FilterInvariant, InvVerdict, PTL

\* For every set of lists and names, stars in them too: what a lookup reports is a
\* rule of the list and line named that applies, its text as it was written, or
\* cut if it is too long, although it is rebuilt from a key that sorting has moved
\* (engine.rs: finish, matched).
THEOREM LookupReports == Spec => []ReportsItsRule
BY FilterInvariant, InvReports, PTL

\* For every list: each line leaves as many rules and issues as it owes, an
\* address without a name left aside (parse.rs: parse_list_streamed, parse_line,
\* parse_hosts_line).
THEOREM LinesAccounted == Spec => []EachLineAccounted
BY FilterInvariant, InvAccounted, PTL

-----------------------------------------------------------------------------
(***************************************************************************)
(* The failure cache.                                                      *)
(***************************************************************************)


HoldsInv == TypeOK /\ KeysBounded /\ HoldBounded

\* NextHold stays within the ladder's ends and never shrinks a remembered
\* hold (failcache.rs: the match at the head of record).
LEMMA NextHoldRange ==
    ASSUME TypeOK, NEW k \in Key, NEW at \in Nat
    PROVE  /\ NextHold(failures, k, at) \in FirstHold .. MaxHold
           /\ k \in DOMAIN failures /\ Remembered(failures, k, at)
                => failures[k].hold <= NextHold(failures, k, at)
  BY HoldAssumption DEF TypeOK, NextHold, Remembered

\* What making room can do: it only forgets keys, leaves the others alone, and
\* leaves a place free for a new key.
LEMMA MakeRoomFrees ==
    ASSUME TypeOK, KeysBounded, NEW k \in Key, NEW at \in Nat,
           NEW g \in MakeRoom(failures, k, at)
    PROVE  /\ DOMAIN g \subseteq DOMAIN failures
           /\ \A j \in DOMAIN g : g[j] = failures[j]
           /\ IsFiniteSet(DOMAIN g)
           /\ Cardinality(DOMAIN g) <= MaxKeys
           /\ k \notin DOMAIN g => Cardinality(DOMAIN g) < MaxKeys
           /\ k \in DOMAIN failures => g = failures
           /\ k \notin DOMAIN failures =>
                \A j \in DOMAIN failures \ DOMAIN g : \A i \in DOMAIN g :
                    failures[j].until <= failures[i].until
<1> DEFINE D == DOMAIN failures
           S == {j \in D : Remembered(failures, j, at)}
           kept == Only(failures, S)
<1>0. IsFiniteSet(D) /\ Cardinality(D) \in Nat /\ Cardinality(D) <= MaxKeys
  BY FS_CardinalityType DEF KeysBounded
<1>1. CASE k \in D \/ Cardinality(D) < MaxKeys
  BY <1>0, <1>1 DEF MakeRoom
<1>2. CASE ~(k \in D \/ Cardinality(D) < MaxKeys)
  <2>1. /\ DOMAIN kept = S
        /\ S \subseteq D
        /\ \A j \in S : kept[j] = failures[j]
    BY DEF Only
  <2>2. /\ IsFiniteSet(S)
        /\ Cardinality(S) \in Nat
        /\ Cardinality(S) <= Cardinality(D)
    BY <1>0, <2>1, FS_Subset, FS_CardinalityType
  <2>3. \A j \in D \ S : \A i \in S : failures[j].until <= failures[i].until
    BY HoldAssumption DEF TypeOK, Remembered
  <2>4. CASE Cardinality(S) < MaxKeys
    <3>1. g = kept
      BY <1>2, <2>1, <2>4 DEF MakeRoom
    <3>2. DOMAIN g = S /\ \A j \in S : g[j] = failures[j]
      BY <2>1, <3>1
    <3> HIDE DEF S, kept
    <3> QED
      BY <1>0, <1>2, <2>1, <2>2, <2>3, <2>4, <3>2, HoldAssumption
  <2>5. CASE ~(Cardinality(S) < MaxKeys)
    <3>1. PICK o \in Oldest(kept) : g = Only(kept, DOMAIN kept \ {o})
      BY <1>2, <2>1, <2>5 DEF MakeRoom
    <3>2. o \in S /\ \A j \in S : failures[o].until <= failures[j].until
      BY <2>1 DEF Oldest
    <3>3. /\ DOMAIN g = S \ {o}
          /\ \A j \in S \ {o} : g[j] = failures[j]
      BY <2>1, <3>1 DEF Only
    <3>4. /\ IsFiniteSet(S \ {o})
          /\ Cardinality(S \ {o}) = Cardinality(S) - 1
      BY <2>2, <3>2, FS_RemoveElement
    <3>5. \A j \in D \ (S \ {o}) : \A i \in S \ {o} :
              failures[j].until <= failures[i].until
      BY <2>3, <3>2
    <3>6. Cardinality(S \ {o}) < MaxKeys /\ Cardinality(S \ {o}) <= MaxKeys
      BY <1>0, <2>2, <3>4, HoldAssumption
    <3> HIDE DEF S, kept
    <3> QED
      BY <1>0, <1>2, <2>1, <3>3, <3>4, <3>5, <3>6, HoldAssumption
  <2> QED
    BY <2>4, <2>5
<1> QED
  BY <1>1, <1>2

\* The effect of one record on the map: the new key's entry, the keys that
\* stay and their entries.
LEMMA RecordEffect ==
    ASSUME HoldsInv, NEW k \in Key, NEW at \in Nat, Record(k, at)
    PROVE  /\ \E g \in MakeRoom(failures, k, at) :
                 /\ DOMAIN failures' = DOMAIN g \cup {k}
                 /\ \A j \in DOMAIN g \ {k} : failures'[j] = failures[j]
           /\ k \in DOMAIN failures'
           /\ failures' = [j \in DOMAIN failures' |-> failures'[j]]
           /\ failures'[k].hold = NextHold(failures, k, at)
           /\ failures'[k].until = at + NextHold(failures, k, at)
           /\ failures'[k] \in [until : Nat, hold : FirstHold .. MaxHold]
<1>1. PICK g \in MakeRoom(failures, k, at) :
          failures' = Put(g, k, [until |-> at + NextHold(failures, k, at),
                                 hold |-> NextHold(failures, k, at)])
  BY DEF Record, record
<1>2. /\ DOMAIN g \subseteq DOMAIN failures
      /\ \A j \in DOMAIN g : g[j] = failures[j]
  BY <1>1, MakeRoomFrees DEF HoldsInv
<1>3. NextHold(failures, k, at) \in FirstHold .. MaxHold
  BY NextHoldRange DEF HoldsInv
<1>4. at + NextHold(failures, k, at) \in Nat
  BY <1>3, HoldAssumption
<1>5. failures'[k] = [until |-> at + NextHold(failures, k, at),
                      hold |-> NextHold(failures, k, at)]
  BY <1>1 DEF Put
<1>6. /\ DOMAIN failures' = DOMAIN g \cup {k}
      /\ \A j \in DOMAIN g \ {k} : failures'[j] = failures[j]
      /\ failures' = [j \in DOMAIN failures' |-> failures'[j]]
  BY <1>1, <1>2 DEF Put
<1>7. /\ failures'[k].hold = NextHold(failures, k, at)
      /\ failures'[k].until = at + NextHold(failures, k, at)
      /\ failures'[k] \in [until : Nat, hold : FirstHold .. MaxHold]
  BY <1>3, <1>4, <1>5
<1> QED
  BY <1>6, <1>7

\* Every reachable map is well typed, holds at most MAX_KEYS keys, and holds no
\* key beyond its own hold from now (failcache.rs: record, clear).
THEOREM FailureCacheSafe == HoldsSpec => [](TypeOK /\ KeysBounded /\ HoldBounded)
<1>1. HoldsInit => HoldsInv
  BY FS_EmptySet, HoldAssumption
     DEF HoldsInit, HoldsInv, TypeOK, KeysBounded, HoldBounded, NoFailures
<1>2. HoldsInv /\ [HoldsNext]_holdsVars => HoldsInv'
  <2> SUFFICES ASSUME HoldsInv, [HoldsNext]_holdsVars
               PROVE  HoldsInv'
    OBVIOUS
  <2>1. CASE Tick
    BY <2>1, HoldAssumption DEF Tick, HoldsInv, TypeOK, KeysBounded, HoldBounded
  <2>2. ASSUME NEW k \in Key, NEW at \in 0 .. clock, Record(k, at)
        PROVE  HoldsInv'
    <3>0. at \in Nat /\ clock \in Nat /\ clock' = clock /\ at <= clock
      BY <2>2 DEF HoldsInv, TypeOK, Record
    <3>1. PICK g \in MakeRoom(failures, k, at) :
              /\ DOMAIN failures' = DOMAIN g \cup {k}
              /\ \A j \in DOMAIN g \ {k} : failures'[j] = failures[j]
      BY <2>2, <3>0, RecordEffect
    <3>2. /\ DOMAIN g \subseteq DOMAIN failures
          /\ IsFiniteSet(DOMAIN g)
          /\ Cardinality(DOMAIN g) <= MaxKeys
          /\ k \notin DOMAIN g => Cardinality(DOMAIN g) < MaxKeys
      BY <3>0, <3>1, MakeRoomFrees DEF HoldsInv
    <3>3. /\ failures' = [j \in DOMAIN failures' |-> failures'[j]]
          /\ failures'[k].hold = NextHold(failures, k, at)
          /\ failures'[k].until = at + NextHold(failures, k, at)
          /\ failures'[k] \in [until : Nat, hold : FirstHold .. MaxHold]
      BY <2>2, <3>0, RecordEffect
    <3>4. NextHold(failures, k, at) \in Nat
      BY <3>0, NextHoldRange, HoldAssumption DEF HoldsInv
    <3>5. TypeOK'
      BY <3>0, <3>1, <3>2, <3>3 DEF HoldsInv, TypeOK
    <3>6. KeysBounded'
      <4>1. /\ IsFiniteSet(DOMAIN g \cup {k})
            /\ Cardinality(DOMAIN g \cup {k}) =
                  IF k \in DOMAIN g THEN Cardinality(DOMAIN g)
                                    ELSE Cardinality(DOMAIN g) + 1
        BY <3>2, FS_AddElement
      <4>2. Cardinality(DOMAIN g) \in Nat
        BY <3>2, FS_CardinalityType
      <4> QED
        BY <3>1, <3>2, <4>1, <4>2, HoldAssumption DEF KeysBounded
    <3>7. HoldBounded'
      BY <3>0, <3>1, <3>2, <3>3, <3>4 DEF HoldsInv, HoldBounded
    <3> QED
      BY <3>5, <3>6, <3>7 DEF HoldsInv
  <2>3. ASSUME NEW k \in Key, Clear(k)
        PROVE  HoldsInv'
    <3>1. /\ DOMAIN failures' = DOMAIN failures \ {k}
          /\ \A j \in DOMAIN failures \ {k} : failures'[j] = failures[j]
          /\ failures' = [j \in DOMAIN failures' |-> failures'[j]]
          /\ clock' = clock
      BY <2>3 DEF Clear, clear, Only
    <3>2. /\ IsFiniteSet(DOMAIN failures \ {k})
          /\ Cardinality(DOMAIN failures \ {k}) <= Cardinality(DOMAIN failures)
          /\ Cardinality(DOMAIN failures \ {k}) \in Nat
          /\ Cardinality(DOMAIN failures) \in Nat
      BY FS_Subset, FS_CardinalityType DEF HoldsInv, KeysBounded
    <3>3. KeysBounded'
      BY <3>1, <3>2, HoldAssumption DEF HoldsInv, KeysBounded
    <3> QED
      BY <3>1, <3>3 DEF HoldsInv, TypeOK, HoldBounded
  <2>4. CASE UNCHANGED holdsVars
    BY <2>4 DEF holdsVars, HoldsInv, TypeOK, KeysBounded, HoldBounded
  <2> QED
    BY <2>1, <2>2, <2>3, <2>4 DEF HoldsNext
<1> QED
  BY <1>1, <1>2, PTL DEF HoldsSpec, HoldsInv

\* Making room never forgets a longer hold than one it keeps
\* when a new key needs a place
\* (failcache.rs: retain and min_by_key in record).
THEOREM MakingRoomIsFair == HoldsSpec => DropsTheOldest
<1> DEFINE Fair ==
      \A j \in DOMAIN failures \ DOMAIN failures' :
          \A k \in DOMAIN failures' \ DOMAIN failures :
              \A i \in DOMAIN failures \cap DOMAIN failures' :
                  failures[j].until <= failures[i].until
<1>1. HoldsInv /\ [HoldsNext]_holdsVars => [Fair]_holdsVars
  <2> SUFFICES ASSUME HoldsInv, HoldsNext
               PROVE  Fair
    OBVIOUS
  <2>1. CASE Tick
    BY <2>1 DEF Tick
  <2>2. ASSUME NEW k \in Key, NEW at \in 0 .. clock, Record(k, at)
        PROVE  Fair
    <3>0. at \in Nat
      BY DEF HoldsInv, TypeOK
    <3>1. PICK g \in MakeRoom(failures, k, at) :
              /\ DOMAIN failures' = DOMAIN g \cup {k}
              /\ \A j \in DOMAIN g \ {k} : failures'[j] = failures[j]
      BY <2>2, <3>0, RecordEffect
    <3>2. /\ DOMAIN g \subseteq DOMAIN failures
          /\ k \in DOMAIN failures => g = failures
          /\ k \notin DOMAIN failures =>
                \A j \in DOMAIN failures \ DOMAIN g : \A i \in DOMAIN g :
                    failures[j].until <= failures[i].until
      BY <3>0, <3>1, MakeRoomFrees DEF HoldsInv
    <3> QED
      BY <3>1, <3>2
  <2>3. ASSUME NEW k \in Key, Clear(k)
        PROVE  Fair
    BY <2>3 DEF Clear, clear, Only
  <2> QED
    BY <2>1, <2>2, <2>3 DEF HoldsNext
<1> QED
  BY <1>1, FailureCacheSafe, PTL DEF HoldsSpec, HoldsInv, DropsTheOldest

\* A failure that is recorded late pulls a running hold back by at most the
\* delay (failcache.rs: record overwrites until; NextHold never shrinks).
THEOREM LateFailures == HoldsSpec => LateFailureCostsItsAge
<1> DEFINE Late ==
      \A k \in DOMAIN failures \cap DOMAIN failures' :
          failures[k].until <= failures'[k].until + MaxLag
<1>1. HoldsInv /\ [HoldsNext]_holdsVars => [Late]_holdsVars
  <2> SUFFICES ASSUME HoldsInv, HoldsNext
               PROVE  Late
    OBVIOUS
  <2>0. \A k \in DOMAIN failures : failures[k].until \in Nat /\ failures[k].hold \in Nat
    BY HoldAssumption DEF HoldsInv, TypeOK
  <2>1. CASE Tick
    BY <2>0, <2>1, HoldAssumption DEF Tick
  <2>2. ASSUME NEW k \in Key, NEW at \in 0 .. clock, Record(k, at)
        PROVE  Late
    <3>0. at \in Nat /\ clock \in Nat /\ clock <= at + MaxLag
      BY <2>2 DEF HoldsInv, TypeOK, Record
    <3>1. PICK g \in MakeRoom(failures, k, at) :
              /\ DOMAIN failures' = DOMAIN g \cup {k}
              /\ \A j \in DOMAIN g \ {k} : failures'[j] = failures[j]
      BY <2>2, <3>0, RecordEffect
    <3>2. NextHold(failures, k, at) \in Nat
      BY <3>0, NextHoldRange, HoldAssumption DEF HoldsInv
    <3>3. failures'[k].until = at + NextHold(failures, k, at)
      BY <2>2, <3>0, RecordEffect
    <3>4. ASSUME k \in DOMAIN failures
          PROVE  failures[k].until <= failures'[k].until + MaxLag
      <4>1. CASE Remembered(failures, k, at)
        <5>1. failures[k].hold <= NextHold(failures, k, at)
          BY <3>0, <3>4, <4>1, NextHoldRange DEF HoldsInv
        <5>2. failures[k].until <= clock + failures[k].hold
          BY <3>4 DEF HoldsInv, HoldBounded
        <5> QED
          BY <2>0, <3>0, <3>2, <3>3, <3>4, <5>1, <5>2, HoldAssumption
      <4>2. CASE ~Remembered(failures, k, at)
        BY <2>0, <3>0, <3>2, <3>3, <3>4, <4>2, HoldAssumption DEF Remembered
      <4> QED
        BY <4>1, <4>2
    <3>5. ASSUME NEW j \in DOMAIN failures \cap DOMAIN failures', j # k
          PROVE  failures[j].until <= failures'[j].until + MaxLag
      BY <2>0, <3>1, <3>5, HoldAssumption
    <3> QED
      BY <3>4, <3>5
  <2>3. ASSUME NEW k \in Key, Clear(k)
        PROVE  Late
    BY <2>0, <2>3, HoldAssumption DEF Clear, clear, Only
  <2> QED
    BY <2>1, <2>2, <2>3 DEF HoldsNext
<1> QED
  BY <1>1, FailureCacheSafe, PTL DEF HoldsSpec, HoldsInv, LateFailureCostsItsAge
=============================================================================
