-------------------------- MODULE LogWriterProofs ---------------------------
(***************************************************************************)
(* Proofs about the query log on its way to disk and through shutdown, for *)
(* any queries, queue, batch size and order of events.                     *)
(***************************************************************************)
EXTENDS LogWriter, FiniteSetTheorems, SequenceTheorems, WellFoundedInduction, TLAPS

(***************************************************************************)
(* What Sift does.  Inductions over a sequence are by a least              *)
(* counterexample.                                                         *)
(***************************************************************************)

\* Every non-empty set of numbers has a least one.
LEMMA LeastNat ==
    ASSUME NEW T \in SUBSET Nat, T # {}
    PROVE  \E x \in T : \A y \in T : x <= y
<1>1. OpToRel(<, Nat) = {ss \in Nat \X Nat : ss[1] < ss[2]}
    BY Zenon DEF OpToRel
<1>2. \A a, b \in Nat : <<a, b>> \in {ss \in Nat \X Nat : ss[1] < ss[2]} <=> a < b
    OBVIOUS
<1>3. T \subseteq Nat
    OBVIOUS
<1>4. PICK x \in T : \A y \in T : ~(<<y, x>> \in OpToRel(<, Nat))
    BY <1>3, NatLessThanWellFounded, WFMin, Zenon
<1>5. \A y \in T : ~(y < x)
    BY <1>1, <1>2, <1>3, <1>4, Zenon
<1> QED
    BY <1>5, <1>3

\* A set of numbers with 0 and, up to L, every successor holds 0 .. L.
LEMMA UpTo ==
    ASSUME NEW L \in Nat, NEW P, 0 \in P, \A n \in 1 .. L : n - 1 \in P => n \in P
    PROVE  0 .. L \subseteq P
<1> DEFINE T == (0 .. L) \ P
<1> SUFFICES ASSUME T # {} PROVE FALSE
    OBVIOUS
<1>0. T \in SUBSET Nat
    OBVIOUS
<1>1. PICK x \in T : \A y \in T : x <= y
    <2> HIDE DEF T
    <2> QED
        BY <1>0, LeastNat
<1>2. x \in 1 .. L /\ x - 1 \in 0 .. L
    BY <1>1
<1>3. x - 1 \in P
    BY <1>1, <1>2
<1> QED
    BY <1>1, <1>2, <1>3

SiftedOne(s, S, f, n) ==
    IF n = 0 THEN <<>> ELSE IF s[n] \in S THEN f[n - 1] ELSE Append(f[n - 1], s[n])

\* The recursion defines a function.
LEMMA SiftedRec ==
    ASSUME NEW T, NEW s \in Seq(T), NEW S
    PROVE  Sifted(s, S) = [n \in 0 .. Len(s) |-> SiftedOne(s, S, Sifted(s, S), n)]
<1>0. Len(s) \in Nat
    BY LenProperties
<1> DEFINE P == {n \in 0 .. Len(s) : \E f : f = [m \in 0 .. n |-> SiftedOne(s, S, f, m)]}
<1>1. 0 \in P
    <2>1. [m \in 0 .. 0 |-> <<>>] = [m \in 0 .. 0 |-> SiftedOne(s, S, [k \in 0 .. 0 |-> <<>>], m)]
        BY DEF SiftedOne
    <2> QED
        BY <1>0, <2>1
<1>2. ASSUME NEW n \in 1 .. Len(s), n - 1 \in P PROVE n \in P
    <2>1. PICK f : f = [m \in 0 .. n - 1 |-> SiftedOne(s, S, f, m)]
        BY <1>2
    <2> DEFINE g == [m \in 0 .. n |-> IF m = n THEN SiftedOne(s, S, f, n) ELSE f[m]]
    <2>2. ASSUME NEW m \in 0 .. n PROVE g[m] = SiftedOne(s, S, g, m)
        <3>1. m = 0 \/ (m - 1 \in 0 .. n - 1 /\ g[m - 1] = f[m - 1])
            BY <1>0
        <3>2. SiftedOne(s, S, g, m) = SiftedOne(s, S, f, m)
            BY <3>1 DEF SiftedOne
        <3> QED
            BY <1>0, <2>1, <3>2
    <2>3. g = [m \in 0 .. n |-> SiftedOne(s, S, g, m)]
        BY <2>2
    <2>4. n \in 0 .. Len(s)
        BY <1>0
    <2>5. \E h : h = [m \in 0 .. n |-> SiftedOne(s, S, h, m)]
        <3> HIDE DEF g
        <3> QED
            BY <2>3
    <2> QED
        BY <2>4, <2>5
<1>3. Len(s) \in P
    BY <1>0, <1>1, <1>2, UpTo
<1>4. \E f : f = [n \in 0 .. Len(s) |-> SiftedOne(s, S, f, n)]
    BY <1>3
<1> QED
    BY <1>4 DEF Sifted, SiftedOne

\* How it steps.
LEMMA SiftedSteps ==
    ASSUME NEW T, NEW s \in Seq(T), NEW S
    PROVE  /\ Len(s) \in Nat
           /\ Sifted(s, S)[0] = <<>>
           /\ \A n \in 1 .. Len(s) :
                 /\ n - 1 \in 0 .. Len(s)
                 /\ s[n] \in S => Sifted(s, S)[n] = Sifted(s, S)[n - 1]
                 /\ s[n] \notin S => Sifted(s, S)[n] = Append(Sifted(s, S)[n - 1], s[n])
<1>0. Len(s) \in Nat
    BY LenProperties
<1>1. \A n \in 0 .. Len(s) : Sifted(s, S)[n] = SiftedOne(s, S, Sifted(s, S), n)
    BY SiftedRec
<1> HIDE DEF Sifted
<1>2. Sifted(s, S)[0] = <<>>
    <2>1. 0 \in 0 .. Len(s)
        BY <1>0
    <2>2. SiftedOne(s, S, Sifted(s, S), 0) = <<>>
        BY DEF SiftedOne
    <2> QED
        BY <1>1, <2>1, <2>2
<1>3. ASSUME NEW n \in 1 .. Len(s)
      PROVE  /\ n - 1 \in 0 .. Len(s)
             /\ s[n] \in S => Sifted(s, S)[n] = Sifted(s, S)[n - 1]
             /\ s[n] \notin S => Sifted(s, S)[n] = Append(Sifted(s, S)[n - 1], s[n])
    <2>1. n \in 0 .. Len(s) /\ n - 1 \in 0 .. Len(s) /\ n # 0
        BY <1>0
    <2>2. Sifted(s, S)[n] = SiftedOne(s, S, Sifted(s, S), n)
        BY <1>1, <2>1
    <2> QED
        BY <2>1, <2>2 DEF SiftedOne
<1> QED
    BY <1>0, <1>2, <1>3

\* It keeps to the sequence's own elements, and leaves out those in S.
LEMMA SiftElements ==
    ASSUME NEW T, NEW s \in Seq(T), NEW S
    PROVE  Sift(s, S) \in Seq(T) /\ Elements(Sift(s, S)) = Elements(s) \ S
<1> DEFINE F == Sifted(s, S)
           P == {n \in 0 .. Len(s) : F[n] \in Seq(T) /\ Elements(F[n]) = {s[i] : i \in 1 .. n} \ S}
<1>0. Len(s) \in Nat
    BY SiftedSteps
<1>1. 0 \in P
    <2>1. F[0] = <<>> /\ 0 \in 0 .. Len(s)
        BY <1>0, SiftedSteps
    <2>2. <<>> \in Seq(T) /\ Elements(<<>>) = {} /\ {s[i] : i \in 1 .. 0} = {}
        BY EmptySeq DEF Elements
    <2> HIDE DEF F
    <2> QED
        BY <2>1, <2>2
<1>2. ASSUME NEW n \in 1 .. Len(s), n - 1 \in P PROVE n \in P
    <2>1. F[n - 1] \in Seq(T) /\ Elements(F[n - 1]) = {s[i] : i \in 1 .. n - 1} \ S
        BY <1>2
    <2>2. s[n] \in T
        BY <1>0
    <2>3. {s[i] : i \in 1 .. n} = {s[i] : i \in 1 .. n - 1} \cup {s[n]}
        BY <1>0
    <2>4. CASE s[n] \in S
        <3>1. F[n] = F[n - 1]
            BY <2>4, SiftedSteps
        <3> QED
            BY <1>0, <2>1, <2>3, <2>4, <3>1
    <2>5. CASE s[n] \notin S
        <3>1. F[n] = Append(F[n - 1], s[n])
            BY <2>5, SiftedSteps
        <3> HIDE DEF F
        <3>2. F[n] \in Seq(T) /\ Elements(F[n]) = Elements(F[n - 1]) \cup {s[n]}
            BY <2>1, <2>2, <3>1 DEF Elements
        <3> QED
            BY <1>0, <2>1, <2>3, <2>5, <3>2
    <2> QED
        BY <2>4, <2>5
<1>3. Len(s) \in P
    <2> HIDE DEF P
    <2>1. 0 .. Len(s) \subseteq P
        BY <1>0, <1>1, <1>2, UpTo, Zenon
    <2> QED
        BY <1>0, <2>1
<1> QED
    BY <1>3 DEF Sift, Elements

\* Two sequences are sifted alike as far as they agree.
LEMMA SiftedPrefix ==
    ASSUME NEW T, NEW s \in Seq(T), NEW u \in Seq(T), NEW S,
           Len(s) <= Len(u), \A i \in 1 .. Len(s) : u[i] = s[i]
    PROVE  Sifted(u, S)[Len(s)] = Sift(s, S)
<1> DEFINE F == Sifted(s, S)
           G == Sifted(u, S)
           P == {n \in 0 .. Len(s) : G[n] = F[n]}
<1>0. Len(s) \in Nat /\ Len(u) \in Nat
    BY SiftedSteps
<1>1. 0 \in P
    BY <1>0, SiftedSteps
<1>2. ASSUME NEW n \in 1 .. Len(s), n - 1 \in P PROVE n \in P
    <2>1. G[n - 1] = F[n - 1] /\ u[n] = s[n] /\ n \in 1 .. Len(u)
        BY <1>0, <1>2
    <2>2. /\ s[n] \in S => F[n] = F[n - 1]
          /\ s[n] \notin S => F[n] = Append(F[n - 1], s[n])
        BY SiftedSteps
    <2>3. /\ u[n] \in S => G[n] = G[n - 1]
          /\ u[n] \notin S => G[n] = Append(G[n - 1], u[n])
        BY <2>1, SiftedSteps
    <2>4. n \in 0 .. Len(s)
        BY <1>0
    <2> HIDE DEF F, G
    <2>5. G[n] = F[n]
        BY <2>1, <2>2, <2>3
    <2> QED
        BY <2>4, <2>5
<1>3. Len(s) \in P
    <2> HIDE DEF P
    <2>1. 0 .. Len(s) \subseteq P
        BY <1>0, <1>1, <1>2, UpTo, Zenon
    <2> QED
        BY <1>0, <2>1
<1> QED
    BY <1>3 DEF Sift

LEMMA SiftAppend ==
    ASSUME NEW T, NEW s \in Seq(T), NEW x \in T, NEW S
    PROVE  Sift(Append(s, x), S) = IF x \in S THEN Sift(s, S) ELSE Append(Sift(s, S), x)
<1> DEFINE u == Append(s, x)
<1>1. u \in Seq(T) /\ Len(s) \in Nat /\ Len(u) = Len(s) + 1 /\ u[Len(u)] = x /\ \A i \in 1 .. Len(s) : u[i] = s[i]
    BY AppendProperties, LenProperties
<1> HIDE DEF u
<1>2. Sifted(u, S)[Len(s)] = Sift(s, S)
    BY <1>1, SiftedPrefix
<1>3. Len(u) \in 1 .. Len(u) /\ Len(u) - 1 = Len(s)
    BY <1>1
<1> DEFINE m == Len(u)
           G == Sifted(u, S)
<1>4. /\ u[m] \in S => G[m] = G[m - 1]
      /\ u[m] \notin S => G[m] = Append(G[m - 1], u[m])
    BY <1>1, <1>3, SiftedSteps
<1>5. Sifted(u, S)[Len(u)] = IF x \in S THEN Sift(s, S) ELSE Append(Sift(s, S), x)
    BY <1>1, <1>2, <1>3, <1>4
<1> QED
    BY <1>5 DEF Sift, u

\* Sifting twice is sifting once.
LEMMA SiftTwice ==
    ASSUME NEW T, NEW s \in Seq(T), NEW S, NEW R
    PROVE  Sift(s, S \cup R) = Sift(Sift(s, S), R)
<1> DEFINE Both == S \cup R
           F == Sifted(s, S)
           G == Sifted(s, Both)
           P == {n \in 0 .. Len(s) : F[n] \in Seq(T) /\ G[n] = Sift(F[n], R)}
<1>0. Len(s) \in Nat
    BY SiftedSteps
<1>1. 0 \in P
    <2>1. F[0] = <<>> /\ <<>> \in Seq(T) /\ Len(<<>>) = 0
        BY SiftedSteps, EmptySeq
    <2>2. Sift(<<>>, R) = <<>>
        BY <2>1, SiftedSteps DEF Sift
    <2>3. G[0] = <<>>
        <3> HIDE DEF Both
        <3> QED
            BY SiftedSteps
    <2> HIDE DEF F, G
    <2>4. F[0] \in Seq(T) /\ G[0] = Sift(F[0], R) /\ 0 \in 0 .. Len(s)
        BY <1>0, <2>1, <2>2, <2>3
    <2> QED
        BY <2>4
<1>2. ASSUME NEW n \in 1 .. Len(s), n - 1 \in P PROVE n \in P
    <2>1. F[n - 1] \in Seq(T) /\ G[n - 1] = Sift(F[n - 1], R) /\ s[n] \in T
        BY <1>0, <1>2
    <2>2. /\ s[n] \in S => F[n] = F[n - 1]
          /\ s[n] \notin S => F[n] = Append(F[n - 1], s[n])
        BY SiftedSteps
    <2>3. /\ s[n] \in Both => G[n] = G[n - 1]
          /\ s[n] \notin Both => G[n] = Append(G[n - 1], s[n])
        <3> HIDE DEF Both
        <3> QED
            BY SiftedSteps
    <2> HIDE DEF F, G
    <2>4. F[n] \in Seq(T)
        <3>1. Append(F[n - 1], s[n]) \in Seq(T)
            BY <2>1, AppendProperties
        <3> QED
            BY <2>1, <2>2, <3>1
    <2>5. CASE s[n] \in S
        BY <1>0, <2>1, <2>2, <2>3, <2>5 DEF F, G
    <2>6. CASE s[n] \notin S /\ s[n] \in R
        <3>1. Sift(Append(F[n - 1], s[n]), R) = Sift(F[n - 1], R)
            BY <2>1, <2>6, SiftAppend
        <3>2. G[n] = Sift(F[n], R)
            BY <2>1, <2>2, <2>3, <2>6, <3>1
        <3> QED
            BY <1>0, <2>4, <3>2 DEF F, G
    <2>7. CASE s[n] \notin S /\ s[n] \notin R
        <3>1. Sift(Append(F[n - 1], s[n]), R) = Append(Sift(F[n - 1], R), s[n])
            BY <2>1, <2>7, SiftAppend
        <3>2. G[n] = Sift(F[n], R)
            BY <2>1, <2>2, <2>3, <2>7, <3>1
        <3> QED
            BY <1>0, <2>4, <3>2 DEF F, G
    <2> QED
        BY <2>5, <2>6, <2>7
<1>3. Len(s) \in P
    <2> HIDE DEF P
    <2>1. 0 .. Len(s) \subseteq P
        BY <1>0, <1>1, <1>2, UpTo, Zenon
    <2> QED
        BY <1>0, <2>1
<1> QED
    BY <1>3 DEF Sift

\* c is a followed by b.
Joined(T, a, b, c) ==
    /\ a \in Seq(T) /\ b \in Seq(T) /\ c \in Seq(T)
    /\ Len(c) = Len(a) + Len(b)
    /\ \A i \in 1 .. Len(a) : c[i] = a[i]
    /\ \A i \in 1 .. Len(b) : c[Len(a) + i] = b[i]

LEMMA JoinedIsConcat ==
    ASSUME NEW T, NEW a, NEW b, NEW c, Joined(T, a, b, c)
    PROVE  c = a \o b
<1>0. Len(a) \in Nat /\ Len(b) \in Nat
    BY LenProperties DEF Joined
<1>1. \A i \in 1 .. Len(c) : c[i] = IF i <= Len(a) THEN a[i] ELSE b[i - Len(a)]
    <2> SUFFICES ASSUME NEW i \in 1 .. Len(c), i > Len(a) PROVE c[i] = b[i - Len(a)]
        BY <1>0 DEF Joined
    <2>1. i - Len(a) \in 1 .. Len(b) /\ Len(a) + (i - Len(a)) = i
        BY <1>0 DEF Joined
    <2> QED
        BY <2>1 DEF Joined
<1>2. /\ a \o b \in Seq(T) /\ Len(a \o b) = Len(a) + Len(b)
      /\ \A i \in 1 .. Len(a) + Len(b) : (a \o b)[i] = IF i <= Len(a) THEN a[i] ELSE b[i - Len(a)]
    BY ConcatProperties DEF Joined
<1> QED
    BY <1>1, <1>2, SeqEqual DEF Joined

LEMMA JoinedAppend ==
    ASSUME NEW T, NEW a, NEW b, NEW c, Joined(T, a, b, c), NEW x \in T
    PROVE  Joined(T, a, Append(b, x), Append(c, x))
<1>0. Len(a) \in Nat /\ Len(b) \in Nat /\ Len(c) = Len(a) + Len(b)
    BY LenProperties DEF Joined
<1> DEFINE bx == Append(b, x)
           cx == Append(c, x)
<1>1. /\ bx \in Seq(T) /\ Len(bx) = Len(b) + 1
      /\ bx[Len(b) + 1] = x /\ \A i \in 1 .. Len(b) : bx[i] = b[i]
    BY AppendProperties DEF Joined
<1>2. /\ cx \in Seq(T) /\ Len(cx) = Len(c) + 1
      /\ cx[Len(c) + 1] = x /\ \A i \in 1 .. Len(c) : cx[i] = c[i]
    BY AppendProperties DEF Joined
<1> HIDE DEF bx, cx
<1>3. \A i \in 1 .. Len(a) : cx[i] = a[i]
    BY <1>0, <1>2 DEF Joined
<1>4. ASSUME NEW i \in 1 .. Len(b) + 1 PROVE cx[Len(a) + i] = bx[i]
    <2>1. CASE i = Len(b) + 1
        BY <1>0, <1>1, <1>2, <2>1
    <2>2. CASE i \in 1 .. Len(b)
        <3>1. Len(a) + i \in 1 .. Len(c) /\ c[Len(a) + i] = b[i]
            BY <1>0, <2>2 DEF Joined
        <3> QED
            BY <1>1, <1>2, <2>2, <3>1
    <2> QED
        BY <1>0, <2>1, <2>2
<1>5. Joined(T, a, bx, cx)
    BY <1>0, <1>1, <1>2, <1>3, <1>4 DEF Joined
<1> QED
    BY <1>5 DEF bx, cx

\* Sifting a concatenation.
LEMMA SiftConcat ==
    ASSUME NEW T, NEW s \in Seq(T), NEW t \in Seq(T), NEW S
    PROVE  Sift(s \o t, S) = Sift(s, S) \o Sift(t, S)
<1> DEFINE u == s \o t
           A == Sift(s, S)
           F == Sifted(t, S)
           G == Sifted(u, S)
           P == {n \in 0 .. Len(t) : Joined(T, A, F[n], G[Len(s) + n])}
<1>0. /\ u \in Seq(T) /\ Len(s) \in Nat /\ Len(t) \in Nat /\ Len(u) = Len(s) + Len(t)
      /\ \A i \in 1 .. Len(s) : u[i] = s[i]
      /\ \A i \in 1 .. Len(t) : u[Len(s) + i] = t[i]
    BY ConcatProperties, LenProperties
<1>1. A \in Seq(T)
    BY SiftElements
<1>2. 0 \in P
    <2> HIDE DEF u
    <2>1. G[Len(s)] = A
        BY <1>0, SiftedPrefix
    <2>2. F[0] = <<>> /\ <<>> \in Seq(T) /\ Len(<<>>) = 0
        BY SiftedSteps, EmptySeq
    <2>3. 0 \in 0 .. Len(t) /\ Len(s) + 0 = Len(s)
        BY <1>0
    <2> HIDE DEF A, F, G
    <2>4. Joined(T, A, <<>>, A)
        BY <1>1, <2>2, LenProperties DEF Joined
    <2> QED
        BY <2>1, <2>2, <2>3, <2>4
<1>3. ASSUME NEW n \in 1 .. Len(t), n - 1 \in P PROVE n \in P
    <2> DEFINE m == Len(s) + n
               l == Len(s) + (n - 1)
    <2>1. Joined(T, A, F[n - 1], G[l]) /\ t[n] \in T
        BY <1>0, <1>3
    <2>2. m \in 1 .. Len(u) /\ m - 1 = l /\ u[m] = t[n] /\ n \in 0 .. Len(t)
        BY <1>0
    <2> HIDE DEF u, m, l, A
    <2>3. /\ t[n] \in S => F[n] = F[n - 1]
          /\ t[n] \notin S => F[n] = Append(F[n - 1], t[n])
        BY SiftedSteps
    <2>4. /\ u[m] \in S => G[m] = G[m - 1]
          /\ u[m] \notin S => G[m] = Append(G[m - 1], u[m])
        <3>1. u \in Seq(T) /\ m \in 1 .. Len(u)
            BY <1>0, <2>2
        <3> QED
            BY <3>1, SiftedSteps, Zenon
    <2> HIDE DEF F, G
    <2>5. Joined(T, A, Append(F[n - 1], t[n]), Append(G[l], t[n]))
        BY <2>1, JoinedAppend
    <2>6. Joined(T, A, F[n], G[m])
        BY <2>1, <2>2, <2>3, <2>4, <2>5
    <2> QED
        BY <2>2, <2>6 DEF m
<1>4. Len(t) \in P
    <2> HIDE DEF P
    <2>1. 0 .. Len(t) \subseteq P
        BY <1>0, <1>2, <1>3, UpTo, Zenon
    <2> QED
        BY <1>0, <2>1
<1>5. Joined(T, A, Sifted(t, S)[Len(t)], Sifted(u, S)[Len(u)])
    BY <1>0, <1>4
<1> QED
    BY <1>5, JoinedIsConcat DEF Sift

\* Nothing to leave out, or everything.
LEMMA SiftNone ==
    ASSUME NEW T, NEW s \in Seq(T), NEW S, Elements(s) \cap S = {}
    PROVE  Sift(s, S) = s
<1> DEFINE F == Sifted(s, S)
           P == {n \in 0 .. Len(s) : F[n] = SubSeq(s, 1, n)}
<1>0. Len(s) \in Nat
    BY SiftedSteps
<1>1. 0 \in P
    <2>1. F[0] = <<>> /\ SubSeq(s, 1, 0) = <<>> /\ 0 \in 0 .. Len(s)
        BY <1>0, SiftedSteps
    <2> HIDE DEF F
    <2> QED
        BY <2>1
<1>2. ASSUME NEW n \in 1 .. Len(s), n - 1 \in P PROVE n \in P
    <2>1. s[n] \notin S
        BY <1>0 DEF Elements
    <2>2. F[n] = Append(F[n - 1], s[n])
        BY <2>1, SiftedSteps
    <2> HIDE DEF F
    <2>3. F[n - 1] = SubSeq(s, 1, n - 1)
        BY <1>2
    <2>4. Append(SubSeq(s, 1, n - 1), s[n]) = SubSeq(s, 1, n)
        BY <1>0
    <2>5. F[n] = SubSeq(s, 1, n) /\ n \in 0 .. Len(s)
        BY <1>0, <2>2, <2>3, <2>4
    <2> QED
        BY <2>5
<1>3. Len(s) \in P
    <2> HIDE DEF P
    <2>1. 0 .. Len(s) \subseteq P
        BY <1>0, <1>1, <1>2, UpTo, Zenon
    <2> QED
        BY <1>0, <2>1
<1>4. SubSeq(s, 1, Len(s)) = s
    BY <1>0
<1> QED
    BY <1>3, <1>4 DEF Sift

LEMMA NoElements ==
    ASSUME NEW T, NEW s \in Seq(T), Elements(s) = {}
    PROVE  s = <<>>
<1>1. Len(s) \in Nat
    BY LenProperties
<1>2. Len(s) # 0 => s[1] \in Elements(s)
    BY <1>1 DEF Elements
<1> QED
    BY <1>1, <1>2, EmptySeq

LEMMA SiftAll ==
    ASSUME NEW T, NEW s \in Seq(T), NEW S, Elements(s) \subseteq S
    PROVE  Sift(s, S) = <<>>
<1>1. Elements(Sift(s, S)) = {} /\ Sift(s, S) \in Seq(T)
    BY SiftElements
<1> QED
    BY <1>1, NoElements

(***************************************************************************)
(* Sequences under names of their own, so that an equation between         *)
(* concatenations is one between terms.                                    *)
(***************************************************************************)
Cat(a, b) == a \o b
One(x) == <<x>>

LEMMA CatProperties ==
    ASSUME NEW T
    PROVE  /\ \A a, b \in Seq(T) : Cat(a, b) \in Seq(T) /\ Elements(Cat(a, b)) = Elements(a) \cup Elements(b)
           /\ \A a, b, c \in Seq(T) : Cat(Cat(a, b), c) = Cat(a, Cat(b, c))
           /\ \A a \in Seq(T) : Cat(a, <<>>) = a /\ Cat(<<>>, a) = a
           /\ <<>> \in Seq(T) /\ Elements(<<>>) = {}
           /\ \A x \in T : One(x) \in Seq(T) /\ Elements(One(x)) = {x}
<1>1. ASSUME NEW a \in Seq(T), NEW b \in Seq(T)
      PROVE  a \o b \in Seq(T) /\ Elements(a \o b) = Elements(a) \cup Elements(b)
    <2> DEFINE c == a \o b
    <2>1. /\ c \in Seq(T) /\ Len(c) = Len(a) + Len(b) /\ Len(a) \in Nat /\ Len(b) \in Nat
          /\ \A i \in 1 .. Len(a) + Len(b) : c[i] = IF i <= Len(a) THEN a[i] ELSE b[i - Len(a)]
        BY ConcatProperties, LenProperties
    <2> HIDE DEF c
    <2>2. ASSUME NEW i \in 1 .. Len(c) PROVE c[i] \in Elements(a) \cup Elements(b)
        <3>1. CASE i <= Len(a)
            BY <2>1, <3>1 DEF Elements
        <3>2. CASE ~(i <= Len(a))
            <4>1. i - Len(a) \in 1 .. Len(b) /\ c[i] = b[i - Len(a)]
                BY <2>1, <3>2
            <4> QED
                BY <4>1 DEF Elements
        <3> QED
            BY <3>1, <3>2
    <2>3. ASSUME NEW i \in 1 .. Len(a) PROVE a[i] \in Elements(c)
        <3>1. i \in 1 .. Len(c) /\ c[i] = a[i]
            BY <2>1
        <3> QED
            BY <3>1 DEF Elements
    <2>4. ASSUME NEW i \in 1 .. Len(b) PROVE b[i] \in Elements(c)
        <3>1. Len(a) + i \in 1 .. Len(c) /\ ~(Len(a) + i <= Len(a)) /\ (Len(a) + i) - Len(a) = i
            BY <2>1
        <3>2. c[Len(a) + i] = b[i]
            BY <2>1, <3>1
        <3> QED
            BY <3>1, <3>2 DEF Elements
    <2>5. Elements(c) = Elements(a) \cup Elements(b)
        BY <2>2, <2>3, <2>4 DEF Elements
    <2> QED
        BY <2>1, <2>5 DEF c
<1>2. \A a, b, c \in Seq(T) : (a \o b) \o c = a \o (b \o c)
    BY ConcatAssociative
<1>3. \A a \in Seq(T) : a \o <<>> = a /\ <<>> \o a = a
    BY ConcatEmptySeq
<1>4. <<>> \in Seq(T) /\ Elements(<<>>) = {}
    BY EmptySeq DEF Elements
<1>5. \A x \in T : <<x>> \in Seq(T) /\ Elements(<<x>>) = {x}
    BY DEF Elements
<1> QED
    BY <1>1, <1>2, <1>3, <1>4, <1>5 DEF Cat, One

LEMMA CatType ==
    ASSUME NEW T, NEW a \in Seq(T), NEW b \in Seq(T)
    PROVE  Cat(a, b) \in Seq(T)
BY CatProperties

LEMMA CatElements ==
    ASSUME NEW T, NEW a \in Seq(T), NEW b \in Seq(T)
    PROVE  Elements(Cat(a, b)) = Elements(a) \cup Elements(b)
BY CatProperties

LEMMA CatAssoc ==
    ASSUME NEW T, NEW a \in Seq(T), NEW b \in Seq(T), NEW c \in Seq(T)
    PROVE  Cat(Cat(a, b), c) = Cat(a, Cat(b, c))
BY CatProperties

LEMMA CatNone ==
    ASSUME NEW T, NEW a \in Seq(T)
    PROVE  Cat(a, <<>>) = a /\ Cat(<<>>, a) = a
BY CatProperties

LEMMA OneIs ==
    ASSUME NEW T, NEW x \in T
    PROVE  One(x) \in Seq(T) /\ Elements(One(x)) = {x}
BY CatProperties

LEMMA CatAppend ==
    ASSUME NEW T, NEW s \in Seq(T), NEW x \in T
    PROVE  Append(s, x) = Cat(s, One(x))
BY AppendIsConcat DEF Cat, One

LEMMA CatHead ==
    ASSUME NEW T, NEW s \in Seq(T), s # <<>>
    PROVE  Head(s) \in T /\ Tail(s) \in Seq(T) /\ s = Cat(One(Head(s)), Tail(s))
<1>1. Head(s) \in T /\ Tail(s) \in Seq(T)
    BY HeadTailProperties
<1>2. s = <<Head(s)>> \o Tail(s)
    BY HeadTailProperties
<1> QED
    BY <1>1, <1>2 DEF Cat, One

LEMMA HeadElements ==
    ASSUME NEW T, NEW s \in Seq(T), s # <<>>
    PROVE  Elements(s) = {Head(s)} \cup Elements(Tail(s))
<1> DEFINE x == Head(s)
           t == Tail(s)
<1>1. x \in T /\ t \in Seq(T)
    BY CatHead
<1>2. s = Cat(One(x), t)
    BY CatHead
<1> HIDE DEF x, t
<1>3. One(x) \in Seq(T) /\ Elements(One(x)) = {x}
    BY <1>1, OneIs
<1>4. Elements(Cat(One(x), t)) = Elements(One(x)) \cup Elements(t)
    BY <1>1, <1>3, CatElements
<1>5. Elements(s) = {x} \cup Elements(t)
    BY <1>2, <1>3, <1>4
<1> QED
    BY <1>5 DEF x, t

LEMMA SiftOfCat ==
    ASSUME NEW T, NEW S, NEW a \in Seq(T), NEW b \in Seq(T)
    PROVE  Sift(Cat(a, b), S) = Cat(Sift(a, S), Sift(b, S))
BY SiftConcat DEF Cat

LEMMA SiftOne ==
    ASSUME NEW T, NEW S, NEW x \in T
    PROVE  /\ x \in S => Sift(One(x), S) = <<>>
           /\ x \notin S => Sift(One(x), S) = One(x)
<1>1. One(x) \in Seq(T) /\ Elements(One(x)) = {x}
    BY OneIs
<1>2. CASE x \in S
    BY <1>1, <1>2, SiftAll
<1>3. CASE x \notin S
    <2>1. Elements(One(x)) \cap S = {}
        BY <1>1, <1>3
    <2>2. Sift(One(x), S) = One(x)
        BY <1>1, <2>1, SiftNone
    <2> QED
        BY <1>3, <2>2
<1> QED
    BY <1>2, <1>3

LEMMA SiftEmpty == \A S : Sift(<<>>, S) = <<>>
BY CatProperties, SiftAll

-----------------------------------------------------------------------------
(***************************************************************************)
(* The invariants                                                          *)
(***************************************************************************)

Rec == Query \cup {Divergence(q) : q \in Query}
Message == Rec \cup {Flush}

Places ==
    /\ task \in [Query -> {"none", "spawned", "handling", "logged"}]
    /\ compare \in [Query -> {"none", "asking", "diverged"}]
    /\ inside \subseteq Query
    /\ drops \in Nat

\* The writer holds a batch only between recv and the end of the transaction; a
\* writer that never started took nothing.
Streams ==
    /\ queue \in Seq(Message) /\ batch \in Seq(Message)
    /\ accepted \in Seq(Message) /\ disk \in Seq(Message)
    /\ Elements(accepted) \cup Elements(disk) \subseteq Rec
    /\ lost \subseteq Elements(accepted)
    /\ wpc \in {"recv", "take", "write", "dead"}
    /\ wpc \in {"recv", "dead"} => batch = <<>>
    /\ wpc = "dead" => accepted = <<>>

\* What was taken and not lost, in order.
InOrder == Sift(accepted, lost) = Cat(Cat(disk, Records(batch)), Records(queue))

\* A query is compared after it has left, and its records are taken after the
\* task or the comparison made them.
Lives ==
    \A q \in Query :
        /\ q \in inside => task[q] \in {"handling", "logged"} /\ compare[q] = "none"
        /\ compare[q] # "none" => task[q] = "logged"
        /\ q \in Elements(accepted) => task[q] = "logged"
        /\ Divergence(q) \in Elements(accepted) => compare[q] = "diverged"

\* No record is in two places, or twice in the queue.
Once ==
    /\ \A r \in Rec : r \in Elements(batch) => r \notin Elements(disk) /\ r \notin Elements(queue)
    /\ \A r \in Rec : r \in Elements(queue) => r \notin Elements(disk)
    /\ \A i, j \in 1 .. Len(queue) : queue[i] = queue[j] /\ queue[i] \in Rec => i = j

Made == Cardinality({q \in Query : task[q] = "logged"}) + Cardinality({q \in Query : compare[q] = "diverged"})

Counted == Made = Len(accepted) + drops

DivergenceAfter ==
    \A i, j \in 1 .. Len(accepted), q \in Query :
        accepted[i] = Divergence(q) /\ accepted[j] = q => j < i

StreamInv == Streams /\ InOrder /\ Once
AccountInv == Places /\ StreamInv /\ Lives /\ Counted /\ DivergenceAfter

LEMMA AccountImplies == AccountInv => LogAccounted
BY DEF AccountInv, StreamInv, InOrder, Counted, Made, DivergenceAfter, LogAccounted, Cat

LEMMA RecordKinds ==
    /\ Flush \notin Rec
    /\ \A q \in Query : Divergence(q) \notin Query /\ Divergence(q) # Flush
    /\ \A q, r \in Query : Divergence(q) = Divergence(r) => q = r
<1>1. /\ Flush \notin Query
      /\ \A q \in Query : Divergence(q) \notin Query /\ Divergence(q) # Flush
    BY LogAssumption
<1>2. \A q, r \in Query : Divergence(q) = Divergence(r) => q = r
    BY DEF Divergence
<1> QED
    BY <1>1, <1>2 DEF Rec

\* The records that were taken are on their way, on disk or lost.
LEMMA WhereRecordsAre ==
    ASSUME Streams, InOrder
    PROVE  Elements(accepted) \ lost
             = Elements(disk) \cup (Elements(batch) \ {Flush}) \cup (Elements(queue) \ {Flush})
<1>1. Elements(Sift(accepted, lost)) = Elements(accepted) \ lost
    BY SiftElements DEF Streams
<1>2. /\ Records(batch) \in Seq(Message) /\ Elements(Records(batch)) = Elements(batch) \ {Flush}
      /\ Records(queue) \in Seq(Message) /\ Elements(Records(queue)) = Elements(queue) \ {Flush}
    BY SiftElements DEF Streams, Records
<1>3. disk \in Seq(Message)
    BY DEF Streams
<1>4. Cat(disk, Records(batch)) \in Seq(Message)
    BY <1>2, <1>3, CatType
<1> DEFINE D == Cat(disk, Records(batch))
<1>5. Elements(D) = Elements(disk) \cup Elements(Records(batch))
    BY <1>2, <1>3, CatElements
<1>6. Elements(Cat(D, Records(queue))) = Elements(D) \cup Elements(Records(queue))
    BY <1>2, <1>4, CatElements
<1>7. Sift(accepted, lost) = Cat(D, Records(queue))
    BY DEF InOrder
<1> HIDE DEF D
<1> QED
    BY <1>1, <1>2, <1>5, <1>6, <1>7

\* DbWriter::log of a record that was not taken before.
LEMMA PutStream ==
    ASSUME StreamInv, drops \in Nat, NEW x \in Rec, x \notin Elements(accepted), Put(x),
           UNCHANGED <<batch, disk, lost, wpc>>
    PROVE  /\ StreamInv'
           /\ Elements(accepted') \subseteq Elements(accepted) \cup {x}
           /\ drops' \in Nat /\ Len(accepted') + drops' = Len(accepted) + drops + 1
           /\ \/ accepted' = accepted
              \/ /\ Len(accepted') = Len(accepted) + 1 /\ accepted'[Len(accepted) + 1] = x
                 /\ \A i \in 1 .. Len(accepted) : accepted'[i] = accepted[i]
<1>0. Streams /\ InOrder /\ Once /\ x \in Message /\ x # Flush /\ Len(accepted) \in Nat /\ Len(queue) \in Nat
    BY RecordKinds, LenProperties DEF StreamInv, Streams, Message
<1>1. CASE UNCHANGED <<queue, accepted>>
    <2>1. drops' = drops + 1
        BY <1>0, <1>1 DEF Put, Streams
    <2> QED
        BY <1>0, <1>1, <2>1 DEF StreamInv, Streams, InOrder, Once
<1>2. CASE ~UNCHANGED <<queue, accepted>>
    <2>1. /\ queue' = Append(queue, x) /\ accepted' = Append(accepted, x) /\ drops' = drops /\ wpc # "dead"
        BY <1>2 DEF Put
    <2>2. queue' = Cat(queue, One(x)) /\ accepted' = Cat(accepted, One(x))
        BY <1>0, <2>1, CatAppend DEF Streams
    <2>3. /\ queue' \in Seq(Message) /\ Elements(queue') = Elements(queue) \cup {x}
          /\ accepted' \in Seq(Message) /\ Elements(accepted') = Elements(accepted) \cup {x}
        <3>1. One(x) \in Seq(Message) /\ Elements(One(x)) = {x}
            BY <1>0, OneIs
        <3>2. queue \in Seq(Message) /\ accepted \in Seq(Message)
            BY <1>0 DEF Streams
        <3>3. /\ Cat(queue, One(x)) \in Seq(Message)
              /\ Elements(Cat(queue, One(x))) = Elements(queue) \cup Elements(One(x))
            BY <3>1, <3>2, CatType, CatElements
        <3>4. /\ Cat(accepted, One(x)) \in Seq(Message)
              /\ Elements(Cat(accepted, One(x))) = Elements(accepted) \cup Elements(One(x))
            BY <3>1, <3>2, CatType, CatElements
        <3> QED
            BY <2>2, <3>1, <3>3, <3>4, Zenon
    <2>4. /\ Len(accepted') = Len(accepted) + 1 /\ accepted'[Len(accepted) + 1] = x
          /\ \A i \in 1 .. Len(accepted) : accepted'[i] = accepted[i]
          /\ Len(queue') = Len(queue) + 1 /\ queue'[Len(queue) + 1] = x
          /\ \A i \in 1 .. Len(queue) : queue'[i] = queue[i]
        BY <1>0, <2>1, AppendProperties DEF Streams
    <2>5. Streams'
        BY <1>0, <2>1, <2>3 DEF Streams
    <2>6. x \notin lost /\ x \notin Elements(disk) /\ x \notin Elements(batch) /\ x \notin Elements(queue)
        BY <1>0, WhereRecordsAre DEF Streams
    <2>7. Once'
        <3>1. \A i, j \in 1 .. Len(queue') : queue'[i] = queue'[j] /\ queue'[i] \in Rec => i = j
            <4>1. \A i \in 1 .. Len(queue) : queue[i] # x
                BY <2>6 DEF Elements
            <4> QED
                BY <1>0, <2>4, <4>1 DEF Once
        <3> QED
            BY <1>0, <2>3, <2>6, <3>1 DEF Once
    <2>8. InOrder'
        <3> DEFINE A == Sift(accepted, lost)
                   D == Cat(disk, Records(batch))
                   Q == Records(queue)
                   X == One(x)
        <3>0. X \in Seq(Message) /\ queue \in Seq(Message) /\ accepted \in Seq(Message) /\ lost' = lost
            BY <1>0, OneIs DEF Streams
        <3>1. Sift(accepted', lost') = Cat(A, X)
            <4>1. Sift(X, lost) = X
                BY <1>0, <2>6, SiftOne
            <4>2. Sift(Cat(accepted, X), lost) = Cat(Sift(accepted, lost), Sift(X, lost))
                BY <3>0, SiftOfCat
            <4> QED
                BY <2>2, <3>0, <4>1, <4>2, Zenon
        <3>2. Records(queue') = Cat(Q, X)
            <4>1. x \notin {Flush}
                BY <1>0
            <4>2. Sift(X, {Flush}) = X
                BY <1>0, <4>1, SiftOne
            <4>3. Sift(Cat(queue, X), {Flush}) = Cat(Sift(queue, {Flush}), Sift(X, {Flush}))
                BY <3>0, SiftOfCat
            <4> QED
                BY <2>2, <4>2, <4>3, Zenon DEF Records
        <3>3. Q \in Seq(Message) /\ X \in Seq(Message) /\ D \in Seq(Message)
            <4>1. Records(batch) \in Seq(Message) /\ Q \in Seq(Message)
                BY <1>0, SiftElements DEF Streams, Records
            <4> QED
                BY <1>0, <4>1, CatType, OneIs DEF Streams
        <3>4. Cat(Cat(D, Q), X) = Cat(D, Cat(Q, X))
            BY <3>3, CatAssoc
        <3>5. A = Cat(D, Q)
            BY <1>0 DEF InOrder
        <3> QED
            BY <3>1, <3>2, <3>4, <3>5 DEF InOrder
    <2> QED
        BY <1>0, <2>1, <2>3, <2>4, <2>5, <2>7, <2>8 DEF StreamInv
<1> QED
    BY <1>1, <1>2

\* flush joins the queue.
LEMMA FlushStream ==
    ASSUME StreamInv, queue' = Append(queue, Flush), UNCHANGED <<batch, disk, accepted, lost, wpc>>
    PROVE  StreamInv' /\ Elements(queue') = Elements(queue) \cup {Flush}
<1>0. Streams /\ InOrder /\ Once /\ queue \in Seq(Message) /\ Flush \in Message /\ Flush \notin Rec
    BY RecordKinds DEF StreamInv, Streams, Message
<1>1. queue' = Cat(queue, One(Flush))
    BY <1>0, CatAppend
<1>2. One(Flush) \in Seq(Message) /\ Elements(One(Flush)) = {Flush}
    BY <1>0, OneIs
<1>3. queue' \in Seq(Message) /\ Elements(queue') = Elements(queue) \cup {Flush}
    <2>1. Cat(queue, One(Flush)) \in Seq(Message)
        BY <1>0, <1>2, CatType
    <2>2. Elements(Cat(queue, One(Flush))) = Elements(queue) \cup Elements(One(Flush))
        BY <1>0, <1>2, CatElements
    <2> QED
        BY <1>1, <1>2, <2>1, <2>2
<1>4. Records(queue') = Records(queue)
    <2>1. Sift(Cat(queue, One(Flush)), {Flush}) = Cat(Sift(queue, {Flush}), Sift(One(Flush), {Flush}))
        BY <1>0, <1>2, SiftOfCat
    <2>2. Sift(One(Flush), {Flush}) = <<>>
        BY <1>0, SiftOne
    <2>3. Sift(queue, {Flush}) \in Seq(Message)
        BY <1>0, SiftElements
    <2>4. Cat(Sift(queue, {Flush}), <<>>) = Sift(queue, {Flush})
        BY <2>3, CatNone
    <2> QED
        BY <1>1, <2>1, <2>2, <2>4 DEF Records
<1>5. Streams'
    BY <1>0, <1>3 DEF Streams
<1>6. InOrder'
    BY <1>0, <1>4 DEF InOrder, Records
<1>7. Once'
    <2>1. /\ Len(queue) \in Nat /\ Len(queue') = Len(queue) + 1 /\ queue'[Len(queue) + 1] = Flush
          /\ \A i \in 1 .. Len(queue) : queue'[i] = queue[i]
        BY <1>0, AppendProperties, LenProperties
    <2>2. \A i, j \in 1 .. Len(queue') : queue'[i] = queue'[j] /\ queue'[i] \in Rec => i = j
        BY <1>0, <2>1 DEF Once
    <2>3. \A r \in Rec : r \in Elements(queue') => r \in Elements(queue)
        BY <1>0, <1>3
    <2>4. UNCHANGED <<batch, disk>>
        OBVIOUS
    <2> HIDE DEF Elements
    <2> QED
        BY <1>0, <2>2, <2>3, <2>4 DEF Once
<1> QED
    BY <1>3, <1>5, <1>6, <1>7 DEF StreamInv

\* The writer takes the next message.
LEMMA TakeStream ==
    ASSUME StreamInv, queue # <<>>, wpc' = "take", wpc # "dead",
           batch' = Cat(batch, One(Head(queue))), queue' = Tail(queue),
           UNCHANGED <<disk, accepted, lost>>
    PROVE  /\ StreamInv'
           /\ Elements(batch') = Elements(batch) \cup {queue[1]}
           /\ Len(queue) \in Nat \ {0} /\ Len(queue') = Len(queue) - 1
           /\ \A i \in 1 .. Len(queue') : queue'[i] = queue[i + 1]
<1> DEFINE h == Head(queue)
<1>0. Streams /\ InOrder /\ Once /\ queue \in Seq(Message) /\ batch \in Seq(Message) /\ disk \in Seq(Message)
    BY DEF StreamInv, Streams
<1>1. h \in Message /\ queue' \in Seq(Message) /\ queue = Cat(One(h), queue')
    BY <1>0, CatHead
<1>2. /\ Len(queue) \in Nat \ {0} /\ Len(queue') = Len(queue) - 1 /\ h = queue[1]
      /\ \A i \in 1 .. Len(queue') : queue'[i] = queue[i + 1]
    BY <1>0, HeadTailProperties, LenProperties, EmptySeq
<1>3. One(h) \in Seq(Message) /\ Elements(One(h)) = {h}
    BY <1>1, OneIs
<1> HIDE DEF h
<1>4. /\ batch' \in Seq(Message) /\ Elements(batch') = Elements(batch) \cup {h}
      /\ Elements(queue) = Elements(queue') \cup {h}
    <2>1. batch' = Cat(batch, One(h))
        BY DEF h
    <2>2. /\ Cat(batch, One(h)) \in Seq(Message)
          /\ Elements(Cat(batch, One(h))) = Elements(batch) \cup Elements(One(h))
        <3>1. Cat(batch, One(h)) \in Seq(Message)
            BY <1>0, <1>3, CatType
        <3>2. Elements(Cat(batch, One(h))) = Elements(batch) \cup Elements(One(h))
            BY <1>0, <1>3, CatElements
        <3> QED
            BY <3>1, <3>2
    <2>3. Elements(queue) = {h} \cup Elements(queue')
        BY <1>0, HeadElements DEF h
    <2> QED
        BY <1>3, <2>1, <2>2, <2>3
<1>5. Streams'
    BY <1>0, <1>1, <1>4 DEF Streams
<1>6. InOrder'
    <2> DEFINE X == Sift(One(h), {Flush})
               B == Records(batch)
               Q == Records(queue')
    <2>1. Records(batch') = Cat(B, X)
        <3>1. Sift(Cat(batch, One(h)), {Flush}) = Cat(Sift(batch, {Flush}), Sift(One(h), {Flush}))
            BY <1>0, <1>3, SiftOfCat
        <3> QED
            BY <3>1 DEF Records, h
    <2>2. Records(queue) = Cat(X, Q)
        <3>1. Sift(Cat(One(h), queue'), {Flush}) = Cat(Sift(One(h), {Flush}), Sift(queue', {Flush}))
            BY <1>1, <1>3, SiftOfCat
        <3>2. Sift(queue, {Flush}) = Cat(Sift(One(h), {Flush}), Sift(queue', {Flush}))
            BY <1>1, <3>1
        <3> QED
            BY <3>2 DEF Records
    <2>3. X \in Seq(Message) /\ B \in Seq(Message) /\ Q \in Seq(Message)
        BY <1>0, <1>1, <1>3, SiftElements DEF Records
    <2>4. Sift(accepted, lost) = Cat(Cat(disk, B), Cat(X, Q))
        BY <1>0, <2>2 DEF InOrder
    <2> HIDE DEF X, B, Q
    <2>5. Cat(Cat(disk, B), Cat(X, Q)) = Cat(Cat(Cat(disk, B), X), Q)
        <3>1. Cat(disk, B) \in Seq(Message)
            BY <1>0, <2>3, CatType
        <3> QED
            BY <2>3, <3>1, CatAssoc
    <2>6. Cat(Cat(disk, B), X) = Cat(disk, Cat(B, X))
        BY <1>0, <2>3, CatAssoc
    <2>7. Sift(accepted, lost) = Cat(Cat(disk, Records(batch')), Q)
        BY <2>1, <2>4, <2>5, <2>6
    <2> QED
        BY <2>7 DEF InOrder, Q, Records
<1>7. Once'
    <2>1. \A i, j \in 1 .. Len(queue') : queue'[i] = queue'[j] /\ queue'[i] \in Rec => i = j
        BY <1>0, <1>2 DEF Once
    <2>2. h \in Rec => h \notin Elements(queue')
        <3> SUFFICES ASSUME h \in Rec, NEW i \in 1 .. Len(queue'), queue'[i] = h PROVE FALSE
            BY DEF Elements
        <3>1. i + 1 \in 1 .. Len(queue) /\ 1 \in 1 .. Len(queue) /\ queue[i + 1] = queue[1] /\ queue[i + 1] \in Rec
            BY <1>2
        <3> QED
            BY <1>0, <3>1 DEF Once
    <2>3. \A r \in Rec : r \in Elements(batch') => r \notin Elements(disk') /\ r \notin Elements(queue')
        BY <1>0, <1>4, <2>2 DEF Once
    <2>4. \A r \in Rec : r \in Elements(queue') => r \notin Elements(disk')
        BY <1>0, <1>4 DEF Once
    <2> QED
        BY <2>1, <2>3, <2>4 DEF Once
<1> QED
    BY <1>2, <1>4, <1>5, <1>6, <1>7 DEF StreamInv

\* A batch is committed.
LEMMA CommitStream ==
    ASSUME StreamInv, wpc = "write", wpc' = "recv",
           disk' = Cat(disk, Records(batch)), batch' = <<>>,
           UNCHANGED <<queue, accepted, lost>>
    PROVE  StreamInv' /\ Elements(disk') = Elements(disk) \cup (Elements(batch) \ {Flush})
<1>0. Streams /\ InOrder /\ Once /\ batch \in Seq(Message) /\ disk \in Seq(Message)
    BY DEF StreamInv, Streams
<1>1. Records(batch) \in Seq(Message) /\ Elements(Records(batch)) = Elements(batch) \ {Flush}
    BY <1>0, SiftElements DEF Records
<1>2. disk' \in Seq(Message) /\ Elements(disk') = Elements(disk) \cup (Elements(batch) \ {Flush})
    <2>1. Cat(disk, Records(batch)) \in Seq(Message)
        BY <1>0, <1>1, CatType
    <2>2. Elements(Cat(disk, Records(batch))) = Elements(disk) \cup Elements(Records(batch))
        BY <1>0, <1>1, CatElements
    <2> QED
        BY <1>1, <2>1, <2>2
<1>3. <<>> \in Seq(Message) /\ Elements(<<>>) = {} /\ Records(<<>>) = <<>>
    BY CatProperties, SiftEmpty DEF Records
<1>4. Streams'
    <2>1. Elements(batch) \ {Flush} \subseteq Elements(accepted)
        BY <1>0, WhereRecordsAre
    <2> QED
        BY <1>0, <1>2, <1>3, <2>1 DEF Streams
<1>5. InOrder'
    <2>1. Cat(disk', Records(batch')) = disk'
        BY <1>2, <1>3, CatNone
    <2>2. Sift(accepted, lost) = Cat(disk', Records(queue))
        BY <1>0 DEF InOrder
    <2>3. Sift(accepted, lost) = Cat(Cat(disk', Records(batch')), Records(queue))
        BY <2>1, <2>2
    <2> QED
        BY <2>3 DEF InOrder, Records
<1>6. Once'
    BY <1>0, <1>2, <1>3 DEF Once
<1> QED
    BY <1>2, <1>4, <1>5, <1>6 DEF StreamInv

\* A transaction fails.
LEMMA FailStream ==
    ASSUME StreamInv, wpc = "write", wpc' = "recv",
           lost' = lost \cup (Elements(batch) \ {Flush}), batch' = <<>>,
           UNCHANGED <<queue, accepted, disk>>
    PROVE  StreamInv'
<1> DEFINE E == Elements(batch) \ {Flush}
           B == Records(batch)
           Q == Records(queue)
           D == Cat(disk, B)
<1>0. Streams /\ InOrder /\ Once /\ batch \in Seq(Message) /\ disk \in Seq(Message) /\ queue \in Seq(Message)
      /\ accepted \in Seq(Message) /\ Flush \notin Rec
    BY RecordKinds DEF StreamInv, Streams
<1>1. /\ B \in Seq(Message) /\ Elements(B) = E
      /\ Q \in Seq(Message) /\ Elements(Q) = Elements(queue) \ {Flush}
    BY <1>0, SiftElements DEF Records
<1>2. <<>> \in Seq(Message) /\ Elements(<<>>) = {} /\ Records(<<>>) = <<>>
    BY CatProperties, SiftEmpty DEF Records
<1>3. E \subseteq Elements(accepted)
    BY <1>0, WhereRecordsAre
<1>4. Streams'
    BY <1>0, <1>2, <1>3 DEF Streams
<1>5. E \subseteq Rec
    BY <1>0, <1>3 DEF Streams
<1>6. InOrder'
    <2>1. Sift(accepted, lost \cup E) = Sift(Sift(accepted, lost), E)
        BY <1>0, SiftTwice
    <2>2. Sift(accepted, lost) = Cat(D, Q)
        BY <1>0 DEF InOrder
    <2>3. D \in Seq(Message)
        BY <1>0, <1>1, CatType
    <2>4. Sift(Q, E) = Q
        <3>1. Elements(Q) \cap E = {}
            BY <1>0, <1>1, <1>5 DEF Once
        <3> HIDE DEF E, Q
        <3> QED
            BY <1>1, <3>1, SiftNone
    <2>5. Sift(disk, E) = disk
        <3>1. Elements(disk) \cap E = {}
            BY <1>0, <1>5 DEF Once
        <3> HIDE DEF E
        <3> QED
            BY <1>0, <3>1, SiftNone
    <2>6. Sift(B, E) = <<>>
        <3>1. Elements(B) \subseteq E
            BY <1>1
        <3> HIDE DEF E, B
        <3> QED
            BY <1>1, <3>1, SiftAll
    <2> HIDE DEF E, B, Q
    <2>7. Sift(D, E) = Cat(Sift(disk, E), Sift(B, E))
        BY <1>0, <1>1, SiftOfCat
    <2>8. Sift(D, E) = Cat(disk, <<>>)
        BY <2>5, <2>6, <2>7
    <2> HIDE DEF D
    <2>9. Sift(Cat(D, Q), E) = Cat(Sift(D, E), Sift(Q, E))
        BY <1>1, <2>3, SiftOfCat
    <2>10. Sift(accepted, lost \cup E) = Cat(Cat(disk, <<>>), Q)
        BY <2>1, <2>2, <2>4, <2>8, <2>9
    <2>11. lost' = lost \cup E
        BY DEF E
    <2> QED
        BY <1>2, <2>10, <2>11 DEF InOrder, Q, Records
<1>7. Once'
    BY <1>0, <1>2 DEF Once
<1> QED
    BY <1>4, <1>6, <1>7 DEF StreamInv

-----------------------------------------------------------------------------
(***************************************************************************)
(* Every record is accounted for                                           *)
(***************************************************************************)

\* Steps that touch neither the queue nor the writer.
stream == <<queue, batch, disk, accepted, lost, wpc>>

LEMMA StreamFrame ==
    ASSUME StreamInv, UNCHANGED stream
    PROVE  StreamInv'
BY DEF stream, StreamInv, Streams, InOrder, Once, Records

LEMMA OneMore ==
    ASSUME NEW A \in SUBSET Query, NEW q \in Query, q \notin A
    PROVE  Cardinality(A) \in Nat /\ Cardinality(A \cup {q}) = Cardinality(A) + 1
BY LogAssumption, FS_Subset, FS_AddElement, FS_CardinalityType

Logged == {q \in Query : task[q] = "logged"}
Diverged == {q \in Query : compare[q] = "diverged"}

LEMMA CountedFrame ==
    ASSUME Counted, Logged' = Logged, Diverged' = Diverged, UNCHANGED <<accepted, drops>>
    PROVE  Counted'
BY DEF Counted, Made, Logged, Diverged

LEMMA CountedOne ==
    ASSUME Counted, Len(accepted) \in Nat, drops \in Nat, NEW q \in Query,
           \/ q \notin Logged /\ Logged' = Logged \cup {q} /\ Diverged' = Diverged
           \/ q \notin Diverged /\ Diverged' = Diverged \cup {q} /\ Logged' = Logged,
           Len(accepted') + drops' = Len(accepted) + drops + 1
    PROVE  Counted'
<1>1. Made = Cardinality(Logged) + Cardinality(Diverged)
    BY DEF Made, Logged, Diverged
<1>2. Made' = Cardinality(Logged') + Cardinality(Diverged')
    BY DEF Made, Logged, Diverged
<1>3. Logged \in SUBSET Query /\ Diverged \in SUBSET Query
    BY DEF Logged, Diverged
<1>4. Cardinality(Logged) \in Nat /\ Cardinality(Diverged) \in Nat
    BY <1>3, LogAssumption, FS_Subset, FS_CardinalityType
<1>5. Made' = Made + 1
    <2>1. CASE q \notin Logged /\ Logged' = Logged \cup {q} /\ Diverged' = Diverged
        <3>1. Cardinality(Logged') = Cardinality(Logged) + 1
            BY <1>3, <2>1, OneMore
        <3> QED
            BY <1>1, <1>2, <1>4, <2>1, <3>1
    <2>2. CASE q \notin Diverged /\ Diverged' = Diverged \cup {q} /\ Logged' = Logged
        <3>1. Cardinality(Diverged') = Cardinality(Diverged) + 1
            BY <1>3, <2>2, OneMore
        <3> QED
            BY <1>1, <1>2, <1>4, <2>2, <3>1
    <2> QED
        BY <2>1, <2>2
<1> QED
    BY <1>5 DEF Counted

\* A record that is taken does not come before the divergence of its query.
LEMMA DivergenceKept ==
    ASSUME DivergenceAfter, accepted \in Seq(Message), NEW x \in Rec,
           x \in Query => Divergence(x) \notin Elements(accepted),
           x \notin Elements(accepted),
           \/ accepted' = accepted
           \/ /\ Len(accepted') = Len(accepted) + 1 /\ accepted'[Len(accepted) + 1] = x
              /\ \A i \in 1 .. Len(accepted) : accepted'[i] = accepted[i]
    PROVE  DivergenceAfter'
<1>1. CASE accepted' = accepted
    BY <1>1 DEF DivergenceAfter
<1>2. CASE /\ Len(accepted') = Len(accepted) + 1 /\ accepted'[Len(accepted) + 1] = x
           /\ \A i \in 1 .. Len(accepted) : accepted'[i] = accepted[i]
    <2>0. Len(accepted) \in Nat
        BY LenProperties
    <2> SUFFICES ASSUME NEW i \in 1 .. Len(accepted'), NEW j \in 1 .. Len(accepted'), NEW q \in Query,
                        accepted'[i] = Divergence(q), accepted'[j] = q
                 PROVE  j < i
        BY DEF DivergenceAfter
    <2>1. i # j
        BY RecordKinds
    <2>2. CASE i = Len(accepted) + 1
        BY <1>2, <2>0, <2>1, <2>2
    <2>3. CASE j = Len(accepted) + 1
        <3>1. i \in 1 .. Len(accepted) /\ accepted[i] = Divergence(q) /\ x = q
            BY <1>2, <2>0, <2>1, <2>3
        <3> QED
            BY <3>1 DEF Elements
    <2>4. CASE i # Len(accepted) + 1 /\ j # Len(accepted) + 1
        BY <1>2, <2>0, <2>4 DEF DivergenceAfter
    <2> QED
        BY <2>2, <2>3, <2>4
<1> QED
    BY <1>1, <1>2

LEMMA AccountInit == Init => AccountInv
<1> SUFFICES ASSUME Init PROVE AccountInv
    OBVIOUS
<1>1. <<>> \in Seq(Message) /\ Elements(<<>>) = {} /\ Len(<<>>) = 0
    BY CatProperties, EmptySeq
<1>2. Streams
    BY <1>1 DEF Init, Streams
<1>3. InOrder
    <2>1. Sift(<<>>, {}) = <<>> /\ Records(<<>>) = <<>>
        BY SiftEmpty DEF Records
    <2>2. Cat(<<>>, <<>>) = <<>>
        BY <1>1, CatNone
    <2>3. Cat(Cat(<<>>, <<>>), <<>>) = <<>>
        BY <2>2
    <2>4. accepted = <<>> /\ lost = {} /\ disk = <<>> /\ batch = <<>> /\ queue = <<>>
        BY DEF Init
    <2> QED
        BY <2>1, <2>3, <2>4 DEF InOrder
<1>4. Once
    BY <1>1 DEF Init, Once
<1>5. Places
    BY DEF Init, Places
<1>6. Lives
    BY <1>1 DEF Init, Lives
<1>7. Counted
    <2>1. Logged = {} /\ Diverged = {}
        BY DEF Init, Logged, Diverged
    <2>2. Made = 0
        BY <2>1, FS_EmptySet DEF Made, Logged, Diverged
    <2> QED
        BY <1>1, <2>2 DEF Counted, Init
<1>8. DivergenceAfter
    BY <1>1 DEF Init, DivergenceAfter
<1> QED
    BY <1>2, <1>3, <1>4, <1>5, <1>6, <1>7, <1>8 DEF AccountInv, StreamInv

\* A step of a listener, a task or a comparison that logs nothing.
LEMMA QuietAccount ==
    ASSUME AccountInv, UNCHANGED stream, UNCHANGED drops,
           Places', Lives', Logged' = Logged, Diverged' = Diverged
    PROVE  AccountInv'
<1>1. StreamInv'
    BY StreamFrame DEF AccountInv
<1>2. Counted'
    BY CountedFrame DEF AccountInv, stream
<1>3. DivergenceAfter'
    BY DEF AccountInv, DivergenceAfter, stream
<1> QED
    BY <1>1, <1>2, <1>3 DEF AccountInv

LEMMA ReceiveAccount ==
    ASSUME AccountInv, NEW q \in Query, task[q] = "none", task' = [task EXCEPT ![q] = "spawned"],
           UNCHANGED <<inside, compare, drops>>, UNCHANGED stream
    PROVE  AccountInv'
<1>0. Places /\ Lives
    BY DEF AccountInv
<1>1. Places'
    BY <1>0 DEF Places
<1>2. Lives' /\ Logged' = Logged /\ Diverged' = Diverged
    BY <1>0 DEF Places, Lives, Logged, Diverged, stream
<1> QED
    BY <1>1, <1>2, QuietAccount

LEMMA EnterAccount ==
    ASSUME AccountInv, NEW q \in Query, Enter(q)
    PROVE  AccountInv'
<1>0. Places /\ Lives
    BY DEF AccountInv
<1>1. Places' /\ UNCHANGED stream /\ UNCHANGED <<compare, drops, accepted>>
    BY <1>0 DEF Places, Enter, stream, net, history
<1>2. Lives'
    BY <1>0, <1>1 DEF Places, Lives, Enter
<1>3. Logged' = Logged /\ Diverged' = Diverged
    BY <1>0, <1>1 DEF Places, Enter, Logged, Diverged
<1> QED
    BY <1>1, <1>2, <1>3, QuietAccount

LEMMA LeaveAccount ==
    ASSUME AccountInv, NEW q \in Query, Leave(q)
    PROVE  AccountInv'
<1>0. Places /\ Lives
    BY DEF AccountInv
<1>1. UNCHANGED stream /\ UNCHANGED <<task, drops, accepted>> /\ inside' = inside \ {q} /\ task[q] = "logged"
      /\ q \in inside /\ (compare' = compare \/ compare' = [compare EXCEPT ![q] = "asking"])
    BY <1>0 DEF Leave, stream, history
<1>2. Places'
    BY <1>0, <1>1 DEF Places
<1>3. Lives'
    BY <1>0, <1>1 DEF Places, Lives
<1>4. Logged' = Logged /\ Diverged' = Diverged
    BY <1>0, <1>1 DEF Places, Lives, Logged, Diverged
<1> QED
    BY <1>1, <1>2, <1>3, <1>4, QuietAccount

LEMMA AgreesAccount ==
    ASSUME AccountInv, NEW q \in Query, Agrees(q)
    PROVE  AccountInv'
<1>0. Places /\ Lives
    BY DEF AccountInv
<1>1. UNCHANGED stream /\ UNCHANGED <<task, inside, drops, accepted>>
      /\ compare' = [compare EXCEPT ![q] = "none"] /\ compare[q] = "asking"
    BY <1>0 DEF Agrees, stream, history
<1>2. Places'
    BY <1>0, <1>1 DEF Places
<1>3. Lives'
    BY <1>0, <1>1 DEF Places, Lives
<1>4. Logged' = Logged /\ Diverged' = Diverged
    BY <1>0, <1>1 DEF Places, Lives, Logged, Diverged
<1> QED
    BY <1>1, <1>2, <1>3, <1>4, QuietAccount

LEMMA LogAccount ==
    ASSUME AccountInv, NEW q \in Query, Log(q)
    PROVE  AccountInv'
<1>0. Places /\ Lives /\ StreamInv /\ Counted /\ DivergenceAfter
      /\ accepted \in Seq(Message) /\ Len(accepted) \in Nat /\ drops \in Nat
    BY LenProperties DEF AccountInv, StreamInv, Streams, Places
<1>1. task[q] = "handling" /\ task' = [task EXCEPT ![q] = "logged"] /\ Put(q)
      /\ UNCHANGED <<inside, compare, wpc, batch, disk, lost>>
    BY DEF Log, net
<1>2. q \in Rec /\ q \notin Elements(accepted) /\ Divergence(q) \notin Elements(accepted)
    BY <1>0, <1>1 DEF Lives, Rec
<1>3. /\ StreamInv'
      /\ Elements(accepted') \subseteq Elements(accepted) \cup {q}
      /\ drops' \in Nat /\ Len(accepted') + drops' = Len(accepted) + drops + 1
      /\ \/ accepted' = accepted
         \/ /\ Len(accepted') = Len(accepted) + 1 /\ accepted'[Len(accepted) + 1] = q
            /\ \A i \in 1 .. Len(accepted) : accepted'[i] = accepted[i]
    BY <1>0, <1>1, <1>2, PutStream
<1>4. Places'
    BY <1>0, <1>1, <1>3 DEF Places
<1>5. Lives'
    <2>1. \A r \in Query : Divergence(r) \in Elements(accepted') => Divergence(r) \in Elements(accepted)
        BY <1>3, RecordKinds
    <2> QED
        BY <1>0, <1>1, <1>3, <2>1 DEF Places, Lives
<1>6. Counted'
    <2>1. q \notin Logged /\ Logged' = Logged \cup {q} /\ Diverged' = Diverged
        BY <1>0, <1>1 DEF Places, Logged, Diverged
    <2> QED
        BY <1>0, <1>3, <2>1, CountedOne
<1>7. DivergenceAfter'
    BY <1>0, <1>2, <1>3, DivergenceKept
<1> QED
    BY <1>3, <1>4, <1>5, <1>6, <1>7 DEF AccountInv

LEMMA DivergesAccount ==
    ASSUME AccountInv, NEW q \in Query, Diverges(q)
    PROVE  AccountInv'
<1> DEFINE x == Divergence(q)
<1>0. Places /\ Lives /\ StreamInv /\ Counted /\ DivergenceAfter
      /\ accepted \in Seq(Message) /\ Len(accepted) \in Nat /\ drops \in Nat
    BY LenProperties DEF AccountInv, StreamInv, Streams, Places
<1>1. compare[q] = "asking" /\ compare' = [compare EXCEPT ![q] = "diverged"] /\ Put(x)
      /\ UNCHANGED <<inside, task, wpc, batch, disk, lost>>
    BY DEF Diverges
<1>2. x \in Rec /\ x \notin Elements(accepted) /\ x \notin Query
    BY <1>0, <1>1, RecordKinds DEF Lives, Rec
<1> HIDE DEF x
<1>3. /\ StreamInv'
      /\ Elements(accepted') \subseteq Elements(accepted) \cup {x}
      /\ drops' \in Nat /\ Len(accepted') + drops' = Len(accepted) + drops + 1
      /\ \/ accepted' = accepted
         \/ /\ Len(accepted') = Len(accepted) + 1 /\ accepted'[Len(accepted) + 1] = x
            /\ \A i \in 1 .. Len(accepted) : accepted'[i] = accepted[i]
    BY <1>0, <1>1, <1>2, PutStream
<1>4. Places'
    BY <1>0, <1>1, <1>3 DEF Places
<1>5. Lives'
    <2>1. \A r \in Query : /\ r \in Elements(accepted') => r \in Elements(accepted)
                           /\ Divergence(r) \in Elements(accepted') => Divergence(r) \in Elements(accepted) \/ r = q
        BY <1>2, <1>3, RecordKinds DEF x
    <2> QED
        BY <1>0, <1>1, <2>1 DEF Places, Lives
<1>6. Counted'
    <2>1. q \notin Diverged /\ Diverged' = Diverged \cup {q} /\ Logged' = Logged
        BY <1>0, <1>1 DEF Places, Logged, Diverged
    <2> QED
        BY <1>0, <1>3, <2>1, CountedOne
<1>7. DivergenceAfter'
    BY <1>0, <1>2, <1>3, DivergenceKept
<1> QED
    BY <1>3, <1>4, <1>5, <1>6, <1>7 DEF AccountInv

\* A step of the writer, or of flush.
LEMMA WriterAccount ==
    ASSUME AccountInv, StreamInv', UNCHANGED <<task, inside, compare, drops, accepted>>
    PROVE  AccountInv'
BY DEF AccountInv, Places, Lives, Counted, Made, DivergenceAfter

LEMMA TakenStream ==
    ASSUME StreamInv, Recv \/ TakeMore
    PROVE  /\ StreamInv'
           /\ Elements(batch') = Elements(batch) \cup {queue[1]}
           /\ Len(queue) \in Nat \ {0} /\ Len(queue') = Len(queue) - 1
           /\ \A i \in 1 .. Len(queue') : queue'[i] = queue[i + 1]
<1>0. StreamInv /\ queue \in Seq(Message) /\ batch \in Seq(Message)
    BY DEF StreamInv, Streams
<1>1. queue # <<>> /\ queue' = Tail(queue) /\ wpc' = "take" /\ wpc # "dead"
      /\ UNCHANGED <<disk, accepted, lost, task, inside, compare, drops>>
    BY DEF Recv, TakeMore, history, net
<1>2. Head(queue) \in Message
    BY <1>0, <1>1, CatHead
<1>3. batch' = Cat(batch, One(Head(queue)))
    <2> DEFINE h == Head(queue)
    <2>1. CASE Recv
        <3>1. batch = <<>> /\ batch' = One(h)
            BY <1>0, <2>1 DEF Recv, StreamInv, Streams, One
        <3> HIDE DEF h
        <3>2. One(h) \in Seq(Message)
            BY <1>2, OneIs DEF h
        <3>3. Cat(<<>>, One(h)) = One(h)
            BY <3>2, CatNone
        <3>4. batch' = Cat(batch, One(h))
            BY <3>1, <3>3
        <3> QED
            BY <3>4 DEF h
    <2>2. CASE TakeMore
        <3>1. batch' = Append(batch, h)
            BY <2>2 DEF TakeMore
        <3> HIDE DEF h
        <3>2. Append(batch, h) = Cat(batch, One(h))
            BY <1>0, <1>2, CatAppend DEF h
        <3>3. batch' = Cat(batch, One(h))
            BY <3>1, <3>2
        <3> QED
            BY <3>3 DEF h
    <2> QED
        BY <2>1, <2>2
<1> QED
    BY <1>0, <1>1, <1>3, TakeStream

LEMMA TakesAccount ==
    ASSUME AccountInv, Recv \/ TakeMore
    PROVE  AccountInv'
<1>1. StreamInv'
    BY TakenStream DEF AccountInv
<1>2. UNCHANGED <<task, inside, compare, drops, accepted>>
    BY DEF Recv, TakeMore, history, net
<1> QED
    BY <1>1, <1>2, WriterAccount

LEMMA WritesAccount ==
    ASSUME AccountInv, StopTaking \/ Commit \/ CommitFails
    PROVE  AccountInv'
<1>0. StreamInv
    BY DEF AccountInv
<1>1. UNCHANGED <<task, inside, compare, drops, accepted, queue>>
    BY DEF StopTaking, Commit, CommitFails, history, net
<1>2. CASE StopTaking
    <2>1. UNCHANGED <<batch, disk, lost>> /\ wpc' = "write"
        BY <1>2 DEF StopTaking, history
    <2>2. StreamInv'
        BY <1>0, <1>1, <2>1 DEF StreamInv, Streams, InOrder, Once, Records
    <2> QED
        BY <1>1, <2>2, WriterAccount
<1>3. CASE Commit
    <2>1. wpc = "write" /\ wpc' = "recv" /\ disk' = Cat(disk, Records(batch)) /\ batch' = <<>> /\ UNCHANGED lost
        BY <1>3 DEF Commit, BatchDone, Cat, history
    <2>2. StreamInv'
        BY <1>0, <1>1, <2>1, CommitStream
    <2> QED
        BY <1>1, <2>2, WriterAccount
<1>4. CASE CommitFails
    <2>1. wpc = "write" /\ wpc' = "recv" /\ lost' = lost \cup (Elements(batch) \ {Flush}) /\ batch' = <<>>
          /\ UNCHANGED disk
        BY <1>4 DEF CommitFails, BatchDone
    <2>2. StreamInv'
        BY <1>0, <1>1, <2>1, FailStream
    <2> QED
        BY <1>1, <2>2, WriterAccount
<1> QED
    BY <1>2, <1>3, <1>4

LEMMA ShutdownAccount ==
    ASSUME AccountInv, Stop \/ Shutdown
    PROVE  AccountInv'
<1>0. StreamInv
    BY DEF AccountInv
<1>1. UNCHANGED <<task, inside, compare, drops, accepted, batch, disk, lost, wpc>>
    BY DEF Stop, Shutdown, Drained, DrainTimeout, Push, Exit, history, net
<1>2. UNCHANGED queue \/ queue' = Append(queue, Flush)
    BY DEF Stop, Shutdown, Drained, DrainTimeout, CallFlush, Push, Exit
<1>3. StreamInv'
    <2>1. CASE UNCHANGED queue
        BY <1>0, <1>1, <2>1, StreamFrame DEF stream
    <2>2. CASE queue' = Append(queue, Flush)
        BY <1>0, <1>1, <2>2, FlushStream
    <2> QED
        BY <1>2, <2>1, <2>2
<1> QED
    BY <1>1, <1>3, WriterAccount

LEMMA AccountNext == AccountInv /\ [Next]_vars => AccountInv'
<1> SUFFICES ASSUME AccountInv, [Next]_vars PROVE AccountInv'
    OBVIOUS
<1>0. StreamInv
    BY DEF AccountInv
<1>1. ASSUME NEW c \in Conn, Accept(c) \/ Connection(c) PROVE AccountInv'
    <2>1. UNCHANGED <<task, inside, compare, drops, accepted>> /\ UNCHANGED stream
        BY <1>1 DEF Accept, Connection, IdleEnds, WriteAnswer, stream, history
    <2> QED
        BY <1>0, <2>1, StreamFrame, WriterAccount
<1>2. ASSUME NEW q \in Query, Receive(q) PROVE AccountInv'
    <2>1. task[q] = "none" /\ task' = [task EXCEPT ![q] = "spawned"]
          /\ UNCHANGED <<inside, compare, drops>> /\ UNCHANGED stream
        BY <1>2 DEF Receive, stream, net, history
    <2> QED
        BY <2>1, ReceiveAccount
<1>3. ASSUME NEW q \in Query, NEW c \in Conn, ReceiveTcp(q, c) PROVE AccountInv'
    <2>1. task[q] = "none" /\ task' = [task EXCEPT ![q] = "spawned"]
          /\ UNCHANGED <<inside, compare, drops>> /\ UNCHANGED stream
        BY <1>3 DEF ReceiveTcp, stream, history
    <2> QED
        BY <2>1, ReceiveAccount
<1>4. ASSUME NEW q \in Query, Handle(q) PROVE AccountInv'
    BY <1>4, EnterAccount, LogAccount, LeaveAccount DEF Handle
<1>5. ASSUME NEW q \in Query, Compare(q) PROVE AccountInv'
    BY <1>5, AgreesAccount, DivergesAccount DEF Compare
<1>6. CASE Writer
    BY <1>6, TakesAccount, WritesAccount DEF Writer
<1>7. CASE Stop \/ Shutdown
    BY <1>7, ShutdownAccount
<1>8. CASE UNCHANGED vars
    <2>1. UNCHANGED <<task, inside, compare, drops, accepted>> /\ UNCHANGED stream
        BY <1>8 DEF vars, net, history, stream
    <2> QED
        BY <1>0, <2>1, StreamFrame, WriterAccount
<1> QED
    BY <1>1, <1>2, <1>3, <1>4, <1>5, <1>6, <1>7, <1>8 DEF Next

\* Every record made is accounted for: counted as refused, or on its way, on disk
\* or lost with its whole transaction, once and in the order of taking, and no
\* divergence comes before the record of its query, for every number of queries,
\* queue capacity and batch size (db.rs: log, writer_loop, process_batch).
THEOREM EveryRecordAccounted == Spec => []LogAccounted
<1>1. AccountInv => LogAccounted
    BY AccountImplies
<1> QED
    BY <1>1, AccountInit, AccountNext, PTL DEF Spec

-----------------------------------------------------------------------------
(***************************************************************************)
(* Flush covers what was logged before it                                  *)
(***************************************************************************)

\* A record no later than the flush message: it is settled, in the batch, or in
\* the queue with no flush before it.
Ahead(r) ==
    \/ r \in Elements(disk) \cup lost \cup Elements(batch)
    \/ /\ Flush \notin Elements(batch)
       /\ \E i \in 1 .. Len(queue) : queue[i] = r /\ \A j \in 1 .. i : queue[j] # Flush

Flushes ==
    /\ phase \in {"serving", "draining", "flushing", "exited"}
    /\ flush \in {"none", "blocked", "granted", "waiting", "done"}
    /\ phase \in {"serving", "draining"} <=> flush = "none"
    /\ phase = "exited" => flush = "done"
    /\ flush \in {"none", "blocked", "granted"} => Flush \notin Elements(batch) \cup Elements(queue)
    /\ flush \in {"blocked", "granted", "waiting"} => \A r \in covered : Ahead(r)
    /\ covered \subseteq Rec
    /\ FlushCovers

Drains ==
    /\ counted \subseteq Query
    /\ phase = "draining" => \A q \in counted : q \in inside \/ task[q] = "logged"
    /\ phase \in {"flushing", "exited"} /\ ~hurried =>
          \A q \in counted : task[q] = "logged" /\ (q \in Elements(accepted) => q \in covered)

ShutInv == AccountInv /\ Flushes /\ Drains

LEMMA ShutImplies == ShutInv => ShutdownSettles
BY DEF ShutInv, Flushes, Drains, ShutdownSettles, FlushCovers, DrainedQueriesSettled

\* Nothing is put ahead of a record that is on its way.
LEMMA AheadGrows ==
    ASSUME NEW r, Ahead(r), UNCHANGED <<batch, disk, lost>>, Len(queue) \in Nat,
           \/ queue' = queue
           \/ Len(queue') = Len(queue) + 1 /\ \A i \in 1 .. Len(queue) : queue'[i] = queue[i]
    PROVE  Ahead(r)'
<1>0. UNCHANGED <<Elements(batch), Elements(disk), lost>>
    BY DEF Elements
<1>1. CASE r \in Elements(disk) \cup lost \cup Elements(batch)
    BY <1>0, <1>1 DEF Ahead
<1>2. CASE r \notin Elements(disk) \cup lost \cup Elements(batch)
    <2>1. Flush \notin Elements(batch)
        BY <1>2 DEF Ahead
    <2>2. PICK i \in 1 .. Len(queue) : queue[i] = r /\ \A j \in 1 .. i : queue[j] # Flush
        BY <1>2 DEF Ahead
    <2>3. i \in 1 .. Len(queue') /\ queue'[i] = r /\ \A j \in 1 .. i : queue'[j] # Flush
        BY <2>2
    <2> QED
        BY <1>0, <2>1, <2>3 DEF Ahead
<1> QED
    BY <1>1, <1>2

\* The writer takes the first message.
LEMMA AheadTakes ==
    ASSUME NEW r, Ahead(r), UNCHANGED <<disk, lost>>, Len(queue) \in Nat \ {0},
           Elements(batch') = Elements(batch) \cup {queue[1]},
           Len(queue') = Len(queue) - 1, \A i \in 1 .. Len(queue') : queue'[i] = queue[i + 1]
    PROVE  Ahead(r)'
<1>0. UNCHANGED <<Elements(disk), lost>>
    BY DEF Elements
<1>1. CASE r \in Elements(disk) \cup lost \cup Elements(batch)
    BY <1>0, <1>1 DEF Ahead
<1>2. CASE r \notin Elements(disk) \cup lost \cup Elements(batch)
    <2>1. Flush \notin Elements(batch)
        BY <1>2 DEF Ahead
    <2>2. PICK i \in 1 .. Len(queue) : queue[i] = r /\ \A j \in 1 .. i : queue[j] # Flush
        BY <1>2 DEF Ahead
    <2>3. CASE i = 1
        BY <1>0, <2>2, <2>3 DEF Ahead
    <2>4. CASE i # 1
        <3>1. i - 1 \in 1 .. Len(queue') /\ queue'[i - 1] = r /\ queue[1] # Flush
            BY <2>2, <2>4
        <3>2. \A j \in 1 .. i - 1 : queue'[j] # Flush
            BY <2>2, <2>4
        <3>3. Flush \notin Elements(batch')
            BY <2>1, <3>1
        <3> QED
            BY <3>1, <3>2, <3>3 DEF Ahead
    <2> QED
        BY <2>3, <2>4
<1> QED
    BY <1>1, <1>2

\* The batch is over: what was in it is settled.
LEMMA AheadEnds ==
    ASSUME NEW r, Ahead(r), UNCHANGED queue, r # Flush, Elements(batch') = {},
           Elements(disk) \cup lost \cup (Elements(batch) \ {Flush}) \subseteq Elements(disk') \cup lost'
    PROVE  /\ Ahead(r)'
           /\ Flush \in Elements(batch) => r \in Elements(disk') \cup lost'
<1>1. CASE r \in Elements(disk) \cup lost \cup Elements(batch)
    BY <1>1 DEF Ahead
<1>2. CASE r \notin Elements(disk) \cup lost \cup Elements(batch)
    BY <1>2 DEF Ahead
<1> QED
    BY <1>1, <1>2

LEMMA ShutInit == Init => ShutInv
<1> SUFFICES ASSUME Init PROVE ShutInv
    OBVIOUS
<1>1. Elements(<<>>) = {}
    BY CatProperties
<1>2. Flushes
    BY <1>1 DEF Init, Flushes, FlushCovers
<1>3. Drains
    BY DEF Init, Drains
<1> QED
    BY <1>2, <1>3, AccountInit DEF ShutInv

\* Steps that leave the queue, the writer and shutdown alone.
LEMMA FlushesFrame ==
    ASSUME Flushes, UNCHANGED stream, UNCHANGED <<phase, flush, covered>>
    PROVE  Flushes'
BY DEF Flushes, stream, Ahead, Elements, FlushCovers

\* Steps that log nothing.
LEMMA DrainsFrame ==
    ASSUME Places, Lives, Drains, UNCHANGED <<accepted, phase, covered, counted, hurried>>,
           inside \subseteq inside' \cup {q \in Query : task[q] = "logged"},
           \A q \in Query : task[q] = "logged" => task'[q] = "logged"
    PROVE  Drains'
BY DEF Drains, Places, Elements

LEMMA PutFlushes ==
    ASSUME StreamInv, Flushes, NEW x \in Rec, Put(x), UNCHANGED <<batch, disk, lost, phase, flush, covered>>
    PROVE  Flushes'
<1>0. queue \in Seq(Message) /\ Len(queue) \in Nat /\ x \in Message /\ x # Flush
    BY RecordKinds, LenProperties DEF StreamInv, Streams, Message
<1>1. \/ queue' = queue
      \/ /\ Len(queue') = Len(queue) + 1 /\ queue'[Len(queue) + 1] = x
         /\ \A i \in 1 .. Len(queue) : queue'[i] = queue[i]
    BY <1>0, AppendProperties DEF Put
<1>2. \A r \in covered : Ahead(r) => Ahead(r)'
    BY <1>0, <1>1, AheadGrows
<1>3. Flush \in Elements(queue') => Flush \in Elements(queue)
    BY <1>0, <1>1 DEF Elements
<1>4. UNCHANGED <<Elements(batch), Elements(disk), lost>>
    BY DEF Elements
<1> QED
    BY <1>2, <1>3, <1>4 DEF Flushes, FlushCovers

LEMMA LogShut ==
    ASSUME ShutInv, NEW q \in Query, Log(q)
    PROVE  Flushes' /\ Drains'
<1>0. Places /\ Lives /\ StreamInv /\ Flushes /\ Drains
    BY DEF ShutInv, AccountInv
<1>1. task[q] = "handling" /\ task' = [task EXCEPT ![q] = "logged"] /\ Put(q)
      /\ UNCHANGED <<inside, wpc, batch, disk, lost, phase, flush, covered, counted, hurried>>
    BY DEF Log
<1>2. Flushes'
    BY <1>0, <1>1, PutFlushes DEF Rec
<1>3. Elements(accepted') \subseteq Elements(accepted) \cup {q}
    <2>1. q \in Rec /\ q \notin Elements(accepted) /\ drops \in Nat
        BY <1>0, <1>1 DEF Rec, Lives, Places
    <2> QED
        BY <1>0, <1>1, <2>1, PutStream
<1>4. Drains'
    BY <1>0, <1>1, <1>3 DEF Drains, Places
<1> QED
    BY <1>2, <1>4

LEMMA DivergesShut ==
    ASSUME ShutInv, NEW q \in Query, Diverges(q)
    PROVE  Flushes' /\ Drains'
<1> DEFINE x == Divergence(q)
<1>0. Places /\ Lives /\ StreamInv /\ Flushes /\ Drains
    BY DEF ShutInv, AccountInv
<1>1. compare[q] = "asking" /\ Put(x)
      /\ UNCHANGED <<task, inside, wpc, batch, disk, lost, phase, flush, covered, counted, hurried>>
    BY DEF Diverges
<1>2. x \in Rec /\ x \notin Query /\ x \notin Elements(accepted) /\ drops \in Nat
    BY <1>0, <1>1, RecordKinds DEF Rec, Lives, Places
<1> HIDE DEF x
<1>3. Flushes'
    BY <1>0, <1>1, <1>2, PutFlushes
<1>4. Elements(accepted') \subseteq Elements(accepted) \cup {x}
    BY <1>0, <1>1, <1>2, PutStream
<1>5. Drains'
    BY <1>0, <1>1, <1>2, <1>4 DEF Drains, Places
<1> QED
    BY <1>3, <1>5

\* A step of the writer leaves shutdown and the queries alone.
LEMMA WriterDrains ==
    ASSUME Drains, UNCHANGED <<task, inside, accepted, phase, covered, counted, hurried>>
    PROVE  Drains'
BY DEF Drains, Elements

LEMMA TakesShut ==
    ASSUME ShutInv, Recv \/ TakeMore
    PROVE  Flushes' /\ Drains'
<1>0. StreamInv /\ Flushes /\ Drains
    BY DEF ShutInv, AccountInv
<1>1. UNCHANGED <<disk, accepted, lost, task, inside, phase, covered, counted, hurried>> /\ flush' = Granted
    BY DEF Recv, TakeMore, history
<1>2. /\ Len(queue) \in Nat \ {0} /\ Len(queue') = Len(queue) - 1
      /\ Elements(batch') = Elements(batch) \cup {queue[1]}
      /\ \A i \in 1 .. Len(queue') : queue'[i] = queue[i + 1]
    BY <1>0, TakenStream
<1>3. \A r \in covered : Ahead(r) => Ahead(r)'
    BY <1>1, <1>2, AheadTakes
<1>4. Flush \in Elements(batch') \cup Elements(queue') => Flush \in Elements(batch) \cup Elements(queue)
    <2>1. queue[1] \in Elements(queue)
        BY <1>2 DEF Elements
    <2>2. \A x \in Elements(queue') : x \in Elements(queue)
        <3> SUFFICES ASSUME NEW i \in 1 .. Len(queue') PROVE queue'[i] \in Elements(queue)
            BY DEF Elements
        <3>1. i + 1 \in 1 .. Len(queue) /\ queue'[i] = queue[i + 1]
            BY <1>2
        <3> QED
            BY <3>1 DEF Elements
    <2> QED
        BY <1>2, <2>1, <2>2
<1>5. UNCHANGED <<Elements(disk), lost>>
    BY <1>1 DEF Elements
<1>6. Flushes'
    BY <1>0, <1>1, <1>3, <1>4, <1>5 DEF Flushes, FlushCovers, Granted
<1> QED
    BY <1>0, <1>1, <1>6, WriterDrains

LEMMA WritesShut ==
    ASSUME ShutInv, StopTaking \/ Commit \/ CommitFails
    PROVE  Flushes' /\ Drains'
<1>0. StreamInv /\ Flushes /\ Drains /\ Flush \notin Rec
    BY RecordKinds DEF ShutInv, AccountInv
<1>1. UNCHANGED <<task, inside, accepted, queue, phase, covered, counted, hurried>>
    BY DEF StopTaking, Commit, CommitFails, history
<1>2. CASE StopTaking
    <2>1. UNCHANGED <<batch, disk, lost, flush>>
        BY <1>2 DEF StopTaking, history
    <2>2. Flushes'
        BY <1>0, <1>1, <2>1 DEF Flushes, Ahead, Elements, FlushCovers
    <2> QED
        BY <1>0, <1>1, <2>2, WriterDrains
<1>3. CASE Commit \/ CommitFails
    <2>1. wpc = "write" /\ wpc' = "recv" /\ batch' = <<>> /\ flush' = IF Flush \in Elements(batch) THEN "done" ELSE flush
        BY <1>3 DEF Commit, CommitFails, BatchDone
    <2>2. Elements(disk) \cup lost \cup (Elements(batch) \ {Flush}) \subseteq Elements(disk') \cup lost'
        <3>1. CASE Commit
            <4>1. disk' = Cat(disk, Records(batch)) /\ UNCHANGED lost
                BY <3>1 DEF Commit, Cat, history
            <4>2. Elements(disk') = Elements(disk) \cup (Elements(batch) \ {Flush})
                BY <1>0, <1>1, <2>1, <4>1, CommitStream
            <4> QED
                BY <4>1, <4>2
        <3>2. CASE CommitFails
            <4>1. UNCHANGED disk /\ lost' = lost \cup (Elements(batch) \ {Flush})
                BY <3>2 DEF CommitFails
            <4>2. Elements(disk') = Elements(disk)
                BY <4>1
            <4> QED
                BY <4>1, <4>2
        <3> QED
            BY <1>3, <3>1, <3>2
    <2>3. Elements(batch') = {} /\ Elements(queue') = Elements(queue)
        BY <1>1, <2>1, CatProperties
    <2>4. \A r \in covered : Ahead(r) =>
              Ahead(r)' /\ (Flush \in Elements(batch) => r \in Elements(disk') \cup lost')
        BY <1>0, <1>1, <2>2, <2>3, AheadEnds DEF Flushes
    <2>5. Flushes'
        <3>1. CASE Flush \in Elements(batch)
            BY <1>0, <1>1, <2>1, <2>2, <2>3, <2>4, <3>1 DEF Flushes, FlushCovers
        <3>2. CASE Flush \notin Elements(batch)
            BY <1>0, <1>1, <2>1, <2>2, <2>3, <2>4, <3>2 DEF Flushes, FlushCovers
        <3> QED
            BY <3>1, <3>2
    <2> QED
        BY <1>0, <1>1, <2>5, WriterDrains
<1> QED
    BY <1>2, <1>3

\* What flush is called after is ahead of it.
LEMMA CallFlushes ==
    ASSUME StreamInv, Flushes, phase = "draining", CallFlush, UNCHANGED <<batch, disk, lost>>
    PROVE  Flushes'
<1>0. Streams /\ InOrder /\ queue \in Seq(Message) /\ Len(queue) \in Nat /\ Elements(accepted) \subseteq Rec
      /\ Flush \notin Rec /\ Flush \in Message
    BY LenProperties, RecordKinds DEF StreamInv, Streams, Message
<1>1. phase' = "flushing" /\ covered' = Elements(accepted)
    BY DEF CallFlush
<1>2. Flush \notin Elements(batch) \cup Elements(queue)
    BY DEF Flushes
<1>3. \A r \in Elements(accepted) : Ahead(r)
    <2> TAKE r \in Elements(accepted)
    <2>1. r \in lost \cup Elements(disk) \cup Elements(batch) \cup Elements(queue)
        BY <1>0, WhereRecordsAre
    <2>2. CASE r \in Elements(queue)
        <3>1. PICK i \in 1 .. Len(queue) : queue[i] = r
            BY <2>2 DEF Elements
        <3>2. \A j \in 1 .. i : queue[j] # Flush
            BY <1>0, <1>2, <3>1 DEF Elements
        <3> QED
            BY <1>2, <3>1, <3>2 DEF Ahead
    <2> QED
        BY <2>1, <2>2 DEF Ahead
<1>4. \/ queue' = queue
      \/ queue' = Append(queue, Flush)
    BY DEF CallFlush
<1>5. \/ queue' = queue
      \/ Len(queue') = Len(queue) + 1 /\ \A i \in 1 .. Len(queue) : queue'[i] = queue[i]
    BY <1>0, <1>4, AppendProperties
<1>6. \A r \in covered' : Ahead(r)'
    BY <1>0, <1>1, <1>3, <1>5, AheadGrows
<1>7. flush' = "waiting" \/ (flush' \in {"blocked", "done"} /\ queue' = queue)
    BY DEF CallFlush
<1>8. flush' = "done" => accepted = <<>>
    BY <1>0 DEF CallFlush, Streams
<1>9. UNCHANGED <<Elements(batch), Elements(disk), lost>> /\ Elements(<<>>) = {}
    BY CatProperties DEF Elements
<1>10. flush' = "done" => covered' = {}
    BY <1>1, <1>8, <1>9
<1> QED
    BY <1>0, <1>1, <1>2, <1>6, <1>7, <1>9, <1>10 DEF Flushes, FlushCovers

LEMMA ShutdownShut ==
    ASSUME ShutInv, Stop \/ Shutdown
    PROVE  Flushes' /\ Drains'
<1>0. StreamInv /\ Flushes /\ Drains /\ Lives /\ Places
    BY DEF ShutInv, AccountInv
<1>1. UNCHANGED <<task, inside, compare, drops, accepted, batch, disk, lost, wpc>>
    BY DEF Stop, Shutdown, Drained, DrainTimeout, Push, Exit, history, net
<1>2. CASE Stop
    <2>1. phase = "serving" /\ phase' = "draining" /\ counted' = inside /\ UNCHANGED <<queue, flush, covered>>
        BY <1>2 DEF Stop
    <2>2. Flushes'
        BY <1>0, <1>1, <2>1 DEF Flushes, Ahead, Elements, FlushCovers
    <2>3. Drains'
        BY <1>0, <1>1, <2>1 DEF Drains, Places
    <2> QED
        BY <2>2, <2>3
<1>3. CASE Drained
    <2>1. phase = "draining" /\ inside = {} /\ CallFlush /\ UNCHANGED <<counted, hurried>>
        BY <1>3 DEF Drained
    <2>2. Flushes'
        BY <1>0, <1>1, <2>1, CallFlushes
    <2>3. phase' = "flushing" /\ covered' = Elements(accepted)
        BY <2>1 DEF CallFlush
    <2>4. Drains'
        BY <1>0, <1>1, <2>1, <2>3 DEF Drains
    <2> QED
        BY <2>2, <2>4
<1>4. CASE DrainTimeout
    <2>1. phase = "draining" /\ CallFlush /\ hurried' = TRUE /\ UNCHANGED counted
        BY <1>4 DEF DrainTimeout
    <2>2. Flushes'
        BY <1>0, <1>1, <2>1, CallFlushes
    <2>3. phase' = "flushing"
        BY <2>1 DEF CallFlush
    <2>4. Drains'
        BY <1>0, <2>1, <2>3 DEF Drains
    <2> QED
        BY <2>2, <2>4
<1>5. CASE Push
    <2>1. flush = "granted" /\ flush' = "waiting" /\ queue' = Append(queue, Flush)
          /\ UNCHANGED <<phase, covered, counted, hurried>>
        BY <1>5 DEF Push, history
    <2>2. queue \in Seq(Message) /\ Len(queue) \in Nat /\ Flush \in Message
        BY <1>0, LenProperties DEF StreamInv, Streams, Message
    <2>3. Len(queue') = Len(queue) + 1 /\ \A i \in 1 .. Len(queue) : queue'[i] = queue[i]
        BY <2>1, <2>2, AppendProperties
    <2>4. \A r \in covered : Ahead(r) => Ahead(r)'
        BY <1>1, <2>2, <2>3, AheadGrows
    <2>5. Flushes'
        BY <1>0, <1>1, <2>1, <2>4 DEF Flushes, FlushCovers
    <2> QED
        BY <1>0, <1>1, <2>1, <2>5, WriterDrains
<1>6. CASE Exit
    <2>1. phase = "flushing" /\ flush = "done" /\ phase' = "exited"
          /\ UNCHANGED <<queue, flush, covered, counted, hurried>>
        BY <1>6 DEF Exit, history
    <2>2. Flushes'
        BY <1>0, <1>1, <2>1 DEF Flushes, Ahead, Elements, FlushCovers
    <2>3. Drains'
        BY <1>0, <1>1, <2>1 DEF Drains
    <2> QED
        BY <2>2, <2>3
<1> QED
    BY <1>2, <1>3, <1>4, <1>5, <1>6 DEF Shutdown

LEMMA ShutNext == ShutInv /\ [Next]_vars => ShutInv'
<1> SUFFICES ASSUME ShutInv, [Next]_vars PROVE ShutInv'
    OBVIOUS
<1>0. Places /\ Lives /\ StreamInv /\ Flushes /\ Drains /\ AccountInv
    BY DEF ShutInv, AccountInv
<1>1. AccountInv'
    BY <1>0, AccountNext
<1>2. Flushes' /\ Drains'
    <2>1. ASSUME NEW c \in Conn, Accept(c) \/ Connection(c) PROVE Flushes' /\ Drains'
        <3>1. UNCHANGED <<task, inside, phase, flush, accepted, covered, counted, hurried>> /\ UNCHANGED stream
            BY <2>1 DEF Accept, Connection, IdleEnds, WriteAnswer, stream, history
        <3> QED
            BY <1>0, <3>1, FlushesFrame, WriterDrains
    <2>2. ASSUME NEW q \in Query,
                 Receive(q) \/ Enter(q) \/ Leave(q) \/ Agrees(q) \/ \E c \in Conn : ReceiveTcp(q, c)
          PROVE  Flushes' /\ Drains'
        <3>1. UNCHANGED <<accepted, phase, flush, covered, counted, hurried>> /\ UNCHANGED stream
            BY <2>2 DEF Receive, Enter, Leave, Agrees, ReceiveTcp, stream, history
        <3>2. /\ inside' = inside \/ inside' = inside \cup {q} \/ (inside' = inside \ {q} /\ task[q] = "logged")
              /\ task' = task \/ (task[q] # "logged" /\ \E t \in {"spawned", "handling"} : task' = [task EXCEPT ![q] = t])
            BY <2>2 DEF Receive, Enter, Leave, Agrees, ReceiveTcp
        <3>3. /\ inside \subseteq inside' \cup {r \in Query : task[r] = "logged"}
              /\ \A r \in Query : task[r] = "logged" => task'[r] = "logged"
            BY <1>0, <3>2 DEF Places
        <3> QED
            BY <1>0, <3>1, <3>3, FlushesFrame, DrainsFrame
    <2>3. ASSUME NEW q \in Query, Log(q) PROVE Flushes' /\ Drains'
        BY <2>3, LogShut
    <2>4. ASSUME NEW q \in Query, Diverges(q) PROVE Flushes' /\ Drains'
        BY <2>4, DivergesShut
    <2>5. CASE Writer
        BY <2>5, TakesShut, WritesShut DEF Writer
    <2>6. CASE Stop \/ Shutdown
        BY <2>6, ShutdownShut
    <2>7. CASE UNCHANGED vars
        <3>1. UNCHANGED <<task, inside, phase, flush, accepted, covered, counted, hurried>> /\ UNCHANGED stream
            BY <2>7 DEF vars, history, stream
        <3> QED
            BY <1>0, <3>1, FlushesFrame, WriterDrains
    <2> QED
        BY <2>1, <2>2, <2>3, <2>4, <2>5, <2>6, <2>7 DEF Next, Handle, Compare
<1> QED
    BY <1>1, <1>2 DEF ShutInv

\* When flush returns, every record accepted before it was called is committed or
\* lost, and a daemon whose drain was not cut short has settled the record of
\* every query in flight when shutdown began, for every number of queries and
\* connections, queue capacity and batch size (db.rs: acknowledgement after
\* commit; daemon.rs: drain, then flush).
THEOREM ShutdownLosesNothing == Spec => []ShutdownSettles
<1>1. ShutInv => ShutdownSettles
    BY ShutImplies
<1> QED
    BY <1>1, ShutInit, ShutNext, PTL DEF Spec
=============================================================================
