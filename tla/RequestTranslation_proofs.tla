---------------------- MODULE RequestTranslation_proofs ----------------------
(***************************************************************************)
(* Proofs about RequestTranslation, and the operators of Transcript it is  *)
(* built from, for every transcript: any number of messages and blocks, any*)
(* calls, any of them to custom tools.                                     *)
(***************************************************************************)
EXTENDS RequestTranslation, FiniteSetTheorems, FunctionTheorems, SequenceTheorems, TLAPS

-----------------------------------------------------------------------------
(* Concatenating sequences of sequences *)

\* Induction over the natural numbers, as a fact about closed sets: were n not in
\* S, the numbers up to n + 1 could be mapped one to one to those up to n.
LEMMA Closed ==
  ASSUME NEW S, 0 \in S, \A n \in Nat : n \in S => n + 1 \in S
  PROVE  Nat \subseteq S
<1>. SUFFICES ASSUME NEW n \in Nat, n \notin S PROVE FALSE
  OBVIOUS
<1>. DEFINE f == [i \in 1 .. n + 1 |-> IF i - 1 \in S THEN i ELSE i - 1]
<1>1. f \in [1 .. n + 1 -> 1 .. n]
  OBVIOUS
<1>2. \A i, j \in 1 .. n + 1 : f[i] = f[j] => i = j
  OBVIOUS
<1>3. f \in Injection(1 .. n + 1, 1 .. n)
  BY <1>1, <1>2 DEF Injection, IsInjective
<1>. HIDE DEF f
<1>4. ExistsInjection(1 .. n + 1, 1 .. n)
  BY <1>3 DEF ExistsInjection
<1>. QED  BY <1>4, Fun_NatInjLeq

\* What FlattenSeq puts together of the first sequences in ss.
Joined(ss) ==
  CHOOSE f : f = [i \in 1 .. Len(ss) |-> IF i = 1 THEN ss[i] ELSE f[i - 1] \o ss[i]]

\* The recursion in FlattenSeq defines a function.
LEMMA JoinedIs ==
  ASSUME NEW S, NEW ss \in Seq(Seq(S))
  PROVE  /\ \A i \in 1 .. Len(ss) : Joined(ss)[i] = IF i = 1 THEN ss[1]
                                                    ELSE Joined(ss)[i - 1] \o ss[i]
         /\ \A i \in 1 .. Len(ss) : Joined(ss)[i] \in Seq(S)
         /\ FlattenSeq(ss) = IF Len(ss) = 0 THEN <<>> ELSE Joined(ss)[Len(ss)]
<1>. DEFINE Is(f, n) == f = [i \in 1 .. n |-> IF i = 1 THEN ss[i] ELSE f[i - 1] \o ss[i]]
            T == {n \in Nat : \E f : Is(f, n)}
            J == Joined(ss)
<1>1. 0 \in T
  <2>1. Is(<<>>, 0)
    OBVIOUS
  <2>. QED  BY <2>1
<1>2. ASSUME NEW n \in Nat, n \in T PROVE n + 1 \in T
  <2>1. PICK f : Is(f, n)
    BY <1>2
  <2>. DEFINE g == [i \in 1 .. n + 1 |->
                      IF i \in 1 .. n THEN f[i] ELSE IF i = 1 THEN ss[i] ELSE f[i - 1] \o ss[i]]
  <2>2. \A i \in 1 .. n : f[i] = IF i = 1 THEN ss[i] ELSE f[i - 1] \o ss[i]
    BY <2>1
  <2>3. \A i \in 1 .. n + 1 : g[i] = IF i = 1 THEN ss[i] ELSE g[i - 1] \o ss[i]
    BY <2>2
  <2>. HIDE DEF g
  <2>4. g = [i \in 1 .. n + 1 |-> g[i]]
    BY DEF g
  <2>5. Is(g, n + 1)
    BY <2>3, <2>4
  <2>6. \E e : Is(e, n + 1)
    BY <2>5, Zenon
  <2>. HIDE DEF Is
  <2>. QED  BY <2>6
<1>3. Len(ss) \in Nat
  OBVIOUS
<1>. HIDE DEF T
<1>4. Len(ss) \in T
  BY <1>1, <1>2, <1>3, Closed
<1>5. J = [i \in 1 .. Len(ss) |-> IF i = 1 THEN ss[i] ELSE J[i - 1] \o ss[i]]
  BY <1>4 DEF T, Joined
<1>. HIDE DEF J
<1>6. \A i \in 1 .. Len(ss) : J[i] = IF i = 1 THEN ss[1] ELSE J[i - 1] \o ss[i]
  BY <1>5
<1>. DEFINE U == {n \in Nat : n \in 1 .. Len(ss) => J[n] \in Seq(S)}
<1>7. ASSUME NEW n \in Nat, n \in U PROVE n + 1 \in U
  <2>. DEFINE m == n + 1
  <2>. SUFFICES ASSUME m \in 1 .. Len(ss) PROVE J[m] \in Seq(S)
    OBVIOUS
  <2>1. ss[m] \in Seq(S)
    OBVIOUS
  <2>2. J[m] = IF m = 1 THEN ss[1] ELSE J[m - 1] \o ss[m]
    BY <1>6
  <2>3. m # 1 => m - 1 \in 1 .. Len(ss) /\ m - 1 = n
    OBVIOUS
  <2>4. m # 1 => J[m - 1] \in Seq(S)
    BY <1>7, <2>3
  <2>. HIDE DEF m
  <2>5. CASE m = 1
    BY <2>1, <2>2, <2>5
  <2>6. CASE m # 1
    BY <2>1, <2>2, <2>4, <2>6, ConcatProperties
  <2>. QED  BY <2>5, <2>6
<1>8. 0 \in U
  OBVIOUS
<1>. HIDE DEF U
<1>9. \A i \in 1 .. Len(ss) : J[i] \in Seq(S)
  <2>1. Nat \subseteq U
    BY <1>7, <1>8, Closed
  <2>. QED  BY <2>1 DEF U
<1>10. FlattenSeq(ss) = IF Len(ss) = 0 THEN ss ELSE J[Len(ss)]
  BY DEF FlattenSeq, J, Joined
<1>. QED  BY <1>6, <1>9, <1>10 DEF J

\* Flattening goes sequence by sequence.
LEMMA FlattenAppend ==
  ASSUME NEW S, NEW ss \in Seq(Seq(S)), NEW s \in Seq(S)
  PROVE  /\ FlattenSeq(ss) \in Seq(S)
         /\ FlattenSeq(Append(ss, s)) = FlattenSeq(ss) \o s
<1>. DEFINE tt == Append(ss, s)
            A == Joined(ss)
            B == Joined(tt)
<1>1. /\ tt \in Seq(Seq(S)) /\ Len(tt) = Len(ss) + 1 /\ Len(ss) \in Nat
      /\ tt[Len(tt)] = s /\ \A i \in 1 .. Len(ss) : tt[i] = ss[i]
  OBVIOUS
<1>. HIDE DEF tt
<1>2. /\ \A i \in 1 .. Len(ss) : A[i] = IF i = 1 THEN ss[1] ELSE A[i - 1] \o ss[i]
      /\ \A i \in 1 .. Len(ss) : A[i] \in Seq(S)
      /\ FlattenSeq(ss) = IF Len(ss) = 0 THEN <<>> ELSE A[Len(ss)]
  BY JoinedIs
<1>3. /\ \A i \in 1 .. Len(tt) : B[i] = IF i = 1 THEN tt[1] ELSE B[i - 1] \o tt[i]
      /\ FlattenSeq(tt) = IF Len(tt) = 0 THEN <<>> ELSE B[Len(tt)]
  BY <1>1, JoinedIs
<1>. HIDE DEF A, B
<1>. DEFINE T == {n \in Nat : n \in 1 .. Len(ss) => A[n] = B[n]}
<1>4. 0 \in T
  OBVIOUS
<1>5. ASSUME NEW n \in Nat, n \in T PROVE n + 1 \in T
  BY <1>1, <1>2, <1>3, <1>5
<1>. HIDE DEF T
<1>6. Nat \subseteq T
  BY <1>4, <1>5, Closed
<1>7. \A n \in 1 .. Len(ss) : A[n] = B[n]
  BY <1>6 DEF T
<1>8. FlattenSeq(ss) \in Seq(S)
  BY <1>1, <1>2
<1>9. CASE Len(ss) = 0
  <2>1. FlattenSeq(tt) = s /\ FlattenSeq(ss) = <<>>
    BY <1>1, <1>2, <1>3, <1>9
  <2>. QED  BY <1>8, <2>1, ConcatEmptySeq DEF tt
<1>10. CASE Len(ss) # 0
  <2>1. Len(ss) \in 1 .. Len(ss) /\ Len(tt) \in 1 .. Len(tt) /\ Len(tt) # 1
    BY <1>1, <1>10
  <2>a. A[Len(ss)] = B[Len(ss)]
    BY <1>7, <2>1
  <2>b. B[Len(tt)] = B[Len(tt) - 1] \o tt[Len(tt)]
    BY <1>3, <2>1
  <2>c. Len(tt) - 1 = Len(ss)
    BY <1>1
  <2>2. B[Len(tt)] = B[Len(ss)] \o s /\ A[Len(ss)] = B[Len(ss)]
    BY <1>1, <2>a, <2>b, <2>c
  <2>3. FlattenSeq(tt) = B[Len(tt)] /\ FlattenSeq(ss) = A[Len(ss)]
    BY <1>1, <1>2, <1>3, <1>10
  <2>4. FlattenSeq(tt) = FlattenSeq(ss) \o s
    BY <2>2, <2>3
  <2>. QED  BY <1>8, <2>4 DEF tt
<1>. QED  BY <1>9, <1>10

\* Nothing flattens to nothing.
LEMMA FlattenNone == FlattenSeq(<<>>) = <<>>
BY DEF FlattenSeq

\* Flattening the parts flattens the whole.
LEMMA FlattenConcat ==
  ASSUME NEW S, NEW ss \in Seq(Seq(S)), NEW tt \in Seq(Seq(S))
  PROVE  FlattenSeq(ss \o tt) = FlattenSeq(ss) \o FlattenSeq(tt)
<1>. DEFINE P(n) == SubSeq(tt, 1, n)
            T == {n \in Nat : n <= Len(tt) =>
                    FlattenSeq(ss \o P(n)) = FlattenSeq(ss) \o FlattenSeq(P(n))}
<1>1. Len(tt) \in Nat /\ FlattenSeq(ss) \in Seq(S) /\ <<>> \in Seq(Seq(S))
  BY FlattenAppend
<1>2. 0 \in T
  <2>1. P(0) = <<>>
    BY SubSeqEmpty
  <2>2. FlattenSeq(<<>>) = <<>>
    BY FlattenNone
  <2>3. ss \o <<>> = ss /\ FlattenSeq(ss) \o <<>> = FlattenSeq(ss)
    BY <1>1, ConcatEmptySeq
  <2>. QED  BY <2>1, <2>2, <2>3
<1>3. ASSUME NEW n \in Nat, n \in T PROVE n + 1 \in T
  <2>. SUFFICES ASSUME n + 1 <= Len(tt)
                PROVE  FlattenSeq(ss \o P(n + 1)) = FlattenSeq(ss) \o FlattenSeq(P(n + 1))
    OBVIOUS
  <2>1. P(n) \in Seq(Seq(S)) /\ tt[n + 1] \in Seq(S)
    BY <1>1
  <2>2. P(n + 1) = Append(P(n), tt[n + 1])
    BY <1>1
  <2>. DEFINE p == P(n)
              x == tt[n + 1]
  <2>3. FlattenSeq(ss \o p) = FlattenSeq(ss) \o FlattenSeq(p)
    BY <1>1, <1>3
  <2>. HIDE DEF p, x
  <2>4. p \in Seq(Seq(S)) /\ x \in Seq(S) /\ P(n + 1) = Append(p, x)
    BY <2>1, <2>2 DEF p, x
  <2>5. ss \o Append(p, x) = Append(ss \o p, x) /\ ss \o p \in Seq(Seq(S))
    BY <2>4, SMTT(30)
  <2>6. /\ FlattenSeq(Append(ss \o p, x)) = FlattenSeq(ss \o p) \o x
        /\ FlattenSeq(Append(p, x)) = FlattenSeq(p) \o x /\ FlattenSeq(p) \in Seq(S)
    BY <2>4, <2>5, FlattenAppend
  <2>. DEFINE a == FlattenSeq(ss)
              b == FlattenSeq(p)
  <2>7. (a \o b) \o x = a \o (b \o x)
    <3>1. a \in Seq(S) /\ b \in Seq(S) /\ x \in Seq(S)
      BY <1>1, <2>4, <2>6
    <3>. HIDE DEF a, b
    <3>. QED  BY <3>1
  <2>. QED  BY <2>3, <2>4, <2>5, <2>6, <2>7
<1>. HIDE DEF T
<1>4. Len(tt) \in T
  BY <1>1, <1>2, <1>3, Closed
<1>5. P(Len(tt)) = tt /\ Len(tt) <= Len(tt)
  BY <1>1, SubSeqFull
<1>. HIDE DEF P
<1>6. FlattenSeq(ss \o P(Len(tt))) = FlattenSeq(ss) \o FlattenSeq(P(Len(tt)))
  BY <1>4, <1>5 DEF T
<1>. QED  BY <1>5, <1>6

\* What is left of a sequence from a place on is a sequence over the same set.
LEMMA RestOfSeq ==
  ASSUME NEW S, NEW q \in Seq(S), NEW m \in Nat \ {0}
  PROVE  SubSeq(q, m, Len(q)) \in Seq(S)
<1>1. m \in Int /\ Len(q) \in Int /\ \A i \in m .. Len(q) : q[i] \in S
  OBVIOUS
<1>. QED  BY <1>1, SubSeqProperties, Zenon

\* Where the i-th of ss begins in what they are flattened to, less one.
Offset(ss, i) == Len(FlattenSeq(SubSeq(ss, 1, i - 1)))

\* What stands where in what ss are flattened to.
LEMMA FlattenPlaces ==
  ASSUME NEW S, NEW ss \in Seq(Seq(S))
  PROVE  /\ FlattenSeq(ss) \in Seq(S)
         /\ Offset(ss, 1) = 0 /\ Offset(ss, Len(ss) + 1) = Len(FlattenSeq(ss))
         /\ \A i \in 1 .. Len(ss) + 1 : Offset(ss, i) \in Nat
         /\ \A i \in 1 .. Len(ss) : Offset(ss, i + 1) = Offset(ss, i) + Len(ss[i])
         /\ \A i, j \in 1 .. Len(ss) + 1 : i <= j => Offset(ss, i) <= Offset(ss, j)
         /\ \A i \in 1 .. Len(ss) : \A k \in 1 .. Len(ss[i]) :
              /\ Offset(ss, i) + k \in 1 .. Len(FlattenSeq(ss))
              /\ FlattenSeq(ss)[Offset(ss, i) + k] = ss[i][k]
         /\ \A p \in 1 .. Len(FlattenSeq(ss)) :
              \E i \in 1 .. Len(ss) : \E k \in 1 .. Len(ss[i]) : p = Offset(ss, i) + k
<1>. DEFINE P(i) == SubSeq(ss, 1, i - 1)
            N == Len(ss)
            all == FlattenSeq(ss)
<1>1. N \in Nat /\ all \in Seq(S) /\ P(1) = <<>> /\ P(N + 1) = ss
      /\ \A i \in 1 .. N : ss[i] \in Seq(S)
  BY FlattenAppend, SubSeqEmpty, SubSeqFull
<1>2. ASSUME NEW i \in 1 .. N + 1 PROVE P(i) \in Seq(Seq(S))
  OBVIOUS
<1>3. ASSUME NEW i \in 1 .. N PROVE P(i + 1) = Append(P(i), ss[i])
  OBVIOUS
<1>4. ASSUME NEW i \in 1 .. N + 1
      PROVE  FlattenSeq(P(i)) \in Seq(S) /\ Offset(ss, i) \in Nat
  <2>1. P(i) \in Seq(Seq(S)) /\ Offset(ss, i) = Len(FlattenSeq(P(i)))
    BY <1>2 DEF Offset
  <2>. HIDE DEF P
  <2>2. FlattenSeq(P(i)) \in Seq(S)
    BY <2>1, FlattenAppend
  <2>. QED  BY <2>1, <2>2
<1>5. ASSUME NEW i \in 1 .. N
      PROVE  /\ FlattenSeq(P(i + 1)) = FlattenSeq(P(i)) \o ss[i]
             /\ Offset(ss, i + 1) = Offset(ss, i) + Len(ss[i])
  <2>1. P(i) \in Seq(Seq(S)) /\ P(i + 1) = Append(P(i), ss[i]) /\ ss[i] \in Seq(S)
    BY <1>1, <1>2, <1>3
  <2>2. FlattenSeq(P(i + 1)) = FlattenSeq(P(i)) \o ss[i] /\ FlattenSeq(P(i)) \in Seq(S)
    BY <2>1, FlattenAppend
  <2>3. i + 1 - 1 = (i + 1) - 1
    OBVIOUS
  <2>. HIDE DEF P
  <2>4. Len(FlattenSeq(P(i)) \o ss[i]) = Len(FlattenSeq(P(i))) + Len(ss[i])
    BY <2>1, <2>2, ConcatProperties
  <2>. QED  BY <2>2, <2>4 DEF Offset, P
<1>6. ASSUME NEW i \in 1 .. N + 1, NEW j \in 1 .. N + 1, i <= j
      PROVE  \E r \in Seq(S) : FlattenSeq(P(j)) = FlattenSeq(P(i)) \o r
  <2>. DEFINE t == SubSeq(ss, i, j - 1)
  <2>1. t \in Seq(Seq(S)) /\ P(j) = P(i) \o t
    <3>1. t \in Seq(Seq(S))
      OBVIOUS
    <3>2. /\ i - 1 + 1 = i /\ 1 \in 1 .. N + 1
          /\ i - 1 \in 1 - 1 .. N /\ j - 1 \in i - 1 .. N
      BY <1>1, <1>6
    <3>3. SubSeq(ss, 1, i - 1) \o SubSeq(ss, i - 1 + 1, j - 1) = SubSeq(ss, 1, j - 1)
      BY <3>2, ConcatAdjacentSubSeq
    <3>. QED  BY <3>1, <3>2, <3>3
  <2>2. FlattenSeq(t) \in Seq(S) /\ FlattenSeq(P(j)) = FlattenSeq(P(i)) \o FlattenSeq(t)
    <3>. DEFINE a == P(i)
    <3>1. a \in Seq(Seq(S)) /\ P(j) = a \o t /\ t \in Seq(Seq(S))
      BY <1>2, <2>1
    <3>. HIDE DEF P, t, a
    <3>2. FlattenSeq(a \o t) = FlattenSeq(a) \o FlattenSeq(t)
      BY <3>1, FlattenConcat
    <3>3. FlattenSeq(t) \in Seq(S)
      BY <3>1, FlattenAppend
    <3>. QED  BY <3>1, <3>2, <3>3 DEF a
  <2>. QED  BY <2>2
<1>. HIDE DEF P
<1>7. ASSUME NEW i \in 1 .. N + 1, NEW j \in 1 .. N + 1, i <= j
      PROVE  /\ Offset(ss, i) <= Offset(ss, j)
             /\ \A p \in 1 .. Offset(ss, i) :
                  p \in 1 .. Offset(ss, j) /\ FlattenSeq(P(j))[p] = FlattenSeq(P(i))[p]
  <2>1. PICK r \in Seq(S) : FlattenSeq(P(j)) = FlattenSeq(P(i)) \o r
    BY <1>6, <1>7
  <2>2. Offset(ss, i) = Len(FlattenSeq(P(i))) /\ Offset(ss, j) = Len(FlattenSeq(P(j)))
    BY DEF Offset, P
  <2>. DEFINE a == FlattenSeq(P(i))
  <2>3. a \in Seq(S)
    BY <1>4
  <2>. HIDE DEF a
  <2>4. Len(a \o r) = Len(a) + Len(r) /\ \A p \in 1 .. Len(a) + Len(r) :
          (a \o r)[p] = IF p <= Len(a) THEN a[p] ELSE r[p - Len(a)]
    BY <2>3, ConcatProperties
  <2>. QED  BY <2>1, <2>2, <2>3, <2>4 DEF a
<1>8. Offset(ss, 1) = 0
  <2>1. Offset(ss, 1) = Len(FlattenSeq(P(1)))
    BY DEF Offset, P
  <2>2. P(1) = <<>> /\ FlattenSeq(<<>>) = <<>>
    BY <1>1, FlattenNone
  <2>. QED  BY <2>1, <2>2
<1>9. Offset(ss, N + 1) = Len(all)
  BY <1>1 DEF Offset, P
<1>10. ASSUME NEW i \in 1 .. N, NEW k \in 1 .. Len(ss[i])
       PROVE  /\ Offset(ss, i) + k \in 1 .. Len(all)
              /\ all[Offset(ss, i) + k] = ss[i][k]
  <2>. DEFINE a == FlattenSeq(P(i))
              p == Offset(ss, i) + k
  <2>1. a \in Seq(S) /\ Len(a) = Offset(ss, i) /\ ss[i] \in Seq(S) /\ Len(ss[i]) \in Nat
    BY <1>1, <1>4 DEF Offset, P
  <2>2. FlattenSeq(P(i + 1)) = a \o ss[i] /\ Offset(ss, i + 1) = Offset(ss, i) + Len(ss[i])
    BY <1>5
  <2>. HIDE DEF a
  <2>3. (a \o ss[i])[p] = ss[i][k]
    <3>1. p \in 1 .. Len(a) + Len(ss[i]) /\ ~(p <= Len(a)) /\ p - Len(a) = k
      BY <2>1
    <3>. HIDE DEF p
    <3>. QED  BY <2>1, <3>1, ConcatProperties
  <2>4. p \in 1 .. Offset(ss, i + 1) /\ i + 1 \in 1 .. N + 1 /\ N + 1 \in 1 .. N + 1
        /\ i + 1 <= N + 1
    BY <1>1, <2>1, <2>2
  <2>5. p \in 1 .. Offset(ss, N + 1) /\ FlattenSeq(P(N + 1))[p] = FlattenSeq(P(i + 1))[p]
    BY <1>7, <2>4
  <2>. QED  BY <1>1, <1>9, <2>2, <2>3, <2>5
<1>11. ASSUME NEW p \in 1 .. Len(all)
       PROVE  \E i \in 1 .. N : \E k \in 1 .. Len(ss[i]) : p = Offset(ss, i) + k
  <2>. DEFINE T == {n \in Nat : n <= N /\ p <= Offset(ss, n + 1) =>
                      \E i \in 1 .. N : \E k \in 1 .. Len(ss[i]) : p = Offset(ss, i) + k}
  <2>1. 0 \in T
    BY <1>8
  <2>2. ASSUME NEW n \in Nat, n \in T PROVE n + 1 \in T
    <3>. SUFFICES ASSUME n + 1 <= N, p <= Offset(ss, n + 1 + 1), ~(p <= Offset(ss, n + 1))
                  PROVE  \E i \in 1 .. N : \E k \in 1 .. Len(ss[i]) : p = Offset(ss, i) + k
      BY <1>1, <2>2
    <3>1. n + 1 \in 1 .. N /\ Offset(ss, n + 1 + 1) = Offset(ss, n + 1) + Len(ss[n + 1])
          /\ Offset(ss, n + 1) \in Nat /\ Len(ss[n + 1]) \in Nat
      BY <1>1, <1>4, <1>5
    <3>2. p - Offset(ss, n + 1) \in 1 .. Len(ss[n + 1])
      BY <3>1
    <3>3. p = Offset(ss, n + 1) + (p - Offset(ss, n + 1))
      BY <3>1
    <3>. QED  BY <3>1, <3>2, <3>3
  <2>. HIDE DEF T
  <2>3. N \in T
    BY <1>1, <2>1, <2>2, Closed
  <2>4. p <= Offset(ss, N + 1) /\ N <= N
    BY <1>1, <1>9
  <2>. QED  BY <2>3, <2>4 DEF T
<1>. QED  BY <1>1, <1>4, <1>5, <1>7, <1>8, <1>9, <1>10, <1>11

\* Induction over sequences, as a fact about closed sets.
LEMMA ClosedSeq ==
  ASSUME NEW T, NEW G, <<>> \in G,
         \A s \in Seq(T), e \in T : s \in G => Append(s, e) \in G
  PROVE  Seq(T) \subseteq G
<1>. DEFINE H == {n \in Nat : \A s \in Seq(T) : Len(s) = n => s \in G}
<1>1. 0 \in H
  OBVIOUS
<1>2. ASSUME NEW n \in Nat, n \in H PROVE n + 1 \in H
  <2>. SUFFICES ASSUME NEW s \in Seq(T), Len(s) = n + 1 PROVE s \in G
    OBVIOUS
  <2>1. s # <<>>
    OBVIOUS
  <2>2. PICK t \in Seq(T), e \in T : s = Append(t, e)
    BY <2>1, SequenceEmptyOrAppend
  <2>3. Len(t) = n
    BY <2>2
  <2>. QED  BY <1>2, <2>2, <2>3
<1>. HIDE DEF H
<1>3. Nat \subseteq H
  BY <1>1, <1>2, Closed
<1>. QED  BY <1>3 DEF H

\* What turns every element of T into a sequence over S.
Spreads(T, S) == [T -> Seq(S)]

\* What a sequence's elements turn into, put together.
Spread(f, s) == FlattenSeq([k \in 1 .. Len(s) |-> f[s[k]]])

LEMMA SpreadTyped ==
  ASSUME NEW S, NEW T, NEW f \in Spreads(T, S), NEW s \in Seq(T)
  PROVE  /\ [k \in 1 .. Len(s) |-> f[s[k]]] \in Seq(Seq(S))
         /\ Spread(f, s) \in Seq(S)
<1>. DEFINE m == [k \in 1 .. Len(s) |-> f[s[k]]]
<1>1. m \in Seq(Seq(S))
  <2>1. \A k \in 1 .. Len(s) : f[s[k]] \in Seq(S)
    BY DEF Spreads
  <2>2. Len(s) \in Nat
    OBVIOUS
  <2>. QED  BY <2>1, <2>2
<1>. HIDE DEF m
<1>2. FlattenSeq(m) \in Seq(S)
  BY <1>1, FlattenAppend
<1>. QED  BY <1>1, <1>2 DEF Spread, m

LEMMA SpreadEmpty ==
  ASSUME NEW f
  PROVE  Spread(f, <<>>) = <<>>
<1>1. [k \in 1 .. Len(<<>>) |-> f[<<>>[k]]] = <<>>
  OBVIOUS
<1>. QED  BY <1>1, FlattenNone DEF Spread

LEMMA SpreadAppend ==
  ASSUME NEW S, NEW T, NEW f \in Spreads(T, S), NEW s \in Seq(T), NEW e \in T
  PROVE  Spread(f, Append(s, e)) = Spread(f, s) \o f[e]
<1>. DEFINE m == [k \in 1 .. Len(s) |-> f[s[k]]]
            t == Append(s, e)
            x == f[e]
<1>2. [k \in 1 .. Len(t) |-> f[t[k]]] = Append(m, f[e])
  <2>1. Len(t) = Len(s) + 1 /\ t[Len(s) + 1] = e /\ \A k \in 1 .. Len(s) : t[k] = s[k]
        /\ Len(s) \in Nat /\ Len(m) = Len(s)
    OBVIOUS
  <2>. HIDE DEF t
  <2>. QED  BY <2>1
<1>3. m \in Seq(Seq(S)) /\ x \in Seq(S)
  BY SpreadTyped DEF Spreads
<1>4. Spread(f, s) = FlattenSeq(m) /\ Spread(f, t) = FlattenSeq(Append(m, x))
  BY <1>2 DEF Spread
<1>. HIDE DEF m, x
<1>5. FlattenSeq(Append(m, x)) = FlattenSeq(m) \o x
  BY <1>3, FlattenAppend
<1>. QED  BY <1>4, <1>5 DEF x

LEMMA SpreadSingle ==
  ASSUME NEW S, NEW T, NEW f \in Spreads(T, S), NEW e \in T
  PROVE  Spread(f, <<e>>) = f[e]
<1>. DEFINE o == <<>>
<1>1. o \in Seq(T) /\ <<e>> = Append(o, e) /\ f[e] \in Seq(S) /\ Spread(f, o) = <<>>
  BY SpreadEmpty DEF Spreads
<1>. HIDE DEF o
<1>2. Spread(f, Append(o, e)) = Spread(f, o) \o f[e]
  BY <1>1, SpreadAppend
<1>. QED  BY <1>1, <1>2, ConcatEmptySeq

LEMMA SpreadConcat ==
  ASSUME NEW S, NEW T, NEW f \in Spreads(T, S), NEW s \in Seq(T), NEW t \in Seq(T)
  PROVE  Spread(f, s \o t) = Spread(f, s) \o Spread(f, t)
<1>. DEFINE G == {u \in Seq(T) : Spread(f, s \o u) = Spread(f, s) \o Spread(f, u)}
<1>1. <<>> \in G
  <2>1. s \o <<>> = s /\ Spread(f, s) \in Seq(S) /\ Spread(f, <<>>) = <<>>
    BY SpreadTyped, SpreadEmpty, ConcatEmptySeq
  <2>2. Spread(f, s) \o <<>> = Spread(f, s)
    BY <2>1, ConcatEmptySeq
  <2>. QED  BY <2>1, <2>2
<1>2. ASSUME NEW u \in Seq(T), NEW e \in T, u \in G PROVE Append(u, e) \in G
  <2>1. s \o Append(u, e) = Append(s \o u, e) /\ s \o u \in Seq(T) /\ Append(u, e) \in Seq(T)
    BY SMTT(30)
  <2>2. Spread(f, Append(s \o u, e)) = Spread(f, s \o u) \o f[e]
    <3>. DEFINE v == s \o u
    <3>1. v \in Seq(T)
      BY <2>1
    <3>. HIDE DEF v
    <3>2. Spread(f, Append(v, e)) = Spread(f, v) \o f[e]
      BY <3>1, SpreadAppend
    <3>. QED  BY <3>2 DEF v
  <2>3. Spread(f, Append(u, e)) = Spread(f, u) \o f[e]
    BY SpreadAppend
  <2>4. Spread(f, s \o u) = Spread(f, s) \o Spread(f, u)
    BY <1>2
  <2>. DEFINE a == Spread(f, s)
              b == Spread(f, u)
              x == f[e]
  <2>5. a \in Seq(S) /\ b \in Seq(S) /\ x \in Seq(S)
    BY SpreadTyped DEF Spreads
  <2>. HIDE DEF a, b, x
  <2>6. (a \o b) \o x = a \o (b \o x)
    BY <2>5, ConcatAssociative
  <2>. QED  BY <2>1, <2>2, <2>3, <2>4, <2>6 DEF a, b, x
<1>. HIDE DEF G
<1>3. Seq(T) \subseteq G
  BY <1>1, <1>2, ClosedSeq
<1>. QED  BY <1>3 DEF G

\* Spreading what is flattened is flattening what each spreads to.
LEMMA SpreadFlatten ==
  ASSUME NEW S, NEW T, NEW f \in Spreads(T, S), NEW ss \in Seq(Seq(T))
  PROVE  Spread(f, FlattenSeq(ss)) = FlattenSeq([i \in 1 .. Len(ss) |-> Spread(f, ss[i])])
<1>. DEFINE g == [u \in Seq(T) |-> Spread(f, u)]
            G == {uu \in Seq(Seq(T)) : Spread(f, FlattenSeq(uu)) = Spread(g, uu)}
<1>1. g \in Spreads(Seq(T), S)
  BY SpreadTyped DEF Spreads
<1>2. <<>> \in G
  <2>1. Spread(g, <<>>) = <<>> /\ Spread(f, <<>>) = <<>> /\ FlattenSeq(<<>>) = <<>>
    BY SpreadEmpty, FlattenNone
  <2>. QED  BY <2>1
<1>3. ASSUME NEW uu \in Seq(Seq(T)), NEW e \in Seq(T), uu \in G PROVE Append(uu, e) \in G
  <2>. HIDE DEF g
  <2>1. FlattenSeq(Append(uu, e)) = FlattenSeq(uu) \o e /\ FlattenSeq(uu) \in Seq(T)
    BY FlattenAppend
  <2>2. Spread(f, FlattenSeq(uu) \o e) = Spread(f, FlattenSeq(uu)) \o Spread(f, e)
    BY <2>1, SpreadConcat
  <2>3. Spread(g, Append(uu, e)) = Spread(g, uu) \o g[e]
    BY <1>1, SpreadAppend
  <2>4. g[e] = Spread(f, e)
    BY DEF g
  <2>5. Append(uu, e) \in Seq(Seq(T))
    OBVIOUS
  <2>. QED  BY <1>3, <2>1, <2>2, <2>3, <2>4, <2>5
<1>4. [i \in 1 .. Len(ss) |-> g[ss[i]]] = [i \in 1 .. Len(ss) |-> Spread(f, ss[i])]
  OBVIOUS
<1>5. Spread(g, ss) = FlattenSeq([i \in 1 .. Len(ss) |-> Spread(f, ss[i])])
  BY <1>4 DEF Spread
<1>. HIDE DEF G, g
<1>6. Seq(Seq(T)) \subseteq G
  BY <1>2, <1>3, ClosedSeq
<1>. QED  BY <1>5, <1>6 DEF G

\* The identity spreads a sequence to itself.
LEMMA SpreadSame ==
  ASSUME NEW T, NEW s \in Seq(T), NEW f, \A e \in T : f[e] = <<e>>, f \in Spreads(T, T)
  PROVE  Spread(f, s) = s
<1>. DEFINE G == {u \in Seq(T) : Spread(f, u) = u}
<1>1. <<>> \in G
  BY SpreadEmpty
<1>2. ASSUME NEW u \in Seq(T), NEW e \in T, u \in G PROVE Append(u, e) \in G
  <2>1. Spread(f, Append(u, e)) = Spread(f, u) \o f[e]
    BY SpreadAppend
  <2>2. u \o <<e>> = Append(u, e)
    BY AppendIsConcat
  <2>3. Append(u, e) \in Seq(T)
    OBVIOUS
  <2>. QED  BY <1>2, <2>1, <2>2, <2>3
<1>. HIDE DEF G
<1>3. Seq(T) \subseteq G
  BY <1>1, <1>2, ClosedSeq
<1>. QED  BY <1>3 DEF G

\* Empty sequences flatten to nothing.
LEMMA FlattenEmpties ==
  ASSUME NEW S, NEW ss \in Seq(Seq(S)), \A i \in 1 .. Len(ss) : ss[i] = <<>>
  PROVE  FlattenSeq(ss) = <<>>
<1>1. FlattenSeq(ss) \in Seq(S)
  BY FlattenAppend
<1>2. ~ \E p \in 1 .. Len(FlattenSeq(ss)) : TRUE
  <2>1. ASSUME NEW p \in 1 .. Len(FlattenSeq(ss)) PROVE FALSE
    <3>1. PICK i \in 1 .. Len(ss) : \E k \in 1 .. Len(ss[i]) : p = Offset(ss, i) + k
      BY FlattenPlaces, <2>1
    <3>2. Len(ss[i]) = 0
      OBVIOUS
    <3>. QED  BY <3>1, <3>2
  <2>. QED  BY <2>1
<1>. DEFINE a == FlattenSeq(ss)
<1>. HIDE DEF a
<1>3. a \in Seq(S) => (a # <<>> => Len(a) \in Nat \ {0})
  BY EmptySeq
<1>4. a \in Seq(S) /\ ~ \E p \in 1 .. Len(a) : TRUE
  BY <1>1, <1>2 DEF a
<1>5. a = <<>>
  <2>. SUFFICES ASSUME a # <<>> PROVE FALSE
    OBVIOUS
  <2>1. 1 \in 1 .. Len(a)
    BY <1>3, <1>4
  <2>. QED  BY <1>4, <2>1
<1>. QED  BY <1>5 DEF a

-----------------------------------------------------------------------------
(* Keeping some places of a sequence *)

\* What a sequence is cut into where places in K are kept.
Kept(s, K) == [k \in 1 .. Len(s) |-> IF k \in K THEN <<s[k]>> ELSE <<>>]

LEMMA AtIs ==
  ASSUME NEW T, NEW s \in Seq(T), NEW K
  PROVE  /\ Kept(s, K) \in Seq(Seq(T)) /\ Len(Kept(s, K)) = Len(s)
         /\ \A k \in 1 .. Len(s) :
              Kept(s, K)[k] = IF k \in K THEN <<s[k]>> ELSE <<>>
         /\ At(s, K) = FlattenSeq(Kept(s, K))
         /\ At(s, K) \in Seq(T)
<1>1. \A k \in 1 .. Len(s) : (IF k \in K THEN <<s[k]>> ELSE <<>>) \in Seq(T)
  OBVIOUS
<1>2. Len(s) \in Nat /\ DOMAIN s = 1 .. Len(s)
  OBVIOUS
<1>3. Kept(s, K) \in Seq(Seq(T)) /\ Len(Kept(s, K)) = Len(s)
  BY <1>1, <1>2 DEF Kept
<1>4. At(s, K) = FlattenSeq(Kept(s, K))
  BY <1>2 DEF At, Kept
<1>5. FlattenSeq(Kept(s, K)) \in Seq(T)
  BY <1>3, FlattenAppend
<1>. QED  BY <1>3, <1>4, <1>5 DEF Kept

\* What is kept stands in its order, each place in K once.
LEMMA AtPlaces ==
  ASSUME NEW T, NEW s \in Seq(T), NEW K
  PROVE  \E pos \in [1 .. Len(At(s, K)) -> 1 .. Len(s)] :
           /\ \A n \in 1 .. Len(At(s, K)) : pos[n] \in K /\ At(s, K)[n] = s[pos[n]]
           /\ \A m, n \in 1 .. Len(At(s, K)) : m < n => pos[m] < pos[n]
           /\ \A k \in K \cap (1 .. Len(s)) : \E n \in 1 .. Len(At(s, K)) : pos[n] = k
<1>. DEFINE ss == Kept(s, K)
            a == At(s, K)
<1>1. /\ ss \in Seq(Seq(T)) /\ Len(ss) = Len(s) /\ Len(s) \in Nat
      /\ \A k \in 1 .. Len(s) : ss[k] = IF k \in K THEN <<s[k]>> ELSE <<>>
      /\ a = FlattenSeq(ss) /\ a \in Seq(T)
  BY AtIs
<1>. HIDE DEF ss, a
<1>2. /\ \A i \in 1 .. Len(s) + 1 : Offset(ss, i) \in Nat
      /\ \A i \in 1 .. Len(s) : Offset(ss, i + 1) = Offset(ss, i) + Len(ss[i])
      /\ \A i, j \in 1 .. Len(s) + 1 : i <= j => Offset(ss, i) <= Offset(ss, j)
      /\ \A i \in 1 .. Len(s) : \A k \in 1 .. Len(ss[i]) :
           Offset(ss, i) + k \in 1 .. Len(a) /\ a[Offset(ss, i) + k] = ss[i][k]
      /\ \A p \in 1 .. Len(a) :
           \E i \in 1 .. Len(s) : \E k \in 1 .. Len(ss[i]) : p = Offset(ss, i) + k
  <2>1. /\ \A i \in 1 .. Len(ss) + 1 : Offset(ss, i) \in Nat
        /\ \A i \in 1 .. Len(ss) : Offset(ss, i + 1) = Offset(ss, i) + Len(ss[i])
        /\ \A i, j \in 1 .. Len(ss) + 1 : i <= j => Offset(ss, i) <= Offset(ss, j)
        /\ \A i \in 1 .. Len(ss) : \A k \in 1 .. Len(ss[i]) :
             /\ Offset(ss, i) + k \in 1 .. Len(FlattenSeq(ss))
             /\ FlattenSeq(ss)[Offset(ss, i) + k] = ss[i][k]
        /\ \A p \in 1 .. Len(FlattenSeq(ss)) :
             \E i \in 1 .. Len(ss) : \E k \in 1 .. Len(ss[i]) : p = Offset(ss, i) + k
    BY <1>1, FlattenPlaces
  <2>2. a = FlattenSeq(ss) /\ Len(ss) = Len(s)
    BY <1>1
  <2>. QED  BY <2>1, <2>2, Zenon
<1>3. ASSUME NEW k \in 1 .. Len(s)
      PROVE  /\ k \in K => ss[k] = <<s[k]>> /\ Len(ss[k]) = 1
             /\ k \notin K => Len(ss[k]) = 0
  <2>1. k \in K => ss[k] = <<s[k]>>
    BY <1>1
  <2>2. k \notin K => ss[k] = <<>>
    BY <1>1
  <2>. QED  BY <2>1, <2>2
<1>11. \A i \in 1 .. Len(s) + 1 : Offset(ss, i) \in Nat
  BY <1>2
<1>12. ASSUME NEW i \in 1 .. Len(s), i \in K PROVE Offset(ss, i + 1) = Offset(ss, i) + 1
  BY <1>2, <1>3, <1>12
<1>13. ASSUME NEW i \in 1 .. Len(s), NEW j \in 1 .. Len(s), i < j
       PROVE  Offset(ss, i + 1) <= Offset(ss, j)
  <2>1. i + 1 \in 1 .. Len(s) + 1 /\ j \in 1 .. Len(s) + 1 /\ i + 1 <= j
    BY <1>1, <1>13
  <2>. QED  BY <1>2, <2>1
<1>14. ASSUME NEW i \in 1 .. Len(s), i \in K
       PROVE  Offset(ss, i) + 1 \in 1 .. Len(a) /\ a[Offset(ss, i) + 1] = s[i]
  <2>1. 1 \in 1 .. Len(ss[i]) /\ ss[i][1] = s[i]
    BY <1>3, <1>14
  <2>. QED  BY <1>2, <2>1
<1>4. ASSUME NEW p \in 1 .. Len(a)
      PROVE  \E i \in 1 .. Len(s) : i \in K /\ p = Offset(ss, i) + 1
  <2>1. PICK i \in 1 .. Len(s) : \E k \in 1 .. Len(ss[i]) : p = Offset(ss, i) + k
    BY <1>2
  <2>2. PICK k \in 1 .. Len(ss[i]) : p = Offset(ss, i) + k
    BY <2>1
  <2>3. i \in K /\ k = 1
    <3>1. (i \in K /\ Len(ss[i]) = 1) \/ Len(ss[i]) = 0
      BY <1>3, <2>1
    <3>. DEFINE l == Len(ss[i])
    <3>2. k \in 1 .. l /\ ((i \in K /\ l = 1) \/ l = 0)
      BY <2>2, <3>1
    <3>. HIDE DEF l
    <3>. QED  BY <3>2
  <2>. QED  BY <2>2, <2>3
<1>. DEFINE pos == [p \in 1 .. Len(a) |-> CHOOSE i \in 1 .. Len(s) : i \in K /\ p = Offset(ss, i) + 1]
<1>5. \A p \in 1 .. Len(a) : pos[p] \in 1 .. Len(s) /\ pos[p] \in K /\ p = Offset(ss, pos[p]) + 1
  BY <1>4
<1>6. pos \in [1 .. Len(a) -> 1 .. Len(s)]
  BY <1>5
<1>. HIDE DEF pos
<1>7. \A p \in 1 .. Len(a) : a[p] = s[pos[p]]
  BY <1>5, <1>14
<1>8. ASSUME NEW m \in 1 .. Len(a), NEW n \in 1 .. Len(a), m < n PROVE pos[m] < pos[n]
  <2>1. /\ pos[m] \in 1 .. Len(s) /\ m = Offset(ss, pos[m]) + 1
        /\ pos[n] \in 1 .. Len(s) /\ n = Offset(ss, pos[n]) + 1
        /\ pos[n] \in K
    BY <1>5
  <2>2. Offset(ss, pos[n]) \in Nat /\ Offset(ss, pos[m]) \in Nat
    BY <1>1, <1>11, <2>1
  <2>3. ~(pos[n] < pos[m])
    <3>1. pos[n] < pos[m] => Offset(ss, pos[n] + 1) <= Offset(ss, pos[m])
      BY <1>13, <2>1
    <3>2. Offset(ss, pos[n] + 1) = Offset(ss, pos[n]) + 1
      BY <1>12, <2>1
    <3>. QED  BY <1>8, <2>1, <2>2, <3>1, <3>2
  <2>4. pos[n] # pos[m]
    BY <1>8, <2>1, <2>2
  <2>. QED  BY <1>1, <2>1, <2>3, <2>4
<1>9. ASSUME NEW k \in K \cap (1 .. Len(s)) PROVE \E n \in 1 .. Len(a) : pos[n] = k
  <2>. DEFINE n == Offset(ss, k) + 1
  <2>1. /\ n \in 1 .. Len(a) /\ Offset(ss, k) \in Nat
        /\ n = Offset(ss, k) + 1 /\ Offset(ss, k + 1) = n
    BY <1>1, <1>11, <1>12, <1>14
  <2>2. /\ pos[n] \in 1 .. Len(s) /\ pos[n] \in K /\ n = Offset(ss, pos[n]) + 1
        /\ Offset(ss, pos[n]) \in Nat /\ Offset(ss, pos[n] + 1) = n
    BY <1>1, <1>5, <1>11, <1>12, <2>1
  <2>. HIDE DEF n
  <2>3. ~(pos[n] < k)
    <3>1. pos[n] < k => Offset(ss, pos[n] + 1) <= Offset(ss, k)
      BY <1>13, <2>2, Zenon
    <3>. QED  BY <2>1, <2>2, <3>1
  <2>4. ~(k < pos[n])
    <3>1. k < pos[n] => Offset(ss, k + 1) <= Offset(ss, pos[n])
      BY <1>13, <2>2, Zenon
    <3>. QED  BY <2>1, <2>2, <3>1
  <2>. QED  BY <1>1, <2>1, <2>2, <2>3, <2>4
<1>. QED  BY <1>6, <1>5, <1>7, <1>8, <1>9 DEF a

\* What is kept of a sequence spreads as the sequence does without the rest.
LEMMA SpreadAt ==
  ASSUME NEW S, NEW T, NEW f \in Spreads(T, S), NEW s \in Seq(T), NEW K,
         \A k \in 1 .. Len(s) : k \notin K => f[s[k]] = <<>>
  PROVE  Spread(f, At(s, K)) = Spread(f, s)
<1>. DEFINE ss == Kept(s, K)
            m == [i \in 1 .. Len(ss) |-> Spread(f, ss[i])]
<1>1. /\ ss \in Seq(Seq(T)) /\ Len(ss) = Len(s)
      /\ \A k \in 1 .. Len(s) : ss[k] = IF k \in K THEN <<s[k]>> ELSE <<>>
      /\ At(s, K) = FlattenSeq(ss)
  BY AtIs
<1>. HIDE DEF ss
<1>2. Spread(f, FlattenSeq(ss)) = FlattenSeq(m)
  BY <1>1, SpreadFlatten
<1>3. ASSUME NEW i \in 1 .. Len(s) PROVE Spread(f, ss[i]) = f[s[i]]
  <2>1. s[i] \in T
    OBVIOUS
  <2>2. Spread(f, <<s[i]>>) = f[s[i]]
    <3>. DEFINE e == s[i]
    <3>. HIDE DEF e
    <3>1. e \in T
      BY <2>1 DEF e
    <3>2. Spread(f, <<e>>) = f[e]
      BY <3>1, SpreadSingle
    <3>. QED  BY <3>2 DEF e
  <2>3. Spread(f, <<>>) = <<>>
    BY SpreadEmpty
  <2>. QED  BY <1>1, <2>2, <2>3
<1>4. m = [k \in 1 .. Len(s) |-> f[s[k]]]
  BY <1>1, <1>3
<1>. HIDE DEF m
<1>. QED  BY <1>1, <1>2, <1>4 DEF Spread

LEMMA AtAll ==
  ASSUME NEW T, NEW s \in Seq(T), NEW K, 1 .. Len(s) \subseteq K
  PROVE  At(s, K) = s
<1>. DEFINE f == [e \in T |-> <<e>>]
<1>1. f \in Spreads(T, T) /\ \A e \in T : f[e] = <<e>>
  BY DEF Spreads
<1>. HIDE DEF f
<1>2. Spread(f, s) = s
  BY <1>1, SpreadSame
<1>3. Kept(s, K) = [k \in 1 .. Len(s) |-> f[s[k]]]
  BY <1>1 DEF Kept
<1>4. At(s, K) = FlattenSeq(Kept(s, K))
  BY AtIs
<1>. QED  BY <1>2, <1>3, <1>4 DEF Spread

-----------------------------------------------------------------------------
(* What transcripts are made of *)

UserBlock ==
  [type : {"text"}, id : {NoId}, from : Nat]
    \cup [type : {"tool_result"}, id : Ids \cup {NoId}, from : Nat]

AssistantBlock ==
  [type : {"text", "thinking"}, id : {NoId}, from : Nat]
    \cup [type : {"tool_use"}, id : Ids \cup {NoId}, from : Nat]
    \cup [type : ServerTypes, id : ServerTypes, from : Nat]

Block == UserBlock \cup AssistantBlock

Turn ==
  [role : {"user"}, content : Seq(UserBlock)]
    \cup [role : {"assistant"}, content : Seq(AssistantBlock)]

LEMMA UserBlockIs ==
  ASSUME NEW b \in UserBlock
  PROVE  /\ b.type \in {"text", "tool_result"} /\ b.from \in Nat
         /\ b.id \in Ids \cup {NoId}
         /\ b.type = "text" => b.id = NoId
BY DEF UserBlock

LEMMA AssistantBlockIs ==
  ASSUME NEW b \in AssistantBlock
  PROVE  /\ b.type \in {"text", "thinking", "tool_use"} \cup ServerTypes
         /\ b.from \in Nat
         /\ b.type = "tool_use" => b.id \in Ids \cup {NoId}
         /\ b.type \in ServerTypes => b.id \in ServerTypes
         /\ b.type \in {"text", "thinking"} => b.id = NoId
BY DEF AssistantBlock, ServerTypes

LEMMA BlockIs ==
  ASSUME NEW b \in Block
  PROVE  b.from \in Nat /\ b.id \in Ids \cup {NoId} \cup ServerTypes
BY DEF Block, UserBlock, AssistantBlock

\* Sequences of one kind of blocks are sequences of blocks.
LEMMA BlocksAre ==
  ASSUME NEW s, s \in Seq(UserBlock) \/ s \in Seq(AssistantBlock)
  PROVE  s \in Seq(Block)
<1>1. UserBlock \subseteq Block /\ AssistantBlock \subseteq Block
  BY DEF Block
<1>. HIDE DEF Block
<1>2. CASE s \in Seq(UserBlock)
  BY <1>1, <1>2, SeqMonotonic
<1>3. CASE s \in Seq(AssistantBlock)
  BY <1>1, <1>3, SeqMonotonic
<1>. QED  BY <1>2, <1>3

LEMMA TurnIs ==
  ASSUME NEW m \in Turn
  PROVE  /\ m.role \in {"user", "assistant"} /\ m.content \in Seq(Block)
         /\ m.role = "user" => m.content \in Seq(UserBlock) /\ m = User(m.content)
         /\ m.role = "assistant" =>
              m.content \in Seq(AssistantBlock) /\ m = Assistant(m.content)
<1>1. CASE m.role = "user"
  <2>1. m \in [role : {"user"}, content : Seq(UserBlock)]
    BY <1>1 DEF Turn
  <2>2. m.content \in Seq(UserBlock) /\ m = User(m.content)
    BY <2>1 DEF User
  <2>. QED  BY <1>1, <2>2, BlocksAre
<1>2. CASE m.role = "assistant"
  <2>1. m \in [role : {"assistant"}, content : Seq(AssistantBlock)]
    BY <1>2 DEF Turn
  <2>2. m.content \in Seq(AssistantBlock) /\ m = Assistant(m.content)
    BY <2>1 DEF Assistant
  <2>. QED  BY <1>2, <2>2, BlocksAre
<1>3. m.role \in {"user", "assistant"}
  BY DEF Turn
<1>. QED  BY <1>1, <1>2, <1>3

LEMMA TurnsAre ==
  /\ \A s \in Seq(UserBlock) : User(s) \in Turn /\ User(s).role = "user" /\ User(s).content = s
  /\ \A s \in Seq(AssistantBlock) :
       /\ Assistant(s) \in Turn /\ Assistant(s).role = "assistant"
       /\ Assistant(s).content = s
BY DEF User, Assistant, Turn

LEMMA OrPlaceholderTyped ==
  /\ \A s \in Seq(UserBlock) : OrPlaceholder(s) \in Seq(UserBlock)
  /\ \A s \in Seq(AssistantBlock) : OrPlaceholder(s) \in Seq(AssistantBlock)
<1>1. Placeholder \in UserBlock /\ Placeholder \in AssistantBlock
  BY DEF Placeholder, UserBlock, AssistantBlock
<1>. HIDE DEF Placeholder
<1>. QED  BY <1>1 DEF OrPlaceholder

-----------------------------------------------------------------------------
(* Server tools and thinking *)

\* A user message stays as it is, an assistant's block by block.
LEMMA UpstreamBlocks ==
  ASSUME NEW pass \in BOOLEAN
  PROVE  /\ \A s \in Seq(UserBlock) : BlocksForUpstream(s, pass) = s
         /\ \A s \in Seq(AssistantBlock) :
              /\ BlocksForUpstream(s, pass) \in Seq(AssistantBlock)
              /\ Len(BlocksForUpstream(s, pass)) = Len(s)
              /\ \A k \in 1 .. Len(s) :
                   LET b == BlocksForUpstream(s, pass)[k]
                   IN  /\ b.from = s[k].from
                       /\ \/ b.type = s[k].type /\ b.id = s[k].id
                          \/ ~pass /\ s[k].type \in ServerTypes /\ b.type = "text"
                       /\ ~pass => b.type \notin ServerTypes
<1>1. ASSUME NEW s \in Seq(UserBlock) PROVE BlocksForUpstream(s, pass) = s
  <2>1. \A k \in 1 .. Len(s) : s[k].type \notin ServerTypes
    BY UserBlockIs DEF ServerTypes
  <2>2. DOMAIN s = 1 .. Len(s)
    OBVIOUS
  <2>3. BlocksForUpstream(s, pass) = [k \in DOMAIN s |-> s[k]]
    BY <2>1, <2>2 DEF BlocksForUpstream
  <2>. QED  BY <2>3
<1>2. ASSUME NEW s \in Seq(AssistantBlock)
      PROVE  /\ BlocksForUpstream(s, pass) \in Seq(AssistantBlock)
             /\ Len(BlocksForUpstream(s, pass)) = Len(s)
             /\ \A k \in 1 .. Len(s) :
                  LET b == BlocksForUpstream(s, pass)[k]
                  IN  /\ b.from = s[k].from
                      /\ \/ b.type = s[k].type /\ b.id = s[k].id
                         \/ ~pass /\ s[k].type \in ServerTypes /\ b.type = "text"
                      /\ ~pass => b.type \notin ServerTypes
  <2>. DEFINE g(k) == IF ~pass /\ s[k].type \in ServerTypes
                        THEN [s[k] EXCEPT !.type = "text", !.id = NoId] ELSE s[k]
  <2>1. Len(s) \in Nat /\ DOMAIN s = 1 .. Len(s)
    OBVIOUS
  <2>2. ASSUME NEW k \in 1 .. Len(s)
        PROVE  /\ g(k) \in AssistantBlock /\ g(k).from = s[k].from
               /\ \/ g(k).type = s[k].type /\ g(k).id = s[k].id
                  \/ ~pass /\ s[k].type \in ServerTypes /\ g(k).type = "text"
               /\ ~pass => g(k).type \notin ServerTypes
    <3>1. s[k] \in AssistantBlock
      OBVIOUS
    <3>2. CASE ~pass /\ s[k].type \in ServerTypes
      BY <3>1, <3>2 DEF AssistantBlock, ServerTypes
    <3>3. CASE ~(~pass /\ s[k].type \in ServerTypes)
      <4>1. g(k) = s[k]
        BY <3>3
      <4>2. ~pass => s[k].type \notin ServerTypes
        BY <3>3
      <4>. HIDE DEF g
      <4>. QED  BY <3>1, <4>1, <4>2, Zenon
    <3>. QED  BY <3>2, <3>3
  <2>3. BlocksForUpstream(s, pass) = [k \in 1 .. Len(s) |-> g(k)]
    BY <2>1 DEF BlocksForUpstream
  <2>. HIDE DEF g
  <2>4. [k \in 1 .. Len(s) |-> g(k)] \in Seq(AssistantBlock)
    BY <2>1, <2>2
  <2>. QED  BY <2>1, <2>2, <2>3, <2>4
<1>. QED  BY <1>1, <1>2

LEMMA DegradedTyped ==
  ASSUME NEW pass \in BOOLEAN, NEW ms \in Seq(Turn)
  PROVE  /\ Degraded(ms, pass) \in Seq(Turn) /\ Len(Degraded(ms, pass)) = Len(ms)
         /\ \A i \in 1 .. Len(ms) :
              /\ Degraded(ms, pass)[i].role = ms[i].role
              /\ Degraded(ms, pass)[i].content = BlocksForUpstream(ms[i].content, pass)
<1>1. Len(ms) \in Nat /\ DOMAIN ms = 1 .. Len(ms)
  OBVIOUS
<1>. DEFINE g(i) == [ms[i] EXCEPT !.content = BlocksForUpstream(@, pass)]
<1>2. ASSUME NEW i \in 1 .. Len(ms)
      PROVE  /\ g(i) \in Turn /\ g(i).role = ms[i].role
             /\ g(i).content = BlocksForUpstream(ms[i].content, pass)
  <2>1. ms[i] \in Turn
    OBVIOUS
  <2>. DEFINE m == ms[i]
              c == BlocksForUpstream(m.content, pass)
  <2>. HIDE DEF m
  <2>2. m \in Turn /\ ms[i] = m
    BY <2>1 DEF m
  <2>3. CASE m.role = "user"
    <3>1. m = User(m.content) /\ m.content \in Seq(UserBlock)
      BY <2>2, <2>3, TurnIs
    <3>2. c \in Seq(UserBlock)
      BY <3>1, UpstreamBlocks
    <3>. HIDE DEF c
    <3>3. g(i) = User(c)
      BY <2>2, <3>1 DEF User, c
    <3>. QED  BY <2>2, <2>3, <3>2, <3>3, TurnsAre DEF c
  <2>4. CASE m.role = "assistant"
    <3>1. m = Assistant(m.content) /\ m.content \in Seq(AssistantBlock)
      BY <2>2, <2>4, TurnIs
    <3>2. c \in Seq(AssistantBlock)
      BY <3>1, UpstreamBlocks
    <3>. HIDE DEF c
    <3>3. g(i) = Assistant(c)
      BY <2>2, <3>1 DEF Assistant, c
    <3>. QED  BY <2>2, <2>4, <3>2, <3>3, TurnsAre DEF c
  <2>. QED  BY <2>2, <2>3, <2>4, TurnIs
<1>3. Degraded(ms, pass) = [i \in 1 .. Len(ms) |-> g(i)]
  BY <1>1 DEF Degraded
<1>. HIDE DEF g
<1>4. [i \in 1 .. Len(ms) |-> g(i)] \in Seq(Turn)
  BY <1>1, <1>2
<1>. QED  BY <1>1, <1>2, <1>3, <1>4

\* The client's text that a block is sent as.
TextOf(pass) ==
  [b \in Block |->
     IF (b.type = "text" \/ (~pass /\ b.type \in ServerTypes)) /\ b.from # 0
       THEN <<b.from>> ELSE <<>>]

LEMMA TextsAre ==
  ASSUME NEW pass \in BOOLEAN
  PROVE  /\ TextOf(pass) \in Spreads(Block, Nat)
         /\ \A s \in Seq(Block) : Texts(s) = Spread(TextOf(TRUE), s) /\ Texts(s) \in Seq(Nat)
         /\ \A s : s \in Seq(UserBlock) \/ s \in Seq(AssistantBlock) =>
              Texts(BlocksForUpstream(s, pass)) = Spread(TextOf(pass), s)
<1>1. \A p \in BOOLEAN : TextOf(p) \in Spreads(Block, Nat)
  BY BlockIs DEF TextOf, Spreads
<1>2. ASSUME NEW s \in Seq(Block) PROVE Texts(s) = Spread(TextOf(TRUE), s)
  <2>1. DOMAIN s = 1 .. Len(s) /\ \A k \in 1 .. Len(s) : s[k] \in Block
    OBVIOUS
  <2>2. [k \in DOMAIN s |->
           IF s[k].type = "text" /\ s[k].from # 0 THEN <<s[k].from>> ELSE <<>>]
          = [k \in 1 .. Len(s) |-> TextOf(TRUE)[s[k]]]
    <3>1. ASSUME NEW b \in Block
          PROVE  TextOf(TRUE)[b] =
                   IF b.type = "text" /\ b.from # 0 THEN <<b.from>> ELSE <<>>
      <4>1. (b.type = "text" \/ (~TRUE /\ b.type \in ServerTypes)) <=> b.type = "text"
        OBVIOUS
      <4>. QED  BY <4>1, Zenon DEF TextOf
    <3>. QED  BY <2>1, <3>1
  <2>. QED  BY <2>2 DEF Texts, Spread
<1>3. \A s \in Seq(Block) : Texts(s) \in Seq(Nat)
  BY <1>1, <1>2, SpreadTyped
<1>4. ASSUME NEW s, s \in Seq(UserBlock) \/ s \in Seq(AssistantBlock)
      PROVE  Texts(BlocksForUpstream(s, pass)) = Spread(TextOf(pass), s)
  <2>. DEFINE u == BlocksForUpstream(s, pass)
  <2>1. s \in Seq(Block) /\ u \in Seq(Block) /\ Len(u) = Len(s)
    BY <1>4, BlocksAre, UpstreamBlocks
  <2>2. ASSUME NEW k \in 1 .. Len(s)
        PROVE  TextOf(TRUE)[u[k]] = TextOf(pass)[s[k]]
    <3>1. /\ u[k] \in Block /\ s[k] \in Block /\ u[k].from = s[k].from
          /\ \/ u[k].type = s[k].type
             \/ ~pass /\ s[k].type \in ServerTypes /\ u[k].type = "text"
          /\ ~pass => u[k].type \notin ServerTypes
      <4>1. u[k] \in Block /\ s[k] \in Block
        BY <2>1
      <4>. HIDE DEF u
      <4>2. CASE s \in Seq(AssistantBlock)
        BY <4>1, <4>2, UpstreamBlocks DEF u
      <4>3. CASE s \in Seq(UserBlock)
        <5>1. u = s /\ s[k] \in UserBlock
          BY <4>3, UpstreamBlocks DEF u
        <5>2. s[k].type \notin ServerTypes
          BY <5>1, UserBlockIs DEF ServerTypes
        <5>. QED  BY <4>1, <5>1, <5>2
      <4>. QED  BY <1>4, <4>2, <4>3
    <3>. HIDE DEF u
    <3>2. "text" \notin ServerTypes
      BY DEF ServerTypes
    <3>3. TextOf(TRUE)[u[k]] = IF (u[k].type = "text" \/ (~TRUE /\ u[k].type \in ServerTypes))
                                    /\ u[k].from # 0
                                 THEN <<u[k].from>> ELSE <<>>
      BY <3>1, Zenon DEF TextOf
    <3>4. TextOf(pass)[s[k]] = IF (s[k].type = "text" \/ (~pass /\ s[k].type \in ServerTypes))
                                    /\ s[k].from # 0
                                 THEN <<s[k].from>> ELSE <<>>
      BY <3>1, Zenon DEF TextOf
    <3>5. (u[k].type = "text" \/ (~TRUE /\ u[k].type \in ServerTypes))
            <=> (s[k].type = "text" \/ (~pass /\ s[k].type \in ServerTypes))
      BY <3>1, <3>2, Zenon
    <3>6. u[k].from = s[k].from
      BY <3>1
    <3>. QED  BY <3>3, <3>4, <3>5, <3>6, Zenon
  <2>. HIDE DEF u
  <2>3. [k \in 1 .. Len(u) |-> TextOf(TRUE)[u[k]]] = [k \in 1 .. Len(s) |-> TextOf(pass)[s[k]]]
    BY <2>1, <2>2
  <2>. QED  BY <1>2, <2>1, <2>3 DEF Spread, u
<1>. QED  BY <1>1, <1>2, <1>3, <1>4

\* Dropping what is spread to nothing, and a placeholder for what is then empty,
\* change nothing of what the blocks spread to.
LEMMA RestKept ==
  ASSUME NEW S, NEW f \in Spreads(Block, S), f[Placeholder] = <<>>,
         NEW s \in Seq(Block), NEW K,
         \A k \in 1 .. Len(s) : k \notin K => f[s[k]] = <<>>
  PROVE  /\ Spread(f, At(s, K)) = Spread(f, s)
         /\ Spread(f, OrPlaceholder(At(s, K))) = Spread(f, s)
<1>1. Spread(f, At(s, K)) = Spread(f, s)
  BY SpreadAt
<1>2. Placeholder \in Block
  BY DEF Placeholder, Block, UserBlock
<1>3. Spread(f, <<Placeholder>>) = <<>> /\ Spread(f, <<>>) = <<>>
  BY <1>2, SpreadSingle, SpreadEmpty
<1>. QED  BY <1>1, <1>3 DEF OrPlaceholder

LEMMA WithoutTrailing ==
  ASSUME NEW ms \in Seq(Turn), NEW pass \in BOOLEAN
  PROVE  LET wo == WithoutTrailingThinking(ms)
         IN  /\ wo \in Seq(Turn) /\ Len(wo) = Len(ms)
             /\ \A i \in 1 .. Len(ms) :
                  /\ wo[i].role = ms[i].role
                  /\ ms[i].role = "user" => wo[i] = ms[i]
                  /\ Texts(BlocksForUpstream(wo[i].content, pass)) = Texts(BlocksForUpstream(ms[i].content, pass))
                  /\ \A k \in 1 .. Len(wo[i].content) :
                       \/ wo[i].content[k] = Placeholder
                       \/ \E j \in 1 .. Len(ms[i].content) :
                            wo[i].content[k] = ms[i].content[j]
<1>. DEFINE wo == WithoutTrailingThinking(ms)
<1>1. CASE ms = <<>> \/ Last(ms).role # "assistant" \/ Last(ms).content = <<>>
  <2>1. wo = ms
    BY <1>1 DEF WithoutTrailingThinking
  <2>. QED  BY <2>1
<1>2. CASE ~(ms = <<>> \/ Last(ms).role # "assistant" \/ Last(ms).content = <<>>)
  <2>. DEFINE n == Len(ms)
              blocks == Last(ms).content
              spoken == {k \in DOMAIN blocks : \E j \in k .. Len(blocks) : ~IsThinking(blocks[j])}
              kept == OrPlaceholder(At(blocks, spoken))
  <2>1. n \in Nat \ {0} /\ Last(ms) = ms[n] /\ ms[n] \in Turn /\ n \in 1 .. n
    BY <1>2 DEF Last
  <2>2. blocks \in Seq(AssistantBlock) /\ blocks \in Seq(Block)
    BY <1>2, <2>1, TurnIs
  <2>3. wo = Append(Front(ms), Assistant(kept))
    BY <1>2 DEF WithoutTrailingThinking
  <2>4. kept \in Seq(AssistantBlock)
    <3>. HIDE DEF blocks, spoken
    <3>1. At(blocks, spoken) \in Seq(AssistantBlock)
      BY <2>2, AtIs
    <3>. QED  BY <3>1, OrPlaceholderTyped
  <2>5. Texts(BlocksForUpstream(kept, pass)) = Texts(BlocksForUpstream(blocks, pass))
    <3>1. ASSUME NEW k \in 1 .. Len(blocks), k \notin spoken
          PROVE  TextOf(pass)[blocks[k]] = <<>>
      <4>1. Len(blocks) \in Nat /\ DOMAIN blocks = 1 .. Len(blocks) /\ blocks[k] \in Block
        BY <2>2
      <4>2. k \in k .. Len(blocks)
        BY <4>1
      <4>3. blocks[k].type = "thinking"
        BY <3>1, <4>1, <4>2 DEF IsThinking
      <4>4. "thinking" \notin ServerTypes
        BY DEF ServerTypes
      <4>. QED  BY <4>1, <4>3, <4>4 DEF TextOf
    <3>. HIDE DEF blocks, spoken
    <3>2. TextOf(pass)[Placeholder] = <<>> /\ TextOf(pass) \in Spreads(Block, Nat)
      BY TextsAre DEF TextOf, Placeholder, Block, UserBlock
    <3>3. Spread(TextOf(pass), kept) = Spread(TextOf(pass), blocks)
      <4>. DEFINE f == TextOf(pass)
      <4>1. f \in Spreads(Block, Nat) /\ f[Placeholder] = <<>>
            /\ \A k \in 1 .. Len(blocks) : k \notin spoken => f[blocks[k]] = <<>>
        BY <3>1, <3>2
      <4>. HIDE DEF f
      <4>2. Spread(f, kept) = Spread(f, blocks)
        BY <2>2, <4>1, RestKept
      <4>. QED  BY <4>2 DEF f
    <3>. HIDE DEF kept
    <3>. QED  BY <2>2, <2>4, <3>3, TextsAre
  <2>6. \A k \in 1 .. Len(kept) :
          kept[k] = Placeholder \/ \E j \in 1 .. Len(blocks) : kept[k] = blocks[j]
    <3>. HIDE DEF blocks, spoken
    <3>1. CASE At(blocks, spoken) = <<>>
      BY <3>1 DEF OrPlaceholder
    <3>2. CASE At(blocks, spoken) # <<>>
      <4>1. kept = At(blocks, spoken)
        BY <3>2 DEF OrPlaceholder
      <4>. HIDE DEF kept
      <4>. QED  BY <2>2, <4>1, AtPlaces
    <3>. QED  BY <3>1, <3>2
  <2>7. Front(ms) \in Seq(Turn) /\ Len(Front(ms)) = n - 1
        /\ \A i \in 1 .. n - 1 : Front(ms)[i] = ms[i]
    <3>1. n \in Nat \ {0} /\ n = Len(ms) /\ Front(ms) = SubSeq(ms, 1, n - 1)
      BY <2>1 DEF Front
    <3>. HIDE DEF n
    <3>2. SubSeq(ms, 1, n - 1) \in Seq(Turn)
      BY <3>1
    <3>3. Len(SubSeq(ms, 1, n - 1)) = n - 1
      BY <3>1
    <3>4. \A i \in 1 .. n - 1 : SubSeq(ms, 1, n - 1)[i] = ms[i]
      BY <3>1
    <3>. QED  BY <3>1, <3>2, <3>3, <3>4
  <2>. HIDE DEF kept, n, spoken
  <2>8. Assistant(kept) \in Turn /\ Assistant(kept).role = "assistant"
        /\ Assistant(kept).content = kept
    BY <2>4, TurnsAre
  <2>9. wo \in Seq(Turn) /\ Len(wo) = n /\ wo[n] = Assistant(kept)
        /\ \A i \in 1 .. n - 1 : wo[i] = ms[i]
    <3>. DEFINE fr == Front(ms)
                la == Assistant(kept)
    <3>1. fr \in Seq(Turn) /\ Len(fr) = n - 1 /\ la \in Turn /\ wo = Append(fr, la)
          /\ \A i \in 1 .. n - 1 : fr[i] = ms[i]
      BY <2>3, <2>7, <2>8
    <3>. HIDE DEF fr, la, wo
    <3>2. wo \in Seq(Turn) /\ Len(wo) = n /\ wo[n] = la /\ \A i \in 1 .. n - 1 : wo[i] = fr[i]
      BY <2>1, <3>1, AppendProperties
    <3>. QED  BY <3>1, <3>2 DEF la
  <2>. HIDE DEF wo
  <2>10. ASSUME NEW i \in 1 .. n, i # n
         PROVE  wo[i] = ms[i]
    BY <2>1, <2>9, <2>10
  <2>11. ms[n].role = "assistant" /\ ms[n].content = blocks
    BY <1>2, <2>1
  <2>. HIDE DEF blocks
  <2>12. ASSUME NEW i \in 1 .. n
         PROVE  /\ wo[i].role = ms[i].role
                /\ ms[i].role = "user" => wo[i] = ms[i]
                /\ Texts(BlocksForUpstream(wo[i].content, pass)) = Texts(BlocksForUpstream(ms[i].content, pass))
                /\ \A k \in 1 .. Len(wo[i].content) :
                     \/ wo[i].content[k] = Placeholder
                     \/ \E j \in 1 .. Len(ms[i].content) :
                          wo[i].content[k] = ms[i].content[j]
    <3>1. CASE i # n
      <4>1. wo[i] = ms[i]
        BY <2>10, <3>1
      <4>. QED  BY <4>1
    <3>2. CASE i = n
      <4>1. /\ wo[i].role = "assistant" /\ wo[i].content = kept
            /\ ms[i].role = "assistant" /\ ms[i].content = blocks
        BY <2>8, <2>9, <2>11, <3>2
      <4>. QED  BY <2>5, <2>6, <4>1
    <3>. QED  BY <3>1, <3>2
  <2>. QED  BY <2>9, <2>12 DEF wo, n
<1>. QED  BY <1>1, <1>2

\* TextsIn, for any way to treat server tools.
TextsOf(ms, pass) ==
  FlattenSeq([i \in DOMAIN ms |-> Texts(BlocksForUpstream(ms[i].content, pass))])

LEMMA WithoutOrphaned ==
  ASSUME NEW ms \in Seq(Turn), NEW pass \in BOOLEAN
  PROVE  /\ WithoutOrphanedThinking(ms) \in Seq(Turn)
         /\ TextsOf(WithoutOrphanedThinking(ms), pass) = TextsOf(ms, pass)
         /\ TextsOf(ms, pass) \in Seq(Nat)
<1>. DEFINE K == {i \in DOMAIN ms : ~(ms[i].role = "assistant" /\ OnlyThinking(ms[i].content))}
            f == [m \in Turn |-> Texts(BlocksForUpstream(m.content, pass))]
<1>1. \A m \in Turn : BlocksForUpstream(m.content, pass) \in Seq(Block)
  <2>. TAKE m \in Turn
  <2>1. m.content \in Seq(UserBlock) \/ m.content \in Seq(AssistantBlock)
    BY TurnIs
  <2>2. BlocksForUpstream(m.content, pass) \in Seq(UserBlock)
          \/ BlocksForUpstream(m.content, pass) \in Seq(AssistantBlock)
    BY <2>1, UpstreamBlocks
  <2>. QED  BY <2>2, BlocksAre
<1>2. f \in Spreads(Turn, Nat)
  BY <1>1, TextsAre DEF Spreads
<1>3. ASSUME NEW s \in Seq(Turn) PROVE TextsOf(s, pass) = Spread(f, s)
  <2>1. DOMAIN s = 1 .. Len(s) /\ \A k \in 1 .. Len(s) : s[k] \in Turn
    OBVIOUS
  <2>2. [i \in DOMAIN s |-> Texts(BlocksForUpstream(s[i].content, pass))]
          = [k \in 1 .. Len(s) |-> f[s[k]]]
    BY <2>1
  <2>. HIDE DEF f
  <2>. QED  BY <2>2 DEF TextsOf, Spread
<1>4. ASSUME NEW i \in 1 .. Len(ms), i \notin K PROVE f[ms[i]] = <<>>
  <2>. DEFINE c == ms[i].content
  <2>1. ms[i] \in Turn /\ ms[i].role = "assistant" /\ OnlyThinking(c) /\ DOMAIN ms = 1 .. Len(ms)
    BY <1>4
  <2>2. c \in Seq(AssistantBlock) /\ c \in Seq(Block)
    BY <2>1, TurnIs
  <2>3. \A k \in 1 .. Len(c) : c[k].type = "thinking" /\ c[k] \in Block
    BY <2>1, <2>2 DEF OnlyThinking, IsThinking
  <2>. HIDE DEF c
  <2>4. "thinking" \notin ServerTypes
    BY DEF ServerTypes
  <2>5. \A k \in 1 .. Len(c) : TextOf(pass)[c[k]] = <<>>
    BY <2>3, <2>4 DEF TextOf
  <2>6. Spread(TextOf(pass), c) = <<>>
    <3>. DEFINE g == TextOf(pass)
    <3>1. g \in Spreads(Block, Nat) /\ \A k \in 1 .. Len(c) : g[c[k]] = <<>>
      BY <2>5, TextsAre
    <3>. HIDE DEF g
    <3>2. /\ [k \in 1 .. Len(c) |-> g[c[k]]] \in Seq(Seq(Nat))
          /\ Len([k \in 1 .. Len(c) |-> g[c[k]]]) = Len(c)
      BY <2>2, <3>1, SpreadTyped
    <3>3. FlattenSeq([k \in 1 .. Len(c) |-> g[c[k]]]) = <<>>
      <4>. DEFINE m == [k \in 1 .. Len(c) |-> g[c[k]]]
      <4>1. \A k \in 1 .. Len(m) : m[k] = <<>>
        BY <3>1, <3>2
      <4>2. m \in Seq(Seq(Nat))
        BY <3>2
      <4>. HIDE DEF m
      <4>3. FlattenSeq(m) = <<>>
        BY <4>1, <4>2, FlattenEmpties
      <4>. QED  BY <4>3 DEF m
    <3>. QED  BY <3>3 DEF Spread, g
  <2>7. Texts(BlocksForUpstream(c, pass)) = <<>>
    BY <2>2, <2>6, TextsAre
  <2>. QED  BY <2>1, <2>7 DEF c
<1>5. WithoutOrphanedThinking(ms) = At(ms, K)
  BY DEF WithoutOrphanedThinking
<1>. HIDE DEF K, f
<1>6. At(ms, K) \in Seq(Turn)
  BY AtIs
<1>7. Spread(f, At(ms, K)) = Spread(f, ms)
  BY <1>2, <1>4, SpreadAt
<1>. QED  BY <1>2, <1>3, <1>5, <1>6, <1>7, SpreadTyped

\* What the repair of a transcript starts from.
Sent(ms, pass) == Degraded(Filtered(ms), pass)

\* It has the messages of the client that are no mere thinking, in their order, the
\* user's as they were, the assistant's with blocks of theirs and placeholders.
LEMMA SentIs ==
  ASSUME NEW ms \in Seq(Turn), NEW pass \in BOOLEAN
  PROVE  LET said == WithoutOrphanedThinking(ms)
             sent == Sent(ms, pass)
         IN  /\ said \in Seq(Turn) /\ sent \in Seq(Turn) /\ Len(sent) = Len(said)
             /\ \A i \in 1 .. Len(sent) :
                  /\ sent[i].role = said[i].role
                  /\ said[i].role = "user" => sent[i] = said[i]
                  /\ \A k \in 1 .. Len(sent[i].content) :
                       LET b == sent[i].content[k]
                       IN  /\ ~pass => b.type \notin ServerTypes
                           /\ \/ b = Placeholder
                              \/ \E j \in 1 .. Len(said[i].content) :
                                   /\ b.from = said[i].content[j].from
                                   /\ \/ /\ b.type = said[i].content[j].type
                                         /\ b.id = said[i].content[j].id
                                      \/ b.type = "text"
             /\ FlattenSeq([i \in 1 .. Len(sent) |-> Texts(sent[i].content)]) = TextsOf(ms, pass)
<1>. DEFINE said == WithoutOrphanedThinking(ms)
            full == WithoutTrailingThinking(said)
            sent == Degraded(full, pass)
<1>1. said \in Seq(Turn) /\ TextsOf(said, pass) = TextsOf(ms, pass)
  BY WithoutOrphaned
<1>. HIDE DEF said
<1>2. /\ full \in Seq(Turn) /\ Len(full) = Len(said)
      /\ \A i \in 1 .. Len(said) :
           /\ full[i].role = said[i].role
           /\ said[i].role = "user" => full[i] = said[i]
           /\ Texts(BlocksForUpstream(full[i].content, pass))
                = Texts(BlocksForUpstream(said[i].content, pass))
           /\ \A k \in 1 .. Len(full[i].content) :
                \/ full[i].content[k] = Placeholder
                \/ \E j \in 1 .. Len(said[i].content) :
                     full[i].content[k] = said[i].content[j]
  BY <1>1, WithoutTrailing
<1>. HIDE DEF full
<1>3. /\ sent \in Seq(Turn) /\ Len(sent) = Len(full)
      /\ \A i \in 1 .. Len(full) :
           /\ sent[i].role = full[i].role
           /\ sent[i].content = BlocksForUpstream(full[i].content, pass)
  BY <1>2, DegradedTyped
<1>. HIDE DEF sent
<1>4. ASSUME NEW i \in 1 .. Len(sent)
      PROVE  /\ sent[i] \in Turn /\ full[i] \in Turn /\ said[i] \in Turn
             /\ sent[i].role = said[i].role
             /\ said[i].role = "user" => sent[i] = said[i]
  <2>1. sent[i] \in Turn /\ full[i] \in Turn /\ said[i] \in Turn
    BY <1>1, <1>2, <1>3
  <2>2. sent[i].role = said[i].role
    BY <1>2, <1>3
  <2>3. ASSUME said[i].role = "user" PROVE sent[i] = said[i]
    <3>1. full[i] = said[i] /\ sent[i].role = "user"
      BY <1>2, <1>3, <2>2, <2>3
    <3>2. full[i].content \in Seq(UserBlock) /\ full[i] = User(full[i].content)
          /\ sent[i] = User(sent[i].content)
      BY <2>1, <2>3, <3>1, TurnIs
    <3>3. sent[i].content = full[i].content
      BY <1>2, <1>3, <3>2, UpstreamBlocks
    <3>. QED  BY <3>1, <3>2, <3>3
  <2>. QED  BY <2>1, <2>2, <2>3
<1>5. ASSUME NEW i \in 1 .. Len(sent), NEW k \in 1 .. Len(sent[i].content)
      PROVE  LET b == sent[i].content[k]
             IN  /\ ~pass => b.type \notin ServerTypes
                 /\ \/ b = Placeholder
                    \/ \E j \in 1 .. Len(said[i].content) :
                         /\ b.from = said[i].content[j].from
                         /\ \/ /\ b.type = said[i].content[j].type
                               /\ b.id = said[i].content[j].id
                            \/ b.type = "text"
  <2>. DEFINE b == sent[i].content[k]
              c == full[i].content
  <2>1. sent[i] \in Turn /\ full[i] \in Turn /\ sent[i].role = full[i].role
    BY <1>2, <1>3, <1>4
  <2>2. CASE full[i].role = "user"
    <3>1. sent[i] = said[i] /\ said[i] = full[i]
      BY <1>2, <1>3, <1>4, <2>2
    <3>2. b \in UserBlock
      BY <2>1, <2>2, TurnIs
    <3>3. b.type \notin ServerTypes
      BY <3>2, UserBlockIs DEF ServerTypes
    <3>4. b = said[i].content[k] /\ k \in 1 .. Len(said[i].content)
      BY <3>1
    <3>. QED  BY <3>3, <3>4
  <2>3. CASE full[i].role = "assistant"
    <3>1. c \in Seq(AssistantBlock) /\ sent[i].content = BlocksForUpstream(c, pass)
      BY <1>2, <1>3, <2>1, <2>3, TurnIs
    <3>2. k \in 1 .. Len(c)
      BY <3>1, UpstreamBlocks
    <3>3. /\ b.from = c[k].from
          /\ \/ b.type = c[k].type /\ b.id = c[k].id
             \/ ~pass /\ c[k].type \in ServerTypes /\ b.type = "text"
          /\ ~pass => b.type \notin ServerTypes
      BY <3>1, <3>2, UpstreamBlocks
    <3>4. c[k] = Placeholder \/ \E j \in 1 .. Len(said[i].content) : c[k] = said[i].content[j]
      BY <1>2, <1>3, <3>2
    <3>5. b \in AssistantBlock
      BY <2>1, <2>3, TurnIs
    <3>6. CASE c[k] = Placeholder
      <4>1. b.type = "text" /\ b.from = 0
        BY <3>3, <3>6 DEF Placeholder
      <4>2. b = Placeholder
        BY <3>5, <4>1 DEF AssistantBlock, Placeholder, ServerTypes
      <4>. QED  BY <3>3, <4>2
    <3>7. CASE \E j \in 1 .. Len(said[i].content) : c[k] = said[i].content[j]
      <4>1. PICK j \in 1 .. Len(said[i].content) : c[k] = said[i].content[j]
        BY <3>7
      <4>. QED  BY <3>3, <4>1
    <3>. QED  BY <3>4, <3>6, <3>7
  <2>. QED  BY <2>1, <2>2, <2>3, TurnIs
<1>6. FlattenSeq([i \in 1 .. Len(sent) |-> Texts(sent[i].content)]) = TextsOf(said, pass)
  <2>1. DOMAIN said = 1 .. Len(said) /\ Len(sent) = Len(said)
    BY <1>1, <1>2, <1>3
  <2>2. [i \in 1 .. Len(sent) |-> Texts(sent[i].content)]
          = [i \in DOMAIN said |-> Texts(BlocksForUpstream(said[i].content, pass))]
    BY <1>2, <1>3, <2>1
  <2>. QED  BY <2>2 DEF TextsOf
<1>7. sent = Sent(ms, pass)
  BY DEF Sent, Filtered, sent, full, said
<1>8. said \in Seq(Turn) /\ sent \in Seq(Turn) /\ Len(sent) = Len(said)
  BY <1>1, <1>2, <1>3
<1>9. FlattenSeq([i \in 1 .. Len(sent) |-> Texts(sent[i].content)]) = TextsOf(ms, pass)
  BY <1>1, <1>6
<1>10. \A i \in 1 .. Len(sent) :
         /\ sent[i].role = said[i].role
         /\ said[i].role = "user" => sent[i] = said[i]
  BY <1>4
<1>. QED  BY <1>5, <1>7, <1>8, <1>9, <1>10, Zenon DEF said

-----------------------------------------------------------------------------
(* Calls and their results *)

Named(s, types) == {k \in 1 .. Len(s) : s[k].type \in types /\ s[k].id # NoId}

\* The ids of blocks, in their order.
LEMMA IdsOfIs ==
  ASSUME NEW s \in Seq(Block), NEW types
  PROVE  LET ids == IdsOf(s, types)
         IN  /\ ids \in Seq(Ids \cup ServerTypes)
             /\ ToSet(ids) = {s[k].id : k \in Named(s, types)}
             /\ \E pos \in [1 .. Len(ids) -> Named(s, types)] :
                  /\ \A n \in 1 .. Len(ids) : ids[n] = s[pos[n]].id
                  /\ \A m, n \in 1 .. Len(ids) : m < n => pos[m] < pos[n]
<1>. DEFINE K == Named(s, types)
            of == At(s, K)
            ids == IdsOf(s, types)
<1>1. DOMAIN s = 1 .. Len(s) /\ Len(s) \in Nat
  OBVIOUS
<1>2. ids = [n \in DOMAIN of |-> of[n].id]
  BY <1>1 DEF IdsOf, Named
<1>3. of \in Seq(Block)
  BY AtIs
<1>4. PICK pos \in [1 .. Len(of) -> 1 .. Len(s)] :
        /\ \A n \in 1 .. Len(of) : pos[n] \in K /\ of[n] = s[pos[n]]
        /\ \A m, n \in 1 .. Len(of) : m < n => pos[m] < pos[n]
        /\ \A k \in K \cap (1 .. Len(s)) : \E n \in 1 .. Len(of) : pos[n] = k
  <2>. HIDE DEF K
  <2>. QED  BY AtPlaces
<1>. HIDE DEF of, ids
<1>5. Len(of) \in Nat /\ DOMAIN of = 1 .. Len(of)
  BY <1>3
<1>6. \A k \in K : s[k].id \in Ids \cup ServerTypes
  BY BlockIs DEF Named
<1>7. \A n \in 1 .. Len(of) : of[n].id \in Ids \cup ServerTypes /\ of[n].id = s[pos[n]].id
  BY <1>4, <1>6
<1>8. ids \in Seq(Ids \cup ServerTypes) /\ Len(ids) = Len(of) /\ DOMAIN ids = 1 .. Len(of)
      /\ \A n \in 1 .. Len(of) : ids[n] = s[pos[n]].id
  BY <1>2, <1>5, <1>7
<1>9. K \subseteq 1 .. Len(s)
  BY DEF Named
<1>. HIDE DEF K
<1>10. ToSet(ids) = {s[k].id : k \in K}
  <2>1. ASSUME NEW x \in ToSet(ids) PROVE x \in {s[k].id : k \in K}
    BY <1>4, <1>8, <2>1 DEF ToSet
  <2>2. ASSUME NEW k \in K PROVE s[k].id \in ToSet(ids)
    <3>1. PICK n \in 1 .. Len(of) : pos[n] = k
      BY <1>4, <1>9, <2>2
    <3>2. ids[n] = s[k].id /\ n \in DOMAIN ids
      BY <1>8, <3>1
    <3>. QED  BY <3>2 DEF ToSet
  <2>. QED  BY <2>1, <2>2
<1>11. pos \in [1 .. Len(ids) -> K]
  BY <1>4, <1>8
<1>. QED  BY <1>4, <1>8, <1>10, <1>11 DEF ids, K

\* With no two blocks of one id there are no two of one id among the ids.
LEMMA IdsOnce ==
  ASSUME NEW s \in Seq(Block), NEW types,
         \A j, k \in Named(s, types) : s[j].id = s[k].id => j = k
  PROVE  \A m, n \in 1 .. Len(IdsOf(s, types)) :
           IdsOf(s, types)[m] = IdsOf(s, types)[n] => m = n
<1>. DEFINE ids == IdsOf(s, types)
<1>1. PICK pos \in [1 .. Len(ids) -> Named(s, types)] :
        /\ \A n \in 1 .. Len(ids) : ids[n] = s[pos[n]].id
        /\ \A m, n \in 1 .. Len(ids) : m < n => pos[m] < pos[n]
  BY IdsOfIs
<1>2. Len(ids) \in Nat
  BY IdsOfIs
<1>. HIDE DEF ids
<1>3. ASSUME NEW m \in 1 .. Len(ids), NEW n \in 1 .. Len(ids), ids[m] = ids[n] PROVE m = n
  <2>1. pos[m] = pos[n] /\ pos[m] \in Int
    BY <1>1, <1>3 DEF Named
  <2>2. ~(m < n) /\ ~(n < m)
    BY <1>1, <2>1
  <2>. QED  BY <1>2, <2>2
<1>. QED  BY <1>3 DEF ids

\* A call is kept if it is the first of its id in the message and new.
LEMMA AskingIs ==
  ASSUME NEW s \in Seq(AssistantBlock), NEW seen
  PROVE  LET a   == Asking(s, seen)
             ids == IdsOf(a, {"tool_use"})
         IN  /\ a \in Seq(AssistantBlock)
             /\ \A k \in 1 .. Len(a) : \E j \in 1 .. Len(s) : a[k] = s[j]
             /\ \A k \in 1 .. Len(a) :
                  a[k].type = "tool_use" => a[k].id \in Ids \ seen /\ a[k].id \in ToSet(ids)
             /\ \A j, k \in 1 .. Len(a) :
                  a[j].type = "tool_use" /\ a[k].type = "tool_use" /\ a[j].id = a[k].id => j = k
             /\ ids \in Seq(Ids)
             /\ \A m, n \in 1 .. Len(ids) : ids[m] = ids[n] => m = n
             /\ ToSet(ids) = {a[k].id : k \in {k \in 1 .. Len(a) : a[k].type = "tool_use"}}
             /\ ToSet(ids) \subseteq ToSet(IdsOf(s, {"tool_use"}))
             /\ ids = <<>> <=> \A k \in 1 .. Len(a) : a[k].type # "tool_use"
             /\ Texts(OrPlaceholder(a)) = Texts(s)
<1>. DEFINE K == {k \in DOMAIN s :
                    s[k].type = "tool_use" =>
                      /\ s[k].id \notin seen \cup {NoId}
                      /\ ~\E j \in 1 .. k - 1 :
                            s[j].type = "tool_use" /\ s[j].id = s[k].id}
            a == At(s, K)
            ids == IdsOf(a, {"tool_use"})
<1>1. a = Asking(s, seen)
  BY DEF Asking
<1>2. DOMAIN s = 1 .. Len(s) /\ Len(s) \in Nat /\ s \in Seq(Block)
      /\ \A k \in 1 .. Len(s) : s[k] \in AssistantBlock
  BY BlocksAre
<1>3. \A k \in K : s[k].type = "tool_use" => s[k].id \in Ids \ seen
  BY <1>2, AssistantBlockIs
<1>4. \A j, k \in K : s[j].type = "tool_use" /\ s[k].type = "tool_use" /\ s[j].id = s[k].id
        => ~(j < k)
  BY <1>2
<1>5. Texts(OrPlaceholder(a)) = Texts(s)
  <2>1. ASSUME NEW k \in 1 .. Len(s), k \notin K PROVE TextOf(TRUE)[s[k]] = <<>>
    <3>1. s[k].type = "tool_use" /\ s[k] \in Block
      BY <1>2, <2>1, BlocksAre
    <3>2. "tool_use" # "text" /\ ~(~TRUE /\ s[k].type \in ServerTypes)
      OBVIOUS
    <3>3. TextOf(TRUE)[s[k]] =
            IF (s[k].type = "text" \/ (~TRUE /\ s[k].type \in ServerTypes)) /\ s[k].from # 0
              THEN <<s[k].from>> ELSE <<>>
      BY <3>1, Zenon DEF TextOf
    <3>. QED  BY <3>1, <3>2, <3>3
  <2>. DEFINE f == TextOf(TRUE)
  <2>2. f \in Spreads(Block, Nat) /\ f[Placeholder] = <<>>
    BY TextsAre DEF TextOf, Placeholder, Block, UserBlock
  <2>3. \A k \in 1 .. Len(s) : k \notin K => f[s[k]] = <<>>
    BY <2>1
  <2>. HIDE DEF f, K
  <2>4. Spread(f, OrPlaceholder(a)) = Spread(f, s)
    BY <1>2, <2>2, <2>3, RestKept
  <2>5. OrPlaceholder(a) \in Seq(Block)
    BY AtIs, OrPlaceholderTyped, BlocksAre
  <2>. QED  BY <1>2, <2>4, <2>5, TextsAre DEF f
<1>. HIDE DEF K
<1>6. a \in Seq(AssistantBlock) /\ a \in Seq(Block)
  BY AtIs, BlocksAre
<1>7. PICK pos \in [1 .. Len(a) -> 1 .. Len(s)] :
        /\ \A n \in 1 .. Len(a) : pos[n] \in K /\ a[n] = s[pos[n]]
        /\ \A m, n \in 1 .. Len(a) : m < n => pos[m] < pos[n]
  BY AtPlaces
<1>. HIDE DEF a
<1>8. ASSUME NEW j \in 1 .. Len(a), NEW k \in 1 .. Len(a),
             a[j].type = "tool_use", a[k].type = "tool_use", a[j].id = a[k].id
      PROVE  j = k
  <2>1. ~(pos[j] < pos[k]) /\ ~(pos[k] < pos[j])
    BY <1>4, <1>7, <1>8
  <2>2. ~(j < k) /\ ~(k < j)
    BY <1>7, <2>1
  <2>. QED  BY <1>6, <2>2
<1>9. \A k \in 1 .. Len(a) : a[k].type = "tool_use" => a[k].id \in Ids \ seen
  BY <1>3, <1>7
<1>10. Named(a, {"tool_use"}) = {k \in 1 .. Len(a) : a[k].type = "tool_use"}
  BY <1>9, TranslationAssumption DEF Named
<1>11. ToSet(ids) = {a[k].id : k \in {k \in 1 .. Len(a) : a[k].type = "tool_use"}}
  BY <1>6, <1>10, IdsOfIs
<1>12. \A m, n \in 1 .. Len(ids) : ids[m] = ids[n] => m = n
  BY <1>6, <1>8, <1>10, IdsOnce
<1>13. ids \in Seq(Ids \cup ServerTypes)
  BY <1>6, IdsOfIs
<1>. HIDE DEF ids
<1>14. ids \in Seq(Ids)
  <2>1. \A n \in 1 .. Len(ids) : ids[n] \in ToSet(ids)
    BY <1>13 DEF ToSet
  <2>2. \A n \in 1 .. Len(ids) : ids[n] \in Ids
    BY <1>9, <1>11, <2>1
  <2>. QED  BY <1>13, <2>2
<1>15. ToSet(ids) \subseteq ToSet(IdsOf(s, {"tool_use"}))
  <2>1. ToSet(IdsOf(s, {"tool_use"})) = {s[k].id : k \in Named(s, {"tool_use"})}
    BY <1>2, IdsOfIs
  <2>2. ASSUME NEW k \in 1 .. Len(a), a[k].type = "tool_use"
        PROVE  a[k].id \in {s[j].id : j \in Named(s, {"tool_use"})}
    <3>1. pos[k] \in 1 .. Len(s) /\ a[k] = s[pos[k]] /\ a[k].id # NoId
      BY <1>7, <1>9, <2>2, TranslationAssumption
    <3>2. pos[k] \in Named(s, {"tool_use"})
      BY <2>2, <3>1 DEF Named
    <3>. QED  BY <3>1, <3>2
  <2>. QED  BY <1>11, <2>1, <2>2
<1>16. ids = <<>> <=> \A k \in 1 .. Len(a) : a[k].type # "tool_use"
  <2>1. ids = <<>> <=> ToSet(ids) = {}
    <3>1. Len(ids) \in Nat /\ DOMAIN ids = 1 .. Len(ids)
      BY <1>14
    <3>2. ids # <<>> => ids[1] \in ToSet(ids)
      BY <1>14, <3>1 DEF ToSet
    <3>3. ids = <<>> => ToSet(ids) = {}
      BY DEF ToSet
    <3>. QED  BY <3>2, <3>3
  <2>. QED  BY <1>11, <2>1
<1>17. \A k \in 1 .. Len(a) : a[k].type = "tool_use" => a[k].id \in ToSet(ids)
  BY <1>11
<1>18. \A k \in 1 .. Len(a) : \E j \in 1 .. Len(s) : a[k] = s[j]
  BY <1>7
<1>19. ids = IdsOf(a, {"tool_use"})
  BY DEF ids
<1>. QED  BY <1>1, <1>5, <1>6, <1>8, <1>9, <1>11, <1>12, <1>14, <1>15, <1>16, <1>17, <1>18, <1>19

\* A set of natural numbers with a member has a least one.
LEMMA Least ==
  ASSUME NEW S \in SUBSET Nat, NEW n \in S
  PROVE  \E m \in S : \A k \in S : m <= k
<1>. SUFFICES ASSUME \A m \in S : \E k \in S : ~(m <= k) PROVE FALSE
  OBVIOUS
<1>. DEFINE G == {i \in Nat : \A k \in S : i < k}
<1>1. 0 \in G
  OBVIOUS
<1>2. \A i \in Nat : i \in G => i + 1 \in G
  OBVIOUS
<1>. HIDE DEF G
<1>3. Nat \subseteq G
  BY <1>1, <1>2, Closed
<1>. QED  BY <1>3 DEF G

\* Of the results of a user message stay the first of each allowed id.
LEMMA StripIs ==
  ASSUME NEW s \in Seq(UserBlock), NEW allowed
  PROVE  LET r == StripToolResults(s, allowed)
         IN  /\ r \in Seq(UserBlock)
             /\ \A k \in 1 .. Len(r) : \E j \in 1 .. Len(s) :
                  /\ r[k] = s[j]
                  /\ IsResult(r[k]) =>
                       \A i \in 1 .. j - 1 : ~(IsResult(s[i]) /\ s[i].id = s[j].id)
             /\ \A k \in 1 .. Len(r) : IsResult(r[k]) => r[k].id \in allowed
             /\ \A j, k \in 1 .. Len(r) :
                  IsResult(r[j]) /\ IsResult(r[k]) /\ r[j].id = r[k].id => j = k
             /\ \A j \in 1 .. Len(s) : IsResult(s[j]) /\ s[j].id \in allowed =>
                  \E k \in 1 .. Len(r) : IsResult(r[k]) /\ r[k].id = s[j].id
             /\ Texts(r) = Texts(s) /\ Texts(OrPlaceholder(r)) = Texts(s)
<1>. DEFINE K == {k \in DOMAIN s :
                    IsResult(s[k]) =>
                      /\ s[k].id \in allowed
                      /\ ~\E j \in 1 .. k - 1 : IsResult(s[j]) /\ s[j].id = s[k].id}
            r == At(s, K)
<1>1. r = StripToolResults(s, allowed)
  BY DEF StripToolResults
<1>2. DOMAIN s = 1 .. Len(s) /\ Len(s) \in Nat /\ s \in Seq(Block)
      /\ \A k \in 1 .. Len(s) : s[k] \in UserBlock
  BY BlocksAre
<1>3. \A k \in K : IsResult(s[k]) =>
        /\ s[k].id \in allowed
        /\ \A i \in 1 .. k - 1 : ~(IsResult(s[i]) /\ s[i].id = s[k].id)
  OBVIOUS
<1>4. \A j, k \in K : IsResult(s[j]) /\ IsResult(s[k]) /\ s[j].id = s[k].id => ~(j < k)
  BY <1>2
<1>5. Texts(r) = Texts(s) /\ Texts(OrPlaceholder(r)) = Texts(s)
  <2>1. ASSUME NEW k \in 1 .. Len(s), k \notin K PROVE TextOf(TRUE)[s[k]] = <<>>
    <3>1. s[k].type = "tool_result" /\ s[k] \in Block
      BY <1>2, <2>1, BlocksAre DEF IsResult
    <3>2. TextOf(TRUE)[s[k]] =
            IF (s[k].type = "text" \/ (~TRUE /\ s[k].type \in ServerTypes)) /\ s[k].from # 0
              THEN <<s[k].from>> ELSE <<>>
      BY <3>1, Zenon DEF TextOf
    <3>. QED  BY <3>1, <3>2
  <2>. DEFINE f == TextOf(TRUE)
  <2>2. f \in Spreads(Block, Nat) /\ f[Placeholder] = <<>>
    BY TextsAre DEF TextOf, Placeholder, Block, UserBlock
  <2>3. \A k \in 1 .. Len(s) : k \notin K => f[s[k]] = <<>>
    BY <2>1
  <2>. HIDE DEF f, K
  <2>4. Spread(f, r) = Spread(f, s) /\ Spread(f, OrPlaceholder(r)) = Spread(f, s)
    BY <1>2, <2>2, <2>3, RestKept
  <2>5. r \in Seq(Block) /\ OrPlaceholder(r) \in Seq(Block)
    BY AtIs, OrPlaceholderTyped, BlocksAre
  <2>. QED  BY <1>2, <2>4, <2>5, TextsAre DEF f
<1>6. ASSUME NEW j \in 1 .. Len(s), IsResult(s[j]), s[j].id \in allowed
      PROVE  \E k \in K : IsResult(s[k]) /\ s[k].id = s[j].id
  <2>. DEFINE S == {i \in 1 .. Len(s) : IsResult(s[i]) /\ s[i].id = s[j].id}
  <2>1. S \in SUBSET Nat /\ j \in S
    BY <1>6
  <2>2. PICK m \in S : \A k \in S : m <= k
    <3>. HIDE DEF S
    <3>. QED  BY <2>1, Least
  <2>3. m \in 1 .. Len(s) /\ IsResult(s[m]) /\ s[m].id = s[j].id
    OBVIOUS
  <2>4. \A i \in 1 .. m - 1 : ~(IsResult(s[i]) /\ s[i].id = s[m].id)
    BY <1>2, <2>2, <2>3
  <2>5. m \in K
    BY <1>2, <1>6, <2>3, <2>4
  <2>. QED  BY <2>3, <2>5
<1>. HIDE DEF K
<1>7. r \in Seq(UserBlock)
  BY AtIs
<1>8. PICK pos \in [1 .. Len(r) -> 1 .. Len(s)] :
        /\ \A n \in 1 .. Len(r) : pos[n] \in K /\ r[n] = s[pos[n]]
        /\ \A m, n \in 1 .. Len(r) : m < n => pos[m] < pos[n]
        /\ \A k \in K \cap (1 .. Len(s)) : \E n \in 1 .. Len(r) : pos[n] = k
  BY AtPlaces
<1>. HIDE DEF r
<1>9. ASSUME NEW j \in 1 .. Len(r), NEW k \in 1 .. Len(r),
             IsResult(r[j]), IsResult(r[k]), r[j].id = r[k].id
      PROVE  j = k
  <2>1. ~(pos[j] < pos[k]) /\ ~(pos[k] < pos[j])
    BY <1>4, <1>8, <1>9
  <2>2. ~(j < k) /\ ~(k < j)
    BY <1>8, <2>1
  <2>. QED  BY <1>7, <2>2
<1>10. \A k \in 1 .. Len(r) : \E j \in 1 .. Len(s) :
         /\ r[k] = s[j]
         /\ IsResult(r[k]) =>
              \A i \in 1 .. j - 1 : ~(IsResult(s[i]) /\ s[i].id = s[j].id)
  <2>. TAKE k \in 1 .. Len(r)
  <2>1. pos[k] \in 1 .. Len(s) /\ pos[k] \in K /\ r[k] = s[pos[k]]
    BY <1>8
  <2>2. IsResult(r[k]) =>
          \A i \in 1 .. pos[k] - 1 : ~(IsResult(s[i]) /\ s[i].id = s[pos[k]].id)
    BY <1>3, <2>1
  <2>. QED  BY <2>1, <2>2
<1>11. \A k \in 1 .. Len(r) : IsResult(r[k]) => r[k].id \in allowed
  BY <1>3, <1>8
<1>12. \A j \in 1 .. Len(s) : IsResult(s[j]) /\ s[j].id \in allowed =>
         \E k \in 1 .. Len(r) : IsResult(r[k]) /\ r[k].id = s[j].id
  <2>. SUFFICES ASSUME NEW j \in 1 .. Len(s), IsResult(s[j]), s[j].id \in allowed
                PROVE  \E k \in 1 .. Len(r) : IsResult(r[k]) /\ r[k].id = s[j].id
    OBVIOUS
  <2>1. PICK k \in K : IsResult(s[k]) /\ s[k].id = s[j].id
    BY <1>6
  <2>2. k \in 1 .. Len(s)
    BY <1>2 DEF K
  <2>3. PICK n \in 1 .. Len(r) : pos[n] = k
    BY <1>8, <2>1, <2>2
  <2>. QED  BY <1>8, <2>1, <2>3
<1>. QED  BY <1>1, <1>5, <1>7, <1>9, <1>10, <1>11, <1>12

\* Texts of two runs of blocks are those of one and then of the other; blocks of
\* other kinds than text have none.
LEMMA TextsConcat ==
  /\ \A s, t \in Seq(Block) : Texts(s \o t) = Texts(s) \o Texts(t)
  /\ \A s \in Seq(Block) : (\A k \in 1 .. Len(s) : s[k].type # "text") => Texts(s) = <<>>
  /\ Texts(<<>>) = <<>>
<1>. DEFINE f == TextOf(TRUE)
<1>1. f \in Spreads(Block, Nat) /\ \A s \in Seq(Block) : Texts(s) = Spread(f, s)
  BY TextsAre
<1>2. ASSUME NEW b \in Block, b.type # "text" PROVE f[b] = <<>>
  <2>1. f[b] = IF (b.type = "text" \/ (~TRUE /\ b.type \in ServerTypes)) /\ b.from # 0
                 THEN <<b.from>> ELSE <<>>
    BY Zenon DEF TextOf
  <2>. QED  BY <1>2, <2>1
<1>. HIDE DEF f
<1>3. ASSUME NEW s \in Seq(Block), NEW t \in Seq(Block) PROVE Texts(s \o t) = Texts(s) \o Texts(t)
  <2>1. s \o t \in Seq(Block) /\ Spread(f, s \o t) = Spread(f, s) \o Spread(f, t)
    BY <1>1, SpreadConcat
  <2>. QED  BY <1>1, <2>1
<1>4. ASSUME NEW s \in Seq(Block), \A k \in 1 .. Len(s) : s[k].type # "text"
      PROVE  Texts(s) = <<>>
  <2>. DEFINE ss == [k \in 1 .. Len(s) |-> f[s[k]]]
  <2>1. ss \in Seq(Seq(Nat))
    BY <1>1, SpreadTyped
  <2>2. \A k \in 1 .. Len(s) : f[s[k]] = <<>>
    BY <1>2, <1>4
  <2>3. \A k \in 1 .. Len(ss) : ss[k] = <<>>
    BY <2>2
  <2>4. FlattenSeq(ss) = <<>>
    <3>. HIDE DEF ss
    <3>. QED  BY <2>1, <2>3, FlattenEmpties
  <2>. QED  BY <1>1, <2>4 DEF Spread
<1>5. Texts(<<>>) = <<>>
  <2>1. <<>> \in Seq(Block)
    OBVIOUS
  <2>. QED  BY <1>1, <2>1, SpreadEmpty
<1>. QED  BY <1>3, <1>4, <1>5

\* The user message after calls answers each of them once and nothing else; it is
\* the client's first answer if there is one, and invented if there is none.
LEMMA AnsweringIs ==
  ASSUME NEW ids \in Seq(Ids), \A m, n \in 1 .. Len(ids) : ids[m] = ids[n] => m = n,
         NEW next \in Seq(UserBlock)
  PROVE  LET a == Answering(ids, next)
         IN  /\ a \in Seq(UserBlock)
             /\ \A k \in 1 .. Len(a) : IsResult(a[k]) => a[k].id \in ToSet(ids)
             /\ \A j, k \in 1 .. Len(a) :
                  IsResult(a[j]) /\ IsResult(a[k]) /\ a[j].id = a[k].id => j = k
             /\ \A id \in ToSet(ids) :
                  \E k \in 1 .. Len(a) : IsResult(a[k]) /\ a[k].id = id
             /\ \A k \in 1 .. Len(a) : IsResult(a[k]) =>
                  \/ /\ a[k].from = 0
                     /\ \A j \in 1 .. Len(next) : ~(IsResult(next[j]) /\ next[j].id = a[k].id)
                  \/ \E j \in 1 .. Len(next) :
                       /\ a[k] = next[j]
                       /\ \A i \in 1 .. j - 1 : ~(IsResult(next[i]) /\ next[i].id = a[k].id)
             /\ Texts(a) = Texts(next)
<1>. DEFINE given == ToSet(IdsOf(next, {"tool_result"}))
            M == {n \in DOMAIN ids : ids[n] \notin given}
            missing == At(ids, M)
            syn == [k \in DOMAIN missing |-> Synthetic(missing[k])]
            r == StripToolResults(next, ToSet(ids))
            a == Answering(ids, next)
<1>1. a = syn \o r
  BY DEF Answering
<1>2. given = {next[k].id : k \in Named(next, {"tool_result"})}
  <2>1. next \in Seq(Block)
    BY BlocksAre
  <2>. QED  BY <2>1, IdsOfIs
<1>. HIDE DEF given
<1>3. DOMAIN ids = 1 .. Len(ids) /\ Len(ids) \in Nat /\ ToSet(ids) = {ids[n] : n \in 1 .. Len(ids)}
      /\ ToSet(ids) \subseteq Ids
  BY DEF ToSet
<1>4. missing \in Seq(Ids)
  BY AtIs
<1>5. PICK pos \in [1 .. Len(missing) -> 1 .. Len(ids)] :
        /\ \A n \in 1 .. Len(missing) : pos[n] \in M /\ missing[n] = ids[pos[n]]
        /\ \A m, n \in 1 .. Len(missing) : m < n => pos[m] < pos[n]
        /\ \A k \in M \cap (1 .. Len(ids)) : \E n \in 1 .. Len(missing) : pos[n] = k
  <2>. HIDE DEF M
  <2>. QED  BY AtPlaces
<1>. HIDE DEF missing
<1>6. /\ r \in Seq(UserBlock)
      /\ \A k \in 1 .. Len(r) : \E j \in 1 .. Len(next) :
           /\ r[k] = next[j]
           /\ IsResult(r[k]) =>
                \A i \in 1 .. j - 1 : ~(IsResult(next[i]) /\ next[i].id = next[j].id)
      /\ \A k \in 1 .. Len(r) : IsResult(r[k]) => r[k].id \in ToSet(ids)
      /\ \A j, k \in 1 .. Len(r) :
           IsResult(r[j]) /\ IsResult(r[k]) /\ r[j].id = r[k].id => j = k
      /\ \A j \in 1 .. Len(next) : IsResult(next[j]) /\ next[j].id \in ToSet(ids) =>
           \E k \in 1 .. Len(r) : IsResult(r[k]) /\ r[k].id = next[j].id
      /\ Texts(r) = Texts(next)
  <2>. DEFINE all == ToSet(ids)
  <2>. HIDE DEF all
  <2>1. LET q == StripToolResults(next, all)
        IN  /\ q \in Seq(UserBlock)
            /\ \A k \in 1 .. Len(q) : \E j \in 1 .. Len(next) :
                 /\ q[k] = next[j]
                 /\ IsResult(q[k]) =>
                      \A i \in 1 .. j - 1 : ~(IsResult(next[i]) /\ next[i].id = next[j].id)
            /\ \A k \in 1 .. Len(q) : IsResult(q[k]) => q[k].id \in all
            /\ \A j, k \in 1 .. Len(q) :
                 IsResult(q[j]) /\ IsResult(q[k]) /\ q[j].id = q[k].id => j = k
            /\ \A j \in 1 .. Len(next) : IsResult(next[j]) /\ next[j].id \in all =>
                 \E k \in 1 .. Len(q) : IsResult(q[k]) /\ q[k].id = next[j].id
            /\ Texts(q) = Texts(next)
    BY StripIs
  <2>. QED  BY <2>1 DEF all
<1>. HIDE DEF r
<1>7. /\ Len(missing) \in Nat /\ DOMAIN missing = 1 .. Len(missing)
      /\ \A k \in 1 .. Len(missing) : missing[k] \in Ids
  BY <1>4
<1>8. /\ syn \in Seq(UserBlock) /\ Len(syn) = Len(missing)
      /\ \A k \in 1 .. Len(missing) :
           /\ IsResult(syn[k]) /\ syn[k].id = missing[k] /\ syn[k].from = 0
           /\ missing[k] \in ToSet(ids) /\ missing[k] \notin given
  <2>1. \A k \in 1 .. Len(missing) : Synthetic(missing[k]) \in UserBlock
    BY <1>7 DEF Synthetic, UserBlock
  <2>2. syn \in Seq(UserBlock) /\ Len(syn) = Len(missing)
    BY <1>7, <2>1
  <2>3. \A k \in 1 .. Len(missing) : missing[k] \in ToSet(ids) /\ missing[k] \notin given
    BY <1>3, <1>5
  <2>. QED  BY <1>7, <2>2, <2>3 DEF Synthetic, IsResult
<1>9. ASSUME NEW j \in 1 .. Len(missing), NEW k \in 1 .. Len(missing), missing[j] = missing[k]
      PROVE  j = k
  <2>1. pos[j] = pos[k] /\ pos[j] \in Int /\ pos[k] \in Int
    BY <1>3, <1>5, <1>9
  <2>2. ~(j < k) /\ ~(k < j)
    BY <1>5, <2>1
  <2>. QED  BY <1>7, <2>2
<1>. HIDE DEF syn, a
<1>10. ASSUME NEW k \in 1 .. Len(r), IsResult(r[k])
       PROVE  /\ r[k].id \in ToSet(ids) /\ r[k].id \in given
              /\ \E j \in 1 .. Len(next) :
                   /\ r[k] = next[j]
                   /\ \A i \in 1 .. j - 1 : ~(IsResult(next[i]) /\ next[i].id = r[k].id)
  <2>1. PICK j \in 1 .. Len(next) :
           /\ r[k] = next[j]
           /\ IsResult(r[k]) =>
                \A i \in 1 .. j - 1 : ~(IsResult(next[i]) /\ next[i].id = next[j].id)
    BY <1>6
  <2>2. r[k].id \in ToSet(ids) /\ r[k].id # NoId
    BY <1>3, <1>6, <1>10, TranslationAssumption
  <2>3. j \in Named(next, {"tool_result"})
    BY <1>10, <2>1, <2>2 DEF Named, IsResult
  <2>4. r[k].id \in given
    BY <1>2, <2>1, <2>3
  <2>. QED  BY <1>10, <2>1, <2>2, <2>4
<1>11. /\ a \in Seq(UserBlock) /\ Len(a) = Len(syn) + Len(r) /\ Len(syn) \in Nat /\ Len(r) \in Nat
       /\ \A k \in 1 .. Len(a) : a[k] = IF k <= Len(syn) THEN syn[k] ELSE r[k - Len(syn)]
  <2>1. syn \in Seq(UserBlock) /\ r \in Seq(UserBlock)
    BY <1>6, <1>8
  <2>. QED  BY <1>1, <2>1
<1>12. ASSUME NEW k \in 1 .. Len(a)
       PROVE  \/ k \in 1 .. Len(missing) /\ a[k] = syn[k]
              \/ k - Len(syn) \in 1 .. Len(r) /\ a[k] = r[k - Len(syn)]
  BY <1>8, <1>11
<1>13. \A k \in 1 .. Len(a) : IsResult(a[k]) => a[k].id \in ToSet(ids)
  BY <1>8, <1>10, <1>12
<1>14. ASSUME NEW j \in 1 .. Len(a), NEW k \in 1 .. Len(a),
              IsResult(a[j]), IsResult(a[k]), a[j].id = a[k].id
       PROVE  j = k
  <2>1. CASE j \in 1 .. Len(missing) /\ a[j] = syn[j] /\ k \in 1 .. Len(missing) /\ a[k] = syn[k]
    BY <1>8, <1>9, <1>14, <2>1
  <2>2. CASE /\ j - Len(syn) \in 1 .. Len(r) /\ a[j] = r[j - Len(syn)]
             /\ k - Len(syn) \in 1 .. Len(r) /\ a[k] = r[k - Len(syn)]
    <3>1. j - Len(syn) = k - Len(syn)
      BY <1>6, <1>14, <2>2
    <3>. QED  BY <1>11, <3>1
  <2>3. CASE /\ j \in 1 .. Len(missing) /\ a[j] = syn[j]
             /\ k - Len(syn) \in 1 .. Len(r) /\ a[k] = r[k - Len(syn)]
    BY <1>8, <1>10, <1>14, <2>3
  <2>4. CASE /\ j - Len(syn) \in 1 .. Len(r) /\ a[j] = r[j - Len(syn)]
             /\ k \in 1 .. Len(missing) /\ a[k] = syn[k]
    BY <1>8, <1>10, <1>14, <2>4
  <2>. QED  BY <1>12, <2>1, <2>2, <2>3, <2>4
<1>15. ASSUME NEW id \in ToSet(ids)
       PROVE  \E k \in 1 .. Len(a) : IsResult(a[k]) /\ a[k].id = id
  <2>1. CASE id \in given
    <3>1. PICK j \in Named(next, {"tool_result"}) : next[j].id = id
      BY <1>2, <2>1
    <3>2. j \in 1 .. Len(next) /\ IsResult(next[j])
      BY DEF Named, IsResult
    <3>3. PICK k \in 1 .. Len(r) : IsResult(r[k]) /\ r[k].id = id
      BY <1>6, <1>15, <3>1, <3>2
    <3>4. Len(syn) + k \in 1 .. Len(a) /\ a[Len(syn) + k] = r[k]
      BY <1>11
    <3>. QED  BY <3>3, <3>4
  <2>2. CASE id \notin given
    <3>1. PICK n \in 1 .. Len(ids) : ids[n] = id
      BY <1>3
    <3>2. n \in M
      BY <1>3, <2>2, <3>1
    <3>3. PICK k \in 1 .. Len(missing) : pos[k] = n
      BY <1>5, <3>2
    <3>4. missing[k] = id /\ k \in 1 .. Len(a) /\ a[k] = syn[k]
      BY <1>5, <1>8, <1>11, <3>1, <3>3
    <3>. QED  BY <1>8, <3>4
  <2>. QED  BY <2>1, <2>2
<1>16. ASSUME NEW k \in 1 .. Len(a), IsResult(a[k])
       PROVE  \/ /\ a[k].from = 0
                 /\ \A j \in 1 .. Len(next) : ~(IsResult(next[j]) /\ next[j].id = a[k].id)
              \/ \E j \in 1 .. Len(next) :
                   /\ a[k] = next[j]
                   /\ \A i \in 1 .. j - 1 : ~(IsResult(next[i]) /\ next[i].id = a[k].id)
  <2>1. CASE k \in 1 .. Len(missing) /\ a[k] = syn[k]
    <3>1. a[k].from = 0 /\ a[k].id \notin given /\ a[k].id # NoId
      BY <1>3, <1>8, <2>1, TranslationAssumption
    <3>2. ASSUME NEW j \in 1 .. Len(next), IsResult(next[j]), next[j].id = a[k].id PROVE FALSE
      <4>1. j \in Named(next, {"tool_result"})
        BY <3>1, <3>2 DEF Named, IsResult
      <4>. QED  BY <1>2, <3>1, <3>2, <4>1
    <3>. QED  BY <3>1, <3>2
  <2>2. CASE k - Len(syn) \in 1 .. Len(r) /\ a[k] = r[k - Len(syn)]
    <3>. DEFINE n == k - Len(syn)
    <3>1. n \in 1 .. Len(r) /\ a[k] = r[n] /\ IsResult(r[n])
      BY <1>16, <2>2
    <3>2. \E j \in 1 .. Len(next) :
            /\ r[n] = next[j]
            /\ \A i \in 1 .. j - 1 : ~(IsResult(next[i]) /\ next[i].id = r[n].id)
      BY <1>10, <3>1
    <3>. QED  BY <3>1, <3>2
  <2>. QED  BY <1>12, <2>1, <2>2
<1>17. Texts(a) = Texts(next)
  <2>1. syn \in Seq(Block) /\ r \in Seq(Block)
    BY <1>6, <1>8, BlocksAre
  <2>2. Texts(syn) = <<>>
    <3>1. \A k \in 1 .. Len(syn) : syn[k].type # "text"
      BY <1>8 DEF IsResult
    <3>. QED  BY <2>1, <3>1, TextsConcat
  <2>3. Texts(r) \in Seq(Nat)
    BY <2>1, TextsAre
  <2>4. Texts(a) = Texts(syn) \o Texts(r)
    BY <1>1, <2>1, TextsConcat
  <2>. QED  BY <1>6, <2>2, <2>3, <2>4
<1>. HIDE DEF M
<1>. QED  BY <1>11, <1>13, <1>14, <1>15, <1>16, <1>17 DEF a

\* A user message no call came before keeps its texts and no result.
LEMMA UnaskedIs ==
  ASSUME NEW s \in Seq(UserBlock)
  PROVE  /\ Unasked(s) \in Seq(UserBlock) /\ Texts(Unasked(s)) = Texts(s)
         /\ \A k \in 1 .. Len(Unasked(s)) : ~IsResult(Unasked(s)[k])
<1>. DEFINE r == StripToolResults(s, {})
<1>1. /\ r \in Seq(UserBlock) /\ Texts(OrPlaceholder(r)) = Texts(s)
      /\ \A k \in 1 .. Len(r) : IsResult(r[k]) => r[k].id \in {}
  <2>. DEFINE none == {}
  <2>. HIDE DEF none
  <2>1. LET q == StripToolResults(s, none)
        IN  /\ q \in Seq(UserBlock) /\ Texts(OrPlaceholder(q)) = Texts(s)
            /\ \A k \in 1 .. Len(q) : IsResult(q[k]) => q[k].id \in none
    BY StripIs
  <2>. QED  BY <2>1 DEF none
<1>. HIDE DEF r
<1>2. \A k \in 1 .. Len(OrPlaceholder(r)) : ~IsResult(OrPlaceholder(r)[k])
  BY <1>1 DEF OrPlaceholder, Placeholder, IsResult
<1>3. CASE \E k \in DOMAIN s : IsResult(s[k])
  <2>1. Unasked(s) = OrPlaceholder(r)
    BY <1>3 DEF Unasked, r
  <2>. QED  BY <1>1, <1>2, <2>1, OrPlaceholderTyped
<1>4. CASE ~\E k \in DOMAIN s : IsResult(s[k])
  <2>1. Unasked(s) = s
    BY <1>4 DEF Unasked
  <2>. QED  BY <1>4, <2>1
<1>. QED  BY <1>3, <1>4

-----------------------------------------------------------------------------
(* The repair of a transcript *)

\* What is left of assistant message i, and what the user says right after it.
AskingAt(ms, i) == Asking(ms[i].content, SeenToolUses(ms, i))

SaidAfter(ms, i) ==
  IF i < Len(ms) /\ ms[i + 1].role = "user" THEN ms[i + 1].content ELSE <<>>

Asks(ms, i) == i \in 1 .. Len(ms) /\ ms[i].role = "assistant"

\* No call is made by two messages.
LEMMA AskedIs ==
  ASSUME NEW ms \in Seq(Turn), NEW i \in Int
  PROVE  /\ Asked(ms, i) \in Seq(Ids)
         /\ \A m, n \in 1 .. Len(Asked(ms, i)) : Asked(ms, i)[m] = Asked(ms, i)[n] => m = n
         /\ Asked(ms, i) # <<>> => Asks(ms, i)
         /\ Asks(ms, i) =>
              LET a == AskingAt(ms, i)
              IN  /\ a \in Seq(AssistantBlock)
                  /\ \A k \in 1 .. Len(a) : \E j \in 1 .. Len(ms[i].content) : a[k] = ms[i].content[j]
                  /\ \A k \in 1 .. Len(a) :
                       a[k].type = "tool_use" => a[k].id \in Ids /\ a[k].id \in ToSet(Asked(ms, i))
                  /\ \A j, k \in 1 .. Len(a) :
                       a[j].type = "tool_use" /\ a[k].type = "tool_use" /\ a[j].id = a[k].id => j = k
                  /\ ToSet(Asked(ms, i)) = {a[k].id : k \in {k \in 1 .. Len(a) : a[k].type = "tool_use"}}
                  /\ Texts(OrPlaceholder(a)) = Texts(ms[i].content)
         /\ \A j \in Int : i < j => ToSet(Asked(ms, i)) \cap ToSet(Asked(ms, j)) = {}
<1>1. ASSUME NEW j \in Int, ~Asks(ms, j) PROVE Asked(ms, j) = <<>>
  <2>1. ~(j \in DOMAIN ms /\ ms[j].role = "assistant")
    BY <1>1 DEF Asks
  <2>. QED  BY <2>1 DEF Asked
<1>2. ASSUME NEW j \in Int, Asks(ms, j)
      PROVE  LET a   == AskingAt(ms, j)
                 ids == Asked(ms, j)
             IN  /\ a \in Seq(AssistantBlock)
                 /\ \A k \in 1 .. Len(a) : \E l \in 1 .. Len(ms[j].content) : a[k] = ms[j].content[l]
                 /\ \A k \in 1 .. Len(a) : a[k].type = "tool_use" =>
                      a[k].id \in Ids \ SeenToolUses(ms, j) /\ a[k].id \in ToSet(ids)
                 /\ \A l, k \in 1 .. Len(a) :
                      a[l].type = "tool_use" /\ a[k].type = "tool_use" /\ a[l].id = a[k].id => l = k
                 /\ ids \in Seq(Ids)
                 /\ \A m, n \in 1 .. Len(ids) : ids[m] = ids[n] => m = n
                 /\ ToSet(ids) = {a[k].id : k \in {k \in 1 .. Len(a) : a[k].type = "tool_use"}}
                 /\ ToSet(ids) \subseteq ToSet(IdsOf(ms[j].content, {"tool_use"}))
                 /\ Texts(OrPlaceholder(a)) = Texts(ms[j].content)
  <2>. DEFINE c == ms[j].content
              seen == SeenToolUses(ms, j)
  <2>1. j \in DOMAIN ms /\ ms[j].role = "assistant" /\ ms[j] \in Turn
    BY <1>2 DEF Asks
  <2>2. c \in Seq(AssistantBlock)
    BY <2>1, TurnIs
  <2>3. Asked(ms, j) = IdsOf(Asking(c, seen), {"tool_use"}) /\ AskingAt(ms, j) = Asking(c, seen)
    BY <2>1 DEF Asked, AskingAt
  <2>. HIDE DEF c, seen
  <2>4. LET a   == Asking(c, seen)
            ids == IdsOf(a, {"tool_use"})
        IN  /\ a \in Seq(AssistantBlock)
            /\ \A k \in 1 .. Len(a) : \E l \in 1 .. Len(c) : a[k] = c[l]
            /\ \A k \in 1 .. Len(a) :
                 a[k].type = "tool_use" => a[k].id \in Ids \ seen /\ a[k].id \in ToSet(ids)
            /\ \A l, k \in 1 .. Len(a) :
                 a[l].type = "tool_use" /\ a[k].type = "tool_use" /\ a[l].id = a[k].id => l = k
            /\ ids \in Seq(Ids)
            /\ \A m, n \in 1 .. Len(ids) : ids[m] = ids[n] => m = n
            /\ ToSet(ids) = {a[k].id : k \in {k \in 1 .. Len(a) : a[k].type = "tool_use"}}
            /\ ToSet(ids) \subseteq ToSet(IdsOf(c, {"tool_use"}))
            /\ Texts(OrPlaceholder(a)) = Texts(c)
    BY <2>2, AskingIs
  <2>. QED  BY <2>3, <2>4 DEF c, seen
<1>3. ASSUME NEW j \in Int, i < j, NEW id \in ToSet(Asked(ms, i)), id \in ToSet(Asked(ms, j))
      PROVE  FALSE
  <2>0. Asked(ms, i) # <<>> /\ Asked(ms, j) # <<>>
    BY <1>3 DEF ToSet
  <2>1. Asks(ms, i) /\ Asks(ms, j)
    BY <1>1, <2>0
  <2>2. id \in ToSet(IdsOf(ms[i].content, {"tool_use"}))
    BY <1>2, <1>3, <2>1
  <2>3. i \in 1 .. j - 1 /\ ms[i].role = "assistant"
    BY <1>3, <2>1 DEF Asks
  <2>4. id \in SeenToolUses(ms, j)
    BY <2>2, <2>3 DEF SeenToolUses
  <2>. QED  BY <1>2, <1>3, <2>1, <2>4
<1>4. CASE ~Asks(ms, i)
  <2>1. Asked(ms, i) = <<>>
    BY <1>1, <1>4
  <2>. QED  BY <1>3, <1>4, <2>1
<1>5. CASE Asks(ms, i)
  BY <1>2, <1>3, <1>5
<1>. QED  BY <1>4, <1>5

\* The assistant message sent on for message i, and the user message that answers
\* its calls.
TurnAt(ms, i) == Assistant(OrPlaceholder(AskingAt(ms, i)))

AnswerAt(ms, i) == User(Answering(Asked(ms, i), SaidAfter(ms, i)))

\* The answers to a message with calls.
LEMMA AnswerAtIs ==
  ASSUME NEW ms \in Seq(Turn), NEW i \in Int, Asks(ms, i)
  PROVE  LET a    == AnswerAt(ms, i).content
             next == SaidAfter(ms, i)
         IN  /\ TurnAt(ms, i) \in Turn /\ AnswerAt(ms, i) \in Turn
             /\ TurnAt(ms, i).role = "assistant" /\ AnswerAt(ms, i).role = "user"
             /\ TurnAt(ms, i).content = OrPlaceholder(AskingAt(ms, i))
             /\ next \in Seq(UserBlock) /\ a \in Seq(UserBlock)
             /\ \A k \in 1 .. Len(a) : IsResult(a[k]) => a[k].id \in ToSet(Asked(ms, i))
             /\ \A j, k \in 1 .. Len(a) :
                  IsResult(a[j]) /\ IsResult(a[k]) /\ a[j].id = a[k].id => j = k
             /\ \A id \in ToSet(Asked(ms, i)) :
                  \E k \in 1 .. Len(a) : IsResult(a[k]) /\ a[k].id = id
             /\ \A k \in 1 .. Len(a) : IsResult(a[k]) =>
                  \/ /\ a[k].from = 0
                     /\ \A j \in 1 .. Len(next) : ~(IsResult(next[j]) /\ next[j].id = a[k].id)
                  \/ \E j \in 1 .. Len(next) :
                       /\ a[k] = next[j]
                       /\ \A l \in 1 .. j - 1 : ~(IsResult(next[l]) /\ next[l].id = a[k].id)
             /\ Texts(a) = Texts(next)
             /\ Texts(TurnAt(ms, i).content) = Texts(ms[i].content)
<1>. DEFINE ids == Asked(ms, i)
            next == SaidAfter(ms, i)
<1>1. ids \in Seq(Ids) /\ \A m, n \in 1 .. Len(ids) : ids[m] = ids[n] => m = n
  BY AskedIs
<1>2. next \in Seq(UserBlock)
  <2>1. CASE i < Len(ms) /\ ms[i + 1].role = "user"
    <3>1. ms[i + 1] \in Turn
      BY <2>1 DEF Asks
    <3>. QED  BY <2>1, <3>1, TurnIs DEF SaidAfter
  <2>2. CASE ~(i < Len(ms) /\ ms[i + 1].role = "user")
    BY <2>2 DEF SaidAfter
  <2>. QED  BY <2>1, <2>2
<1>3. /\ AskingAt(ms, i) \in Seq(AssistantBlock)
      /\ Texts(OrPlaceholder(AskingAt(ms, i))) = Texts(ms[i].content)
  BY AskedIs
<1>. DEFINE turn == OrPlaceholder(AskingAt(ms, i))
            a == Answering(ids, next)
<1>4. turn \in Seq(AssistantBlock)
  BY <1>3, OrPlaceholderTyped
<1>5. /\ TurnAt(ms, i) = Assistant(turn) /\ AnswerAt(ms, i) = User(a)
  BY DEF TurnAt, AnswerAt
<1>. HIDE DEF ids, next
<1>6. /\ a \in Seq(UserBlock)
      /\ \A k \in 1 .. Len(a) : IsResult(a[k]) => a[k].id \in ToSet(ids)
      /\ \A j, k \in 1 .. Len(a) :
           IsResult(a[j]) /\ IsResult(a[k]) /\ a[j].id = a[k].id => j = k
      /\ \A id \in ToSet(ids) :
           \E k \in 1 .. Len(a) : IsResult(a[k]) /\ a[k].id = id
      /\ \A k \in 1 .. Len(a) : IsResult(a[k]) =>
           \/ /\ a[k].from = 0
              /\ \A j \in 1 .. Len(next) : ~(IsResult(next[j]) /\ next[j].id = a[k].id)
           \/ \E j \in 1 .. Len(next) :
                /\ a[k] = next[j]
                /\ \A l \in 1 .. j - 1 : ~(IsResult(next[l]) /\ next[l].id = a[k].id)
      /\ Texts(a) = Texts(next)
  BY <1>1, <1>2, AnsweringIs
<1>. HIDE DEF a
<1>7. /\ Assistant(turn) \in Turn /\ Assistant(turn).role = "assistant" /\ Assistant(turn).content = turn
      /\ User(a) \in Turn /\ User(a).role = "user" /\ User(a).content = a
  BY <1>4, <1>6, TurnsAre
<1>. QED  BY <1>2, <1>3, <1>5, <1>6, <1>7 DEF ids, next, turn

\* What becomes of message i.
LEMMA PairedAtIs ==
  ASSUME NEW ms \in Seq(Turn), NEW i \in 1 .. Len(ms)
  PROVE  /\ Asks(ms, i) =>
              PairedAt(ms, i) =
                IF Asked(ms, i) = <<>> \/ (i < Len(ms) /\ ms[i + 1].role = "user")
                  THEN <<TurnAt(ms, i)>> ELSE <<TurnAt(ms, i), AnswerAt(ms, i)>>
         /\ ~Asks(ms, i) =>
              /\ ms[i].role = "user" /\ ms[i].content \in Seq(UserBlock)
              /\ PairedAt(ms, i) =
                   IF Asked(ms, i - 1) # <<>> THEN <<AnswerAt(ms, i - 1)>>
                   ELSE IF Unasked(ms[i].content) = <<>> THEN <<>>
                   ELSE <<User(Unasked(ms[i].content))>>
         /\ PairedAt(ms, i) \in Seq(Turn)
         /\ FlattenSeq([k \in 1 .. Len(PairedAt(ms, i)) |-> Texts(PairedAt(ms, i)[k].content)])
              = Texts(ms[i].content)
<1>. DEFINE r == PairedAt(ms, i)
            c == ms[i].content
            f == [m \in Turn |-> Texts(m.content)]
<1>1. ms[i] \in Turn /\ ms[i].role \in {"user", "assistant"}
  BY TurnIs
<1>2. f \in Spreads(Turn, Nat) /\ \A m \in Turn : f[m] = Texts(m.content)
  BY TurnIs, TextsAre DEF Spreads
<1>. HIDE DEF f
<1>3. ASSUME r \in Seq(Turn), Spread(f, r) = Texts(c)
      PROVE  FlattenSeq([k \in 1 .. Len(r) |-> Texts(r[k].content)]) = Texts(c)
  <2>1. [k \in 1 .. Len(r) |-> Texts(r[k].content)] = [k \in 1 .. Len(r) |-> f[r[k]]]
    BY <1>2, <1>3
  <2>. QED  BY <1>3, <2>1 DEF Spread
<1>4. CASE Asks(ms, i)
  <2>1. ms[i].role = "assistant" /\ ms[i].role # "user"
    BY <1>4 DEF Asks
  <2>2. /\ TurnAt(ms, i) \in Turn /\ AnswerAt(ms, i) \in Turn
        /\ Texts(TurnAt(ms, i).content) = Texts(c)
        /\ Texts(AnswerAt(ms, i).content) = Texts(SaidAfter(ms, i))
    BY <1>4, AnswerAtIs
  <2>3. CASE Asked(ms, i) = <<>> \/ (i < Len(ms) /\ ms[i + 1].role = "user")
    <3>1. r = <<TurnAt(ms, i)>>
      BY <2>1, <2>3 DEF PairedAt, TurnAt, AskingAt
    <3>2. Spread(f, r) = f[TurnAt(ms, i)] /\ r \in Seq(Turn)
      BY <1>2, <2>2, <3>1, SpreadSingle
    <3>3. Spread(f, r) = Texts(c)
      BY <1>2, <2>2, <3>2
    <3>. QED  BY <1>3, <1>4, <2>3, <3>1, <3>2, <3>3
  <2>4. CASE ~(Asked(ms, i) = <<>> \/ (i < Len(ms) /\ ms[i + 1].role = "user"))
    <3>1. SaidAfter(ms, i) = <<>>
      BY <2>4 DEF SaidAfter
    <3>2. r = <<TurnAt(ms, i), AnswerAt(ms, i)>>
      BY <2>1, <2>4, <3>1 DEF PairedAt, TurnAt, AskingAt, AnswerAt
    <3>3. r = Append(<<TurnAt(ms, i)>>, AnswerAt(ms, i)) /\ r \in Seq(Turn)
          /\ <<TurnAt(ms, i)>> \in Seq(Turn)
      BY <2>2, <3>2
    <3>4. Spread(f, r) = Spread(f, <<TurnAt(ms, i)>>) \o f[AnswerAt(ms, i)]
      <4>. DEFINE first == <<TurnAt(ms, i)>>
                  then == AnswerAt(ms, i)
      <4>1. first \in Seq(Turn) /\ then \in Turn /\ r = Append(first, then)
        BY <2>2, <3>3
      <4>. HIDE DEF first, then, r
      <4>2. Spread(f, Append(first, then)) = Spread(f, first) \o f[then]
        BY <1>2, <4>1, SpreadAppend
      <4>. QED  BY <4>1, <4>2 DEF first, then
    <3>5. Spread(f, <<TurnAt(ms, i)>>) = f[TurnAt(ms, i)]
      BY <1>2, <2>2, SpreadSingle
    <3>6. f[TurnAt(ms, i)] = Texts(c) /\ f[AnswerAt(ms, i)] = <<>> /\ f[TurnAt(ms, i)] \in Seq(Nat)
      BY <1>2, <2>2, <3>1, TextsConcat DEF Spreads
    <3>7. Spread(f, r) = Texts(c)
      BY <3>4, <3>5, <3>6
    <3>. QED  BY <1>3, <1>4, <2>4, <3>2, <3>3, <3>7
  <2>. QED  BY <2>3, <2>4
<1>5. CASE ~Asks(ms, i)
  <2>1. ms[i].role = "user" /\ c \in Seq(UserBlock)
    BY <1>1, <1>5, TurnIs DEF Asks
  <2>2. CASE Asked(ms, i - 1) # <<>>
    <3>1. Asks(ms, i - 1)
      BY <2>2, AskedIs
    <3>2. SaidAfter(ms, i - 1) = c
      BY <2>1, <3>1 DEF SaidAfter, Asks
    <3>3. r = <<AnswerAt(ms, i - 1)>>
      BY <2>1, <2>2, <3>2 DEF PairedAt, AnswerAt
    <3>4. AnswerAt(ms, i - 1) \in Turn /\ Texts(AnswerAt(ms, i - 1).content) = Texts(c)
      BY <3>1, <3>2, AnswerAtIs
    <3>5. Spread(f, r) = f[AnswerAt(ms, i - 1)] /\ r \in Seq(Turn)
      BY <1>2, <3>3, <3>4, SpreadSingle
    <3>6. Spread(f, r) = Texts(c)
      BY <1>2, <3>4, <3>5
    <3>. QED  BY <1>3, <1>5, <2>1, <2>2, <3>3, <3>5, <3>6
  <2>3. CASE Asked(ms, i - 1) = <<>> /\ Unasked(c) = <<>>
    <3>1. r = <<>>
      BY <2>1, <2>3 DEF PairedAt
    <3>2. Spread(f, r) = <<>> /\ r \in Seq(Turn) /\ Texts(c) = <<>>
      BY <2>1, <2>3, <3>1, SpreadEmpty, UnaskedIs, TextsConcat
    <3>. QED  BY <1>3, <1>5, <2>1, <2>3, <3>1, <3>2
  <2>4. CASE Asked(ms, i - 1) = <<>> /\ Unasked(c) # <<>>
    <3>1. r = <<User(Unasked(c))>>
      BY <2>1, <2>4 DEF PairedAt
    <3>2. Unasked(c) \in Seq(UserBlock) /\ Texts(Unasked(c)) = Texts(c)
      BY <2>1, UnaskedIs
    <3>3. User(Unasked(c)) \in Turn /\ User(Unasked(c)).content = Unasked(c)
      BY <3>2, TurnsAre
    <3>4. Spread(f, r) = f[User(Unasked(c))] /\ r \in Seq(Turn)
      BY <1>2, <3>1, <3>3, SpreadSingle
    <3>5. Spread(f, r) = Texts(c)
      BY <1>2, <3>2, <3>3, <3>4
    <3>. QED  BY <1>3, <1>5, <2>1, <2>4, <3>1, <3>4, <3>5
  <2>. QED  BY <2>2, <2>3, <2>4
<1>. QED  BY <1>4, <1>5

\* What stands where in a repaired transcript: an assistant message, the answers to
\* its calls right after it, and user messages no call came before.  Its texts are
\* those of the transcript.
LEMMA PairedPlaces ==
  ASSUME NEW ms \in Seq(Turn)
  PROVE  LET out == Paired(ms)
         IN  /\ out \in Seq(Turn)
             /\ FlattenSeq([p \in 1 .. Len(out) |-> Texts(out[p].content)])
                  = FlattenSeq([i \in 1 .. Len(ms) |-> Texts(ms[i].content)])
             /\ \E at \in [1 .. Len(ms) -> Nat] :
                  /\ \A i, j \in 1 .. Len(ms) : Asks(ms, i) /\ i < j => at[i] < at[j]
                  /\ \A i \in 1 .. Len(ms) : Asks(ms, i) =>
                       /\ at[i] + 1 \in 1 .. Len(out) /\ out[at[i] + 1] = TurnAt(ms, i)
                       /\ Asked(ms, i) # <<>> =>
                            at[i] + 2 \in 1 .. Len(out) /\ out[at[i] + 2] = AnswerAt(ms, i)
                  /\ \A p \in 1 .. Len(out) :
                       \E i \in 1 .. Len(ms) :
                         \/ Asks(ms, i) /\ p = at[i] + 1
                         \/ Asks(ms, i) /\ Asked(ms, i) # <<>> /\ p = at[i] + 2
                         \/ /\ ~Asks(ms, i) /\ ms[i].content \in Seq(UserBlock)
                            /\ out[p] = User(Unasked(ms[i].content))
<1>. DEFINE ss == [i \in 1 .. Len(ms) |-> PairedAt(ms, i)]
            out == Paired(ms)
            O == [i \in 1 .. Len(ms) + 1 |-> Offset(ss, i)]
            at == [i \in 1 .. Len(ms) |-> O[i]]
<1>1. Len(ms) \in Nat /\ DOMAIN ms = 1 .. Len(ms)
  OBVIOUS
<1>2. out = FlattenSeq(ss)
  BY <1>1 DEF Paired
<1>3. \A i \in 1 .. Len(ms) : PairedAt(ms, i) \in Seq(Turn)
  BY PairedAtIs
<1>4. ss \in Seq(Seq(Turn)) /\ Len(ss) = Len(ms) /\ \A i \in 1 .. Len(ms) : ss[i] = PairedAt(ms, i)
  BY <1>1, <1>3
<1>. HIDE DEF ss, out
<1>5. /\ FlattenSeq(ss) \in Seq(Turn)
      /\ \A i \in 1 .. Len(ss) + 1 : Offset(ss, i) \in Nat
      /\ \A i \in 1 .. Len(ss) : Offset(ss, i + 1) = Offset(ss, i) + Len(ss[i])
      /\ \A i, j \in 1 .. Len(ss) + 1 : i <= j => Offset(ss, i) <= Offset(ss, j)
      /\ \A i \in 1 .. Len(ss) : \A k \in 1 .. Len(ss[i]) :
           /\ Offset(ss, i) + k \in 1 .. Len(FlattenSeq(ss))
           /\ FlattenSeq(ss)[Offset(ss, i) + k] = ss[i][k]
      /\ \A p \in 1 .. Len(FlattenSeq(ss)) :
           \E i \in 1 .. Len(ss) : \E k \in 1 .. Len(ss[i]) : p = Offset(ss, i) + k
  BY <1>4, FlattenPlaces
<1>6. /\ \A i \in 1 .. Len(ms) + 1 : O[i] = Offset(ss, i)
      /\ \A i \in 1 .. Len(ms) : i \in 1 .. Len(ms) + 1 /\ i + 1 \in 1 .. Len(ms) + 1
  BY <1>1
<1>. HIDE DEF O
<1>7. out \in Seq(Turn) /\ \A i \in 1 .. Len(ms) + 1 : O[i] \in Nat
  BY <1>2, <1>4, <1>5, <1>6
<1>8. \A i \in 1 .. Len(ms) : O[i + 1] = O[i] + Len(ss[i])
  BY <1>4, <1>5, <1>6
<1>9. \A i, j \in 1 .. Len(ms) + 1 : i <= j => O[i] <= O[j]
  BY <1>4, <1>5, <1>6
<1>10. \A i \in 1 .. Len(ms) : \A k \in 1 .. Len(ss[i]) :
         O[i] + k \in 1 .. Len(out) /\ out[O[i] + k] = ss[i][k]
  <2>. TAKE i \in 1 .. Len(ms)
  <2>. TAKE k \in 1 .. Len(ss[i])
  <2>1. i \in 1 .. Len(ss) /\ O[i] = Offset(ss, i)
    BY <1>4, <1>6
  <2>2. Offset(ss, i) + k \in 1 .. Len(out) /\ out[Offset(ss, i) + k] = ss[i][k]
    BY <1>2, <1>5, <2>1
  <2>. QED  BY <2>1, <2>2
<1>11. \A p \in 1 .. Len(out) :
         \E i \in 1 .. Len(ms) : \E k \in 1 .. Len(ss[i]) : p = O[i] + k
  <2>. TAKE p \in 1 .. Len(out)
  <2>0. p \in 1 .. Len(FlattenSeq(ss))
    BY <1>2
  <2>1. PICK i \in 1 .. Len(ss) : \E k \in 1 .. Len(ss[i]) : p = Offset(ss, i) + k
    BY <1>5, <2>0
  <2>2. i \in 1 .. Len(ms) /\ i \in 1 .. Len(ms) + 1
    BY <1>4, <1>6
  <2>3. O[i] = Offset(ss, i)
    BY <1>6, <2>2
  <2>. QED  BY <2>1, <2>2, <2>3
<1>12. at \in [1 .. Len(ms) -> Nat] /\ \A i \in 1 .. Len(ms) : at[i] = O[i] /\ O[i] \in Nat
  BY <1>6, <1>7
<1>. HIDE DEF at
<1>13. \A i \in 1 .. Len(ms) : Asks(ms, i) =>
         ss[i] = IF Asked(ms, i) = <<>> \/ (i < Len(ms) /\ ms[i + 1].role = "user")
                   THEN <<TurnAt(ms, i)>> ELSE <<TurnAt(ms, i), AnswerAt(ms, i)>>
  BY <1>4, PairedAtIs
<1>14. \A i \in 1 .. Len(ms) : ~Asks(ms, i) =>
         /\ ms[i].content \in Seq(UserBlock)
         /\ ss[i] = IF Asked(ms, i - 1) # <<>> THEN <<AnswerAt(ms, i - 1)>>
                    ELSE IF Unasked(ms[i].content) = <<>> THEN <<>>
                    ELSE <<User(Unasked(ms[i].content))>>
  BY <1>4, PairedAtIs
<1>15. \A i \in Int : Asked(ms, i) # <<>> => Asks(ms, i)
  BY AskedIs
<1>16. ASSUME NEW i \in 1 .. Len(ms), Asks(ms, i)
       PROVE  /\ Len(ss[i]) \in 1 .. 2 /\ ss[i][1] = TurnAt(ms, i)
              /\ Len(ss[i]) = 2 => ss[i][2] = AnswerAt(ms, i) /\ Asked(ms, i) # <<>>
              /\ Len(ss[i]) # 2 /\ Asked(ms, i) # <<>> => i < Len(ms) /\ ms[i + 1].role = "user"
  <2>1. CASE Asked(ms, i) = <<>> \/ (i < Len(ms) /\ ms[i + 1].role = "user")
    <3>1. ss[i] = <<TurnAt(ms, i)>>
      BY <1>13, <1>16, <2>1
    <3>. QED  BY <2>1, <3>1
  <2>2. CASE ~(Asked(ms, i) = <<>> \/ (i < Len(ms) /\ ms[i + 1].role = "user"))
    <3>1. ss[i] = <<TurnAt(ms, i), AnswerAt(ms, i)>>
      BY <1>13, <1>16, <2>2
    <3>. QED  BY <2>2, <3>1
  <2>. QED  BY <2>1, <2>2
<1>17. ASSUME NEW i \in 1 .. Len(ms), Asks(ms, i)
       PROVE  at[i] + 1 \in 1 .. Len(out) /\ out[at[i] + 1] = TurnAt(ms, i)
  <2>1. 1 \in 1 .. Len(ss[i]) /\ ss[i][1] = TurnAt(ms, i)
    BY <1>16, <1>17
  <2>. QED  BY <1>10, <1>12, <2>1
<1>18. ASSUME NEW i \in 1 .. Len(ms), Asks(ms, i), Asked(ms, i) # <<>>
       PROVE  at[i] + 2 \in 1 .. Len(out) /\ out[at[i] + 2] = AnswerAt(ms, i)
  <2>1. CASE Len(ss[i]) = 2
    <3>1. 2 \in 1 .. Len(ss[i]) /\ ss[i][2] = AnswerAt(ms, i)
      BY <1>16, <1>18, <2>1
    <3>. QED  BY <1>10, <1>12, <3>1
  <2>2. CASE Len(ss[i]) # 2
    <3>1. i + 1 \in 1 .. Len(ms) /\ ms[i + 1].role = "user" /\ Len(ss[i]) = 1 /\ (i + 1) - 1 = i
      BY <1>16, <1>18, <2>2
    <3>2. ~Asks(ms, i + 1)
      BY <3>1 DEF Asks
    <3>3. ss[i + 1] = <<AnswerAt(ms, i)>>
      BY <1>14, <1>18, <3>1, <3>2
    <3>4. O[i + 1] = O[i] + 1 /\ O[i] \in Nat
      BY <1>8, <1>12, <3>1
    <3>5. 1 \in 1 .. Len(ss[i + 1]) /\ ss[i + 1][1] = AnswerAt(ms, i)
      BY <3>3
    <3>6. O[i + 1] + 1 \in 1 .. Len(out) /\ out[O[i + 1] + 1] = AnswerAt(ms, i)
      BY <1>10, <3>1, <3>5
    <3>. QED  BY <1>12, <3>4, <3>6
  <2>. QED  BY <2>1, <2>2
<1>19. ASSUME NEW p \in 1 .. Len(out)
       PROVE  \E i \in 1 .. Len(ms) :
                \/ Asks(ms, i) /\ p = at[i] + 1
                \/ Asks(ms, i) /\ Asked(ms, i) # <<>> /\ p = at[i] + 2
                \/ /\ ~Asks(ms, i) /\ ms[i].content \in Seq(UserBlock)
                   /\ out[p] = User(Unasked(ms[i].content))
  <2>1. PICK i \in 1 .. Len(ms) : \E k \in 1 .. Len(ss[i]) : p = O[i] + k
    BY <1>11
  <2>2. PICK k \in 1 .. Len(ss[i]) : p = O[i] + k
    BY <2>1
  <2>3. CASE Asks(ms, i)
    <3>1. Len(ss[i]) \in 1 .. 2 /\ (Len(ss[i]) = 2 => Asked(ms, i) # <<>>)
      BY <1>16, <2>3
    <3>2. p = at[i] + k /\ (k = 1 \/ (k = 2 /\ Len(ss[i]) = 2))
      <4>1. p = at[i] + k
        BY <1>12, <2>2
      <4>. DEFINE l == Len(ss[i])
      <4>2. l \in 1 .. 2 /\ k \in 1 .. l
        BY <3>1
      <4>. HIDE DEF l
      <4>3. k = 1 \/ (k = 2 /\ l = 2)
        BY <4>2
      <4>. QED  BY <4>1, <4>3 DEF l
    <3>. QED  BY <2>3, <3>1, <3>2
  <2>4. CASE ~Asks(ms, i) /\ Asked(ms, i - 1) # <<>>
    <3>1. Asks(ms, i - 1) /\ i - 1 \in 1 .. Len(ms) /\ (i - 1) + 1 = i
      BY <1>15, <2>4 DEF Asks
    <3>2. ss[i] = <<AnswerAt(ms, i - 1)>>
      BY <1>14, <2>4
    <3>3. k = 1
      BY <3>2
    <3>4. Len(ss[i - 1]) = 1
      <4>1. ms[i].role # "assistant" /\ ms[i] \in Turn
        BY <2>4 DEF Asks
      <4>2. ms[i].role = "user" /\ i - 1 < Len(ms) /\ ms[(i - 1) + 1].role = "user"
        BY <3>1, <4>1, TurnIs
      <4>3. ss[i - 1] = <<TurnAt(ms, i - 1)>>
        BY <1>13, <3>1, <4>2
      <4>. QED  BY <4>3
    <3>5. O[i] = O[i - 1] + 1 /\ O[i - 1] \in Nat
      <4>. DEFINE h == i - 1
      <4>1. h \in 1 .. Len(ms) /\ h + 1 = i /\ Len(ss[h]) = 1
        BY <3>1, <3>4
      <4>2. O[h + 1] = O[h] + Len(ss[h]) /\ O[h] \in Nat
        BY <1>8, <1>12, <4>1
      <4>. QED  BY <4>1, <4>2
    <3>6. at[i - 1] = O[i - 1]
      BY <1>12, <3>1
    <3>7. p = at[i - 1] + 2
      BY <2>2, <3>3, <3>5, <3>6
    <3>. QED  BY <2>4, <3>1, <3>7
  <2>5. CASE ~Asks(ms, i) /\ Asked(ms, i - 1) = <<>>
    <3>1. /\ ms[i].content \in Seq(UserBlock)
          /\ ss[i] = IF Unasked(ms[i].content) = <<>> THEN <<>>
                     ELSE <<User(Unasked(ms[i].content))>>
      BY <1>14, <2>5
    <3>2. Unasked(ms[i].content) # <<>>
      BY <3>1
    <3>3. ss[i] = <<User(Unasked(ms[i].content))>>
      BY <3>1, <3>2
    <3>4. out[p] = ss[i][k]
      BY <1>10, <2>2
    <3>5. k = 1
      BY <3>3
    <3>. QED  BY <2>5, <3>1, <3>3, <3>4, <3>5
  <2>. QED  BY <2>3, <2>4, <2>5
<1>20. ASSUME NEW i \in 1 .. Len(ms), NEW j \in 1 .. Len(ms), Asks(ms, i), i < j
       PROVE  at[i] < at[j]
  <2>1. i + 1 \in 1 .. Len(ms) + 1 /\ j \in 1 .. Len(ms) + 1 /\ i + 1 <= j
    BY <1>1, <1>20
  <2>2. O[i + 1] <= O[j] /\ O[i + 1] \in Nat
    BY <1>7, <1>9, <2>1
  <2>3. O[i + 1] = O[i] + Len(ss[i]) /\ O[i] = at[i] /\ O[j] = at[j]
    BY <1>8, <1>12
  <2>4. Len(ss[i]) \in 1 .. 2 /\ O[i] \in Nat /\ O[j] \in Nat
    BY <1>12, <1>16, <1>20
  <2>5. O[i] < O[i + 1]
    <3>. DEFINE l == Len(ss[i])
                x == O[i]
                y == O[i + 1]
    <3>1. y = x + l /\ l \in 1 .. 2 /\ x \in Nat
      BY <2>3, <2>4
    <3>. HIDE DEF l, x, y
    <3>2. x < y
      BY <3>1
    <3>. QED  BY <3>2 DEF x, y
  <2>6. O[i] < O[j]
    BY <2>2, <2>4, <2>5
  <2>. QED  BY <2>3, <2>6
<1>21. FlattenSeq([p \in 1 .. Len(out) |-> Texts(out[p].content)])
         = FlattenSeq([i \in 1 .. Len(ms) |-> Texts(ms[i].content)])
  <2>. DEFINE f == [m \in Turn |-> Texts(m.content)]
  <2>1. f \in Spreads(Turn, Nat) /\ \A m \in Turn : f[m] = Texts(m.content)
    BY TurnIs, TextsAre DEF Spreads
  <2>. HIDE DEF f
  <2>2. Spread(f, out) = FlattenSeq([i \in 1 .. Len(ss) |-> Spread(f, ss[i])])
    BY <1>2, <1>4, <2>1, SpreadFlatten
  <2>3. \A i \in 1 .. Len(ms) : Spread(f, ss[i]) = Texts(ms[i].content)
    <3>. TAKE i \in 1 .. Len(ms)
    <3>1. [k \in 1 .. Len(ss[i]) |-> Texts(ss[i][k].content)] = [k \in 1 .. Len(ss[i]) |-> f[ss[i][k]]]
      BY <1>3, <1>4, <2>1
    <3>2. FlattenSeq([k \in 1 .. Len(ss[i]) |-> Texts(ss[i][k].content)]) = Texts(ms[i].content)
      BY <1>4, PairedAtIs
    <3>. QED  BY <3>1, <3>2 DEF Spread
  <2>4. [i \in 1 .. Len(ss) |-> Spread(f, ss[i])] = [i \in 1 .. Len(ms) |-> Texts(ms[i].content)]
    BY <1>4, <2>3
  <2>5. [p \in 1 .. Len(out) |-> Texts(out[p].content)] = [p \in 1 .. Len(out) |-> f[out[p]]]
    BY <1>7, <2>1
  <2>. QED  BY <2>2, <2>4, <2>5 DEF Spread
<1>. QED
  <2>1. /\ \A i, j \in 1 .. Len(ms) : Asks(ms, i) /\ i < j => at[i] < at[j]
        /\ \A i \in 1 .. Len(ms) : Asks(ms, i) =>
             /\ at[i] + 1 \in 1 .. Len(out) /\ out[at[i] + 1] = TurnAt(ms, i)
             /\ Asked(ms, i) # <<>> =>
                  at[i] + 2 \in 1 .. Len(out) /\ out[at[i] + 2] = AnswerAt(ms, i)
        /\ \A p \in 1 .. Len(out) :
             \E i \in 1 .. Len(ms) :
               \/ Asks(ms, i) /\ p = at[i] + 1
               \/ Asks(ms, i) /\ Asked(ms, i) # <<>> /\ p = at[i] + 2
               \/ /\ ~Asks(ms, i) /\ ms[i].content \in Seq(UserBlock)
                  /\ out[p] = User(Unasked(ms[i].content))
    BY <1>17, <1>18, <1>19, <1>20
  <2>. QED  BY <1>7, <1>12, <1>21, <2>1 DEF out

IsUse(b) == b.type = "tool_use"

\* A user's blocks make no calls; an assistant's answer none.
LEMMA RolesApart ==
  /\ \A s \in Seq(UserBlock) : \A k \in 1 .. Len(s) : ~IsUse(s[k])
  /\ \A s \in Seq(AssistantBlock) : \A k \in 1 .. Len(s) : ~IsResult(s[k])
<1>1. ASSUME NEW s \in Seq(UserBlock), NEW k \in 1 .. Len(s) PROVE ~IsUse(s[k])
  <2>1. s[k] \in UserBlock
    OBVIOUS
  <2>. QED  BY <2>1, UserBlockIs DEF IsUse
<1>2. ASSUME NEW s \in Seq(AssistantBlock), NEW k \in 1 .. Len(s) PROVE ~IsResult(s[k])
  <2>1. s[k] \in AssistantBlock
    OBVIOUS
  <2>. QED  BY <2>1, AssistantBlockIs DEF IsResult, ServerTypes
<1>. QED  BY <1>1, <1>2

\* The calls of an assistant message sent on are those asked, once each, and they
\* are the client's.
LEMMA TurnAtIs ==
  ASSUME NEW ms \in Seq(Turn), NEW i \in Int, Asks(ms, i)
  PROVE  LET t == TurnAt(ms, i).content
         IN  /\ t \in Seq(AssistantBlock)
             /\ \A k \in 1 .. Len(t) :
                  IsUse(t[k]) => t[k].id \in Ids /\ t[k].id \in ToSet(Asked(ms, i))
             /\ \A j, k \in 1 .. Len(t) :
                  IsUse(t[j]) /\ IsUse(t[k]) /\ t[j].id = t[k].id => j = k
             /\ \A id \in ToSet(Asked(ms, i)) :
                  id \in Ids /\ \E k \in 1 .. Len(t) : IsUse(t[k]) /\ t[k].id = id
             /\ \A k \in 1 .. Len(t) :
                  \/ t[k] = Placeholder
                  \/ \E j \in 1 .. Len(ms[i].content) : t[k] = ms[i].content[j]
<1>. DEFINE a == AskingAt(ms, i)
            t == OrPlaceholder(a)
            ids == ToSet(Asked(ms, i))
<1>1. TurnAt(ms, i).content = t
  BY AnswerAtIs
<1>2. /\ a \in Seq(AssistantBlock)
      /\ \A k \in 1 .. Len(a) : \E j \in 1 .. Len(ms[i].content) : a[k] = ms[i].content[j]
      /\ \A k \in 1 .. Len(a) : a[k].type = "tool_use" => a[k].id \in Ids /\ a[k].id \in ids
      /\ \A j, k \in 1 .. Len(a) :
           a[j].type = "tool_use" /\ a[k].type = "tool_use" /\ a[j].id = a[k].id => j = k
      /\ ids = {a[k].id : k \in {k \in 1 .. Len(a) : a[k].type = "tool_use"}}
  BY AskedIs
<1>. HIDE DEF a, ids
<1>3. CASE a = <<>>
  <2>1. t = <<Placeholder>>
    BY <1>3 DEF OrPlaceholder
  <2>2. ids = {}
    BY <1>2, <1>3
  <2>3. \A k \in 1 .. Len(t) : k = 1 /\ t[k] = Placeholder /\ ~IsUse(t[k])
    BY <2>1 DEF IsUse, Placeholder
  <2>4. t \in Seq(AssistantBlock)
    BY <1>2, OrPlaceholderTyped
  <2>. HIDE DEF t
  <2>. QED  BY <1>1, <2>2, <2>3, <2>4 DEF ids
<1>4. CASE a # <<>>
  <2>1. t = a
    BY <1>4 DEF OrPlaceholder
  <2>2. \A id \in ids : id \in Ids /\ \E k \in 1 .. Len(a) : IsUse(a[k]) /\ a[k].id = id
    BY <1>2 DEF IsUse
  <2>. HIDE DEF t
  <2>3. TurnAt(ms, i).content = a
    BY <1>1, <2>1
  <2>4. /\ \A k \in 1 .. Len(a) : IsUse(a[k]) => a[k].id \in Ids /\ a[k].id \in ids
        /\ \A j, k \in 1 .. Len(a) : IsUse(a[j]) /\ IsUse(a[k]) /\ a[j].id = a[k].id => j = k
    BY <1>2 DEF IsUse
  <2>5. \A k \in 1 .. Len(a) :
          a[k] = Placeholder \/ \E j \in 1 .. Len(ms[i].content) : a[k] = ms[i].content[j]
    BY <1>2
  <2>. QED  BY <1>2, <2>2, <2>3, <2>4, <2>5 DEF ids
<1>. QED  BY <1>3, <1>4

\* Every call has one id of its own and is answered in the next message, the user's,
\* once; there are no other results.
Matched(out) ==
  /\ \A p \in 1 .. Len(out) : \A k \in 1 .. Len(out[p].content) :
       IsUse(out[p].content[k]) =>
         /\ out[p].content[k].id \in Ids /\ out[p].role = "assistant"
         /\ p + 1 \in 1 .. Len(out) /\ out[p + 1].role = "user"
         /\ \E l \in 1 .. Len(out[p + 1].content) :
              IsResult(out[p + 1].content[l]) /\ out[p + 1].content[l].id = out[p].content[k].id
  /\ \A p \in 1 .. Len(out) : \A k \in 1 .. Len(out[p].content) :
       IsResult(out[p].content[k]) =>
         /\ out[p].content[k].id \in Ids /\ out[p].role = "user"
         /\ p - 1 \in 1 .. Len(out) /\ out[p - 1].role = "assistant"
         /\ \E l \in 1 .. Len(out[p - 1].content) :
              IsUse(out[p - 1].content[l]) /\ out[p - 1].content[l].id = out[p].content[k].id
  /\ \A p, q \in 1 .. Len(out) :
       \A k \in 1 .. Len(out[p].content), l \in 1 .. Len(out[q].content) :
         /\ out[p].content[k].id = out[q].content[l].id
         /\ \/ IsUse(out[p].content[k]) /\ IsUse(out[q].content[l])
            \/ IsResult(out[p].content[k]) /\ IsResult(out[q].content[l])
         => p = q /\ k = l

\* A repaired transcript is matched.  The answers to a message's calls are right behind
\* it; blocks are the client's, the user's or placeholders.
LEMMA PairedMatched ==
  ASSUME NEW ms \in Seq(Turn)
  PROVE  /\ Matched(Paired(ms))
         /\ \A p \in 1 .. Len(Paired(ms)) : \A k \in 1 .. Len(Paired(ms)[p].content) :
              IsResult(Paired(ms)[p].content[k]) =>
                \E i \in 1 .. Len(ms) :
                  /\ Asks(ms, i) /\ p - 1 \in 1 .. Len(Paired(ms))
                  /\ Paired(ms)[p - 1] = TurnAt(ms, i) /\ Paired(ms)[p] = AnswerAt(ms, i)
         /\ \A p \in 1 .. Len(Paired(ms)) : \A k \in 1 .. Len(Paired(ms)[p].content) :
              \/ Paired(ms)[p].content[k] \in UserBlock
              \/ \E i \in 1 .. Len(ms) : \E j \in 1 .. Len(ms[i].content) :
                   Paired(ms)[p].content[k] = ms[i].content[j]
              \/ Paired(ms)[p].content[k] = Placeholder
<1>. DEFINE out == Paired(ms)
<1>1. out \in Seq(Turn)
  BY PairedPlaces
<1>2. PICK at \in [1 .. Len(ms) -> Nat] :
        /\ \A i, j \in 1 .. Len(ms) : Asks(ms, i) /\ i < j => at[i] < at[j]
        /\ \A i \in 1 .. Len(ms) : Asks(ms, i) =>
             /\ at[i] + 1 \in 1 .. Len(out) /\ out[at[i] + 1] = TurnAt(ms, i)
             /\ Asked(ms, i) # <<>> =>
                  at[i] + 2 \in 1 .. Len(out) /\ out[at[i] + 2] = AnswerAt(ms, i)
        /\ \A p \in 1 .. Len(out) :
             \E i \in 1 .. Len(ms) :
               \/ Asks(ms, i) /\ p = at[i] + 1
               \/ Asks(ms, i) /\ Asked(ms, i) # <<>> /\ p = at[i] + 2
               \/ /\ ~Asks(ms, i) /\ ms[i].content \in Seq(UserBlock)
                  /\ out[p] = User(Unasked(ms[i].content))
  BY PairedPlaces
<1>. HIDE DEF out
<1>3. \A i \in 1 .. Len(ms) : Asks(ms, i) =>
        /\ TurnAt(ms, i).role = "assistant" /\ AnswerAt(ms, i).role = "user"
        /\ TurnAt(ms, i).content \in Seq(AssistantBlock)
        /\ AnswerAt(ms, i).content \in Seq(UserBlock)
  BY AnswerAtIs, TurnAtIs
<1>4. ASSUME NEW p \in 1 .. Len(out), NEW k \in 1 .. Len(out[p].content), IsUse(out[p].content[k])
      PROVE  \E i \in 1 .. Len(ms) :
               /\ Asks(ms, i) /\ Asked(ms, i) # <<>> /\ p = at[i] + 1
               /\ out[p].content[k].id \in Ids /\ out[p].content[k].id \in ToSet(Asked(ms, i))
  <2>1. PICK i \in 1 .. Len(ms) :
          \/ Asks(ms, i) /\ p = at[i] + 1
          \/ Asks(ms, i) /\ Asked(ms, i) # <<>> /\ p = at[i] + 2
          \/ /\ ~Asks(ms, i) /\ ms[i].content \in Seq(UserBlock)
             /\ out[p] = User(Unasked(ms[i].content))
    BY <1>2
  <2>2. CASE Asks(ms, i) /\ p = at[i] + 1
    <3>1. out[p] = TurnAt(ms, i)
      BY <1>2, <2>2
    <3>2. out[p].content[k].id \in Ids /\ out[p].content[k].id \in ToSet(Asked(ms, i))
      BY <1>4, <2>2, <3>1, TurnAtIs
    <3>3. Asked(ms, i) # <<>>
      BY <3>2 DEF ToSet
    <3>. QED  BY <2>2, <3>2, <3>3
  <2>3. CASE Asks(ms, i) /\ Asked(ms, i) # <<>> /\ p = at[i] + 2
    <3>1. out[p].content \in Seq(UserBlock)
      BY <1>2, <1>3, <2>3
    <3>. QED  BY <1>4, <3>1, RolesApart
  <2>4. CASE /\ ~Asks(ms, i) /\ ms[i].content \in Seq(UserBlock)
             /\ out[p] = User(Unasked(ms[i].content))
    <3>1. Unasked(ms[i].content) \in Seq(UserBlock)
      BY <2>4, UnaskedIs
    <3>2. out[p].content \in Seq(UserBlock)
      BY <2>4, <3>1, TurnsAre
    <3>. QED  BY <1>4, <3>2, RolesApart
  <2>. QED  BY <2>1, <2>2, <2>3, <2>4
<1>5. ASSUME NEW p \in 1 .. Len(out), NEW k \in 1 .. Len(out[p].content), IsResult(out[p].content[k])
      PROVE  \E i \in 1 .. Len(ms) :
               /\ Asks(ms, i) /\ p = at[i] + 2 /\ out[p] = AnswerAt(ms, i)
               /\ p - 1 \in 1 .. Len(out) /\ p - 1 = at[i] + 1 /\ out[p - 1] = TurnAt(ms, i)
               /\ out[p].content[k].id \in ToSet(Asked(ms, i))
  <2>1. PICK i \in 1 .. Len(ms) :
          \/ Asks(ms, i) /\ p = at[i] + 1
          \/ Asks(ms, i) /\ Asked(ms, i) # <<>> /\ p = at[i] + 2
          \/ /\ ~Asks(ms, i) /\ ms[i].content \in Seq(UserBlock)
             /\ out[p] = User(Unasked(ms[i].content))
    BY <1>2
  <2>2. CASE Asks(ms, i) /\ p = at[i] + 1
    <3>1. out[p].content \in Seq(AssistantBlock)
      BY <1>2, <1>3, <2>2
    <3>. QED  BY <1>5, <3>1, RolesApart
  <2>3. CASE Asks(ms, i) /\ Asked(ms, i) # <<>> /\ p = at[i] + 2
    <3>1. out[p] = AnswerAt(ms, i)
      BY <1>2, <2>3
    <3>2. at[i] + 1 \in 1 .. Len(out) /\ out[at[i] + 1] = TurnAt(ms, i) /\ p - 1 = at[i] + 1
      <4>1. at[i] \in Nat /\ p = at[i] + 2
        BY <2>3
      <4>2. p - 1 = at[i] + 1
        BY <4>1
      <4>. QED  BY <1>2, <2>3, <4>2
    <3>3. out[p].content[k].id \in ToSet(Asked(ms, i))
      BY <1>5, <2>3, <3>1, AnswerAtIs
    <3>. QED  BY <2>3, <3>1, <3>2, <3>3
  <2>4. CASE /\ ~Asks(ms, i) /\ ms[i].content \in Seq(UserBlock)
             /\ out[p] = User(Unasked(ms[i].content))
    <3>1. /\ Unasked(ms[i].content) \in Seq(UserBlock)
          /\ \A l \in 1 .. Len(Unasked(ms[i].content)) : ~IsResult(Unasked(ms[i].content)[l])
      BY <2>4, UnaskedIs
    <3>2. out[p].content = Unasked(ms[i].content)
      BY <2>4, <3>1, TurnsAre
    <3>. QED  BY <1>5, <3>1, <3>2
  <2>. QED  BY <2>1, <2>2, <2>3, <2>4
<1>6. ASSUME NEW p \in 1 .. Len(out), NEW k \in 1 .. Len(out[p].content), IsUse(out[p].content[k])
      PROVE  /\ out[p].content[k].id \in Ids /\ out[p].role = "assistant"
             /\ p + 1 \in 1 .. Len(out) /\ out[p + 1].role = "user"
             /\ \E l \in 1 .. Len(out[p + 1].content) :
                  IsResult(out[p + 1].content[l]) /\ out[p + 1].content[l].id = out[p].content[k].id
  <2>1. PICK i \in 1 .. Len(ms) :
          /\ Asks(ms, i) /\ Asked(ms, i) # <<>> /\ p = at[i] + 1
          /\ out[p].content[k].id \in Ids /\ out[p].content[k].id \in ToSet(Asked(ms, i))
    BY <1>4, <1>6
  <2>2. /\ out[p] = TurnAt(ms, i)
        /\ p + 1 \in 1 .. Len(out) /\ out[p + 1] = AnswerAt(ms, i)
    <3>1. at[i] \in Nat /\ p = at[i] + 1
      BY <2>1
    <3>2. p + 1 = at[i] + 2
      BY <3>1
    <3>3. /\ at[i] + 2 \in 1 .. Len(out) /\ out[at[i] + 2] = AnswerAt(ms, i)
          /\ out[at[i] + 1] = TurnAt(ms, i)
      BY <1>2, <2>1
    <3>. QED  BY <3>1, <3>2, <3>3
  <2>3. \E l \in 1 .. Len(AnswerAt(ms, i).content) :
          IsResult(AnswerAt(ms, i).content[l])
            /\ AnswerAt(ms, i).content[l].id = out[p].content[k].id
    <3>. DEFINE id == out[p].content[k].id
    <3>1. id \in ToSet(Asked(ms, i))
      BY <2>1
    <3>. HIDE DEF id
    <3>2. \E l \in 1 .. Len(AnswerAt(ms, i).content) :
            IsResult(AnswerAt(ms, i).content[l]) /\ AnswerAt(ms, i).content[l].id = id
      BY <2>1, <3>1, AnswerAtIs
    <3>. QED  BY <3>2 DEF id
  <2>. QED  BY <1>3, <2>1, <2>2, <2>3
<1>7. ASSUME NEW p \in 1 .. Len(out), NEW k \in 1 .. Len(out[p].content), IsResult(out[p].content[k])
      PROVE  /\ out[p].content[k].id \in Ids /\ out[p].role = "user"
             /\ p - 1 \in 1 .. Len(out) /\ out[p - 1].role = "assistant"
             /\ \E l \in 1 .. Len(out[p - 1].content) :
                  IsUse(out[p - 1].content[l]) /\ out[p - 1].content[l].id = out[p].content[k].id
  <2>1. PICK i \in 1 .. Len(ms) :
          /\ Asks(ms, i) /\ p = at[i] + 2 /\ out[p] = AnswerAt(ms, i)
          /\ p - 1 \in 1 .. Len(out) /\ p - 1 = at[i] + 1 /\ out[p - 1] = TurnAt(ms, i)
          /\ out[p].content[k].id \in ToSet(Asked(ms, i))
    BY <1>5, <1>7
  <2>2. /\ out[p].content[k].id \in Ids
        /\ \E l \in 1 .. Len(TurnAt(ms, i).content) :
             IsUse(TurnAt(ms, i).content[l]) /\ TurnAt(ms, i).content[l].id = out[p].content[k].id
    <3>. DEFINE id == out[p].content[k].id
    <3>1. id \in ToSet(Asked(ms, i))
      BY <2>1
    <3>. HIDE DEF id
    <3>2. id \in Ids /\ \E l \in 1 .. Len(TurnAt(ms, i).content) :
            IsUse(TurnAt(ms, i).content[l]) /\ TurnAt(ms, i).content[l].id = id
      BY <2>1, <3>1, TurnAtIs
    <3>. QED  BY <3>2 DEF id
  <2>. QED  BY <1>3, <2>1, <2>2
<1>8. ASSUME NEW i \in 1 .. Len(ms), NEW j \in 1 .. Len(ms), NEW id,
             id \in ToSet(Asked(ms, i)), id \in ToSet(Asked(ms, j))
      PROVE  i = j
  <2>1. i \in Int /\ j \in Int
    OBVIOUS
  <2>2. \A g, h \in Int : g < h => ToSet(Asked(ms, g)) \cap ToSet(Asked(ms, h)) = {}
    BY AskedIs
  <2>3. ~(i < j) /\ ~(j < i)
    BY <1>8, <2>1, <2>2
  <2>. QED  BY <2>1, <2>3
<1>9. ASSUME NEW p \in 1 .. Len(out), NEW q \in 1 .. Len(out),
             NEW k \in 1 .. Len(out[p].content), NEW l \in 1 .. Len(out[q].content),
             out[p].content[k].id = out[q].content[l].id,
             \/ IsUse(out[p].content[k]) /\ IsUse(out[q].content[l])
             \/ IsResult(out[p].content[k]) /\ IsResult(out[q].content[l])
      PROVE  p = q /\ k = l
  <2>1. CASE IsUse(out[p].content[k]) /\ IsUse(out[q].content[l])
    <3>1. PICK i \in 1 .. Len(ms) :
             Asks(ms, i) /\ p = at[i] + 1 /\ out[p].content[k].id \in ToSet(Asked(ms, i))
      BY <1>4, <2>1
    <3>2. PICK j \in 1 .. Len(ms) :
             Asks(ms, j) /\ q = at[j] + 1 /\ out[q].content[l].id \in ToSet(Asked(ms, j))
      BY <1>4, <2>1
    <3>3. i = j
      BY <1>8, <1>9, <3>1, <3>2
    <3>4. p = q /\ out[p] = TurnAt(ms, i)
      BY <1>2, <3>1, <3>2, <3>3
    <3>5. k = l
      <4>. DEFINE t == TurnAt(ms, i).content
      <4>1. \A g, h \in 1 .. Len(t) : IsUse(t[g]) /\ IsUse(t[h]) /\ t[g].id = t[h].id => g = h
        BY <3>1, TurnAtIs
      <4>2. out[p].content = t /\ out[q].content = t
        BY <3>4
      <4>. HIDE DEF t
      <4>. QED  BY <1>9, <2>1, <4>1, <4>2
    <3>. QED  BY <3>4, <3>5
  <2>2. CASE IsResult(out[p].content[k]) /\ IsResult(out[q].content[l])
    <3>1. PICK i \in 1 .. Len(ms) :
             /\ Asks(ms, i) /\ p = at[i] + 2 /\ out[p] = AnswerAt(ms, i)
             /\ out[p].content[k].id \in ToSet(Asked(ms, i))
      BY <1>5, <2>2
    <3>2. PICK j \in 1 .. Len(ms) :
             Asks(ms, j) /\ q = at[j] + 2 /\ out[q].content[l].id \in ToSet(Asked(ms, j))
      BY <1>5, <2>2
    <3>3. i = j
      BY <1>8, <1>9, <3>1, <3>2
    <3>4. p = q
      BY <3>1, <3>2, <3>3
    <3>5. k = l
      <4>. DEFINE a == AnswerAt(ms, i).content
      <4>1. \A g, h \in 1 .. Len(a) : IsResult(a[g]) /\ IsResult(a[h]) /\ a[g].id = a[h].id => g = h
        BY <3>1, AnswerAtIs
      <4>2. out[p].content = a /\ out[q].content = a
        BY <3>1, <3>4
      <4>. HIDE DEF a
      <4>. QED  BY <1>9, <2>2, <4>1, <4>2
    <3>. QED  BY <3>4, <3>5
  <2>. QED  BY <1>9, <2>1, <2>2
<1>10. Matched(out)
  <2>1. \A p \in 1 .. Len(out) : \A k \in 1 .. Len(out[p].content) :
          IsUse(out[p].content[k]) =>
            /\ out[p].content[k].id \in Ids /\ out[p].role = "assistant"
            /\ p + 1 \in 1 .. Len(out) /\ out[p + 1].role = "user"
            /\ \E l \in 1 .. Len(out[p + 1].content) :
                 /\ IsResult(out[p + 1].content[l])
                 /\ out[p + 1].content[l].id = out[p].content[k].id
    BY <1>6, Zenon
  <2>2. \A p \in 1 .. Len(out) : \A k \in 1 .. Len(out[p].content) :
          IsResult(out[p].content[k]) =>
            /\ out[p].content[k].id \in Ids /\ out[p].role = "user"
            /\ p - 1 \in 1 .. Len(out) /\ out[p - 1].role = "assistant"
            /\ \E l \in 1 .. Len(out[p - 1].content) :
                 IsUse(out[p - 1].content[l]) /\ out[p - 1].content[l].id = out[p].content[k].id
    BY <1>7, Zenon
  <2>3. \A p, q \in 1 .. Len(out) :
          \A k \in 1 .. Len(out[p].content), l \in 1 .. Len(out[q].content) :
            /\ out[p].content[k].id = out[q].content[l].id
            /\ \/ IsUse(out[p].content[k]) /\ IsUse(out[q].content[l])
               \/ IsResult(out[p].content[k]) /\ IsResult(out[q].content[l])
            => p = q /\ k = l
    <3>. TAKE p \in 1 .. Len(out), q \in 1 .. Len(out)
    <3>. TAKE k \in 1 .. Len(out[p].content), l \in 1 .. Len(out[q].content)
    <3>. QED  BY <1>9, Zenon
  <2>. QED  BY <2>1, <2>2, <2>3, Zenon DEF Matched
<1>11. ASSUME NEW p \in 1 .. Len(out), NEW k \in 1 .. Len(out[p].content)
       PROVE  \/ out[p].content[k] \in UserBlock
              \/ \E i \in 1 .. Len(ms) : \E j \in 1 .. Len(ms[i].content) :
                   out[p].content[k] = ms[i].content[j]
              \/ out[p].content[k] = Placeholder
  <2>1. out[p] \in Turn
    BY <1>1
  <2>2. CASE out[p].role = "user"
    <3>1. out[p].content \in Seq(UserBlock)
      BY <2>1, <2>2, TurnIs
    <3>. QED  BY <3>1
  <2>3. CASE out[p].role # "user"
    <3>1. PICK i \in 1 .. Len(ms) :
            \/ Asks(ms, i) /\ p = at[i] + 1
            \/ Asks(ms, i) /\ Asked(ms, i) # <<>> /\ p = at[i] + 2
            \/ /\ ~Asks(ms, i) /\ ms[i].content \in Seq(UserBlock)
               /\ out[p] = User(Unasked(ms[i].content))
      BY <1>2
    <3>2. User(Unasked(ms[i].content)).role = "user"
      BY DEF User
    <3>3. Asks(ms, i) /\ out[p] = TurnAt(ms, i)
      BY <1>2, <1>3, <2>3, <3>1, <3>2
    <3>4. \/ out[p].content[k] = Placeholder
          \/ \E j \in 1 .. Len(ms[i].content) : out[p].content[k] = ms[i].content[j]
      <4>1. \A l \in 1 .. Len(TurnAt(ms, i).content) :
              \/ TurnAt(ms, i).content[l] = Placeholder
              \/ \E j \in 1 .. Len(ms[i].content) : TurnAt(ms, i).content[l] = ms[i].content[j]
        BY <3>3, TurnAtIs
      <4>. QED  BY <3>3, <4>1
    <3>. QED  BY <3>4
  <2>. QED  BY <2>2, <2>3
<1>. QED  BY <1>5, <1>10, <1>11 DEF out

-----------------------------------------------------------------------------
(* The client's transcript *)

\* A message opened has no blocks yet; one written to has one more.
LEMMA WrittenIs ==
  ASSUME NEW ms \in Seq(Turn)
  PROVE  /\ BlocksOf(ms) \in Seq(Block)
         /\ \A role \in {"user", "assistant"} :
              LET opened == Append(ms, [role |-> role, content |-> <<>>])
              IN  opened \in Seq(Turn) /\ BlocksOf(opened) = BlocksOf(ms)
         /\ ms # <<>> =>
              \A o \in Offered(Last(ms).role), n \in Nat :
                LET b       == [type |-> o.type, id |-> o.id, from |-> n]
                    written == [ms EXCEPT ![Len(ms)].content = Append(@, b)]
                IN  written \in Seq(Turn) /\ BlocksOf(written) = Append(BlocksOf(ms), b)
<1>. DEFINE f == [m \in Turn |-> m.content]
<1>1. f \in Spreads(Turn, Block) /\ \A m \in Turn : f[m] = m.content
  BY TurnIs DEF Spreads
<1>. HIDE DEF f
<1>2. ASSUME NEW s \in Seq(Turn) PROVE BlocksOf(s) = Spread(f, s)
  <2>1. DOMAIN s = 1 .. Len(s) /\ \A k \in 1 .. Len(s) : s[k] \in Turn
    OBVIOUS
  <2>2. [i \in DOMAIN s |-> s[i].content] = [k \in 1 .. Len(s) |-> f[s[k]]]
    BY <1>1, <2>1
  <2>. QED  BY <2>2 DEF BlocksOf, Spread
<1>3. BlocksOf(ms) \in Seq(Block)
  BY <1>1, <1>2, SpreadTyped
<1>4. ASSUME NEW s \in Seq(Turn), NEW m \in Turn
      PROVE  /\ Append(s, m) \in Seq(Turn)
             /\ BlocksOf(Append(s, m)) = BlocksOf(s) \o m.content
  <2>1. Append(s, m) \in Seq(Turn)
    OBVIOUS
  <2>2. Spread(f, Append(s, m)) = Spread(f, s) \o f[m]
    BY <1>1, SpreadAppend
  <2>. QED  BY <1>1, <1>2, <2>1, <2>2
<1>5. ASSUME NEW role \in {"user", "assistant"}
      PROVE  LET opened == Append(ms, [role |-> role, content |-> <<>>])
             IN  opened \in Seq(Turn) /\ BlocksOf(opened) = BlocksOf(ms)
  <2>. DEFINE m == [role |-> role, content |-> <<>>]
  <2>1. m \in Turn /\ m.content = <<>>
    BY DEF Turn
  <2>. HIDE DEF m
  <2>2. Append(ms, m) \in Seq(Turn) /\ BlocksOf(Append(ms, m)) = BlocksOf(ms) \o <<>>
    BY <1>4, <2>1
  <2>3. BlocksOf(Append(ms, m)) = BlocksOf(ms)
    BY <1>3, <2>2
  <2>. QED  BY <2>2, <2>3 DEF m
<1>6. ASSUME ms # <<>>, NEW o \in Offered(Last(ms).role), NEW n \in Nat
      PROVE  LET b       == [type |-> o.type, id |-> o.id, from |-> n]
                 written == [ms EXCEPT ![Len(ms)].content = Append(@, b)]
             IN  written \in Seq(Turn) /\ BlocksOf(written) = Append(BlocksOf(ms), b)
  <2>. DEFINE b == [type |-> o.type, id |-> o.id, from |-> n]
              written == [ms EXCEPT ![Len(ms)].content = Append(@, b)]
              last == ms[Len(ms)]
              init == SubSeq(ms, 1, Len(ms) - 1)
              m == [role |-> last.role, content |-> Append(last.content, b)]
  <2>1. Len(ms) \in 1 .. Len(ms) /\ last \in Turn /\ last = Last(ms) /\ Len(ms) - 1 \in Nat
    BY <1>6 DEF Last
  <2>2. m \in Turn /\ m.content = Append(last.content, b)
    <3>1. CASE last.role = "user"
      <4>1. last.content \in Seq(UserBlock)
        BY <2>1, <3>1, TurnIs
      <4>2. b \in UserBlock
        BY <2>1, <3>1 DEF Offered, UserBlock
      <4>. HIDE DEF b, last
      <4>. QED  BY <3>1, <4>1, <4>2 DEF Turn
    <3>2. CASE last.role = "assistant"
      <4>1. last.content \in Seq(AssistantBlock)
        BY <2>1, <3>2, TurnIs
      <4>2. b \in AssistantBlock
        BY <2>1, <3>2 DEF Offered, AssistantBlock, ServerTypes
      <4>. HIDE DEF b, last
      <4>. QED  BY <3>2, <4>1, <4>2 DEF Turn
    <3>. QED  BY <2>1, <3>1, <3>2, TurnIs
  <2>3. last.content \in Seq(Block) /\ b \in Block
    <3>1. last.content \in Seq(Block) /\ Append(last.content, b) \in Seq(Block)
      BY <2>1, <2>2, TurnIs
    <3>2. Append(last.content, b)[Len(last.content) + 1] = b
          /\ Len(last.content) + 1 \in 1 .. Len(Append(last.content, b))
      BY <3>1
    <3>. QED  BY <3>1, <3>2
  <2>4. written = Append(init, m)
    <3>1. last = [role |-> last.role, content |-> last.content]
      BY <2>1 DEF Turn
    <3>2. [last EXCEPT !.content = Append(last.content, b)] = m
      <4>1. ASSUME NEW r, NEW c, NEW d
            PROVE  [[role |-> r, content |-> c] EXCEPT !.content = d] = [role |-> r, content |-> d]
        OBVIOUS
      <4>2. ASSUME NEW x, x = [role |-> x.role, content |-> x.content], NEW d
            PROVE  [x EXCEPT !.content = d] = [role |-> x.role, content |-> d]
        <5>1. PICK r, c : x = [role |-> r, content |-> c]
          BY <4>2
        <5>2. x.role = r /\ [x EXCEPT !.content = d] = [role |-> r, content |-> d]
          BY <4>1, <5>1
        <5>. QED  BY <5>2
      <4>. DEFINE d == Append(last.content, b)
      <4>. HIDE DEF last, d
      <4>3. [last EXCEPT !.content = d] = [role |-> last.role, content |-> d]
        BY <3>1, <4>2
      <4>. QED  BY <4>3 DEF d
    <3>3. written = [ms EXCEPT ![Len(ms)] = m]
      BY <3>2
    <3>. HIDE DEF m, written
    <3>4. /\ written \in Seq(Turn) /\ Len(written) = Len(ms)
          /\ \A k \in 1 .. Len(ms) : written[k] = IF k = Len(ms) THEN m ELSE ms[k]
      BY <2>1, <2>2, <3>3, ExceptSeq
    <3>5. /\ init \in Seq(Turn) /\ Len(init) = Len(ms) - 1
          /\ \A k \in 1 .. Len(ms) - 1 : init[k] = ms[k]
      <4>. DEFINE len == Len(ms)
      <4>1. len \in Nat \ {0} /\ len = Len(ms) /\ init = SubSeq(ms, 1, len - 1)
        BY <2>1
      <4>. HIDE DEF len, init
      <4>2. SubSeq(ms, 1, len - 1) \in Seq(Turn)
        BY <4>1
      <4>3. Len(SubSeq(ms, 1, len - 1)) = len - 1
        BY <4>1
      <4>4. \A k \in 1 .. len - 1 : SubSeq(ms, 1, len - 1)[k] = ms[k]
        BY <4>1
      <4>. QED  BY <4>1, <4>2, <4>3, <4>4
    <3>. HIDE DEF init, last
    <3>6. /\ Append(init, m) \in Seq(Turn) /\ Len(Append(init, m)) = Len(ms)
          /\ \A k \in 1 .. Len(ms) : Append(init, m)[k] = IF k = Len(ms) THEN m ELSE ms[k]
      BY <2>1, <2>2, <3>5
    <3>7. \A k \in 1 .. Len(ms) : written[k] = Append(init, m)[k]
      BY <3>4, <3>6
    <3>. QED  BY <3>4, <3>6, <3>7, SeqEqual
  <2>5. ms = Append(init, last) /\ init \in Seq(Turn)
    BY <2>1
  <2>. HIDE DEF m, written, init, last, b
  <2>6. /\ written \in Seq(Turn)
        /\ BlocksOf(written) = BlocksOf(init) \o Append(last.content, b)
    BY <1>4, <2>2, <2>4, <2>5
  <2>7. BlocksOf(ms) = BlocksOf(init) \o last.content
    BY <1>4, <2>1, <2>5
  <2>8. BlocksOf(init) \in Seq(Block)
    BY <1>1, <1>2, <2>5, SpreadTyped
  <2>9. BlocksOf(init) \o Append(last.content, b) = Append(BlocksOf(init) \o last.content, b)
    BY <2>3, <2>8
  <2>10. written \in Seq(Turn) /\ BlocksOf(written) = Append(BlocksOf(ms), b)
    BY <2>6, <2>7, <2>9
  <2>. QED  BY <2>10 DEF written, b
<1>. QED  BY <1>3, <1>5, <1>6

-----------------------------------------------------------------------------
(* The inductive invariant: how what is sent was made of the transcript *)

Typed ==
  /\ messages \in Seq(Turn) /\ passthrough \in BOOLEAN
  /\ api \in {"none", "chat", "responses", "tail", "appended"}

\* from numbers the client's blocks in their order.
Numbered ==
  \A n \in 1 .. Len(BlocksOf(messages)) : BlocksOf(messages)[n].from = n

\* A full request is the translation of the repaired transcript, one that continues
\* that of what the client added to it.
Made ==
  /\ api = "none" => tail = <<>> /\ upstream = <<>> /\ request = <<>>
  /\ api \in {"chat", "responses"} =>
       upstream = NormalizeMessagesForUpstream(messages, passthrough)
  /\ api = "chat" => request = ConvertMessages(upstream)
  /\ api = "responses" => request = Items(upstream, <<>>)
  /\ api \in {"tail", "appended"} =>
       upstream = NormalizePreviousResponseTail(tail, passthrough)
  /\ api = "tail" =>
       \E j \in 2 .. Len(messages) :
         /\ messages[j - 1].role = "assistant"
         /\ \A i \in j .. Len(messages) : messages[i].role = "user"
         /\ tail = SubSeq(messages, j, Len(messages))
         /\ request = Items(upstream, PriorCallKinds(j))
  /\ api = "appended" =>
       /\ messages # <<>> /\ Last(messages).role = "user"
       /\ \E p \in 1 .. Len(Last(messages).content) - 1 :
            tail = <<User(SubSeq(Last(messages).content, p + 1, Len(Last(messages).content)))>>
       /\ request = Items(upstream, <<>>)

IInv == Typed /\ Numbered /\ Made

LEMMA InitInv == Init => IInv
<1>. SUFFICES ASSUME Init PROVE IInv
  OBVIOUS
<1>1. Typed
  BY DEF Init, Typed
<1>2. BlocksOf(messages) = <<>>
  <2>1. [i \in DOMAIN <<>> |-> <<>>[i].content] = <<>>
    OBVIOUS
  <2>. QED  BY <2>1, FlattenNone DEF Init, BlocksOf
<1>3. Numbered
  BY <1>2 DEF Numbered
<1>4. Made
  BY DEF Init, Made
<1>. QED  BY <1>1, <1>3, <1>4 DEF IInv

LEMMA StepInv == IInv /\ [Next]_vars => IInv'
<1>. SUFFICES ASSUME IInv, [Next]_vars PROVE IInv'
  OBVIOUS
<1>. USE DEF IInv
<1>1. CASE Open
  <2>. PICK role \in {"user", "assistant"} :
         messages' = Append(messages, [role |-> role, content |-> <<>>])
    BY <1>1 DEF Open
  <2>1. messages' \in Seq(Turn) /\ BlocksOf(messages') = BlocksOf(messages)
    BY WrittenIs DEF Typed
  <2>2. api = "none" /\ UNCHANGED <<passthrough, api, tail, upstream, request>>
    BY <1>1 DEF Open
  <2>3. Typed'
    BY <2>1, <2>2 DEF Typed
  <2>4. Numbered'
    BY <2>1 DEF Numbered
  <2>5. Made'
    BY <2>2 DEF Made
  <2>. QED  BY <2>3, <2>4, <2>5
<1>2. CASE Write
  <2>1. PICK o \in Offered(Last(messages).role) :
          messages' = [messages EXCEPT ![Len(messages)].content =
            Append(@, [type |-> o.type, id |-> o.id, from |-> Wrote + 1])]
    BY <1>2 DEF Write
  <2>. DEFINE b == [type |-> o.type, id |-> o.id, from |-> Wrote + 1]
              bs == BlocksOf(messages)
  <2>2. messages # <<>> /\ api = "none" /\ UNCHANGED <<passthrough, api, tail, upstream, request>>
    BY <1>2 DEF Write
  <2>3. bs \in Seq(Block) /\ Wrote = Len(bs)
    BY WrittenIs DEF Typed, Wrote
  <2>4. messages' \in Seq(Turn) /\ BlocksOf(messages') = Append(bs, b)
    <3>. DEFINE n == Wrote + 1
    <3>1. n \in Nat
      BY <2>3
    <3>. HIDE DEF n
    <3>2. LET w == [messages EXCEPT ![Len(messages)].content =
                      Append(@, [type |-> o.type, id |-> o.id, from |-> n])]
          IN  /\ w \in Seq(Turn)
              /\ BlocksOf(w) = Append(BlocksOf(messages), [type |-> o.type, id |-> o.id, from |-> n])
      BY <2>2, <3>1, WrittenIs DEF Typed
    <3>. QED  BY <2>1, <3>2 DEF n
  <2>5. Typed'
    BY <2>2, <2>4 DEF Typed
  <2>6. Numbered'
    <3>1. b.from = Len(bs) + 1
      BY <2>3
    <3>2. \A n \in 1 .. Len(bs) : bs[n].from = n
      BY DEF Numbered
    <3>. HIDE DEF b, bs
    <3>3. \A n \in 1 .. Len(Append(bs, b)) : Append(bs, b)[n].from = n
      BY <2>3, <3>1, <3>2
    <3>. QED  BY <2>4, <3>3 DEF Numbered
  <2>7. Made'
    BY <2>2 DEF Made
  <2>. QED  BY <2>5, <2>6, <2>7
<1>3. ASSUME UNCHANGED messages PROVE Numbered'
  BY <1>3 DEF Numbered
<1>4. CASE SendChat
  <2>1. Typed' /\ UNCHANGED messages
    BY <1>4 DEF SendChat, Typed
  <2>2. Made'
    BY <1>4 DEF SendChat, Made
  <2>. QED  BY <1>3, <2>1, <2>2
<1>5. CASE SendResponses
  <2>1. Typed' /\ UNCHANGED messages
    BY <1>5 DEF SendResponses, Typed
  <2>2. Made'
    BY <1>5 DEF SendResponses, Made
  <2>. QED  BY <1>3, <2>1, <2>2
<1>6. CASE SendTail
  <2>1. Typed' /\ UNCHANGED messages
    BY <1>6 DEF SendTail, SendBeside, Typed
  <2>2. Made'
    <3>1. PICK j \in 2 .. Len(messages) :
            /\ messages[j - 1].role = "assistant"
            /\ \A i \in j .. Len(messages) : messages[i].role = "user"
            /\ SendBeside(SubSeq(messages, j, Len(messages)), PriorCallKinds(j))
      BY <1>6 DEF SendTail
    <3>2. /\ tail' = SubSeq(messages, j, Len(messages))
          /\ upstream' = NormalizePreviousResponseTail(tail', passthrough')
          /\ request' = Items(upstream', PriorCallKinds(j))
          /\ messages' = messages /\ api' = "tail"
      BY <1>6, <3>1 DEF SendTail, SendBeside
    <3>3. PriorCallKinds(j)' = PriorCallKinds(j)
      BY <3>2 DEF PriorCallKinds
    <3>. QED  BY <3>1, <3>2, <3>3 DEF Made
  <2>. QED  BY <1>3, <2>1, <2>2
<1>7. CASE SendAppended
  <2>1. Typed' /\ UNCHANGED messages
    BY <1>7 DEF SendAppended, SendBeside, Typed
  <2>2. Made'
    BY <1>7 DEF SendAppended, SendBeside, Made
  <2>. QED  BY <1>3, <2>1, <2>2
<1>8. CASE UNCHANGED vars
  <2>1. Typed' /\ UNCHANGED messages
    BY <1>8 DEF vars, Typed
  <2>2. Made'
    <3>1. ASSUME NEW j \in Int PROVE PriorCallKinds(j)' = PriorCallKinds(j)
      BY <1>8 DEF vars, PriorCallKinds
    <3>2. api = "tail" =>
            \E j \in 2 .. Len(messages) :
              /\ messages[j - 1].role = "assistant"
              /\ \A i \in j .. Len(messages) : messages[i].role = "user"
              /\ tail = SubSeq(messages, j, Len(messages))
              /\ request = Items(upstream, PriorCallKinds(j)')
      BY <3>1 DEF Made
    <3>. QED  BY <1>8, <3>2 DEF vars, Made
  <2>. QED  BY <1>3, <2>1, <2>2
<1>. QED  BY <1>1, <1>2, <1>4, <1>5, <1>6, <1>7, <1>8 DEF Next

\* The transcript is the client's, its blocks numbered as they were written, and what
\* is sent was made of it as the repairs and translations do.
LEMMA Invariant == Spec => []IInv
<1>1. IInv /\ [Next]_vars => IInv'
  BY StepInv
<1>. QED  BY InitInv, <1>1, PTL DEF Spec

-----------------------------------------------------------------------------
(* Each call is answered *)

LEMMA AtMostOne ==
  ASSUME NEW S, \A x, y \in S : x = y
  PROVE  /\ Cardinality(S) \in 0 .. 1
         /\ Cardinality(S) = 0 <=> S = {}
<1>1. CASE S = {}
  BY <1>1, FS_EmptySet
<1>2. CASE S # {}
  <2>1. PICK x \in S : S = {x}
    BY <1>2
  <2>2. Cardinality({x}) = 1
    BY FS_Singleton
  <2>. QED  BY <1>2, <2>1, <2>2
<1>. QED  BY <1>1, <1>2

LEMMA PlacesIs ==
  ASSUME NEW ms \in Seq(Turn), NEW type, NEW id, NEW u
  PROVE  u \in Places(ms, type, id) <=>
           \E i \in 1 .. Len(ms) : \E k \in 1 .. Len(ms[i].content) :
             u = <<i, k>> /\ ms[i].content[k].type = type /\ ms[i].content[k].id = id
<1>1. DOMAIN ms = 1 .. Len(ms)
  OBVIOUS
<1>2. \A i \in 1 .. Len(ms) : DOMAIN ms[i].content = 1 .. Len(ms[i].content)
  <2>. TAKE i \in 1 .. Len(ms)
  <2>1. ms[i].content \in Seq(Block)
    BY TurnIs
  <2>. QED  BY <2>1
<1>. DEFINE In(i) == {<<i, k>> : k \in {k \in DOMAIN ms[i].content :
                        ms[i].content[k].type = type /\ ms[i].content[k].id = id}}
<1>3. Places(ms, type, id) = UNION {In(i) : i \in DOMAIN ms}
  BY DEF Places
<1>4. u \in Places(ms, type, id) <=> \E i \in DOMAIN ms : u \in In(i)
  <2>. HIDE DEF In
  <2>. QED  BY <1>3
<1>5. ASSUME NEW i \in 1 .. Len(ms)
      PROVE  u \in In(i) <=>
               \E k \in 1 .. Len(ms[i].content) :
                 u = <<i, k>> /\ ms[i].content[k].type = type /\ ms[i].content[k].id = id
  BY <1>2
<1>. HIDE DEF In
<1>. QED  BY <1>1, <1>4, <1>5

LEMMA MatchedPlaces ==
  ASSUME NEW out \in Seq(Turn), Matched(out), NEW id
  PROVE  LET uses    == Places(out, "tool_use", id)
             results == Places(out, "tool_result", id)
         IN  /\ \A u, v \in uses : u = v
             /\ \A r, s \in results : r = s
             /\ uses # {} => id \in Ids
             /\ results = {} <=> uses = {}
             /\ \A u \in uses, r \in results : r[1] = u[1] + 1 /\ out[r[1]].role = "user"
<1>. DEFINE uses == Places(out, "tool_use", id)
            results == Places(out, "tool_result", id)
<1>1. \A u : u \in uses <=>
        \E i \in 1 .. Len(out) : \E k \in 1 .. Len(out[i].content) :
          u = <<i, k>> /\ IsUse(out[i].content[k]) /\ out[i].content[k].id = id
  BY PlacesIs DEF IsUse
<1>2. \A u : u \in results <=>
        \E i \in 1 .. Len(out) : \E k \in 1 .. Len(out[i].content) :
          u = <<i, k>> /\ IsResult(out[i].content[k]) /\ out[i].content[k].id = id
  BY PlacesIs DEF IsResult
<1>. HIDE DEF uses, results
<1>3. ASSUME NEW u \in uses, NEW v \in uses PROVE u = v
  <2>1. PICK i \in 1 .. Len(out) : \E k \in 1 .. Len(out[i].content) :
          u = <<i, k>> /\ IsUse(out[i].content[k]) /\ out[i].content[k].id = id
    BY <1>1
  <2>2. PICK k \in 1 .. Len(out[i].content) :
          u = <<i, k>> /\ IsUse(out[i].content[k]) /\ out[i].content[k].id = id
    BY <2>1
  <2>3. PICK j \in 1 .. Len(out) : \E l \in 1 .. Len(out[j].content) :
          v = <<j, l>> /\ IsUse(out[j].content[l]) /\ out[j].content[l].id = id
    BY <1>1
  <2>4. PICK l \in 1 .. Len(out[j].content) :
          v = <<j, l>> /\ IsUse(out[j].content[l]) /\ out[j].content[l].id = id
    BY <2>3
  <2>5. i = j /\ k = l
    BY <2>2, <2>4 DEF Matched
  <2>. QED  BY <2>2, <2>4, <2>5
<1>4. ASSUME NEW u \in results, NEW v \in results PROVE u = v
  <2>1. PICK i \in 1 .. Len(out) : \E k \in 1 .. Len(out[i].content) :
          u = <<i, k>> /\ IsResult(out[i].content[k]) /\ out[i].content[k].id = id
    BY <1>2
  <2>2. PICK k \in 1 .. Len(out[i].content) :
          u = <<i, k>> /\ IsResult(out[i].content[k]) /\ out[i].content[k].id = id
    BY <2>1
  <2>3. PICK j \in 1 .. Len(out) : \E l \in 1 .. Len(out[j].content) :
          v = <<j, l>> /\ IsResult(out[j].content[l]) /\ out[j].content[l].id = id
    BY <1>2
  <2>4. PICK l \in 1 .. Len(out[j].content) :
          v = <<j, l>> /\ IsResult(out[j].content[l]) /\ out[j].content[l].id = id
    BY <2>3
  <2>5. i = j /\ k = l
    BY <2>2, <2>4 DEF Matched
  <2>. QED  BY <2>2, <2>4, <2>5
<1>5. ASSUME NEW u \in uses
      PROVE  /\ id \in Ids
             /\ \E r \in results : r[1] = u[1] + 1 /\ out[r[1]].role = "user"
  <2>1. PICK i \in 1 .. Len(out) : \E k \in 1 .. Len(out[i].content) :
          u = <<i, k>> /\ IsUse(out[i].content[k]) /\ out[i].content[k].id = id
    BY <1>1
  <2>2. PICK k \in 1 .. Len(out[i].content) :
          u = <<i, k>> /\ IsUse(out[i].content[k]) /\ out[i].content[k].id = id
    BY <2>1
  <2>3. /\ id \in Ids /\ i + 1 \in 1 .. Len(out) /\ out[i + 1].role = "user"
        /\ \E l \in 1 .. Len(out[i + 1].content) :
             IsResult(out[i + 1].content[l]) /\ out[i + 1].content[l].id = id
    <3>1. IsUse(out[i].content[k]) =>
            /\ out[i].content[k].id \in Ids /\ out[i].role = "assistant"
            /\ i + 1 \in 1 .. Len(out) /\ out[i + 1].role = "user"
            /\ \E l \in 1 .. Len(out[i + 1].content) :
                 /\ IsResult(out[i + 1].content[l])
                 /\ out[i + 1].content[l].id = out[i].content[k].id
      BY Zenon DEF Matched
    <3>. QED  BY <2>2, <3>1
  <2>4. PICK l \in 1 .. Len(out[i + 1].content) :
          IsResult(out[i + 1].content[l]) /\ out[i + 1].content[l].id = id
    BY <2>3
  <2>5. << i + 1, l >> \in results
    BY <1>2, <2>3, <2>4
  <2>. QED  BY <2>2, <2>3, <2>5
<1>6. ASSUME NEW r \in results PROVE uses # {}
  <2>1. PICK i \in 1 .. Len(out) : \E k \in 1 .. Len(out[i].content) :
          r = <<i, k>> /\ IsResult(out[i].content[k]) /\ out[i].content[k].id = id
    BY <1>2
  <2>2. PICK k \in 1 .. Len(out[i].content) :
          r = <<i, k>> /\ IsResult(out[i].content[k]) /\ out[i].content[k].id = id
    BY <2>1
  <2>3. /\ i - 1 \in 1 .. Len(out)
        /\ \E l \in 1 .. Len(out[i - 1].content) :
             IsUse(out[i - 1].content[l]) /\ out[i - 1].content[l].id = id
    <3>1. IsResult(out[i].content[k]) =>
            /\ out[i].content[k].id \in Ids /\ out[i].role = "user"
            /\ i - 1 \in 1 .. Len(out) /\ out[i - 1].role = "assistant"
            /\ \E l \in 1 .. Len(out[i - 1].content) :
                 IsUse(out[i - 1].content[l]) /\ out[i - 1].content[l].id = out[i].content[k].id
      BY Zenon DEF Matched
    <3>. QED  BY <2>2, <3>1
  <2>4. PICK l \in 1 .. Len(out[i - 1].content) :
          IsUse(out[i - 1].content[l]) /\ out[i - 1].content[l].id = id
    BY <2>3
  <2>5. << i - 1, l >> \in uses
    BY <1>1, <2>3, <2>4
  <2>. QED  BY <2>5
<1>7. \A u \in uses, r \in results : r[1] = u[1] + 1 /\ out[r[1]].role = "user"
  BY <1>4, <1>5
<1>. QED  BY <1>3, <1>4, <1>5, <1>6, <1>7 DEF uses, results

\* What a full transcript is repaired to.
LEMMA RepairedIs ==
  ASSUME IInv, Full
  PROVE  /\ Sent(messages, passthrough) \in Seq(Turn)
         /\ upstream = Paired(Sent(messages, passthrough))
         /\ upstream \in Seq(Turn) /\ Matched(upstream)
<1>1. Sent(messages, passthrough) \in Seq(Turn)
  BY SentIs DEF IInv, Typed
<1>2. upstream = Paired(Sent(messages, passthrough))
  BY DEF IInv, Made, Full, NormalizeMessagesForUpstream, Sent
<1>. QED  BY <1>1, <1>2, PairedPlaces, PairedMatched

\* In a repaired transcript each call is made once and the very next message is the
\* user's and answers it, once; no result stands anywhere else (types.go:473-484).
THEOREM Answered == Spec => []CallsAnswered
<1>1. IInv => CallsAnswered
  <2>. SUFFICES ASSUME IInv, Full, NEW id \in Ids \cup {NoId}
                PROVE  LET uses    == Places(upstream, "tool_use", id)
                           results == Places(upstream, "tool_result", id)
                       IN  /\ Cardinality(uses) <= 1 /\ (id = NoId => uses = {})
                           /\ Cardinality(results) = Cardinality(uses)
                           /\ \A u \in uses, r \in results :
                                r[1] = u[1] + 1 /\ upstream[r[1]].role = "user"
    BY DEF CallsAnswered
  <2>. DEFINE uses == Places(upstream, "tool_use", id)
              results == Places(upstream, "tool_result", id)
  <2>1. /\ \A u, v \in uses : u = v
        /\ \A r, s \in results : r = s
        /\ uses # {} => id \in Ids
        /\ results = {} <=> uses = {}
        /\ \A u \in uses, r \in results : r[1] = u[1] + 1 /\ upstream[r[1]].role = "user"
    BY RepairedIs, MatchedPlaces
  <2>. HIDE DEF uses, results
  <2>2. /\ Cardinality(uses) \in 0 .. 1 /\ (Cardinality(uses) = 0 <=> uses = {})
        /\ Cardinality(results) \in 0 .. 1 /\ (Cardinality(results) = 0 <=> results = {})
    BY <2>1, AtMostOne
  <2>3. Cardinality(uses) <= 1 /\ Cardinality(results) = Cardinality(uses)
    BY <2>1, <2>2
  <2>4. id = NoId => uses = {}
    BY <2>1, TranslationAssumption
  <2>. QED  BY <2>1, <2>3, <2>4 DEF uses, results
<1>. QED  BY <1>1, Invariant, PTL

-----------------------------------------------------------------------------
(* The parts a user message goes out in *)

LEMMA MaxIs ==
  ASSUME NEW n \in Nat, NEW S \in SUBSET (1 .. n), S # {}
  PROVE  Max(S) \in S /\ \A y \in S : y <= Max(S)
<1>. DEFINE T == {i \in 0 .. n : n - i \in S}
<1>1. PICK s \in S : TRUE
  OBVIOUS
<1>2. n - s \in T /\ T \in SUBSET Nat
  OBVIOUS
<1>3. PICK m \in T : \A k \in T : m <= k
  <2>. HIDE DEF T
  <2>. QED  BY <1>2, Least
<1>4. \A y \in S : n - y \in T
  OBVIOUS
<1>5. n - m \in S /\ \A y \in S : n - m >= y
  BY <1>3, <1>4
<1>6. \E x \in S : \A y \in S : x >= y
  BY <1>5
<1>7. Max(S) \in S /\ \A y \in S : Max(S) >= y
  BY <1>6 DEF Max
<1>. QED  BY <1>7

\* What is gathered has no results, starts empty and grows until one comes.
LEMMA GatheredIs ==
  ASSUME NEW blocks \in Seq(Block), NEW k \in 1 .. Len(blocks) + 1
  PROVE  /\ Gathered(blocks, k) \in Seq(Block)
         /\ \A j \in 1 .. Len(Gathered(blocks, k)) :
              /\ ~Answers(Gathered(blocks, k)[j])
              /\ \E l \in 1 .. Len(blocks) : Gathered(blocks, k)[j] = blocks[l]
         /\ k = 1 => Gathered(blocks, k) = <<>>
         /\ k <= Len(blocks) =>
              Gathered(blocks, k + 1) = IF Answers(blocks[k]) THEN <<>>
                                        ELSE Append(Gathered(blocks, k), blocks[k])
<1>. DEFINE R(i) == {j \in 1 .. i - 1 : Answers(blocks[j])}
            since(i) == IF R(i) = {} THEN 0 ELSE Max(R(i))
<1>1. \A i \in 1 .. Len(blocks) + 1 : Gathered(blocks, i) = SubSeq(blocks, since(i) + 1, i - 1)
  BY DEF Gathered
<1>2. ASSUME NEW i \in 1 .. Len(blocks) + 1
      PROVE  since(i) \in 0 .. i - 1 /\ \A j \in since(i) + 1 .. i - 1 : ~Answers(blocks[j])
  <2>1. CASE R(i) = {}
    BY <2>1
  <2>2. CASE R(i) # {}
    <3>. DEFINE S == R(i)
    <3>1. S \in SUBSET (1 .. i - 1) /\ i - 1 \in Nat /\ since(i) = Max(S)
      BY <2>2
    <3>2. Max(S) \in S /\ \A y \in S : y <= Max(S)
      <4>. HIDE DEF S
      <4>. QED  BY <2>2, <3>1, MaxIs DEF S
    <3>3. Max(S) \in 1 .. i - 1
      BY <3>1, <3>2
    <3>4. ASSUME NEW j \in Max(S) + 1 .. i - 1 PROVE ~Answers(blocks[j])
      <4>1. j \notin S /\ j \in 1 .. i - 1
        BY <3>2, <3>3, <3>4
      <4>. QED  BY <4>1
    <3>. QED  BY <3>1, <3>3, <3>4
  <2>. QED  BY <2>1, <2>2
<1>3. ASSUME k <= Len(blocks), Answers(blocks[k]) PROVE since(k + 1) = k
  <2>. DEFINE S == R(k + 1)
  <2>1. k \in S /\ S \in SUBSET (1 .. k)
    BY <1>3
  <2>2. Max(S) \in S /\ \A y \in S : y <= Max(S)
    <3>. HIDE DEF S
    <3>1. k \in Nat /\ S # {}
      BY <2>1
    <3>. QED  BY <2>1, <3>1, MaxIs
  <2>3. Max(S) = k
    <3>. HIDE DEF S
    <3>1. Max(S) \in 1 .. k /\ k <= Max(S)
      BY <2>1, <2>2
    <3>. QED  BY <3>1
  <2>. QED  BY <2>1, <2>3
<1>4. ASSUME k <= Len(blocks), ~Answers(blocks[k]) PROVE since(k + 1) = since(k)
  <2>1. R(k + 1) = R(k)
    BY <1>4
  <2>. QED  BY <2>1
<1>. HIDE DEF since
<1>5. /\ Gathered(blocks, k) \in Seq(Block) /\ Len(Gathered(blocks, k)) = k - 1 - since(k)
      /\ \A j \in 1 .. k - 1 - since(k) : Gathered(blocks, k)[j] = blocks[since(k) + j]
  <2>. DEFINE m == since(k)
  <2>1. m \in 0 .. k - 1
    BY <1>2
  <2>. HIDE DEF m
  <2>2. /\ SubSeq(blocks, m + 1, k - 1) \in Seq(Block)
        /\ Len(SubSeq(blocks, m + 1, k - 1)) = k - 1 - m
        /\ \A j \in 1 .. k - 1 - m : SubSeq(blocks, m + 1, k - 1)[j] = blocks[m + j]
    BY <2>1
  <2>. QED  BY <1>1, <2>2 DEF m
<1>6. \A j \in 1 .. Len(Gathered(blocks, k)) :
        /\ ~Answers(Gathered(blocks, k)[j])
        /\ \E l \in 1 .. Len(blocks) : Gathered(blocks, k)[j] = blocks[l]
  <2>. TAKE j \in 1 .. Len(Gathered(blocks, k))
  <2>1. since(k) \in 0 .. k - 1 /\ j \in 1 .. k - 1 - since(k)
    BY <1>2, <1>5
  <2>2. since(k) + j \in since(k) + 1 .. k - 1 /\ since(k) + j \in 1 .. Len(blocks)
    BY <2>1
  <2>3. Gathered(blocks, k)[j] = blocks[since(k) + j]
    BY <1>5, <2>1
  <2>. QED  BY <1>2, <2>2, <2>3
<1>7. k = 1 => Gathered(blocks, k) = <<>>
  BY <1>2, <1>5
<1>8. ASSUME k <= Len(blocks)
      PROVE  Gathered(blocks, k + 1) = IF Answers(blocks[k]) THEN <<>>
                                       ELSE Append(Gathered(blocks, k), blocks[k])
  <2>0. k + 1 \in 1 .. Len(blocks) + 1 /\ (k + 1) - 1 = k
    BY <1>8
  <2>1. CASE Answers(blocks[k])
    <3>1. Gathered(blocks, k + 1) = SubSeq(blocks, k + 1, k)
      BY <1>1, <1>3, <1>8, <2>0, <2>1
    <3>2. SubSeq(blocks, k + 1, k) = <<>>
      OBVIOUS
    <3>. QED  BY <2>1, <3>1, <3>2
  <2>2. CASE ~Answers(blocks[k])
    <3>. DEFINE m == since(k)
    <3>1. Gathered(blocks, k + 1) = SubSeq(blocks, m + 1, k)
      BY <1>1, <1>4, <1>8, <2>0, <2>2
    <3>2. Gathered(blocks, k) = SubSeq(blocks, m + 1, k - 1) /\ m \in 0 .. k - 1
      BY <1>1, <1>2
    <3>. HIDE DEF m
    <3>3. SubSeq(blocks, m + 1, k) = Append(SubSeq(blocks, m + 1, k - 1), blocks[k])
      BY <1>8, <3>2
    <3>. QED  BY <2>2, <3>1, <3>2, <3>3
  <2>. QED  BY <2>1, <2>2
<1>. QED  BY <1>5, <1>6, <1>7, <1>8

LEMMA SpreadNone ==
  ASSUME NEW S, NEW T, NEW f \in Spreads(T, S), NEW s \in Seq(T),
         \A k \in 1 .. Len(s) : f[s[k]] = <<>>
  PROVE  Spread(f, s) = <<>>
<1>. DEFINE ss == [k \in 1 .. Len(s) |-> f[s[k]]]
<1>1. ss \in Seq(Seq(S))
  BY SpreadTyped
<1>2. \A k \in 1 .. Len(ss) : ss[k] = <<>>
  OBVIOUS
<1>. HIDE DEF ss
<1>3. FlattenSeq(ss) = <<>>
  BY <1>1, <1>2, FlattenEmpties
<1>. QED  BY <1>3 DEF Spread, ss

\* What goes out when block k, or the end, is reached.
FlushedAt(blocks, k) ==
  IF HasText(Gathered(blocks, k)) THEN <<Gathered(blocks, k)>> ELSE <<>>

PartsAt(blocks, k) ==
  IF k > Len(blocks) THEN FlushedAt(blocks, k)
  ELSE IF Answers(blocks[k]) THEN Append(FlushedAt(blocks, k), <<blocks[k]>>)
  ELSE <<>>

\* A part is a result or a run of blocks with no result among them.
LEMMA PartsAre ==
  ASSUME NEW blocks \in Seq(Block)
  PROVE  LET parts == Parts(blocks)
         IN  /\ [k \in 1 .. Len(blocks) + 1 |-> PartsAt(blocks, k)] \in Seq(Seq(Seq(Block)))
             /\ parts = FlattenSeq([k \in 1 .. Len(blocks) + 1 |-> PartsAt(blocks, k)])
             /\ parts \in Seq(Seq(Block))
             /\ \A n \in 1 .. Len(parts) :
                  /\ parts[n] # <<>> /\ parts[n][1] \in Block
                  /\ \A j \in 1 .. Len(parts[n]) :
                       \E l \in 1 .. Len(blocks) : parts[n][j] = blocks[l]
                  /\ Answers(parts[n][1]) => parts[n] = <<parts[n][1]>>
                  /\ ~Answers(parts[n][1]) => \A j \in 1 .. Len(parts[n]) : ~Answers(parts[n][j])
<1>. DEFINE pp == [k \in 1 .. Len(blocks) + 1 |-> PartsAt(blocks, k)]
            parts == Parts(blocks)
            Fine(p) ==
              /\ p \in Seq(Block) /\ p # <<>> /\ p[1] \in Block
              /\ \A j \in 1 .. Len(p) : \E l \in 1 .. Len(blocks) : p[j] = blocks[l]
              /\ Answers(p[1]) => p = <<p[1]>>
              /\ ~Answers(p[1]) => \A j \in 1 .. Len(p) : ~Answers(p[j])
<1>1. parts = FlattenSeq(pp)
  BY DEF Parts, PartsAt, FlushedAt
<1>2. ASSUME NEW k \in 1 .. Len(blocks) + 1
      PROVE  /\ FlushedAt(blocks, k) \in Seq(Seq(Block))
             /\ \A n \in 1 .. Len(FlushedAt(blocks, k)) : Fine(FlushedAt(blocks, k)[n])
  <2>. DEFINE run == Gathered(blocks, k)
  <2>1. /\ run \in Seq(Block)
        /\ \A j \in 1 .. Len(run) :
             ~Answers(run[j]) /\ \E l \in 1 .. Len(blocks) : run[j] = blocks[l]
    BY GatheredIs
  <2>. HIDE DEF run
  <2>2. CASE HasText(run)
    <3>1. 1 \in 1 .. Len(run) /\ run # <<>>
      BY <2>1, <2>2 DEF HasText
    <3>2. Fine(run)
      BY <2>1, <3>1
    <3>3. FlushedAt(blocks, k) = <<run>>
      BY <2>2 DEF FlushedAt, run
    <3>. HIDE DEF Fine
    <3>. QED  BY <2>1, <3>2, <3>3
  <2>3. CASE ~HasText(run)
    <3>1. FlushedAt(blocks, k) = <<>>
      BY <2>3 DEF FlushedAt, run
    <3>. QED  BY <3>1
  <2>. QED  BY <2>2, <2>3
<1>3. ASSUME NEW k \in 1 .. Len(blocks) + 1
      PROVE  /\ PartsAt(blocks, k) \in Seq(Seq(Block))
             /\ \A n \in 1 .. Len(PartsAt(blocks, k)) : Fine(PartsAt(blocks, k)[n])
  <2>1. CASE k > Len(blocks)
    <3>1. PartsAt(blocks, k) = FlushedAt(blocks, k)
      BY <2>1 DEF PartsAt
    <3>. HIDE DEF Fine
    <3>. QED  BY <1>2, <3>1
  <2>2. CASE k <= Len(blocks) /\ Answers(blocks[k])
    <3>. DEFINE fl == FlushedAt(blocks, k)
                one == <<blocks[k]>>
    <3>1. PartsAt(blocks, k) = Append(fl, one)
      BY <2>2 DEF PartsAt
    <3>2. Fine(one) /\ one \in Seq(Block)
      BY <2>2
    <3>3. fl \in Seq(Seq(Block)) /\ \A n \in 1 .. Len(fl) : Fine(fl[n])
      BY <1>2
    <3>. HIDE DEF fl, one, Fine
    <3>4. /\ Append(fl, one) \in Seq(Seq(Block))
          /\ \A n \in 1 .. Len(Append(fl, one)) : Fine(Append(fl, one)[n])
      <4>1. Append(fl, one) \in Seq(Seq(Block)) /\ Len(Append(fl, one)) = Len(fl) + 1
        BY <3>2, <3>3
      <4>2. \A n \in 1 .. Len(fl) + 1 : Append(fl, one)[n] = IF n = Len(fl) + 1 THEN one ELSE fl[n]
        BY <3>2, <3>3
      <4>. QED  BY <3>2, <3>3, <4>1, <4>2
    <3>. QED  BY <3>1, <3>4
  <2>3. CASE k <= Len(blocks) /\ ~Answers(blocks[k])
    <3>1. PartsAt(blocks, k) = <<>>
      BY <2>3 DEF PartsAt
    <3>. QED  BY <3>1
  <2>. QED  BY <2>1, <2>2, <2>3
<1>4. pp \in Seq(Seq(Seq(Block))) /\ Len(pp) = Len(blocks) + 1
      /\ \A k \in 1 .. Len(pp) : pp[k] = PartsAt(blocks, k) /\ k \in 1 .. Len(blocks) + 1
  BY <1>3
<1>. HIDE DEF pp, parts
<1>5. ASSUME NEW n \in 1 .. Len(parts) PROVE Fine(parts[n])
  <2>1. /\ \A p \in 1 .. Len(FlattenSeq(pp)) :
             \E i \in 1 .. Len(pp) : \E k \in 1 .. Len(pp[i]) : p = Offset(pp, i) + k
        /\ \A i \in 1 .. Len(pp) : \A k \in 1 .. Len(pp[i]) :
             /\ Offset(pp, i) + k \in 1 .. Len(FlattenSeq(pp))
             /\ FlattenSeq(pp)[Offset(pp, i) + k] = pp[i][k]
    <3>. DEFINE B == Seq(Block)
    <3>1. pp \in Seq(Seq(B))
      BY <1>4
    <3>. HIDE DEF B
    <3>. QED  BY <3>1, FlattenPlaces
  <2>2. PICK i \in 1 .. Len(pp) : \E k \in 1 .. Len(pp[i]) : n = Offset(pp, i) + k
    BY <1>1, <2>1
  <2>3. PICK k \in 1 .. Len(pp[i]) : n = Offset(pp, i) + k
    BY <2>2
  <2>4. parts[n] = pp[i][k]
    BY <1>1, <2>1, <2>3
  <2>. HIDE DEF Fine
  <2>. QED  BY <1>3, <1>4, <2>4
<1>6. parts \in Seq(Seq(Block))
  BY <1>1, <1>4, FlattenPlaces
<1>. QED  BY <1>1, <1>4, <1>5, <1>6 DEF pp, parts

\* What a user message's texts and results turn into stays in its order when it goes
\* out in parts.
LEMMA PartsKeep ==
  ASSUME NEW blocks \in Seq(Block), NEW S, NEW f \in Spreads(Block, S),
         \A k \in 1 .. Len(blocks) :
           blocks[k].type # "text" /\ ~Answers(blocks[k]) => f[blocks[k]] = <<>>
  PROVE  /\ FlattenSeq([n \in 1 .. Len(Parts(blocks)) |-> Spread(f, Parts(blocks)[n])])
              = Spread(f, blocks)
         /\ [n \in 1 .. Len(Parts(blocks)) |-> Spread(f, Parts(blocks)[n])] \in Seq(Seq(S))
<1>. DEFINE N == Len(blocks)
            B == Seq(Block)
            pp == [k \in 1 .. N + 1 |-> PartsAt(blocks, k)]
            parts == Parts(blocks)
            g == [s \in B |-> Spread(f, s)]
            h == [k \in 1 .. N + 1 |-> Spread(g, pp[k])]
            G(k) == Spread(f, Gathered(blocks, k))
<1>1. pp \in Seq(Seq(B)) /\ parts = FlattenSeq(pp) /\ parts \in Seq(B)
  BY PartsAre
<1>2. g \in Spreads(B, S) /\ \A s \in B : g[s] = Spread(f, s) /\ Spread(f, s) \in Seq(S)
  <2>1. \A s \in B : Spread(f, s) \in Seq(S)
    BY SpreadTyped
  <2>. QED  BY <2>1 DEF Spreads
<1>3. N \in Nat /\ Len(pp) = N + 1 /\ \A k \in 1 .. N + 1 : pp[k] = PartsAt(blocks, k)
  OBVIOUS
<1>. HIDE DEF pp, parts, g, B
<1>4. /\ \A k \in 1 .. N + 1 : pp[k] \in Seq(B)
      /\ \A k \in 1 .. N + 1 : Spread(g, pp[k]) \in Seq(S)
  <2>1. \A k \in 1 .. N + 1 : pp[k] \in Seq(B)
    BY <1>1, <1>3
  <2>2. \A s \in Seq(B) : Spread(g, s) \in Seq(S)
    BY <1>2, SpreadTyped
  <2>. QED  BY <2>1, <2>2
<1>5. h \in Seq(Seq(S)) /\ Len(h) = N + 1 /\ \A k \in 1 .. N + 1 : h[k] = Spread(g, pp[k])
  BY <1>3, <1>4
<1>6. FlattenSeq([n \in 1 .. Len(parts) |-> Spread(f, parts[n])]) = FlattenSeq(h)
      /\ [n \in 1 .. Len(parts) |-> Spread(f, parts[n])] \in Seq(Seq(S))
  <2>1. \A n \in 1 .. Len(parts) : parts[n] \in B
    BY <1>1
  <2>2. [n \in 1 .. Len(parts) |-> Spread(f, parts[n])] = [n \in 1 .. Len(parts) |-> g[parts[n]]]
    BY <1>2, <2>1
  <2>3. Spread(g, parts) = FlattenSeq([k \in 1 .. Len(pp) |-> Spread(g, pp[k])])
    BY <1>1, <1>2, SpreadFlatten
  <2>4. [n \in 1 .. Len(parts) |-> g[parts[n]]] \in Seq(Seq(S))
    BY <1>1, <1>2, SpreadTyped
  <2>. QED  BY <1>3, <2>2, <2>3, <2>4 DEF Spread
<1>. HIDE DEF h
<1>7. ASSUME NEW k \in 1 .. N + 1
      PROVE  /\ FlushedAt(blocks, k) \in Seq(B) /\ Gathered(blocks, k) \in B
             /\ Spread(g, FlushedAt(blocks, k)) = G(k) /\ G(k) \in Seq(S)
  <2>. DEFINE run == Gathered(blocks, k)
  <2>1. /\ run \in Seq(Block)
        /\ \A j \in 1 .. Len(run) :
             ~Answers(run[j]) /\ \E l \in 1 .. Len(blocks) : run[j] = blocks[l]
    BY GatheredIs
  <2>. HIDE DEF run
  <2>2. run \in B
    BY <2>1 DEF B
  <2>3. CASE HasText(run)
    <3>1. FlushedAt(blocks, k) = <<run>>
      BY <2>3 DEF FlushedAt, run
    <3>2. Spread(g, <<run>>) = g[run]
      BY <1>2, <2>2, SpreadSingle
    <3>. QED  BY <1>2, <2>2, <3>1, <3>2 DEF run
  <2>4. CASE ~HasText(run)
    <3>1. FlushedAt(blocks, k) = <<>>
      BY <2>4 DEF FlushedAt, run
    <3>2. Spread(g, <<>>) = <<>>
      BY SpreadEmpty
    <3>3. \A j \in 1 .. Len(run) : f[run[j]] = <<>>
      <4>1. \A j \in 1 .. Len(run) : run[j].type # "text"
        BY <2>1, <2>4 DEF HasText
      <4>. QED  BY <2>1, <4>1
    <3>4. Spread(f, run) = <<>>
      BY <2>1, <3>3, SpreadNone
    <3>. QED  BY <2>2, <3>1, <3>2, <3>4 DEF run
  <2>. QED  BY <2>3, <2>4
<1>8. ASSUME NEW k \in 1 .. N
      PROVE  /\ f[blocks[k]] \in Seq(S)
             /\ h[k] = IF Answers(blocks[k]) THEN G(k) \o f[blocks[k]] ELSE <<>>
             /\ Answers(blocks[k]) => G(k + 1) = <<>>
             /\ ~Answers(blocks[k]) => G(k + 1) = G(k) \o f[blocks[k]]
  <2>0. blocks[k] \in Block /\ k \in 1 .. N + 1 /\ ~(k > N) /\ f[blocks[k]] \in Seq(S)
    BY DEF Spreads
  <2>1. /\ Gathered(blocks, k) \in Seq(Block)
        /\ Gathered(blocks, k + 1) = IF Answers(blocks[k]) THEN <<>>
                                     ELSE Append(Gathered(blocks, k), blocks[k])
    BY <2>0, GatheredIs
  <2>2. CASE Answers(blocks[k])
    <3>. DEFINE fl == FlushedAt(blocks, k)
                one == <<blocks[k]>>
    <3>1. pp[k] = Append(fl, one)
      BY <1>3, <2>0, <2>2 DEF PartsAt
    <3>2. fl \in Seq(B) /\ one \in B /\ Spread(g, fl) = G(k)
      BY <1>7, <2>0 DEF B
    <3>3. Spread(f, one) = f[blocks[k]]
      BY <2>0, SpreadSingle
    <3>. HIDE DEF fl, one
    <3>4. Spread(g, Append(fl, one)) = Spread(g, fl) \o g[one]
      BY <1>2, <3>2, SpreadAppend
    <3>5. g[one] = f[blocks[k]]
      BY <1>2, <3>2, <3>3
    <3>6. h[k] = G(k) \o f[blocks[k]]
      BY <1>5, <2>0, <3>1, <3>2, <3>4, <3>5
    <3>7. G(k + 1) = <<>>
      BY <2>1, <2>2, SpreadEmpty
    <3>. QED  BY <2>0, <2>2, <3>6, <3>7
  <2>3. CASE ~Answers(blocks[k])
    <3>1. pp[k] = <<>>
      BY <1>3, <2>0, <2>3 DEF PartsAt
    <3>2. h[k] = <<>>
      BY <1>5, <2>0, <3>1, SpreadEmpty
    <3>3. G(k + 1) = G(k) \o f[blocks[k]]
      <4>. DEFINE run == Gathered(blocks, k)
                  e == blocks[k]
      <4>1. Gathered(blocks, k + 1) = Append(run, e) /\ run \in Seq(Block) /\ e \in Block
        BY <2>0, <2>1, <2>3
      <4>. HIDE DEF run, e
      <4>2. Spread(f, Append(run, e)) = Spread(f, run) \o f[e]
        BY <4>1, SpreadAppend
      <4>. QED  BY <4>1, <4>2 DEF run, e
    <3>. QED  BY <2>0, <2>3, <3>2, <3>3
  <2>. QED  BY <2>2, <2>3
<1>9. h[N + 1] = G(N + 1)
  <2>1. N + 1 \in 1 .. N + 1 /\ N + 1 > N
    BY <1>3
  <2>2. pp[N + 1] = FlushedAt(blocks, N + 1)
    BY <1>3, <2>1 DEF PartsAt
  <2>. QED  BY <1>5, <1>7, <2>1, <2>2
<1>. DEFINE C == {k \in Nat : k <= N =>
                    FlattenSeq(SubSeq(h, 1, k)) \o G(k + 1) = Spread(f, SubSeq(blocks, 1, k))}
<1>10. 0 \in C
  <2>1. SubSeq(h, 1, 0) = <<>> /\ SubSeq(blocks, 1, 0) = <<>>
    BY <1>5
  <2>2. Gathered(blocks, 1) = <<>>
    BY <1>3, GatheredIs
  <2>3. G(0 + 1) = <<>> /\ Spread(f, <<>>) = <<>>
    BY <2>2, SpreadEmpty
  <2>4. FlattenSeq(SubSeq(h, 1, 0)) \o G(0 + 1) = Spread(f, SubSeq(blocks, 1, 0))
    <3>. HIDE DEF G
    <3>1. FlattenSeq(SubSeq(h, 1, 0)) = <<>>
      BY <2>1, FlattenNone
    <3>2. <<>> \o <<>> = <<>>
      OBVIOUS
    <3>. QED  BY <2>1, <2>3, <3>1, <3>2
  <2>. HIDE DEF G
  <2>. QED  BY <2>4
<1>11. ASSUME NEW k \in Nat, k \in C PROVE k + 1 \in C
  <2>. SUFFICES ASSUME k + 1 <= N
                PROVE  FlattenSeq(SubSeq(h, 1, k + 1)) \o G(k + 1 + 1)
                         = Spread(f, SubSeq(blocks, 1, k + 1))
    OBVIOUS
  <2>. DEFINE F == FlattenSeq(SubSeq(h, 1, k))
              x == Spread(f, SubSeq(blocks, 1, k))
              e == blocks[k + 1]
  <2>1. k + 1 \in 1 .. N /\ k + 1 \in 1 .. N + 1 /\ k <= N /\ e \in Block
    OBVIOUS
  <2>2. F \o G(k + 1) = x
    BY <1>11, <2>1
  <2>3. SubSeq(h, 1, k + 1) = Append(SubSeq(h, 1, k), h[k + 1]) /\ SubSeq(h, 1, k) \in Seq(Seq(S))
        /\ h[k + 1] \in Seq(S)
    BY <1>3, <1>5, <2>1
  <2>4. SubSeq(blocks, 1, k + 1) = Append(SubSeq(blocks, 1, k), e) /\ SubSeq(blocks, 1, k) \in Seq(Block)
    BY <1>3, <2>1
  <2>5. FlattenSeq(SubSeq(h, 1, k + 1)) = F \o h[k + 1] /\ F \in Seq(S)
    BY <2>3, FlattenAppend
  <2>6. Spread(f, SubSeq(blocks, 1, k + 1)) = x \o f[e]
    <3>. DEFINE x0 == SubSeq(blocks, 1, k)
    <3>0. x0 \in Seq(Block) /\ e \in Block
      BY <2>1, <2>4
    <3>. HIDE DEF x0, e
    <3>1. Spread(f, Append(x0, e)) = Spread(f, x0) \o f[e]
      BY <3>0, SpreadAppend
    <3>. QED  BY <2>4, <3>1 DEF x0
  <2>7. /\ f[e] \in Seq(S) /\ G(k + 1) \in Seq(S)
        /\ h[k + 1] = IF Answers(e) THEN G(k + 1) \o f[e] ELSE <<>>
        /\ Answers(e) => G(k + 1 + 1) = <<>>
        /\ ~Answers(e) => G(k + 1 + 1) = G(k + 1) \o f[e]
    BY <1>7, <1>8, <2>1
  <2>. HIDE DEF F, x, e, G
  <2>8. CASE Answers(e)
    <3>1. (F \o (G(k + 1) \o f[e])) \o <<>> = (F \o G(k + 1)) \o f[e]
      <4>1. \A u, v, w \in Seq(S) : (u \o (v \o w)) \o <<>> = (u \o v) \o w
        OBVIOUS
      <4>. QED  BY <2>5, <2>7, <4>1
    <3>. QED  BY <2>2, <2>5, <2>6, <2>7, <2>8, <3>1
  <2>9. CASE ~Answers(e)
    <3>1. (F \o <<>>) \o (G(k + 1) \o f[e]) = (F \o G(k + 1)) \o f[e]
      <4>1. \A u, v, w \in Seq(S) : (u \o <<>>) \o (v \o w) = (u \o v) \o w
        OBVIOUS
      <4>. QED  BY <2>5, <2>7, <4>1
    <3>. QED  BY <2>2, <2>5, <2>6, <2>7, <2>9, <3>1
  <2>. QED  BY <2>8, <2>9
<1>12. N \in C
  <2>. HIDE DEF C
  <2>. QED  BY <1>3, <1>10, <1>11, Closed
<1>13. FlattenSeq(h) = Spread(f, blocks)
  <2>1. h = Append(SubSeq(h, 1, N), h[N + 1]) /\ SubSeq(h, 1, N) \in Seq(Seq(S))
        /\ h[N + 1] \in Seq(S)
    BY <1>3, <1>5
  <2>2. FlattenSeq(h) = FlattenSeq(SubSeq(h, 1, N)) \o h[N + 1]
    BY <2>1, FlattenAppend
  <2>3. SubSeq(blocks, 1, N) = blocks
    OBVIOUS
  <2>4. FlattenSeq(SubSeq(h, 1, N)) \o G(N + 1) = Spread(f, SubSeq(blocks, 1, N))
    BY <1>12
  <2>. QED  BY <1>9, <2>2, <2>3, <2>4
<1>. QED  BY <1>6, <1>13 DEF parts

-----------------------------------------------------------------------------
(* Messages and items *)

AnyId == Ids \cup {NoId} \cup ServerTypes

ChatMessage ==
  [role : {"user", "assistant", "tool"}, calls : Seq(AnyId), texts : Seq(Nat)]

CallItems == {"function_call", "custom_tool_call"}

OutputItems == {"function_call_output", "custom_tool_call_output"}

Item == [type : {"message"} \cup CallItems \cup OutputItems, id : AnyId, texts : Seq(Nat)]

\* What is read of them, in their order.
ChatTexts == [m \in ChatMessage |-> m.texts]

ToolIds == [m \in ChatMessage |-> IF m.role = "tool" THEN m.calls ELSE <<>>]

ItemTexts == [m \in Item |-> m.texts]

CallIds == [m \in Item |-> IF m.type \in CallItems THEN <<m.id>> ELSE <<>>]

OutputIds == [m \in Item |-> IF m.type \in OutputItems THEN <<m.id>> ELSE <<>>]

LEMMA ReadTyped ==
  /\ ChatTexts \in Spreads(ChatMessage, Nat) /\ ToolIds \in Spreads(ChatMessage, AnyId)
  /\ ItemTexts \in Spreads(Item, Nat)
  /\ CallIds \in Spreads(Item, AnyId) /\ OutputIds \in Spreads(Item, AnyId)
<1>1. ChatTexts \in Spreads(ChatMessage, Nat) /\ ToolIds \in Spreads(ChatMessage, AnyId)
  BY DEF ChatTexts, ToolIds, Spreads, ChatMessage
<1>2. ItemTexts \in Spreads(Item, Nat)
  BY DEF ItemTexts, Spreads, Item
<1>3. \A m \in Item : m.id \in AnyId
  BY DEF Item
<1>4. CallIds \in Spreads(Item, AnyId) /\ OutputIds \in Spreads(Item, AnyId)
  BY <1>3 DEF CallIds, OutputIds, Spreads
<1>. QED  BY <1>1, <1>2, <1>4

\* Elements that turn into one each turn into a sequence of these.
Singly(f, s, v) == Len(v) = Len(s) /\ \A k \in 1 .. Len(s) : f[s[k]] = <<v[k]>>

LEMMA SpreadSingles ==
  ASSUME NEW S, NEW T, NEW f, NEW s \in Seq(T), NEW v \in Seq(S), Singly(f, s, v)
  PROVE  Spread(f, s) = v
<1>0. Len(v) = Len(s) /\ \A k \in 1 .. Len(s) : f[s[k]] = <<v[k]>>
  BY DEF Singly
<1>. DEFINE one == [e \in S |-> <<e>>]
<1>1. one \in Spreads(S, S) /\ \A e \in S : one[e] = <<e>>
  BY DEF Spreads
<1>. HIDE DEF one
<1>2. Spread(one, v) = v
  BY <1>1, SpreadSame
<1>3. ASSUME NEW k \in 1 .. Len(s) PROVE v[k] \in S /\ f[s[k]] = one[v[k]]
  <2>1. v[k] \in S /\ f[s[k]] = <<v[k]>>
    BY <1>0
  <2>. QED  BY <1>1, <2>1
<1>4. [k \in 1 .. Len(s) |-> f[s[k]]] = [k \in 1 .. Len(v) |-> one[v[k]]]
  BY <1>0, <1>3
<1>. QED  BY <1>2, <1>4 DEF Spread

\* The ids of blocks are what the blocks that have one turn into.
LEMMA IdsSpread ==
  ASSUME NEW s \in Seq(Block), NEW types, NEW S, NEW f \in Spreads(Block, S),
         \A k \in 1 .. Len(s) :
           f[s[k]] = IF k \in Named(s, types) THEN <<s[k].id>> ELSE <<>>
  PROVE  IdsOf(s, types) = Spread(f, s)
<1>. DEFINE K == Named(s, types)
            of == At(s, K)
            ids == IdsOf(s, types)
<1>1. DOMAIN s = 1 .. Len(s) /\ Len(s) \in Nat
  OBVIOUS
<1>2. ids = [n \in DOMAIN of |-> of[n].id]
  BY <1>1 DEF IdsOf, Named
<1>3. \A k \in 1 .. Len(s) : f[s[k]] = IF k \in K THEN <<s[k].id>> ELSE <<>>
  OBVIOUS
<1>. HIDE DEF K
<1>4. of \in Seq(Block)
  BY AtIs
<1>5. Spread(f, of) = Spread(f, s)
  <2>1. \A k \in 1 .. Len(s) : k \notin K => f[s[k]] = <<>>
    BY <1>3
  <2>. QED  BY <2>1, SpreadAt
<1>6. PICK pos \in [1 .. Len(of) -> 1 .. Len(s)] :
        \A n \in 1 .. Len(of) : pos[n] \in K /\ of[n] = s[pos[n]]
  BY AtPlaces
<1>. HIDE DEF of, ids
<1>7. /\ Len(of) \in Nat /\ DOMAIN of = 1 .. Len(of)
      /\ \A n \in 1 .. Len(of) : f[of[n]] = <<of[n].id>> /\ f[of[n]] \in Seq(S)
  <2>1. Len(of) \in Nat /\ DOMAIN of = 1 .. Len(of)
    BY <1>4
  <2>2. ASSUME NEW n \in 1 .. Len(of) PROVE f[of[n]] = <<of[n].id>> /\ f[of[n]] \in Seq(S)
    <3>1. pos[n] \in 1 .. Len(s) /\ pos[n] \in K /\ of[n] = s[pos[n]]
      BY <1>6
    <3>2. f[s[pos[n]]] = <<s[pos[n]].id>>
      BY <1>3, <3>1
    <3>3. of[n] \in Block
      BY <1>4
    <3>4. f[of[n]] \in Seq(S)
      BY <3>3 DEF Spreads
    <3>. QED  BY <3>1, <3>2, <3>4
  <2>. QED  BY <2>1, <2>2
<1>8. \A n \in 1 .. Len(of) : of[n].id \in S
  <2>. TAKE n \in 1 .. Len(of)
  <2>1. <<of[n].id>> \in Seq(S)
    BY <1>7
  <2>2. <<of[n].id>>[1] \in S
    BY <2>1
  <2>. QED  BY <2>2
<1>9. ids \in Seq(S) /\ Len(ids) = Len(of) /\ \A n \in 1 .. Len(of) : f[of[n]] = <<ids[n]>>
  BY <1>2, <1>7, <1>8
<1>10. Spread(f, of) = ids
  <2>1. Singly(f, of, ids)
    BY <1>9 DEF Singly
  <2>2. of \in Seq(Block) /\ ids \in Seq(S)
    BY <1>4, <1>9
  <2>. QED  BY <2>1, <2>2, SpreadSingles
<1>. QED  BY <1>5, <1>10 DEF ids

AnswerIds == [b \in Block |-> IF Answers(b) THEN <<b.id>> ELSE <<>>]

LEMMA AnswerIdsIs ==
  /\ AnswerIds \in Spreads(Block, AnyId)
  /\ \A s \in Seq(UserBlock) : Spread(AnswerIds, s) = IdsOf(s, {"tool_result"})
<1>1. AnswerIds \in Spreads(Block, AnyId)
  <2>1. \A b \in Block : b.id \in AnyId
    BY BlockIs DEF AnyId
  <2>. QED  BY <2>1 DEF AnswerIds, Spreads
<1>2. ASSUME NEW s \in Seq(UserBlock)
      PROVE  Spread(AnswerIds, s) = IdsOf(s, {"tool_result"})
  <2>1. s \in Seq(Block) /\ \A k \in 1 .. Len(s) : s[k] \in UserBlock /\ s[k] \in Block
    <3>1. s \in Seq(Block)
      BY BlocksAre
    <3>. QED  BY <3>1
  <2>2. \A k \in 1 .. Len(s) :
          AnswerIds[s[k]] = IF k \in Named(s, {"tool_result"}) THEN <<s[k].id>> ELSE <<>>
    <3>. TAKE k \in 1 .. Len(s)
    <3>1. AnswerIds[s[k]] = IF Answers(s[k]) THEN <<s[k].id>> ELSE <<>>
      BY <2>1 DEF AnswerIds
    <3>2. s[k].type \in {"text", "tool_result"}
      BY <2>1, UserBlockIs
    <3>3. Answers(s[k]) <=> k \in Named(s, {"tool_result"})
      BY <3>2 DEF Answers, ResultTypes, Named
    <3>. QED  BY <3>1, <3>3
  <2>. QED  BY <1>1, <2>1, <2>2, IdsSpread
<1>. QED  BY <1>1, <1>2

\* A part that is a result has its id and no text, another its texts and no id.
LEMMA PartIs ==
  ASSUME NEW blocks \in Seq(Block), NEW n \in 1 .. Len(Parts(blocks))
  PROVE  LET p == Parts(blocks)[n]
         IN  /\ p \in Seq(Block) /\ p[1] \in Block
             /\ Texts(p) = Spread(TextOf(TRUE), p) /\ Texts(p) \in Seq(Nat)
             /\ Answers(p[1]) => Texts(p) = <<>> /\ Spread(AnswerIds, p) = <<p[1].id>>
             /\ ~Answers(p[1]) => Spread(AnswerIds, p) = <<>>
<1>. DEFINE p == Parts(blocks)[n]
<1>1. /\ p \in Seq(Block) /\ p # <<>> /\ p[1] \in Block
      /\ Answers(p[1]) => p = <<p[1]>>
      /\ ~Answers(p[1]) => \A j \in 1 .. Len(p) : ~Answers(p[j])
  <2>. DEFINE parts == Parts(blocks)
  <2>1. /\ parts \in Seq(Seq(Block))
        /\ \A m \in 1 .. Len(parts) :
             /\ parts[m] # <<>> /\ parts[m][1] \in Block
             /\ Answers(parts[m][1]) => parts[m] = <<parts[m][1]>>
             /\ ~Answers(parts[m][1]) => \A j \in 1 .. Len(parts[m]) : ~Answers(parts[m][j])
    BY PartsAre
  <2>. HIDE DEF parts
  <2>2. n \in 1 .. Len(parts) /\ p = parts[n]
    BY DEF parts
  <2>3. parts[n] \in Seq(Block)
    BY <2>1, <2>2
  <2>. HIDE DEF p
  <2>. QED  BY <2>1, <2>2, <2>3, Zenon
<1>. HIDE DEF p
<1>2. Texts(p) = Spread(TextOf(TRUE), p) /\ Texts(p) \in Seq(Nat)
  BY <1>1, TextsAre
<1>3. ASSUME Answers(p[1]) PROVE Texts(p) = <<>> /\ Spread(AnswerIds, p) = <<p[1].id>>
  <2>. DEFINE b == p[1]
  <2>1. b \in Block /\ p = <<b>> /\ Answers(b)
    BY <1>1, <1>3
  <2>. HIDE DEF b
  <2>2. Spread(AnswerIds, <<b>>) = AnswerIds[b]
    BY <2>1, AnswerIdsIs, SpreadSingle
  <2>3. AnswerIds[b] = <<b.id>>
    BY <2>1 DEF AnswerIds
  <2>4. \A k \in 1 .. Len(p) : p[k].type # "text"
    BY <2>1 DEF Answers, ResultTypes
  <2>5. Texts(p) = <<>>
    BY <1>1, <2>4, TextsConcat
  <2>. QED  BY <2>1, <2>2, <2>3, <2>5 DEF b
<1>4. ASSUME ~Answers(p[1]) PROVE Spread(AnswerIds, p) = <<>>
  <2>1. \A k \in 1 .. Len(p) : AnswerIds[p[k]] = <<>>
    <3>. TAKE k \in 1 .. Len(p)
    <3>1. p[k] \in Block /\ ~Answers(p[k])
      BY <1>1, <1>4
    <3>. QED  BY <3>1 DEF AnswerIds
  <2>. QED  BY <1>1, <2>1, AnswerIdsIs, SpreadNone
<1>. QED  BY <1>1, <1>2, <1>3, <1>4 DEF p

\* All texts and all results of a user message go out in parts, in their order.
LEMMA PartsAll ==
  ASSUME NEW blocks \in Seq(UserBlock)
  PROVE  /\ Parts(blocks) \in Seq(Seq(Block))
         /\ FlattenSeq([n \in 1 .. Len(Parts(blocks)) |-> Texts(Parts(blocks)[n])]) = Texts(blocks)
         /\ FlattenSeq([n \in 1 .. Len(Parts(blocks)) |-> Spread(AnswerIds, Parts(blocks)[n])])
              = IdsOf(blocks, {"tool_result"})
<1>. DEFINE parts == Parts(blocks)
            f == TextOf(TRUE)
<1>1. blocks \in Seq(Block) /\ Texts(blocks) = Spread(f, blocks) /\ f \in Spreads(Block, Nat)
  BY BlocksAre, TextsAre
<1>2. parts \in Seq(Seq(Block))
  BY <1>1, PartsAre
<1>3. \A k \in 1 .. Len(blocks) : blocks[k] \in Block
  BY <1>1
<1>. HIDE DEF f
<1>4. FlattenSeq([n \in 1 .. Len(parts) |-> Spread(f, parts[n])]) = Spread(f, blocks)
  <2>1. \A k \in 1 .. Len(blocks) :
          blocks[k].type # "text" /\ ~Answers(blocks[k]) => f[blocks[k]] = <<>>
    <3>. TAKE k \in 1 .. Len(blocks)
    <3>1. f[blocks[k]] = IF (blocks[k].type = "text" \/ (~TRUE /\ blocks[k].type \in ServerTypes))
                              /\ blocks[k].from # 0
                           THEN <<blocks[k].from>> ELSE <<>>
      BY <1>3, Zenon DEF TextOf, f
    <3>. QED  BY <3>1, Zenon
  <2>. QED  BY <1>1, <2>1, PartsKeep
<1>5. [n \in 1 .. Len(parts) |-> Texts(parts[n])] = [n \in 1 .. Len(parts) |-> Spread(f, parts[n])]
  <2>1. \A n \in 1 .. Len(parts) : Texts(parts[n]) = Spread(f, parts[n])
    BY <1>1, PartIs DEF f
  <2>. QED  BY <2>1
<1>6. FlattenSeq([n \in 1 .. Len(parts) |-> Spread(AnswerIds, parts[n])])
        = Spread(AnswerIds, blocks)
  <2>1. \A k \in 1 .. Len(blocks) :
          blocks[k].type # "text" /\ ~Answers(blocks[k]) => AnswerIds[blocks[k]] = <<>>
    BY <1>3 DEF AnswerIds
  <2>. QED  BY <1>1, <2>1, AnswerIdsIs, PartsKeep
<1>7. Spread(AnswerIds, blocks) = IdsOf(blocks, {"tool_result"})
  BY AnswerIdsIs
<1>. QED  BY <1>1, <1>2, <1>4, <1>5, <1>6, <1>7 DEF parts

\* A user message goes out as user and tool messages with its texts and its results.
LEMMA UserConverted ==
  ASSUME NEW blocks \in Seq(UserBlock)
  PROVE  LET r == ConvertUserBlocks(blocks)
         IN  /\ r \in Seq(ChatMessage)
             /\ \A n \in 1 .. Len(r) :
                  /\ r[n].role \in {"user", "tool"}
                  /\ r[n].role = "tool" => r[n].calls = << r[n].calls[1] >>
             /\ Spread(ChatTexts, r) = Texts(blocks)
             /\ Spread(ToolIds, r) = IdsOf(blocks, {"tool_result"})
<1>. DEFINE parts == Parts(blocks)
            r == ConvertUserBlocks(blocks)
<1>1. /\ parts \in Seq(Seq(Block)) /\ blocks \in Seq(Block)
      /\ FlattenSeq([n \in 1 .. Len(parts) |-> Texts(parts[n])]) = Texts(blocks)
      /\ FlattenSeq([n \in 1 .. Len(parts) |-> Spread(AnswerIds, parts[n])])
           = IdsOf(blocks, {"tool_result"})
  BY PartsAll, BlocksAre
<1>2. ASSUME NEW n \in 1 .. Len(parts)
      PROVE  /\ parts[n][1] \in Block /\ Texts(parts[n]) \in Seq(Nat)
             /\ Answers(parts[n][1]) =>
                  Texts(parts[n]) = <<>> /\ Spread(AnswerIds, parts[n]) = <<parts[n][1].id>>
             /\ ~Answers(parts[n][1]) => Spread(AnswerIds, parts[n]) = <<>>
  BY <1>1, PartIs
<1>3. r = [n \in 1 .. Len(parts) |->
             IF Answers(parts[n][1])
               THEN [role |-> "tool", calls |-> <<parts[n][1].id>>, texts |-> <<>>]
               ELSE [role |-> "user", calls |-> <<>>, texts |-> Texts(parts[n])]]
  <2>1. DOMAIN parts = 1 .. Len(parts)
    BY <1>1
  <2>. QED  BY <2>1 DEF ConvertUserBlocks, Said
<1>. HIDE DEF parts, r
<1>4. ASSUME NEW n \in 1 .. Len(parts)
      PROVE  /\ r[n] \in ChatMessage /\ r[n].role \in {"user", "tool"}
             /\ r[n].role = "tool" => r[n].calls = << r[n].calls[1] >>
             /\ ChatTexts[r[n]] = Texts(parts[n])
             /\ ToolIds[r[n]] = Spread(AnswerIds, parts[n])
  <2>1. CASE Answers(parts[n][1])
    <3>. DEFINE id == parts[n][1].id
    <3>1. r[n] = [role |-> "tool", calls |-> <<id>>, texts |-> <<>>]
      BY <1>3, <2>1
    <3>2. id \in AnyId
      BY <1>2, BlockIs DEF AnyId
    <3>3. Texts(parts[n]) = <<>> /\ Spread(AnswerIds, parts[n]) = <<id>>
      BY <1>2, <2>1
    <3>. HIDE DEF id
    <3>4. r[n] \in ChatMessage
      BY <3>1, <3>2 DEF ChatMessage
    <3>. QED  BY <3>1, <3>3, <3>4 DEF ChatTexts, ToolIds
  <2>2. CASE ~Answers(parts[n][1])
    <3>1. r[n] = [role |-> "user", calls |-> <<>>, texts |-> Texts(parts[n])]
      BY <1>3, <2>2
    <3>2. r[n] \in ChatMessage
      BY <1>2, <3>1 DEF ChatMessage
    <3>. QED  BY <1>2, <2>2, <3>1, <3>2 DEF ChatTexts, ToolIds
  <2>. QED  BY <2>1, <2>2
<1>5. Len(parts) \in Nat
  BY <1>1
<1>6. r \in Seq(ChatMessage) /\ Len(r) = Len(parts)
  BY <1>3, <1>4, <1>5
<1>7. /\ [n \in 1 .. Len(r) |-> ChatTexts[r[n]]] = [n \in 1 .. Len(parts) |-> Texts(parts[n])]
      /\ [n \in 1 .. Len(r) |-> ToolIds[r[n]]]
           = [n \in 1 .. Len(parts) |-> Spread(AnswerIds, parts[n])]
  BY <1>4, <1>6
<1>8. Spread(ChatTexts, r) = Texts(blocks)
  BY <1>1, <1>7 DEF Spread, parts
<1>9. Spread(ToolIds, r) = IdsOf(blocks, {"tool_result"})
  BY <1>1, <1>7 DEF Spread, parts
<1>. QED  BY <1>4, <1>6, <1>8, <1>9 DEF r

LEMMA UserItemized ==
  ASSUME NEW blocks \in Seq(UserBlock), NEW kinds
  PROVE  LET r == UserItems(blocks, kinds)
         IN  /\ r \in Seq(Item)
             /\ \A n \in 1 .. Len(r) :
                  /\ r[n].type \in {"message"} \cup OutputItems
                  /\ r[n].type \in OutputItems => r[n].type = OutputType(r[n].id, kinds)
             /\ Spread(ItemTexts, r) = Texts(blocks)
             /\ Spread(OutputIds, r) = IdsOf(blocks, {"tool_result"})
<1>. DEFINE parts == Parts(blocks)
            r == UserItems(blocks, kinds)
<1>1. /\ parts \in Seq(Seq(Block)) /\ blocks \in Seq(Block)
      /\ FlattenSeq([n \in 1 .. Len(parts) |-> Texts(parts[n])]) = Texts(blocks)
      /\ FlattenSeq([n \in 1 .. Len(parts) |-> Spread(AnswerIds, parts[n])])
           = IdsOf(blocks, {"tool_result"})
  BY PartsAll, BlocksAre
<1>2. ASSUME NEW n \in 1 .. Len(parts)
      PROVE  /\ parts[n][1] \in Block /\ Texts(parts[n]) \in Seq(Nat)
             /\ Answers(parts[n][1]) =>
                  Texts(parts[n]) = <<>> /\ Spread(AnswerIds, parts[n]) = <<parts[n][1].id>>
             /\ ~Answers(parts[n][1]) => Spread(AnswerIds, parts[n]) = <<>>
  BY <1>1, PartIs
<1>3. r = [n \in 1 .. Len(parts) |->
             IF Answers(parts[n][1])
               THEN [type |-> OutputType(parts[n][1].id, kinds), id |-> parts[n][1].id,
                     texts |-> <<>>]
               ELSE [type |-> "message", id |-> NoId, texts |-> Texts(parts[n])]]
  <2>1. DOMAIN parts = 1 .. Len(parts)
    BY <1>1
  <2>. QED  BY <2>1 DEF UserItems, Message
<1>. HIDE DEF parts, r
<1>4. ASSUME NEW n \in 1 .. Len(parts)
      PROVE  /\ r[n] \in Item /\ r[n].type \in {"message"} \cup OutputItems
             /\ r[n].type \in OutputItems => r[n].type = OutputType(r[n].id, kinds)
             /\ ItemTexts[r[n]] = Texts(parts[n])
             /\ OutputIds[r[n]] = Spread(AnswerIds, parts[n])
  <2>1. CASE Answers(parts[n][1])
    <3>. DEFINE id == parts[n][1].id
                t  == OutputType(id, kinds)
    <3>1. r[n] = [type |-> t, id |-> id, texts |-> <<>>]
      BY <1>3, <2>1
    <3>2. id \in AnyId /\ t \in OutputItems
      BY <1>2, BlockIs DEF AnyId, OutputItems, OutputType
    <3>3. Texts(parts[n]) = <<>> /\ Spread(AnswerIds, parts[n]) = <<id>>
      BY <1>2, <2>1
    <3>4. r[n].type \in OutputItems => r[n].type = OutputType(r[n].id, kinds)
      BY <3>1
    <3>. HIDE DEF id, t
    <3>5. r[n] \in Item
      BY <3>1, <3>2 DEF Item
    <3>. QED  BY <3>1, <3>2, <3>3, <3>4, <3>5 DEF ItemTexts, OutputIds
  <2>2. CASE ~Answers(parts[n][1])
    <3>1. r[n] = [type |-> "message", id |-> NoId, texts |-> Texts(parts[n])]
      BY <1>3, <2>2
    <3>2. r[n] \in Item
      BY <1>2, <3>1 DEF Item, AnyId
    <3>3. r[n].type \notin OutputItems
      BY <3>1 DEF OutputItems
    <3>. QED  BY <1>2, <2>2, <3>1, <3>2, <3>3 DEF ItemTexts, OutputIds
  <2>. QED  BY <2>1, <2>2
<1>5. Len(parts) \in Nat
  BY <1>1
<1>6. r \in Seq(Item) /\ Len(r) = Len(parts)
  BY <1>3, <1>4, <1>5
<1>7. /\ [n \in 1 .. Len(r) |-> ItemTexts[r[n]]] = [n \in 1 .. Len(parts) |-> Texts(parts[n])]
      /\ [n \in 1 .. Len(r) |-> OutputIds[r[n]]]
           = [n \in 1 .. Len(parts) |-> Spread(AnswerIds, parts[n])]
  BY <1>4, <1>6
<1>8. Spread(ItemTexts, r) = Texts(blocks)
  BY <1>1, <1>7 DEF Spread, parts
<1>9. Spread(OutputIds, r) = IdsOf(blocks, {"tool_result"})
  BY <1>1, <1>7 DEF Spread, parts
<1>. QED  BY <1>4, <1>6, <1>8, <1>9 DEF r

\* The texts before and after a place are all there are.
LEMMA SplitTexts ==
  ASSUME NEW blocks \in Seq(Block), NEW types
  PROVE  LET m    == FirstCall(blocks, types)
             pre  == SubSeq(blocks, 1, m - 1)
             post == SubSeq(blocks, m, Len(blocks))
         IN  /\ pre \in Seq(Block) /\ post \in Seq(Block)
             /\ Texts(pre) \in Seq(Nat) /\ Texts(post) \in Seq(Nat)
             /\ Texts(pre) \o Texts(post) = Texts(blocks)
             /\ ~HasText(pre) => Texts(pre) = <<>>
             /\ ~HasText(post) => Texts(post) = <<>>
<1>. DEFINE calls == {k \in DOMAIN blocks : blocks[k].type \in types /\ blocks[k].id # NoId}
            m == FirstCall(blocks, types)
            pre == SubSeq(blocks, 1, m - 1)
            post == SubSeq(blocks, m, Len(blocks))
<1>1. m \in 1 .. Len(blocks) + 1
  <2>1. CASE calls = {}
    BY <2>1 DEF FirstCall
  <2>2. CASE calls # {}
    <3>1. m = CHOOSE k \in calls : \A j \in calls : k <= j
      BY <2>2, Zenon DEF FirstCall
    <3>2. calls \in SUBSET (1 .. Len(blocks)) /\ calls \in SUBSET Nat
      OBVIOUS
    <3>. HIDE DEF calls, m
    <3>3. PICK n \in calls : TRUE
      BY <2>2
    <3>4. \E k \in calls : \A j \in calls : k <= j
      BY <3>2, <3>3, Least
    <3>5. m \in calls
      BY <3>1, <3>4
    <3>. QED  BY <3>2, <3>5
  <2>. QED  BY <2>1, <2>2
<1>. HIDE DEF m
<1>2. pre \in Seq(Block) /\ post \in Seq(Block) /\ pre \o post = blocks
  <2>1. pre \in Seq(Block) /\ Len(pre) = m - 1 /\ \A k \in 1 .. m - 1 : pre[k] = blocks[k]
    BY <1>1
  <2>2. post \in Seq(Block)
    BY <1>1, RestOfSeq
  <2>3. Len(post) = Len(blocks) + 1 - m
        /\ \A k \in 1 .. Len(blocks) + 1 - m : post[k] = blocks[m - 1 + k]
    BY <1>1
  <2>. HIDE DEF pre, post
  <2>4. /\ pre \o post \in Seq(Block) /\ Len(pre \o post) = Len(blocks)
        /\ \A k \in 1 .. Len(blocks) :
             (pre \o post)[k] = IF k <= m - 1 THEN pre[k] ELSE post[k - (m - 1)]
    BY <1>1, <2>1, <2>2, <2>3
  <2>5. \A k \in 1 .. Len(blocks) : (pre \o post)[k] = blocks[k]
    <3>. TAKE k \in 1 .. Len(blocks)
    <3>1. CASE k <= m - 1
      BY <1>1, <2>1, <2>4, <3>1
    <3>2. CASE ~(k <= m - 1)
      <4>1. k - (m - 1) \in 1 .. Len(blocks) + 1 - m /\ m - 1 + (k - (m - 1)) = k
        BY <1>1, <3>2
      <4>. QED  BY <2>3, <2>4, <3>2, <4>1
    <3>. QED  BY <3>1, <3>2
  <2>6. pre \o post = blocks
    <3>. DEFINE both == pre \o post
    <3>1. both \in Seq(Block) /\ Len(both) = Len(blocks)
          /\ \A k \in 1 .. Len(blocks) : both[k] = blocks[k]
      BY <2>4, <2>5
    <3>. HIDE DEF both
    <3>2. both = blocks
      BY <3>1
    <3>. QED  BY <3>2 DEF both
  <2>. QED  BY <2>1, <2>2, <2>6
<1>. HIDE DEF pre, post
<1>3. Texts(pre) \in Seq(Nat) /\ Texts(post) \in Seq(Nat)
  BY <1>2, TextsAre
<1>4. Texts(pre) \o Texts(post) = Texts(blocks)
  BY <1>2, TextsConcat
<1>5. /\ ~HasText(pre) => Texts(pre) = <<>>
      /\ ~HasText(post) => Texts(post) = <<>>
  <2>1. \A s \in Seq(Block) : ~HasText(s) => \A k \in 1 .. Len(s) : s[k].type # "text"
    BY DEF HasText
  <2>. QED  BY <1>2, <2>1, TextsConcat
<1>. QED  BY <1>2, <1>3, <1>4, <1>5 DEF m, pre, post

\* An assistant message goes out as one with its calls and another with the text
\* behind them.
LEMMA AssistantConverted ==
  ASSUME NEW blocks \in Seq(AssistantBlock)
  PROVE  LET r == ConvertAssistantBlocks(blocks)
         IN  /\ r \in Seq(ChatMessage) /\ Len(r) \in 1 .. 2
             /\ r[1].calls = IdsOf(blocks, CallTypes)
             /\ \A n \in 1 .. Len(r) : r[n].role = "assistant" /\ (n # 1 => r[n].calls = <<>>)
             /\ Spread(ChatTexts, r) = Texts(blocks)
             /\ Spread(ToolIds, r) = <<>>
<1>. DEFINE m == FirstCall(blocks, CallTypes)
            pre == SubSeq(blocks, 1, m - 1)
            post == SubSeq(blocks, m, Len(blocks))
            ids == IdsOf(blocks, CallTypes)
            r == ConvertAssistantBlocks(blocks)
            one == [role |-> "assistant", calls |-> ids, texts |-> Texts(pre)]
            two == [role |-> "assistant", calls |-> <<>>, texts |-> Texts(post)]
<1>1. /\ Texts(pre) \in Seq(Nat) /\ Texts(post) \in Seq(Nat)
      /\ Texts(pre) \o Texts(post) = Texts(blocks)
      /\ ~HasText(post) => Texts(post) = <<>>
  BY BlocksAre, SplitTexts
<1>2. ids \in Seq(AnyId)
  <2>1. ids \in Seq(Ids \cup ServerTypes)
    BY BlocksAre, IdsOfIs
  <2>2. Ids \cup ServerTypes \subseteq AnyId
    BY DEF AnyId
  <2>. HIDE DEF ids
  <2>. QED  BY <2>1, <2>2
<1>3. r = IF HasText(post) THEN <<one>> \o <<two>> ELSE <<one>>
  <2>1. r = <<one>> \o (IF HasText(post) THEN <<two>> ELSE <<>>)
    BY DEF ConvertAssistantBlocks, Said
  <2>. HIDE DEF one, two, post, r
  <2>3. <<one>> \o <<>> = <<one>>
    <3>1. <<one>> \in Seq({one})
      OBVIOUS
    <3>2. \A q \in Seq({one}) : q \o <<>> = q
      OBVIOUS
    <3>. QED  BY <3>1, <3>2
  <2>. QED  BY <2>1, <2>3
<1>4. one \in ChatMessage /\ two \in ChatMessage
  BY <1>1, <1>2 DEF ChatMessage
<1>5. /\ ChatTexts[one] = Texts(pre) /\ ChatTexts[two] = Texts(post)
      /\ ToolIds[one] = <<>> /\ ToolIds[two] = <<>>
      /\ one.role = "assistant" /\ two.role = "assistant" /\ one.calls = ids /\ two.calls = <<>>
  BY <1>4 DEF ChatTexts, ToolIds
<1>. HIDE DEF pre, post, ids, r, one, two
<1>6. ASSUME NEW s \in Seq(ChatMessage), NEW e \in ChatMessage
      PROVE  /\ Spread(ChatTexts, Append(s, e)) = Spread(ChatTexts, s) \o ChatTexts[e]
             /\ Spread(ToolIds, Append(s, e)) = Spread(ToolIds, s) \o ToolIds[e]
  BY ReadTyped, SpreadAppend
<1>9. Spread(ChatTexts, <<one>>) = ChatTexts[one] /\ Spread(ToolIds, <<one>>) = ToolIds[one]
  BY <1>4, ReadTyped, SpreadSingle
<1>7. CASE HasText(post)
  <2>1. r = Append(<<one>>, two) /\ <<one>> \in Seq(ChatMessage)
    <3>1. <<one>> \in Seq(ChatMessage)
      BY <1>4
    <3>. QED  BY <1>3, <1>4, <1>7, <3>1, AppendIsConcat
  <2>2. Spread(ChatTexts, r) = Texts(blocks)
    BY <1>1, <1>4, <1>5, <1>6, <1>9, <2>1
  <2>3. Spread(ToolIds, r) = <<>> \o <<>>
    BY <1>4, <1>5, <1>6, <1>9, <2>1
  <2>4. <<>> \o <<>> = <<>>
    OBVIOUS
  <2>5. r \in Seq(ChatMessage) /\ Len(r) = 2 /\ r[1] = one /\ r[2] = two
    BY <1>4, <2>1
  <2>. QED  BY <1>5, <2>2, <2>3, <2>4, <2>5 DEF r, ids
<1>8. CASE ~HasText(post)
  <2>1. r = <<one>>
    BY <1>3, <1>8
  <2>2. Texts(pre) \o <<>> = Texts(pre)
    BY <1>1
  <2>3. Spread(ChatTexts, r) = Texts(blocks)
    BY <1>1, <1>5, <1>8, <1>9, <2>1, <2>2
  <2>4. Spread(ToolIds, r) = <<>>
    BY <1>5, <1>9, <2>1
  <2>5. r \in Seq(ChatMessage) /\ Len(r) = 1 /\ r[1] = one
    BY <1>4, <2>1
  <2>. QED  BY <1>5, <2>3, <2>4, <2>5 DEF r, ids
<1>. QED  BY <1>7, <1>8

LEMMA MessageIfAnyIs ==
  ASSUME NEW s \in Seq(Block)
  PROVE  LET r == MessageIfAny(s)
         IN  /\ r \in Seq(Item)
             /\ \A n \in 1 .. Len(r) : r[n].type = "message"
             /\ Spread(ItemTexts, r) = Texts(s)
             /\ Spread(CallIds, r) = <<>>
<1>. DEFINE r == MessageIfAny(s)
            one == Message(s)
<1>1. Texts(s) \in Seq(Nat)
  BY TextsAre
<1>2. one = [type |-> "message", id |-> NoId, texts |-> Texts(s)]
  BY DEF Message
<1>3. one \in Item /\ ItemTexts[one] = Texts(s) /\ CallIds[one] = <<>> /\ one.type = "message"
  <2>1. one \in Item
    BY <1>1, <1>2 DEF Item, AnyId
  <2>. QED  BY <1>2, <2>1 DEF ItemTexts, CallIds, CallItems
<1>4. r = IF HasText(s) THEN <<one>> ELSE <<>>
  BY DEF MessageIfAny
<1>. HIDE DEF r, one
<1>5. CASE HasText(s)
  <2>1. r = <<one>>
    BY <1>4, <1>5
  <2>2. Spread(ItemTexts, <<one>>) = ItemTexts[one] /\ Spread(CallIds, <<one>>) = CallIds[one]
    BY <1>3, ReadTyped, SpreadSingle
  <2>3. r \in Seq(Item) /\ \A n \in 1 .. Len(r) : r[n].type = "message"
    BY <1>3, <2>1
  <2>. QED  BY <1>3, <2>1, <2>2, <2>3 DEF r
<1>6. CASE ~HasText(s)
  <2>1. r = <<>>
    BY <1>4, <1>6
  <2>2. Texts(s) = <<>>
    <3>1. \A k \in 1 .. Len(s) : s[k].type # "text"
      BY <1>6 DEF HasText
    <3>. QED  BY <3>1, TextsConcat
  <2>3. r \in Seq(Item) /\ \A n \in 1 .. Len(r) : r[n].type = "message"
    BY <2>1
  <2>. QED  BY <2>1, <2>2, <2>3, SpreadEmpty DEF r
<1>. QED  BY <1>5, <1>6

\* An assistant message goes out as its calls between the text before and after them.
LEMMA AssistantItemized ==
  ASSUME NEW blocks \in Seq(AssistantBlock)
  PROVE  LET r == AssistantItems(blocks)
         IN  /\ r \in Seq(Item)
             /\ \A n \in 1 .. Len(r) : r[n].type \in {"message"} \cup CallItems
             /\ Spread(ItemTexts, r) = Texts(blocks)
             /\ Spread(CallIds, r) = IdsOf(blocks, ItemTypes)
<1>. DEFINE m == FirstCall(blocks, ItemTypes)
            pre == SubSeq(blocks, 1, m - 1)
            post == SubSeq(blocks, m, Len(blocks))
            ids == IdsOf(blocks, ItemTypes)
            calls == [k \in DOMAIN ids |-> [type |-> CallType(ids[k]), id |-> ids[k], texts |-> <<>>]]
            x == MessageIfAny(pre)
            y == MessageIfAny(post)
            r == AssistantItems(blocks)
<1>1. /\ pre \in Seq(Block) /\ post \in Seq(Block)
      /\ Texts(pre) \in Seq(Nat) /\ Texts(post) \in Seq(Nat)
      /\ Texts(pre) \o Texts(post) = Texts(blocks)
  BY BlocksAre, SplitTexts
<1>2. ids \in Seq(AnyId)
  <2>1. ids \in Seq(Ids \cup ServerTypes)
    BY BlocksAre, IdsOfIs
  <2>2. Ids \cup ServerTypes \subseteq AnyId
    BY DEF AnyId
  <2>. HIDE DEF ids
  <2>. QED  BY <2>1, <2>2
<1>3. r = x \o calls \o y
  BY DEF AssistantItems
<1>. HIDE DEF pre, post, ids
<1>4. /\ x \in Seq(Item) /\ \A n \in 1 .. Len(x) : x[n].type = "message"
      /\ Spread(ItemTexts, x) = Texts(pre) /\ Spread(CallIds, x) = <<>>
  BY <1>1, MessageIfAnyIs
<1>5. /\ y \in Seq(Item) /\ \A n \in 1 .. Len(y) : y[n].type = "message"
      /\ Spread(ItemTexts, y) = Texts(post) /\ Spread(CallIds, y) = <<>>
  BY <1>1, MessageIfAnyIs
<1>6. /\ calls \in Seq(Item) /\ Len(calls) = Len(ids)
      /\ \A n \in 1 .. Len(calls) :
           /\ calls[n].type \in CallItems
           /\ ItemTexts[calls[n]] = <<>> /\ CallIds[calls[n]] = <<ids[n]>>
  <2>1. DOMAIN ids = 1 .. Len(ids) /\ Len(ids) \in Nat
    BY <1>2
  <2>2. ASSUME NEW n \in 1 .. Len(ids)
        PROVE  /\ calls[n] \in Item /\ calls[n].type \in CallItems
               /\ ItemTexts[calls[n]] = <<>> /\ CallIds[calls[n]] = <<ids[n]>>
    <3>1. calls[n] = [type |-> CallType(ids[n]), id |-> ids[n], texts |-> <<>>]
      BY <2>1
    <3>2. CallType(ids[n]) \in CallItems
      BY DEF CallType, CallItems
    <3>3. ids[n] \in AnyId
      BY <1>2
    <3>. HIDE DEF calls
    <3>4. calls[n] \in Item
      BY <3>1, <3>2, <3>3 DEF Item
    <3>. QED  BY <3>1, <3>2, <3>4 DEF ItemTexts, CallIds
  <2>3. calls \in Seq(Item) /\ Len(calls) = Len(ids)
    BY <2>1, <2>2
  <2>. QED  BY <2>2, <2>3
<1>. HIDE DEF x, y, calls, r
<1>7. Spread(ItemTexts, calls) = <<>> /\ Spread(CallIds, calls) = ids
  <2>1. Spread(ItemTexts, calls) = <<>>
    BY <1>6, ReadTyped, SpreadNone
  <2>2. Singly(CallIds, calls, ids)
    BY <1>6 DEF Singly
  <2>. QED  BY <1>2, <1>6, <2>1, <2>2, SpreadSingles
<1>8. x \o calls \in Seq(Item) /\ r \in Seq(Item)
  BY <1>3, <1>4, <1>5, <1>6
<1>12. \A s, t \in Seq(Item) :
         /\ Spread(ItemTexts, s \o t) = Spread(ItemTexts, s) \o Spread(ItemTexts, t)
         /\ Spread(CallIds, s \o t) = Spread(CallIds, s) \o Spread(CallIds, t)
  BY ReadTyped, SpreadConcat
<1>9. Spread(ItemTexts, r) = Texts(blocks)
  <2>1. /\ Spread(ItemTexts, x \o calls) = Spread(ItemTexts, x) \o Spread(ItemTexts, calls)
        /\ Spread(ItemTexts, (x \o calls) \o y) = Spread(ItemTexts, x \o calls) \o Spread(ItemTexts, y)
    BY <1>4, <1>5, <1>6, <1>8, <1>12
  <2>2. Texts(pre) \o <<>> = Texts(pre)
    BY <1>1
  <2>. QED  BY <1>1, <1>3, <1>4, <1>5, <1>7, <2>1, <2>2
<1>10. Spread(CallIds, r) = ids
  <2>1. /\ Spread(CallIds, x \o calls) = Spread(CallIds, x) \o Spread(CallIds, calls)
        /\ Spread(CallIds, (x \o calls) \o y) = Spread(CallIds, x \o calls) \o Spread(CallIds, y)
    BY <1>4, <1>5, <1>6, <1>8, <1>12
  <2>2. (<<>> \o ids) \o <<>> = ids
    BY <1>2
  <2>. QED  BY <1>3, <1>4, <1>5, <1>7, <2>1, <2>2
<1>11. \A n \in 1 .. Len(r) : r[n].type \in {"message"} \cup CallItems
  <2>. TAKE n \in 1 .. Len(r)
  <2>1. \/ \E k \in 1 .. Len(x) : r[n] = x[k]
        \/ \E k \in 1 .. Len(calls) : r[n] = calls[k]
        \/ \E k \in 1 .. Len(y) : r[n] = y[k]
    <3>1. \A s, t \in Seq(Item) : \A k \in 1 .. Len(s \o t) :
            \/ k \in 1 .. Len(s) /\ (s \o t)[k] = s[k]
            \/ k - Len(s) \in 1 .. Len(t) /\ (s \o t)[k] = t[k - Len(s)]
      OBVIOUS
    <3>. DEFINE s == x \o calls
    <3>2. s \in Seq(Item) /\ r = s \o y
      BY <1>3, <1>8
    <3>3. \A k \in 1 .. Len(s) : (\E j \in 1 .. Len(x) : s[k] = x[j])
                                   \/ \E j \in 1 .. Len(calls) : s[k] = calls[j]
      BY <1>4, <1>6, <3>1
    <3>. HIDE DEF s
    <3>4. (n \in 1 .. Len(s) /\ r[n] = s[n]) \/ \E k \in 1 .. Len(y) : r[n] = y[k]
      BY <1>5, <3>1, <3>2
    <3>. QED  BY <3>3, <3>4
  <2>. QED  BY <1>4, <1>5, <1>6, <2>1
<1>. QED  BY <1>8, <1>9, <1>10, <1>11 DEF r, ids

ChatOf(m) ==
  IF m.role = "user" THEN ConvertUserBlocks(m.content) ELSE ConvertAssistantBlocks(m.content)

ItemsAt(ms, i, prior) ==
  IF ms[i].role = "user" THEN UserItems(ms[i].content, CallKinds(ms, i, prior))
  ELSE AssistantItems(ms[i].content)

\* What the texts of messages are, put together.
TurnTexts(ms) == FlattenSeq([i \in 1 .. Len(ms) |-> Texts(ms[i].content)])

\* A request is put together of what each message goes out as; its texts are theirs.
LEMMA ConvertedIs ==
  ASSUME NEW ms \in Seq(Turn)
  PROVE  LET cc == [i \in 1 .. Len(ms) |-> ChatOf(ms[i])]
         IN  /\ cc \in Seq(Seq(ChatMessage)) /\ ConvertMessages(ms) = FlattenSeq(cc)
             /\ ConvertMessages(ms) \in Seq(ChatMessage)
             /\ Spread(ChatTexts, ConvertMessages(ms)) = TurnTexts(ms)
<1>. DEFINE cc == [i \in 1 .. Len(ms) |-> ChatOf(ms[i])]
<1>1. DOMAIN ms = 1 .. Len(ms) /\ Len(ms) \in Nat
  OBVIOUS
<1>2. ConvertMessages(ms) = FlattenSeq(cc)
  BY <1>1 DEF ConvertMessages, ChatOf
<1>3. ASSUME NEW i \in 1 .. Len(ms)
      PROVE  ChatOf(ms[i]) \in Seq(ChatMessage)
             /\ Spread(ChatTexts, ChatOf(ms[i])) = Texts(ms[i].content)
  <2>1. ms[i] \in Turn
    OBVIOUS
  <2>2. CASE ms[i].role = "user"
    BY <2>1, <2>2, TurnIs, UserConverted DEF ChatOf
  <2>3. CASE ms[i].role # "user"
    <3>1. ms[i].role = "assistant" /\ ms[i].content \in Seq(AssistantBlock)
      BY <2>1, <2>3, TurnIs
    <3>. QED  BY <2>3, <3>1, AssistantConverted DEF ChatOf
  <2>. QED  BY <2>2, <2>3
<1>4. cc \in Seq(Seq(ChatMessage)) /\ Len(cc) = Len(ms)
  BY <1>1, <1>3
<1>5. \A i \in 1 .. Len(ms) : Spread(ChatTexts, cc[i]) = Texts(ms[i].content)
  BY <1>3
<1>. HIDE DEF cc
<1>6. FlattenSeq(cc) \in Seq(ChatMessage)
  BY <1>4, FlattenPlaces
<1>7. Spread(ChatTexts, FlattenSeq(cc)) = FlattenSeq([i \in 1 .. Len(cc) |-> Spread(ChatTexts, cc[i])])
  BY <1>4, ReadTyped, SpreadFlatten
<1>8. [i \in 1 .. Len(cc) |-> Spread(ChatTexts, cc[i])] = [i \in 1 .. Len(ms) |-> Texts(ms[i].content)]
  BY <1>4, <1>5
<1>. QED  BY <1>2, <1>4, <1>6, <1>7, <1>8 DEF cc, TurnTexts

LEMMA ItemizedIs ==
  ASSUME NEW ms \in Seq(Turn), NEW prior
  PROVE  LET cc == [i \in 1 .. Len(ms) |-> ItemsAt(ms, i, prior)]
         IN  /\ cc \in Seq(Seq(Item)) /\ Items(ms, prior) = FlattenSeq(cc)
             /\ Items(ms, prior) \in Seq(Item)
             /\ Spread(ItemTexts, Items(ms, prior)) = TurnTexts(ms)
<1>. DEFINE cc == [i \in 1 .. Len(ms) |-> ItemsAt(ms, i, prior)]
<1>1. DOMAIN ms = 1 .. Len(ms) /\ Len(ms) \in Nat
  OBVIOUS
<1>2. Items(ms, prior) = FlattenSeq(cc)
  BY <1>1 DEF Items, ItemsAt
<1>3. ASSUME NEW i \in 1 .. Len(ms)
      PROVE  ItemsAt(ms, i, prior) \in Seq(Item)
             /\ Spread(ItemTexts, ItemsAt(ms, i, prior)) = Texts(ms[i].content)
  <2>1. ms[i] \in Turn
    OBVIOUS
  <2>2. CASE ms[i].role = "user"
    <3>1. ms[i].content \in Seq(UserBlock)
      BY <2>1, <2>2, TurnIs
    <3>. QED  BY <2>2, <3>1, UserItemized DEF ItemsAt
  <2>3. CASE ms[i].role # "user"
    <3>1. ms[i].role = "assistant" /\ ms[i].content \in Seq(AssistantBlock)
      BY <2>1, <2>3, TurnIs
    <3>. QED  BY <2>3, <3>1, AssistantItemized DEF ItemsAt
  <2>. QED  BY <2>2, <2>3
<1>4. cc \in Seq(Seq(Item)) /\ Len(cc) = Len(ms)
  BY <1>1, <1>3
<1>5. \A i \in 1 .. Len(ms) : Spread(ItemTexts, cc[i]) = Texts(ms[i].content)
  BY <1>3
<1>. HIDE DEF cc
<1>6. FlattenSeq(cc) \in Seq(Item)
  BY <1>4, FlattenPlaces
<1>7. Spread(ItemTexts, FlattenSeq(cc)) = FlattenSeq([i \in 1 .. Len(cc) |-> Spread(ItemTexts, cc[i])])
  BY <1>4, ReadTyped, SpreadFlatten
<1>8. [i \in 1 .. Len(cc) |-> Spread(ItemTexts, cc[i])] = [i \in 1 .. Len(ms) |-> Texts(ms[i].content)]
  BY <1>4, <1>5
<1>. QED  BY <1>2, <1>4, <1>6, <1>7, <1>8 DEF cc, TurnTexts

-----------------------------------------------------------------------------
(* What was said is sent *)

\* What continues a response is messages of the client's, or the rest of its last one.
LEMMA TailIs ==
  ASSUME IInv, api \in {"tail", "appended"}
  PROVE  /\ tail \in Seq(Turn)
         /\ \A i \in 1 .. Len(tail) : tail[i].role = "user"
         /\ \E prior : request = Items(upstream, prior)
         /\ upstream = NormalizePreviousResponseTail(tail, passthrough)
<1>1. messages \in Seq(Turn)
  BY DEF IInv, Typed
<1>2. upstream = NormalizePreviousResponseTail(tail, passthrough)
  BY DEF IInv, Made
<1>3. CASE api = "tail"
  <2>1. PICK j \in 2 .. Len(messages) :
          /\ \A i \in j .. Len(messages) : messages[i].role = "user"
          /\ tail = SubSeq(messages, j, Len(messages))
          /\ request = Items(upstream, PriorCallKinds(j))
    BY <1>3 DEF IInv, Made
  <2>2. tail \in Seq(Turn)
    BY <1>1, <2>1, RestOfSeq
  <2>3. \A i \in 1 .. Len(tail) : tail[i].role = "user"
    <3>. TAKE i \in 1 .. Len(tail)
    <3>1. j - 1 + i \in j .. Len(messages) /\ tail[i] = messages[j - 1 + i]
      BY <1>1, <2>1
    <3>. QED  BY <2>1, <3>1
  <2>. QED  BY <1>2, <2>1, <2>2, <2>3
<1>4. CASE api = "appended"
  <2>1. /\ messages # <<>> /\ Last(messages).role = "user" /\ request = Items(upstream, <<>>)
        /\ \E p \in 1 .. Len(Last(messages).content) - 1 :
             tail = <<User(SubSeq(Last(messages).content, p + 1, Len(Last(messages).content)))>>
    BY <1>4 DEF IInv, Made
  <2>. DEFINE blocks == Last(messages).content
  <2>2. PICK p \in 1 .. Len(blocks) - 1 : tail = <<User(SubSeq(blocks, p + 1, Len(blocks)))>>
    BY <2>1
  <2>3. Last(messages) \in Turn
    BY <1>1, <2>1 DEF Last
  <2>4. blocks \in Seq(UserBlock)
    BY <2>1, <2>3, TurnIs
  <2>. HIDE DEF blocks
  <2>5. p + 1 \in Nat \ {0}
    BY <2>2, <2>4
  <2>6. SubSeq(blocks, p + 1, Len(blocks)) \in Seq(UserBlock)
    BY <2>4, <2>5, RestOfSeq
  <2>. DEFINE u == User(SubSeq(blocks, p + 1, Len(blocks)))
  <2>7. u \in Turn /\ u.role = "user" /\ tail = <<u>>
    BY <2>2, <2>6, TurnsAre
  <2>. HIDE DEF u
  <2>8. tail \in Seq(Turn) /\ \A i \in 1 .. Len(tail) : tail[i].role = "user"
    BY <2>7
  <2>. QED  BY <1>2, <2>1, <2>8
<1>. QED  BY <1>3, <1>4

TurnText == [m \in Turn |-> Texts(m.content)]

TurnResults == [m \in Turn |-> IdsOf(m.content, {"tool_result"})]

LEMMA TurnReadTyped ==
  TurnText \in Spreads(Turn, Nat) /\ TurnResults \in Spreads(Turn, Ids \cup ServerTypes)
<1>1. ASSUME NEW m \in Turn
      PROVE  /\ Texts(m.content) \in Seq(Nat)
             /\ IdsOf(m.content, {"tool_result"}) \in Seq(Ids \cup ServerTypes)
  <2>1. m.content \in Seq(Block)
    BY TurnIs
  <2>. QED  BY <2>1, TextsAre, IdsOfIs
<1>. QED  BY <1>1 DEF TurnText, TurnResults, Spreads

\* A tail is sent on but for its empty messages.
LEMMA TailSent ==
  ASSUME IInv, api \in {"tail", "appended"}
  PROVE  /\ upstream \in Seq(Turn)
         /\ \A i \in 1 .. Len(upstream) : upstream[i].role = "user"
         /\ TurnTexts(upstream) = TextsIn(tail)
         /\ FlattenSeq([i \in 1 .. Len(upstream) |-> IdsOf(upstream[i].content, {"tool_result"})])
              = FlattenSeq([i \in 1 .. Len(tail) |-> IdsOf(tail[i].content, {"tool_result"})])
<1>. DEFINE said == WithoutOrphanedThinking(tail)
            sent == Sent(tail, passthrough)
            K == {i \in DOMAIN sent : sent[i].role # "user" \/ sent[i].content # <<>>}
<1>1. /\ tail \in Seq(Turn) /\ \A i \in 1 .. Len(tail) : tail[i].role = "user"
      /\ upstream = NormalizePreviousResponseTail(tail, passthrough)
  BY TailIs
<1>2. passthrough \in BOOLEAN
  BY DEF IInv, Typed
<1>3. said = tail
  <2>. DEFINE L == {i \in DOMAIN tail :
                      ~(tail[i].role = "assistant" /\ OnlyThinking(tail[i].content))}
  <2>1. 1 .. Len(tail) \subseteq L
    BY <1>1
  <2>2. said = At(tail, L)
    BY DEF WithoutOrphanedThinking
  <2>. HIDE DEF L, said
  <2>. QED  BY <1>1, <2>1, <2>2, AtAll
<1>. HIDE DEF said
<1>4. sent = tail
  <2>1. /\ sent \in Seq(Turn) /\ Len(sent) = Len(said)
        /\ \A i \in 1 .. Len(sent) : said[i].role = "user" => sent[i] = said[i]
    BY <1>1, <1>2, SentIs DEF said
  <2>. HIDE DEF sent
  <2>. QED  BY <1>1, <1>3, <2>1
<1>5. upstream = At(sent, K)
  BY <1>1 DEF NormalizePreviousResponseTail, Sent
<1>6. \A i \in DOMAIN tail : i \notin K => tail[i].content = <<>>
  BY <1>4
<1>7. K \subseteq DOMAIN tail
  BY <1>4
<1>. HIDE DEF sent, K
<1>8. upstream = At(tail, K) /\ DOMAIN tail = 1 .. Len(tail)
  BY <1>1, <1>4, <1>5
<1>9. upstream \in Seq(Turn)
  BY <1>1, <1>8, AtIs
<1>10. \A i \in 1 .. Len(upstream) : upstream[i].role = "user"
  <2>1. PICK pos \in [1 .. Len(upstream) -> 1 .. Len(tail)] :
          \A n \in 1 .. Len(upstream) : upstream[n] = tail[pos[n]]
    BY <1>1, <1>8, AtPlaces
  <2>. QED  BY <1>1, <2>1
<1>11. TurnText[User(<<>>)] = <<>> /\ TurnResults[User(<<>>)] = <<>> /\ User(<<>>) \in Turn
  <2>1. User(<<>>) \in Turn /\ User(<<>>).content = <<>>
    <3>1. <<>> \in Seq(UserBlock)
      OBVIOUS
    <3>. QED  BY <3>1, TurnsAre
  <2>2. Texts(<<>>) = <<>>
    BY TextsConcat
  <2>3. IdsOf(<<>>, {"tool_result"}) = <<>>
    <3>. DEFINE ids == IdsOf(<<>>, {"tool_result"})
    <3>0. <<>> \in Seq(Block)
      OBVIOUS
    <3>1. ids \in Seq(Ids \cup ServerTypes)
          /\ \E pos \in [1 .. Len(ids) -> Named(<<>>, {"tool_result"})] : TRUE
      BY <3>0, IdsOfIs
    <3>2. Named(<<>>, {"tool_result"}) = {}
      BY DEF Named
    <3>. HIDE DEF ids
    <3>3. 1 .. Len(ids) = {}
      BY <3>1, <3>2
    <3>. QED  BY <3>1, <3>3 DEF ids
  <2>. QED  BY <2>1, <2>2, <2>3 DEF TurnText, TurnResults
<1>12. \A i \in 1 .. Len(tail) : i \notin K => TurnText[tail[i]] = <<>> /\ TurnResults[tail[i]] = <<>>
  <2>. TAKE i \in 1 .. Len(tail)
  <2>. HAVE i \notin K
  <2>1. tail[i] = User(<<>>)
    BY <1>1, <1>6, <1>8, TurnIs
  <2>. QED  BY <1>11, <2>1
<1>13. /\ Spread(TurnText, upstream) = Spread(TurnText, tail)
       /\ Spread(TurnResults, upstream) = Spread(TurnResults, tail)
  BY <1>1, <1>8, <1>12, TurnReadTyped, SpreadAt
<1>14. ASSUME NEW ms \in Seq(Turn)
       PROVE  /\ Spread(TurnText, ms) = TurnTexts(ms)
              /\ Spread(TurnResults, ms) =
                   FlattenSeq([i \in 1 .. Len(ms) |-> IdsOf(ms[i].content, {"tool_result"})])
  <2>1. \A i \in 1 .. Len(ms) : ms[i] \in Turn
    OBVIOUS
  <2>2. [i \in 1 .. Len(ms) |-> TurnText[ms[i]]] = [i \in 1 .. Len(ms) |-> Texts(ms[i].content)]
    BY <2>1 DEF TurnText
  <2>3. [i \in 1 .. Len(ms) |-> TurnResults[ms[i]]]
          = [i \in 1 .. Len(ms) |-> IdsOf(ms[i].content, {"tool_result"})]
    BY <2>1 DEF TurnResults
  <2>. QED  BY <2>2, <2>3 DEF Spread, TurnTexts
<1>15. TurnTexts(tail) = TextsIn(tail)
  <2>1. \A i \in 1 .. Len(tail) : BlocksForUpstream(tail[i].content, passthrough) = tail[i].content
    BY <1>1, <1>2, TurnIs, UpstreamBlocks
  <2>2. [i \in DOMAIN tail |-> Texts(BlocksForUpstream(tail[i].content, passthrough))]
          = [i \in 1 .. Len(tail) |-> Texts(tail[i].content)]
    BY <1>8, <2>1
  <2>. QED  BY <2>2 DEF TurnTexts, TextsIn
<1>. QED  BY <1>1, <1>9, <1>10, <1>13, <1>14, <1>15

\* No repair and no translation loses, repeats or reorders what was said: text before,
\* between and after calls and results, and the records of server tools that were
\* turned to text, which they all are unless they are passed through (types.go:429-470,
\* chat.go:430-568, responses.go:1133-1230).
THEOREM SaidIsSent == Spec => []TextKept
<1>1. ASSUME IInv PROVE TextKept
  <2>1. messages \in Seq(Turn) /\ passthrough \in BOOLEAN
    BY <1>1 DEF IInv, Typed
  <2>2. api \in {"none", "chat", "responses", "tail", "appended"}
    BY <1>1 DEF IInv, Typed
  <2>3. ASSUME ~passthrough, NEW i \in DOMAIN upstream, NEW k \in DOMAIN upstream[i].content
        PROVE  upstream[i].content[k].type \notin ServerTypes
    <3>. DEFINE b == upstream[i].content[k]
    <3>0. \A c \in UserBlock : c.type \notin ServerTypes
      BY UserBlockIs DEF ServerTypes
    <3>1. CASE api = "none"
      BY <1>1, <3>1 DEF IInv, Made
    <3>2. CASE Full
      <4>. DEFINE ms == Sent(messages, passthrough)
      <4>1. ms \in Seq(Turn) /\ upstream = Paired(ms) /\ upstream \in Seq(Turn)
        BY <1>1, <3>2, RepairedIs
      <4>2. upstream[i].content \in Seq(Block) /\ i \in 1 .. Len(upstream)
        BY <4>1, TurnIs
      <4>3. k \in 1 .. Len(upstream[i].content)
        BY <4>2
      <4>4. \A m \in 1 .. Len(ms) : \A j \in 1 .. Len(ms[m].content) :
              ms[m].content[j].type \notin ServerTypes
        BY <2>1, <2>3, SentIs
      <4>. HIDE DEF ms
      <4>5. \/ b \in UserBlock
            \/ \E m \in 1 .. Len(ms) : \E j \in 1 .. Len(ms[m].content) : b = ms[m].content[j]
            \/ b = Placeholder
        BY <4>1, <4>2, <4>3, PairedMatched
      <4>6. Placeholder.type \notin ServerTypes
        BY DEF Placeholder, ServerTypes
      <4>. QED  BY <3>0, <4>4, <4>5, <4>6
    <3>3. CASE api \in {"tail", "appended"}
      <4>1. /\ upstream \in Seq(Turn)
            /\ \A p \in 1 .. Len(upstream) : upstream[p].role = "user"
        BY <1>1, <3>3, TailSent
      <4>2. upstream[i].content \in Seq(UserBlock)
        BY <4>1, TurnIs
      <4>3. b \in UserBlock
        BY <4>2
      <4>. QED  BY <3>0, <4>3
    <3>. QED  BY <2>2, <3>1, <3>2, <3>3 DEF Full
  <2>4. \A s \in Seq(ChatMessage) :
          FlattenSeq([n \in DOMAIN s |-> s[n].texts]) = Spread(ChatTexts, s)
    <3>. TAKE s \in Seq(ChatMessage)
    <3>1. DOMAIN s = 1 .. Len(s) /\ \A n \in 1 .. Len(s) : s[n] \in ChatMessage
      OBVIOUS
    <3>2. [n \in DOMAIN s |-> s[n].texts] = [n \in 1 .. Len(s) |-> ChatTexts[s[n]]]
      BY <3>1 DEF ChatTexts
    <3>. QED  BY <3>2 DEF Spread
  <2>5. \A s \in Seq(Item) :
          FlattenSeq([n \in DOMAIN s |-> s[n].texts]) = Spread(ItemTexts, s)
    <3>. TAKE s \in Seq(Item)
    <3>1. DOMAIN s = 1 .. Len(s) /\ \A n \in 1 .. Len(s) : s[n] \in Item
      OBVIOUS
    <3>2. [n \in DOMAIN s |-> s[n].texts] = [n \in 1 .. Len(s) |-> ItemTexts[s[n]]]
      BY <3>1 DEF ItemTexts
    <3>. QED  BY <3>2 DEF Spread
  <2>6. ASSUME Full PROVE FlattenSeq([n \in DOMAIN request |-> request[n].texts]) = TextsIn(messages)
    <3>. DEFINE ms == Sent(messages, passthrough)
    <3>1. ms \in Seq(Turn) /\ upstream = Paired(ms) /\ upstream \in Seq(Turn)
      BY <1>1, <2>6, RepairedIs
    <3>2. TurnTexts(ms) = TextsIn(messages)
      BY <2>1, SentIs DEF TurnTexts, TextsOf, TextsIn
    <3>. HIDE DEF ms
    <3>3. TurnTexts(upstream) = TurnTexts(ms)
      BY <3>1, PairedPlaces DEF TurnTexts
    <3>4. FlattenSeq([n \in DOMAIN request |-> request[n].texts]) = TurnTexts(upstream)
      <4>1. CASE api = "chat"
        <5>1. request = ConvertMessages(upstream)
          BY <1>1, <4>1 DEF IInv, Made
        <5>. QED  BY <2>4, <3>1, <5>1, ConvertedIs
      <4>2. CASE api = "responses"
        <5>1. request = Items(upstream, <<>>)
          BY <1>1, <4>2 DEF IInv, Made
        <5>. QED  BY <2>5, <3>1, <5>1, ItemizedIs
      <4>. QED  BY <2>6, <4>1, <4>2 DEF Full
    <3>. QED  BY <3>2, <3>3, <3>4
  <2>7. ASSUME api \in {"tail", "appended"}
        PROVE  FlattenSeq([n \in DOMAIN request |-> request[n].texts]) = TextsIn(tail)
    <3>1. /\ upstream \in Seq(Turn) /\ TurnTexts(upstream) = TextsIn(tail)
          /\ \E prior : request = Items(upstream, prior)
      BY <1>1, <2>7, TailSent, TailIs
    <3>. QED  BY <2>5, <3>1, ItemizedIs
  <2>. QED  BY <2>3, <2>6, <2>7 DEF TextKept
<1>2. IInv => TextKept
  BY <1>1
<1>. QED  BY <1>2, Invariant, PTL

-----------------------------------------------------------------------------
(* Calls and their answers are sent once *)

\* Where in a sequence the members of Q stand.
Where(s, Q) == {k \in 1 .. Len(s) : s[k] \in Q}

LEMMA WhereFlat ==
  ASSUME NEW S, NEW ss \in Seq(Seq(S)), NEW Q
  PROVE  \A x : x \in Where(FlattenSeq(ss), Q) <=>
           \E i \in 1 .. Len(ss) : \E k \in Where(ss[i], Q) : x = Offset(ss, i) + k
<1>1. /\ \A i \in 1 .. Len(ss) : \A k \in 1 .. Len(ss[i]) :
           /\ Offset(ss, i) + k \in 1 .. Len(FlattenSeq(ss))
           /\ FlattenSeq(ss)[Offset(ss, i) + k] = ss[i][k]
      /\ \A p \in 1 .. Len(FlattenSeq(ss)) :
           \E i \in 1 .. Len(ss) : \E k \in 1 .. Len(ss[i]) : p = Offset(ss, i) + k
  BY FlattenPlaces
<1>2. ASSUME NEW x \in Where(FlattenSeq(ss), Q)
      PROVE  \E i \in 1 .. Len(ss) : \E k \in Where(ss[i], Q) : x = Offset(ss, i) + k
  <2>1. x \in 1 .. Len(FlattenSeq(ss)) /\ FlattenSeq(ss)[x] \in Q
    BY DEF Where
  <2>2. PICK i \in 1 .. Len(ss) : \E k \in 1 .. Len(ss[i]) : x = Offset(ss, i) + k
    BY <1>1, <2>1
  <2>3. PICK k \in 1 .. Len(ss[i]) : x = Offset(ss, i) + k
    BY <2>2
  <2>4. FlattenSeq(ss)[x] = ss[i][k]
    BY <1>1, <2>3
  <2>5. k \in Where(ss[i], Q)
    BY <2>1, <2>4 DEF Where
  <2>. QED  BY <2>3, <2>5
<1>3. ASSUME NEW i \in 1 .. Len(ss), NEW k \in Where(ss[i], Q)
      PROVE  Offset(ss, i) + k \in Where(FlattenSeq(ss), Q)
  <2>1. k \in 1 .. Len(ss[i]) /\ ss[i][k] \in Q
    BY DEF Where
  <2>2. Offset(ss, i) + k \in 1 .. Len(FlattenSeq(ss))
        /\ FlattenSeq(ss)[Offset(ss, i) + k] = ss[i][k]
    BY <1>1, <2>1
  <2>. QED  BY <2>1, <2>2 DEF Where
<1>. QED  BY <1>2, <1>3

\* id stands in s at most once.
Single(s, id) == \A m, n \in 1 .. Len(s) : s[m] = id /\ s[n] = id => m = n

\* No element of s turns into more than one.
Lone(f, s) == \A k \in 1 .. Len(s) : Len(f[s[k]]) <= 1

\* An id in what elements turn into comes from one of them, one that is there once
\* from one only.
Sources(f, s, id) == {k \in 1 .. Len(s) : f[s[k]] = <<id>>}

LEMMA SpreadPlaces ==
  ASSUME NEW S, NEW T, NEW f \in Spreads(T, S), NEW s \in Seq(T), NEW id, Lone(f, s)
  PROVE  /\ id \in ToSet(Spread(f, s)) <=> Sources(f, s, id) # {}
         /\ Single(Spread(f, s), id) => \A j, k \in Sources(f, s, id) : j = k
<1>. DEFINE ss == [k \in 1 .. Len(s) |-> f[s[k]]]
            flat == FlattenSeq(ss)
<1>1. ss \in Seq(Seq(S)) /\ Spread(f, s) = flat
  BY SpreadTyped DEF Spread
<1>2. Len(ss) = Len(s) /\ \A k \in 1 .. Len(s) : ss[k] = f[s[k]] /\ Len(ss[k]) <= 1
  BY DEF Lone
<1>. HIDE DEF ss
<1>3. /\ flat \in Seq(S)
      /\ \A i \in 1 .. Len(ss) + 1 : Offset(ss, i) \in Nat
      /\ \A i \in 1 .. Len(ss) : Offset(ss, i + 1) = Offset(ss, i) + Len(ss[i])
      /\ \A i, j \in 1 .. Len(ss) + 1 : i <= j => Offset(ss, i) <= Offset(ss, j)
  BY <1>1, FlattenPlaces
<1>4. /\ \A i \in 1 .. Len(ss) : \A k \in 1 .. Len(ss[i]) :
           /\ Offset(ss, i) + k \in 1 .. Len(flat) /\ flat[Offset(ss, i) + k] = ss[i][k]
      /\ \A p \in 1 .. Len(flat) :
           \E i \in 1 .. Len(ss) : \E k \in 1 .. Len(ss[i]) : p = Offset(ss, i) + k
  BY <1>1, FlattenPlaces
<1>. HIDE DEF flat
<1>5. ToSet(flat) = {flat[p] : p \in 1 .. Len(flat)}
  BY <1>3 DEF ToSet
<1>6. ASSUME NEW k \in 1 .. Len(s), f[s[k]] = <<id>>
      PROVE  Offset(ss, k) + 1 \in 1 .. Len(flat) /\ flat[Offset(ss, k) + 1] = id
             /\ Offset(ss, k + 1) = Offset(ss, k) + 1
  <2>1. ss[k] = <<id>> /\ k \in 1 .. Len(ss)
    BY <1>2, <1>6
  <2>2. Len(<<id>>) = 1 /\ <<id>>[1] = id /\ 1 \in 1 .. 1
    OBVIOUS
  <2>3. Len(ss[k]) = 1 /\ ss[k][1] = id /\ 1 \in 1 .. Len(ss[k])
    BY <2>1, <2>2
  <2>4. Offset(ss, k) + 1 \in 1 .. Len(flat) /\ flat[Offset(ss, k) + 1] = ss[k][1]
    BY <1>4, <2>1, <2>3
  <2>. QED  BY <1>3, <2>1, <2>3, <2>4
<1>7. ASSUME id \in ToSet(flat) PROVE \E k \in 1 .. Len(s) : f[s[k]] = <<id>>
  <2>1. PICK p \in 1 .. Len(flat) : flat[p] = id
    BY <1>5, <1>7
  <2>2. PICK i \in 1 .. Len(ss) : \E k \in 1 .. Len(ss[i]) : p = Offset(ss, i) + k
    BY <1>4
  <2>3. PICK k \in 1 .. Len(ss[i]) : p = Offset(ss, i) + k
    BY <2>2
  <2>4. ss[i][k] = id /\ Len(ss[i]) <= 1 /\ ss[i] = f[s[i]] /\ i \in 1 .. Len(s)
    BY <1>2, <1>4, <2>1, <2>3
  <2>5. ss[i] \in Seq(S)
    BY <1>1
  <2>6. ss[i] = <<id>>
    <3>. DEFINE q == ss[i]
    <3>1. q \in Seq(S) /\ Len(q) <= 1 /\ k \in 1 .. Len(q) /\ q[k] = id
      BY <2>3, <2>4, <2>5
    <3>. HIDE DEF q
    <3>2. k = 1 /\ Len(q) = 1 /\ q[1] = id
      <4>. DEFINE l == Len(q)
      <4>1. l \in Nat /\ l <= 1 /\ k \in 1 .. l
        BY <3>1
      <4>. HIDE DEF l
      <4>2. k = 1 /\ l = 1
        BY <4>1
      <4>. QED  BY <3>1, <4>2 DEF l
    <3>3. q = <<q[1]>>
      BY <3>1, <3>2
    <3>4. q = <<id>>
      BY <3>2, <3>3
    <3>. QED  BY <3>4 DEF q
  <2>. QED  BY <2>4, <2>6
<1>8. ASSUME Single(flat, id), NEW j \in 1 .. Len(s), NEW k \in 1 .. Len(s),
             f[s[j]] = <<id>>, f[s[k]] = <<id>>
      PROVE  j = k
  <2>1. Offset(ss, j) + 1 = Offset(ss, k) + 1
    BY <1>6, <1>8 DEF Single
  <2>2. /\ Offset(ss, j + 1) = Offset(ss, j) + 1 /\ Offset(ss, k + 1) = Offset(ss, k) + 1
        /\ Offset(ss, j) \in Nat /\ Offset(ss, k) \in Nat
    BY <1>2, <1>3, <1>6, <1>8
  <2>3. /\ j < k => Offset(ss, j + 1) <= Offset(ss, k)
        /\ k < j => Offset(ss, k + 1) <= Offset(ss, j)
    <3>1. /\ j \in 1 .. Len(ss) + 1 /\ k \in 1 .. Len(ss) + 1
          /\ j + 1 \in 1 .. Len(ss) + 1 /\ k + 1 \in 1 .. Len(ss) + 1
      <4>1. Len(s) \in Nat
        OBVIOUS
      <4>. QED  BY <1>2, <4>1
    <3>2. (j < k => j + 1 <= k) /\ (k < j => k + 1 <= j)
      OBVIOUS
    <3>. QED  BY <1>3, <3>1, <3>2
  <2>. QED  BY <2>1, <2>2, <2>3
<1>. QED  BY <1>1, <1>5, <1>6, <1>7, <1>8 DEF Sources

\* id, on one block of the types only, is among the ids once.
LEMMA IdsSingle ==
  ASSUME NEW s \in Seq(Block), NEW types, NEW id,
         \A j, k \in Named(s, types) : s[j].id = id /\ s[k].id = id => j = k
  PROVE  Single(IdsOf(s, types), id)
<1>. DEFINE ids == IdsOf(s, types)
<1>1. PICK pos \in [1 .. Len(ids) -> Named(s, types)] :
        /\ \A n \in 1 .. Len(ids) : ids[n] = s[pos[n]].id
        /\ \A m, n \in 1 .. Len(ids) : m < n => pos[m] < pos[n]
  BY IdsOfIs
<1>2. ids \in Seq(Ids \cup ServerTypes)
  BY IdsOfIs
<1>. HIDE DEF ids
<1>3. ASSUME NEW m \in 1 .. Len(ids), NEW n \in 1 .. Len(ids), ids[m] = id, ids[n] = id, m < n
      PROVE  FALSE
  <2>1. pos[m] = pos[n] /\ pos[m] < pos[n]
    BY <1>1, <1>3
  <2>2. pos[m] \in Int /\ pos[n] \in Int
    BY <1>1 DEF Named
  <2>. QED  BY <2>1, <2>2
<1>4. \A m, n \in 1 .. Len(ids) : ids[m] = id /\ ids[n] = id => m = n
  <2>. TAKE m, n \in 1 .. Len(ids)
  <2>. HAVE ids[m] = id /\ ids[n] = id
  <2>1. ~(m < n) /\ ~(n < m) /\ m \in Nat /\ n \in Nat
    BY <1>2, <1>3
  <2>. QED  BY <2>1
<1>. QED  BY <1>4 DEF Single, ids

\* Blocks call or answer id.
UsedIn(blocks, id) == \E k \in 1 .. Len(blocks) : IsUse(blocks[k]) /\ blocks[k].id = id

AnsweredIn(blocks, id) == \E k \in 1 .. Len(blocks) : IsResult(blocks[k]) /\ blocks[k].id = id

UsedOnce(blocks, id) ==
  \A j, k \in 1 .. Len(blocks) :
    /\ IsUse(blocks[j]) /\ blocks[j].id = id
    /\ IsUse(blocks[k]) /\ blocks[k].id = id
    => j = k

AnsweredOnce(blocks, id) ==
  \A j, k \in 1 .. Len(blocks) :
    /\ IsResult(blocks[j]) /\ blocks[j].id = id
    /\ IsResult(blocks[k]) /\ blocks[k].id = id
    => j = k

\* What Matched says of one id.
LEMMA MatchedFor ==
  ASSUME NEW out \in Seq(Turn), Matched(out), NEW id
  PROVE  /\ \A i \in 1 .. Len(out) :
              UsedOnce(out[i].content, id) /\ AnsweredOnce(out[i].content, id)
         /\ \A i, j \in 1 .. Len(out) :
              UsedIn(out[i].content, id) /\ UsedIn(out[j].content, id) => i = j
         /\ \A i, j \in 1 .. Len(out) :
              AnsweredIn(out[i].content, id) /\ AnsweredIn(out[j].content, id) => i = j
         /\ \A i \in 1 .. Len(out) : UsedIn(out[i].content, id) =>
              /\ out[i].role = "assistant" /\ i + 1 \in 1 .. Len(out) /\ out[i + 1].role = "user"
              /\ AnsweredIn(out[i + 1].content, id)
         /\ \A i \in 1 .. Len(out) : AnsweredIn(out[i].content, id) =>
              /\ out[i].role = "user" /\ i - 1 \in 1 .. Len(out) /\ out[i - 1].role = "assistant"
              /\ UsedIn(out[i - 1].content, id)
<1>1. \A p, q \in 1 .. Len(out) :
        \A k \in 1 .. Len(out[p].content), l \in 1 .. Len(out[q].content) :
          /\ out[p].content[k].id = out[q].content[l].id
          /\ \/ IsUse(out[p].content[k]) /\ IsUse(out[q].content[l])
             \/ IsResult(out[p].content[k]) /\ IsResult(out[q].content[l])
          => p = q /\ k = l
  BY Zenon DEF Matched
<1>2. ASSUME NEW i \in 1 .. Len(out)
      PROVE  UsedOnce(out[i].content, id) /\ AnsweredOnce(out[i].content, id)
  <2>1. UsedOnce(out[i].content, id)
    <3>1. \A k, l \in 1 .. Len(out[i].content) :
            /\ out[i].content[k].id = out[i].content[l].id
            /\ IsUse(out[i].content[k]) /\ IsUse(out[i].content[l])
            => k = l
      BY <1>1, Zenon
    <3>. QED  BY <3>1, Zenon DEF UsedOnce
  <2>2. AnsweredOnce(out[i].content, id)
    <3>1. \A k, l \in 1 .. Len(out[i].content) :
            /\ out[i].content[k].id = out[i].content[l].id
            /\ IsResult(out[i].content[k]) /\ IsResult(out[i].content[l])
            => k = l
      BY <1>1, Zenon
    <3>. QED  BY <3>1, Zenon DEF AnsweredOnce
  <2>. QED  BY <2>1, <2>2
<1>3. ASSUME NEW i \in 1 .. Len(out), NEW j \in 1 .. Len(out)
      PROVE  /\ UsedIn(out[i].content, id) /\ UsedIn(out[j].content, id) => i = j
             /\ AnsweredIn(out[i].content, id) /\ AnsweredIn(out[j].content, id) => i = j
  <2>1. ASSUME UsedIn(out[i].content, id), UsedIn(out[j].content, id) PROVE i = j
    <3>1. PICK k \in 1 .. Len(out[i].content) : IsUse(out[i].content[k]) /\ out[i].content[k].id = id
      BY <2>1 DEF UsedIn
    <3>2. PICK l \in 1 .. Len(out[j].content) : IsUse(out[j].content[l]) /\ out[j].content[l].id = id
      BY <2>1 DEF UsedIn
    <3>3. out[i].content[k].id = out[j].content[l].id
      BY <3>1, <3>2
    <3>. QED  BY <1>1, <3>1, <3>2, <3>3, Zenon
  <2>2. ASSUME AnsweredIn(out[i].content, id), AnsweredIn(out[j].content, id) PROVE i = j
    <3>1. PICK k \in 1 .. Len(out[i].content) : IsResult(out[i].content[k]) /\ out[i].content[k].id = id
      BY <2>2 DEF AnsweredIn
    <3>2. PICK l \in 1 .. Len(out[j].content) : IsResult(out[j].content[l]) /\ out[j].content[l].id = id
      BY <2>2 DEF AnsweredIn
    <3>3. out[i].content[k].id = out[j].content[l].id
      BY <3>1, <3>2
    <3>. QED  BY <1>1, <3>1, <3>2, <3>3, Zenon
  <2>. QED  BY <2>1, <2>2
<1>4. ASSUME NEW i \in 1 .. Len(out), UsedIn(out[i].content, id)
      PROVE  /\ out[i].role = "assistant" /\ i + 1 \in 1 .. Len(out) /\ out[i + 1].role = "user"
             /\ AnsweredIn(out[i + 1].content, id)
  <2>1. PICK k \in 1 .. Len(out[i].content) : IsUse(out[i].content[k]) /\ out[i].content[k].id = id
    BY <1>4 DEF UsedIn
  <2>2. IsUse(out[i].content[k]) =>
          /\ out[i].content[k].id \in Ids /\ out[i].role = "assistant"
          /\ i + 1 \in 1 .. Len(out) /\ out[i + 1].role = "user"
          /\ \E l \in 1 .. Len(out[i + 1].content) :
               IsResult(out[i + 1].content[l]) /\ out[i + 1].content[l].id = out[i].content[k].id
    BY Zenon DEF Matched
  <2>. QED  BY <2>1, <2>2, Zenon DEF AnsweredIn
<1>5. ASSUME NEW i \in 1 .. Len(out), AnsweredIn(out[i].content, id)
      PROVE  /\ out[i].role = "user" /\ i - 1 \in 1 .. Len(out) /\ out[i - 1].role = "assistant"
             /\ UsedIn(out[i - 1].content, id)
  <2>1. PICK k \in 1 .. Len(out[i].content) : IsResult(out[i].content[k]) /\ out[i].content[k].id = id
    BY <1>5 DEF AnsweredIn
  <2>2. IsResult(out[i].content[k]) =>
          /\ out[i].content[k].id \in Ids /\ out[i].role = "user"
          /\ i - 1 \in 1 .. Len(out) /\ out[i - 1].role = "assistant"
          /\ \E l \in 1 .. Len(out[i - 1].content) :
               IsUse(out[i - 1].content[l]) /\ out[i - 1].content[l].id = out[i].content[k].id
    BY Zenon DEF Matched
  <2>. QED  BY <2>1, <2>2, Zenon DEF UsedIn
<1>. QED  BY <1>2, <1>3, <1>4, <1>5

\* A client tool's call is among the ids of every kind of calls, an answer among those
\* of results.
LEMMA IdsAre ==
  ASSUME NEW id \in Ids
  PROVE  /\ \A s \in Seq(AssistantBlock), types \in {{"tool_use"}, ItemTypes, CallTypes} :
              /\ id \in ToSet(IdsOf(s, types)) <=> UsedIn(s, id)
              /\ UsedOnce(s, id) => Single(IdsOf(s, types), id)
         /\ \A s \in Seq(UserBlock) :
              /\ id \in ToSet(IdsOf(s, {"tool_result"})) <=> AnsweredIn(s, id)
              /\ AnsweredOnce(s, id) => Single(IdsOf(s, {"tool_result"}), id)
<1>0. id # NoId /\ id \notin ServerTypes
  BY TranslationAssumption
<1>1. ASSUME NEW s \in Seq(AssistantBlock), NEW types \in {{"tool_use"}, ItemTypes, CallTypes}
      PROVE  /\ id \in ToSet(IdsOf(s, types)) <=> UsedIn(s, id)
             /\ UsedOnce(s, id) => Single(IdsOf(s, types), id)
  <2>1. s \in Seq(Block)
    BY BlocksAre
  <2>2. ASSUME NEW k \in 1 .. Len(s)
        PROVE  k \in Named(s, types) /\ s[k].id = id <=> IsUse(s[k]) /\ s[k].id = id
    <3>1. s[k] \in AssistantBlock
      OBVIOUS
    <3>2. s[k].type \in ServerTypes => s[k].id \in ServerTypes
      BY <3>1, AssistantBlockIs
    <3>3. types \subseteq {"tool_use"} \cup ServerTypes /\ "tool_use" \in types
      BY DEF ItemTypes, CallTypes, ServerTypes
    <3>. QED  BY <1>0, <3>2, <3>3 DEF Named, IsUse
  <2>3. ToSet(IdsOf(s, types)) = {s[k].id : k \in Named(s, types)}
    BY <2>1, IdsOfIs
  <2>4. Named(s, types) \subseteq 1 .. Len(s)
    BY DEF Named
  <2>5. id \in ToSet(IdsOf(s, types)) <=> UsedIn(s, id)
    BY <2>2, <2>3, <2>4 DEF UsedIn
  <2>6. ASSUME UsedOnce(s, id) PROVE Single(IdsOf(s, types), id)
    <3>1. \A j, k \in Named(s, types) : s[j].id = id /\ s[k].id = id => j = k
      BY <2>2, <2>4, <2>6 DEF UsedOnce
    <3>. QED  BY <2>1, <3>1, IdsSingle
  <2>. QED  BY <2>5, <2>6
<1>2. ASSUME NEW s \in Seq(UserBlock)
      PROVE  /\ id \in ToSet(IdsOf(s, {"tool_result"})) <=> AnsweredIn(s, id)
             /\ AnsweredOnce(s, id) => Single(IdsOf(s, {"tool_result"}), id)
  <2>1. s \in Seq(Block)
    BY BlocksAre
  <2>. DEFINE K == Named(s, {"tool_result"})
  <2>2. \A k \in 1 .. Len(s) : k \in K /\ s[k].id = id <=> IsResult(s[k]) /\ s[k].id = id
    BY <1>0 DEF Named, IsResult
  <2>3. ToSet(IdsOf(s, {"tool_result"})) = {s[k].id : k \in K}
    BY <2>1, IdsOfIs
  <2>4. K \subseteq 1 .. Len(s)
    BY DEF Named
  <2>5. id \in ToSet(IdsOf(s, {"tool_result"})) <=> AnsweredIn(s, id)
    <3>. HIDE DEF K
    <3>. QED  BY <2>2, <2>3, <2>4 DEF AnsweredIn
  <2>6. ASSUME AnsweredOnce(s, id) PROVE Single(IdsOf(s, {"tool_result"}), id)
    <3>1. \A j, k \in K : s[j].id = id /\ s[k].id = id => j = k
      <4>. HIDE DEF K
      <4>. QED  BY <2>2, <2>4, <2>6 DEF AnsweredOnce
    <3>. QED  BY <2>1, <3>1, IdsSingle
  <2>. QED  BY <2>5, <2>6
<1>. QED  BY <1>1, <1>2

\* The messages that answer id, the items that do and those that make the call.
Tools(id) == {m \in ChatMessage : m.role = "tool" /\ m.calls = <<id>>}

OutputsFor(id) == {m \in Item : m.type \in OutputItems /\ m.id = id}

CallsFor(id) == {m \in Item : m.type \in CallItems /\ m.id = id}

\* A message goes out with each of its calls and answers once.
LEMMA SentOnce ==
  ASSUME NEW id \in Ids
  PROVE  /\ \A s \in Seq(UserBlock) : LET w == Where(ConvertUserBlocks(s), Tools(id)) IN
              /\ w # {} <=> AnsweredIn(s, id)
              /\ AnsweredOnce(s, id) => \A j, k \in w : j = k
         /\ \A s \in Seq(UserBlock) : \A kinds : LET w == Where(UserItems(s, kinds), OutputsFor(id)) IN
              /\ w # {} <=> AnsweredIn(s, id)
              /\ AnsweredOnce(s, id) => \A j, k \in w : j = k
         /\ \A s \in Seq(AssistantBlock) : LET w == Where(AssistantItems(s), CallsFor(id)) IN
              /\ w # {} <=> UsedIn(s, id)
              /\ UsedOnce(s, id) => \A j, k \in w : j = k
<1>1. ASSUME NEW s \in Seq(UserBlock)
      PROVE  LET w == Where(ConvertUserBlocks(s), Tools(id)) IN
               /\ w # {} <=> AnsweredIn(s, id)
               /\ AnsweredOnce(s, id) => \A j, k \in w : j = k
  <2>. DEFINE r == ConvertUserBlocks(s)
  <2>1. /\ r \in Seq(ChatMessage) /\ Spread(ToolIds, r) = IdsOf(s, {"tool_result"})
        /\ \A n \in 1 .. Len(r) : r[n].role = "tool" => r[n].calls = << r[n].calls[1] >>
    BY UserConverted
  <2>. HIDE DEF r
  <2>2. ASSUME NEW k \in 1 .. Len(r)
        PROVE  (k \in Where(r, Tools(id)) <=> ToolIds[r[k]] = <<id>>) /\ Len(ToolIds[r[k]]) <= 1
    <3>1. r[k] \in ChatMessage
      BY <2>1
    <3>2. ToolIds[r[k]] = IF r[k].role = "tool" THEN r[k].calls ELSE <<>>
      BY <3>1 DEF ToolIds
    <3>3. <<>> # <<id>> /\ Len(<<>>) = 0
      OBVIOUS
    <3>4. r[k].role = "tool" => Len(r[k].calls) = 1
      <4>1. \A y : Len(<< y >>) = 1
        OBVIOUS
      <4>. QED  BY <2>1, <4>1
    <3>5. Len(ToolIds[r[k]]) = 0 \/ Len(ToolIds[r[k]]) = 1
      BY <3>2, <3>3, <3>4, Zenon
    <3>7. Len(ToolIds[r[k]]) <= 1
      <4>1. 0 <= 1 /\ 1 <= 1
        OBVIOUS
      <4>. QED  BY <3>5, <4>1, Zenon
    <3>6. k \in Where(r, Tools(id)) <=> r[k].role = "tool" /\ r[k].calls = <<id>>
      BY <3>1 DEF Where, Tools
    <3>. QED  BY <3>2, <3>3, <3>6, <3>7, Zenon
  <2>3. Lone(ToolIds, r)
    BY <2>2 DEF Lone
  <2>4. /\ id \in ToSet(Spread(ToolIds, r)) <=> Sources(ToolIds, r, id) # {}
        /\ Single(Spread(ToolIds, r), id) => \A j, k \in Sources(ToolIds, r, id) : j = k
    BY <2>1, <2>3, ReadTyped, SpreadPlaces
  <2>5. Where(r, Tools(id)) = Sources(ToolIds, r, id)
    BY <2>2 DEF Where, Sources
  <2>. QED  BY <2>1, <2>4, <2>5, IdsAre DEF r
<1>2. ASSUME NEW s \in Seq(UserBlock), NEW kinds
      PROVE  LET w == Where(UserItems(s, kinds), OutputsFor(id)) IN
               /\ w # {} <=> AnsweredIn(s, id)
               /\ AnsweredOnce(s, id) => \A j, k \in w : j = k
  <2>. DEFINE r == UserItems(s, kinds)
  <2>1. r \in Seq(Item) /\ Spread(OutputIds, r) = IdsOf(s, {"tool_result"})
    BY UserItemized
  <2>. HIDE DEF r
  <2>2. ASSUME NEW k \in 1 .. Len(r)
        PROVE  (k \in Where(r, OutputsFor(id)) <=> OutputIds[r[k]] = <<id>>)
               /\ Len(OutputIds[r[k]]) <= 1
    <3>1. r[k] \in Item
      BY <2>1
    <3>2. OutputIds[r[k]] = IF r[k].type \in OutputItems THEN << r[k].id >> ELSE <<>>
      BY <3>1 DEF OutputIds
    <3>3. k \in Where(r, OutputsFor(id)) <=> r[k].type \in OutputItems /\ r[k].id = id
      BY <3>1 DEF Where, OutputsFor
    <3>4. \A y : <<>> # <<id>> /\ Len(<<>>) = 0 /\ Len(<< y >>) = 1 /\ (<< y >> = <<id>> <=> y = id)
      OBVIOUS
    <3>. QED  BY <3>2, <3>3, <3>4
  <2>3. Lone(OutputIds, r)
    BY <2>2 DEF Lone
  <2>4. /\ id \in ToSet(Spread(OutputIds, r)) <=> Sources(OutputIds, r, id) # {}
        /\ Single(Spread(OutputIds, r), id) => \A j, k \in Sources(OutputIds, r, id) : j = k
    BY <2>1, <2>3, ReadTyped, SpreadPlaces
  <2>5. Where(r, OutputsFor(id)) = Sources(OutputIds, r, id)
    BY <2>2 DEF Where, Sources
  <2>. QED  BY <2>1, <2>4, <2>5, IdsAre DEF r
<1>3. ASSUME NEW s \in Seq(AssistantBlock)
      PROVE  LET w == Where(AssistantItems(s), CallsFor(id)) IN
               /\ w # {} <=> UsedIn(s, id)
               /\ UsedOnce(s, id) => \A j, k \in w : j = k
  <2>. DEFINE r == AssistantItems(s)
  <2>1. r \in Seq(Item) /\ Spread(CallIds, r) = IdsOf(s, ItemTypes)
    BY AssistantItemized
  <2>. HIDE DEF r
  <2>2. ASSUME NEW k \in 1 .. Len(r)
        PROVE  (k \in Where(r, CallsFor(id)) <=> CallIds[r[k]] = <<id>>)
               /\ Len(CallIds[r[k]]) <= 1
    <3>1. r[k] \in Item
      BY <2>1
    <3>2. CallIds[r[k]] = IF r[k].type \in CallItems THEN << r[k].id >> ELSE <<>>
      BY <3>1 DEF CallIds
    <3>3. k \in Where(r, CallsFor(id)) <=> r[k].type \in CallItems /\ r[k].id = id
      BY <3>1 DEF Where, CallsFor
    <3>4. \A y : <<>> # <<id>> /\ Len(<<>>) = 0 /\ Len(<< y >>) = 1 /\ (<< y >> = <<id>> <=> y = id)
      OBVIOUS
    <3>. QED  BY <3>2, <3>3, <3>4
  <2>3. Lone(CallIds, r)
    BY <2>2 DEF Lone
  <2>4. /\ id \in ToSet(Spread(CallIds, r)) <=> Sources(CallIds, r, id) # {}
        /\ Single(Spread(CallIds, r), id) => \A j, k \in Sources(CallIds, r, id) : j = k
    BY <2>1, <2>3, ReadTyped, SpreadPlaces
  <2>5. Where(r, CallsFor(id)) = Sources(CallIds, r, id)
    BY <2>2 DEF Where, Sources
  <2>. QED  BY <2>1, <2>4, <2>5, IdsAre DEF r
<1>. QED  BY <1>1, <1>2, <1>3

\* The messages that make call id.
Callers(id) == {m \in ChatMessage : m.role = "assistant" /\ id \in ToSet(m.calls)}

LEMMA CallersIn ==
  ASSUME NEW id \in Ids
  PROVE  /\ \A s \in Seq(AssistantBlock) : \A k :
              /\ k \in Where(ConvertAssistantBlocks(s), Callers(id)) <=> k = 1 /\ UsedIn(s, id)
              /\ k \notin Where(ConvertAssistantBlocks(s), Tools(id))
         /\ \A s \in Seq(UserBlock) : \A k : k \notin Where(ConvertUserBlocks(s), Callers(id))
<1>1. ASSUME NEW s \in Seq(AssistantBlock), NEW k
      PROVE  /\ k \in Where(ConvertAssistantBlocks(s), Callers(id)) <=> k = 1 /\ UsedIn(s, id)
             /\ k \notin Where(ConvertAssistantBlocks(s), Tools(id))
  <2>. DEFINE r == ConvertAssistantBlocks(s)
  <2>1. /\ r \in Seq(ChatMessage) /\ Len(r) \in 1 .. 2 /\ r[1].calls = IdsOf(s, CallTypes)
        /\ \A n \in 1 .. Len(r) : r[n].role = "assistant" /\ (n # 1 => r[n].calls = <<>>)
    BY AssistantConverted
  <2>2. id \in ToSet(IdsOf(s, CallTypes)) <=> UsedIn(s, id)
    BY IdsAre
  <2>. HIDE DEF r
  <2>3. 1 \in 1 .. Len(r) /\ \A n \in 1 .. Len(r) : r[n] \in ChatMessage
    BY <2>1
  <2>4. id \notin ToSet(<<>>)
    BY DEF ToSet
  <2>5. k \in Where(r, Callers(id)) <=>
          k \in 1 .. Len(r) /\ r[k].role = "assistant" /\ id \in ToSet(r[k].calls)
    BY <2>3 DEF Where, Callers
  <2>6. k \notin Where(r, Tools(id))
    BY <2>1 DEF Where, Tools
  <2>. QED  BY <2>1, <2>2, <2>3, <2>4, <2>5, <2>6 DEF r
<1>2. ASSUME NEW s \in Seq(UserBlock), NEW k
      PROVE  k \notin Where(ConvertUserBlocks(s), Callers(id))
  <2>. DEFINE r == ConvertUserBlocks(s)
  <2>1. \A n \in 1 .. Len(r) : r[n].role \in {"user", "tool"}
    BY UserConverted
  <2>. HIDE DEF r
  <2>2. k \notin Where(r, Callers(id))
    BY <2>1 DEF Where, Callers
  <2>. QED  BY <2>2 DEF r
<1>. QED  BY <1>1, <1>2

LEMMA ChatMatched ==
  ASSUME NEW out \in Seq(Turn), Matched(out), NEW id \in Ids
  PROVE  LET r     == ConvertMessages(out)
             calls == Where(r, Callers(id))
             tools == Where(r, Tools(id))
         IN  /\ \A c, d \in calls : c = d
             /\ \A t, u \in tools : t = u
             /\ calls = {} <=> tools = {}
             /\ \A c \in calls, t \in tools :
                  /\ c < t
                  /\ \A n \in c + 1 .. t - 1 : r[n].role = "assistant" => r[n].calls = <<>>
<1>. DEFINE r == ConvertMessages(out)
            calls == Where(r, Callers(id))
            tools == Where(r, Tools(id))
            cc == [i \in 1 .. Len(out) |-> ChatOf(out[i])]
            O(i) == Offset(cc, i)
<1>1. cc \in Seq(Seq(ChatMessage)) /\ r = FlattenSeq(cc) /\ r \in Seq(ChatMessage)
  BY ConvertedIs
<1>2. Len(cc) = Len(out) /\ Len(out) \in Nat /\ \A i \in 1 .. Len(out) : cc[i] = ChatOf(out[i])
  OBVIOUS
<1>. HIDE DEF cc, r
<1>3. /\ \A i \in 1 .. Len(out) + 1 : O(i) \in Nat
      /\ \A i \in 1 .. Len(out) : O(i + 1) = O(i) + Len(cc[i])
      /\ \A i, j \in 1 .. Len(out) + 1 : i <= j => O(i) <= O(j)
  BY <1>1, <1>2, FlattenPlaces
<1>4. /\ \A i \in 1 .. Len(out) : \A k \in 1 .. Len(cc[i]) :
           O(i) + k \in 1 .. Len(r) /\ r[O(i) + k] = cc[i][k]
      /\ \A p \in 1 .. Len(r) :
           \E i \in 1 .. Len(out) : \E k \in 1 .. Len(cc[i]) : p = O(i) + k
  BY <1>1, <1>2, FlattenPlaces
<1>5. \A x : x \in calls <=>
        \E i \in 1 .. Len(out) : \E k \in Where(cc[i], Callers(id)) : x = O(i) + k
  BY <1>1, <1>2, WhereFlat
<1>6. \A x : x \in tools <=>
        \E i \in 1 .. Len(out) : \E k \in Where(cc[i], Tools(id)) : x = O(i) + k
  BY <1>1, <1>2, WhereFlat
<1>7. /\ \A i \in 1 .. Len(out) : UsedOnce(out[i].content, id) /\ AnsweredOnce(out[i].content, id)
      /\ \A i, j \in 1 .. Len(out) :
           UsedIn(out[i].content, id) /\ UsedIn(out[j].content, id) => i = j
      /\ \A i, j \in 1 .. Len(out) :
           AnsweredIn(out[i].content, id) /\ AnsweredIn(out[j].content, id) => i = j
      /\ \A i \in 1 .. Len(out) : UsedIn(out[i].content, id) =>
           /\ out[i].role = "assistant" /\ i + 1 \in 1 .. Len(out) /\ out[i + 1].role = "user"
           /\ AnsweredIn(out[i + 1].content, id)
      /\ \A i \in 1 .. Len(out) : AnsweredIn(out[i].content, id) =>
           /\ out[i].role = "user" /\ i - 1 \in 1 .. Len(out) /\ out[i - 1].role = "assistant"
           /\ UsedIn(out[i - 1].content, id)
  BY MatchedFor
<1>8. \A i \in 1 .. Len(out) :
        /\ out[i].role \in {"user", "assistant"}
        /\ out[i].role = "user" =>
             out[i].content \in Seq(UserBlock) /\ cc[i] = ConvertUserBlocks(out[i].content)
        /\ out[i].role = "assistant" =>
             out[i].content \in Seq(AssistantBlock) /\ cc[i] = ConvertAssistantBlocks(out[i].content)
  BY <1>2, TurnIs DEF ChatOf
<1>. HIDE DEF calls, tools, O
<1>9. ASSUME NEW i \in 1 .. Len(out)
      PROVE  /\ \A k : k \in Where(cc[i], Callers(id)) <=> k = 1 /\ UsedIn(out[i].content, id)
             /\ Where(cc[i], Tools(id)) # {} <=> AnsweredIn(out[i].content, id)
             /\ \A j, k \in Where(cc[i], Tools(id)) : j = k
  <2>1. CASE out[i].role = "user"
    <3>1. out[i].content \in Seq(UserBlock) /\ cc[i] = ConvertUserBlocks(out[i].content)
      BY <1>8, <2>1
    <3>2. \A k : k \notin Where(cc[i], Callers(id))
      BY <3>1, CallersIn
    <3>3. ~UsedIn(out[i].content, id)
      BY <3>1, RolesApart DEF UsedIn
    <3>4. /\ Where(cc[i], Tools(id)) # {} <=> AnsweredIn(out[i].content, id)
          /\ AnsweredOnce(out[i].content, id) => \A j, k \in Where(cc[i], Tools(id)) : j = k
      BY <3>1, SentOnce
    <3>. QED  BY <1>7, <3>2, <3>3, <3>4
  <2>2. CASE out[i].role = "assistant"
    <3>1. out[i].content \in Seq(AssistantBlock) /\ cc[i] = ConvertAssistantBlocks(out[i].content)
      BY <1>8, <2>2
    <3>2. \A k : /\ k \in Where(cc[i], Callers(id)) <=> k = 1 /\ UsedIn(out[i].content, id)
                 /\ k \notin Where(cc[i], Tools(id))
      BY <3>1, CallersIn
    <3>3. ~AnsweredIn(out[i].content, id)
      BY <3>1, RolesApart DEF AnsweredIn
    <3>. QED  BY <3>2, <3>3
  <2>. QED  BY <1>8, <2>1, <2>2
<1>10. ASSUME NEW c \in calls
       PROVE  \E i \in 1 .. Len(out) : c = O(i) + 1 /\ UsedIn(out[i].content, id)
  <2>1. PICK i \in 1 .. Len(out) : \E k \in Where(cc[i], Callers(id)) : c = O(i) + k
    BY <1>5
  <2>. QED  BY <1>9, <2>1
<1>11. ASSUME NEW t \in tools
       PROVE  \E i \in 1 .. Len(out) : \E k \in Where(cc[i], Tools(id)) :
                t = O(i) + k /\ AnsweredIn(out[i].content, id)
  <2>1. PICK i \in 1 .. Len(out) : \E k \in Where(cc[i], Tools(id)) : t = O(i) + k
    BY <1>6
  <2>. QED  BY <1>9, <2>1
<1>12. \A c, d \in calls : c = d
  <2>. TAKE c, d \in calls
  <2>1. PICK i \in 1 .. Len(out) : c = O(i) + 1 /\ UsedIn(out[i].content, id)
    BY <1>10
  <2>2. PICK j \in 1 .. Len(out) : d = O(j) + 1 /\ UsedIn(out[j].content, id)
    BY <1>10
  <2>3. i = j
    BY <1>7, <2>1, <2>2
  <2>. QED  BY <2>1, <2>2, <2>3
<1>13. \A t, u \in tools : t = u
  <2>. TAKE t, u \in tools
  <2>1. PICK i \in 1 .. Len(out) : \E k \in Where(cc[i], Tools(id)) :
          t = O(i) + k /\ AnsweredIn(out[i].content, id)
    BY <1>11
  <2>2. PICK j \in 1 .. Len(out) : \E k \in Where(cc[j], Tools(id)) :
          u = O(j) + k /\ AnsweredIn(out[j].content, id)
    BY <1>11
  <2>3. i = j
    BY <1>7, <2>1, <2>2
  <2>4. PICK k \in Where(cc[i], Tools(id)) : t = O(i) + k
    BY <2>1
  <2>5. PICK l \in Where(cc[i], Tools(id)) : u = O(i) + l
    BY <2>2, <2>3
  <2>6. k = l
    BY <1>9
  <2>. QED  BY <2>4, <2>5, <2>6
<1>14. ASSUME NEW c \in calls PROVE tools # {}
  <2>1. PICK i \in 1 .. Len(out) : c = O(i) + 1 /\ UsedIn(out[i].content, id)
    BY <1>10
  <2>2. i + 1 \in 1 .. Len(out) /\ AnsweredIn(out[i + 1].content, id)
    BY <1>7, <2>1
  <2>3. PICK k \in Where(cc[i + 1], Tools(id)) : TRUE
    BY <1>9, <2>2
  <2>4. O(i + 1) + k \in tools
    BY <1>6, <2>2
  <2>. QED  BY <2>4
<1>15. ASSUME NEW t \in tools PROVE calls # {}
  <2>1. PICK i \in 1 .. Len(out) : AnsweredIn(out[i].content, id)
    BY <1>11
  <2>2. i - 1 \in 1 .. Len(out) /\ UsedIn(out[i - 1].content, id)
    BY <1>7, <2>1
  <2>3. 1 \in Where(cc[i - 1], Callers(id))
    BY <1>9, <2>2
  <2>4. O(i - 1) + 1 \in calls
    BY <1>5, <2>2, <2>3
  <2>. QED  BY <2>4
<1>16. ASSUME NEW c \in calls, NEW t \in tools
       PROVE  /\ c < t
              /\ \A n \in c + 1 .. t - 1 : r[n].role = "assistant" => r[n].calls = <<>>
  <2>1. PICK i \in 1 .. Len(out) : c = O(i) + 1 /\ UsedIn(out[i].content, id)
    BY <1>10
  <2>2. /\ out[i].role = "assistant" /\ i + 1 \in 1 .. Len(out) /\ out[i + 1].role = "user"
        /\ AnsweredIn(out[i + 1].content, id)
    BY <1>7, <2>1
  <2>3. PICK j \in 1 .. Len(out) : \E k \in Where(cc[j], Tools(id)) :
          t = O(j) + k /\ AnsweredIn(out[j].content, id)
    BY <1>11
  <2>4. j = i + 1
    BY <1>7, <2>2, <2>3
  <2>5. PICK k \in Where(cc[i + 1], Tools(id)) : t = O(i + 1) + k
    BY <2>3, <2>4
  <2>6. k \in 1 .. Len(cc[i + 1]) /\ Len(cc[i + 1]) \in Nat
    <3>1. cc[i + 1] \in Seq(ChatMessage)
      BY <1>1, <1>2, <2>2
    <3>. QED  BY <3>1 DEF Where
  <2>7. /\ Len(cc[i]) \in 1 .. 2
        /\ \A n \in 1 .. Len(cc[i]) : n # 1 => cc[i][n].calls = <<>>
        /\ \A n \in 1 .. Len(cc[i + 1]) : cc[i + 1][n].role \in {"user", "tool"}
    <3>1. out[i].content \in Seq(AssistantBlock) /\ cc[i] = ConvertAssistantBlocks(out[i].content)
      BY <1>8, <2>2
    <3>2. out[i + 1].content \in Seq(UserBlock) /\ cc[i + 1] = ConvertUserBlocks(out[i + 1].content)
      BY <1>8, <2>2
    <3>3. /\ Len(cc[i]) \in 1 .. 2
          /\ \A n \in 1 .. Len(cc[i]) : n # 1 => cc[i][n].calls = <<>>
      BY <3>1, AssistantConverted
    <3>4. \A n \in 1 .. Len(cc[i + 1]) : cc[i + 1][n].role \in {"user", "tool"}
      BY <3>2, UserConverted
    <3>. QED  BY <3>3, <3>4
  <2>. DEFINE x == O(i)
              l == Len(cc[i])
              y == O(i + 1)
              m == Len(cc[i + 1])
              z == O(i + 2)
  <2>8. /\ x \in Nat /\ y = x + l /\ z = y + m /\ l \in 1 .. 2 /\ m \in Nat /\ y \in Nat
        /\ c = x + 1 /\ t = y + k /\ k \in 1 .. m
    <3>1. i + 1 + 1 = i + 2 /\ i \in 1 .. Len(out) + 1 /\ i + 1 \in 1 .. Len(out) + 1
      BY <1>2, <2>2
    <3>2. O(i + 1) = O(i) + Len(cc[i]) /\ O(i + 2) = O(i + 1) + Len(cc[i + 1])
      BY <1>3, <2>2, <3>1
    <3>3. O(i) \in Nat /\ O(i + 1) \in Nat
      BY <1>3, <3>1
    <3>. QED  BY <2>1, <2>5, <2>6, <2>7, <3>2, <3>3
  <2>9. ASSUME NEW n \in c + 1 .. t - 1, r[n].role = "assistant" PROVE r[n].calls = <<>>
    <3>1. n \in 1 .. Len(r)
      <4>1. t \in 1 .. Len(r) /\ r \in Seq(ChatMessage)
        BY <1>1, <1>4, <2>2, <2>5, <2>6
      <4>2. Len(r) \in Nat
        BY <4>1
      <4>. HIDE DEF x, l, y, m, z
      <4>3. c \in Nat /\ t \in Nat
        BY <2>8
      <4>. QED  BY <4>1, <4>2, <4>3
    <3>2. PICK p \in 1 .. Len(out) : \E q \in 1 .. Len(cc[p]) : n = O(p) + q
      BY <1>4, <3>1
    <3>3. PICK q \in 1 .. Len(cc[p]) : n = O(p) + q
      BY <3>2
    <3>4. /\ O(p) \in Nat /\ O(p + 1) = O(p) + Len(cc[p]) /\ Len(cc[p]) \in Nat
          /\ p < i => O(p + 1) <= x
          /\ i + 1 < p => z <= O(p)
      <4>1. /\ p \in 1 .. Len(out) + 1 /\ p + 1 \in 1 .. Len(out) + 1 /\ i \in 1 .. Len(out) + 1
            /\ i + 2 \in 1 .. Len(out) + 1
            /\ (p < i => p + 1 <= i) /\ (i + 1 < p => i + 2 <= p)
        BY <1>2, <2>2
      <4>2. cc[p] \in Seq(ChatMessage)
        BY <1>1, <1>2
      <4>3. O(p) \in Nat /\ O(p + 1) = O(p) + Len(cc[p]) /\ Len(cc[p]) \in Nat
        BY <1>3, <4>1, <4>2
      <4>4. \A a, b \in 1 .. Len(out) + 1 : a <= b => O(a) <= O(b)
        BY <1>3
      <4>5. p < i => O(p + 1) <= O(i)
        BY <4>1, <4>4
      <4>6. i + 1 < p => O(i + 2) <= O(p)
        BY <4>1, <4>4
      <4>. QED  BY <4>3, <4>5, <4>6
    <3>5. ~(p < i) /\ ~(i + 1 < p)
      <4>. DEFINE o == O(p)
                  w == Len(cc[p])
                  v == O(p + 1)
      <4>1. /\ o \in Nat /\ w \in Nat /\ v = o + w /\ q \in 1 .. w /\ n = o + q
            /\ p < i => v <= x
            /\ i + 1 < p => z <= o
        BY <3>3, <3>4
      <4>. HIDE DEF x, l, y, m, z, o, w, v
      <4>2. ASSUME p < i PROVE FALSE
        BY <2>8, <4>1, <4>2
      <4>3. ASSUME i + 1 < p PROVE FALSE
        BY <2>8, <4>1, <4>3
      <4>. QED  BY <4>2, <4>3
    <3>6. p = i \/ p = i + 1
      BY <3>5
    <3>7. CASE p = i
      <4>1. n = x + q /\ q \in 1 .. Len(cc[i]) /\ n # x + 1
        <5>1. n = x + q /\ q \in 1 .. Len(cc[i])
          BY <3>3, <3>7
        <5>2. n # x + 1
          <6>. HIDE DEF x, l, y, m, z
          <6>. QED  BY <2>8
        <5>. QED  BY <5>1, <5>2
      <4>2. q # 1
        BY <4>1
      <4>3. r[n] = cc[i][q]
        BY <1>4, <4>1
      <4>. QED  BY <2>7, <4>1, <4>2, <4>3
    <3>8. CASE p = i + 1
      <4>1. r[n] = cc[i + 1][q] /\ q \in 1 .. Len(cc[i + 1])
        BY <1>4, <3>3, <3>8
      <4>. QED  BY <2>7, <2>9, <4>1
    <3>. QED  BY <3>6, <3>7, <3>8
  <2>10. c < t
    <3>. HIDE DEF x, l, y, m, z
    <3>. QED  BY <2>8
  <2>. QED  BY <2>9, <2>10
<1>. QED  BY <1>12, <1>13, <1>14, <1>15, <1>16 DEF r, calls, tools

\* Where calls and outputs stand in the items of a message.
LEMMA ItemsIn ==
  ASSUME NEW out \in Seq(Turn), NEW prior, NEW id \in Ids, NEW i \in 1 .. Len(out)
  PROVE  LET w == Where(ItemsAt(out, i, prior), CallsFor(id))
             v == Where(ItemsAt(out, i, prior), OutputsFor(id))
         IN  /\ w # {} <=> UsedIn(out[i].content, id)
             /\ UsedOnce(out[i].content, id) => \A j, k \in w : j = k
             /\ v # {} <=> AnsweredIn(out[i].content, id)
             /\ AnsweredOnce(out[i].content, id) => \A j, k \in v : j = k
             /\ \A k \in v :
                  ItemsAt(out, i, prior)[k].type = OutputType(id, CallKinds(out, i, prior))
<1>. DEFINE blocks == out[i].content
            kinds == CallKinds(out, i, prior)
            r == ItemsAt(out, i, prior)
            w == Where(r, CallsFor(id))
            v == Where(r, OutputsFor(id))
<1>1. out[i] \in Turn
  OBVIOUS
<1>2. CASE out[i].role = "user"
  <2>1. blocks \in Seq(UserBlock) /\ r = UserItems(blocks, kinds)
    BY <1>1, <1>2, TurnIs DEF ItemsAt
  <2>2. /\ \A n \in 1 .. Len(r) : r[n].type \in {"message"} \cup OutputItems
        /\ \A n \in 1 .. Len(r) : r[n].type \in OutputItems => r[n].type = OutputType(r[n].id, kinds)
    BY <2>1, UserItemized
  <2>3. v # {} <=> AnsweredIn(blocks, id)
    BY <2>1, SentOnce
  <2>4. AnsweredOnce(blocks, id) => \A j, k \in v : j = k
    BY <2>1, SentOnce
  <2>5. ~UsedIn(blocks, id)
    BY <2>1, RolesApart DEF UsedIn
  <2>. HIDE DEF r, kinds, blocks
  <2>6. w = {}
    BY <2>2 DEF Where, CallsFor, CallItems, OutputItems
  <2>7. \A k \in v : r[k].type = OutputType(id, kinds)
    BY <2>2 DEF Where, OutputsFor
  <2>. QED  BY <2>3, <2>4, <2>5, <2>6, <2>7 DEF r, kinds, blocks
<1>3. CASE out[i].role = "assistant"
  <2>1. blocks \in Seq(AssistantBlock) /\ r = AssistantItems(blocks)
    BY <1>1, <1>3, TurnIs DEF ItemsAt
  <2>2. \A n \in 1 .. Len(r) : r[n].type \in {"message"} \cup CallItems
    BY <2>1, AssistantItemized
  <2>3. w # {} <=> UsedIn(blocks, id)
    BY <2>1, SentOnce
  <2>4. UsedOnce(blocks, id) => \A j, k \in w : j = k
    BY <2>1, SentOnce
  <2>5. ~AnsweredIn(blocks, id)
    BY <2>1, RolesApart DEF AnsweredIn
  <2>. HIDE DEF r, kinds, blocks
  <2>6. v = {}
    BY <2>2 DEF Where, OutputsFor, CallItems, OutputItems
  <2>. QED  BY <2>3, <2>4, <2>5, <2>6 DEF r, kinds, blocks
<1>. QED  BY <1>1, <1>2, <1>3, TurnIs

\* The type of an output follows what is known of calls where its message is.
LEMMA OutputsTyped ==
  ASSUME NEW out \in Seq(Turn), NEW prior, NEW id \in Ids,
         NEW o \in Where(Items(out, prior), OutputsFor(id))
  PROVE  \E i \in 1 .. Len(out) :
           /\ AnsweredIn(out[i].content, id)
           /\ Items(out, prior)[o].type = OutputType(id, CallKinds(out, i, prior))
<1>. DEFINE r == Items(out, prior)
            cc == [i \in 1 .. Len(out) |-> ItemsAt(out, i, prior)]
<1>1. cc \in Seq(Seq(Item)) /\ r = FlattenSeq(cc)
  BY ItemizedIs
<1>2. Len(cc) = Len(out) /\ \A i \in 1 .. Len(out) : cc[i] = ItemsAt(out, i, prior)
  OBVIOUS
<1>. HIDE DEF cc, r
<1>3. PICK i \in 1 .. Len(out) : \E k \in Where(cc[i], OutputsFor(id)) : o = Offset(cc, i) + k
  BY <1>1, <1>2, WhereFlat DEF r
<1>4. PICK k \in Where(cc[i], OutputsFor(id)) : o = Offset(cc, i) + k
  BY <1>3
<1>5. r[o] = cc[i][k]
  <2>1. k \in 1 .. Len(cc[i])
    BY DEF Where
  <2>2. FlattenSeq(cc)[Offset(cc, i) + k] = cc[i][k]
    BY <1>1, <1>2, <2>1, FlattenPlaces
  <2>. QED  BY <1>1, <1>4, <2>2
<1>6. /\ AnsweredIn(out[i].content, id)
      /\ cc[i][k].type = OutputType(id, CallKinds(out, i, prior))
  <2>1. k \in Where(ItemsAt(out, i, prior), OutputsFor(id)) /\ cc[i] = ItemsAt(out, i, prior)
    BY <1>2
  <2>2. /\ Where(ItemsAt(out, i, prior), OutputsFor(id)) # {} <=> AnsweredIn(out[i].content, id)
        /\ \A j \in Where(ItemsAt(out, i, prior), OutputsFor(id)) :
             ItemsAt(out, i, prior)[j].type = OutputType(id, CallKinds(out, i, prior))
    BY ItemsIn
  <2>. QED  BY <2>1, <2>2
<1>. QED  BY <1>5, <1>6 DEF r

LEMMA ItemsMatched ==
  ASSUME NEW out \in Seq(Turn), Matched(out), NEW prior, NEW id \in Ids
  PROVE  LET r       == Items(out, prior)
             calls   == Where(r, CallsFor(id))
             outputs == Where(r, OutputsFor(id))
         IN  /\ \A c, d \in calls : c = d
             /\ \A t, u \in outputs : t = u
             /\ calls = {} <=> outputs = {}
             /\ \A c \in calls, t \in outputs : c < t
<1>. DEFINE r == Items(out, prior)
            calls == Where(r, CallsFor(id))
            outputs == Where(r, OutputsFor(id))
            cc == [i \in 1 .. Len(out) |-> ItemsAt(out, i, prior)]
            O(i) == Offset(cc, i)
<1>1. cc \in Seq(Seq(Item)) /\ r = FlattenSeq(cc) /\ r \in Seq(Item)
  BY ItemizedIs
<1>2. Len(cc) = Len(out) /\ Len(out) \in Nat /\ \A i \in 1 .. Len(out) : cc[i] = ItemsAt(out, i, prior)
  OBVIOUS
<1>. HIDE DEF cc, r
<1>3. /\ \A i \in 1 .. Len(out) + 1 : O(i) \in Nat
      /\ \A i \in 1 .. Len(out) : O(i + 1) = O(i) + Len(cc[i])
  BY <1>1, <1>2, FlattenPlaces
<1>5. \A x : x \in calls <=>
        \E i \in 1 .. Len(out) : \E k \in Where(cc[i], CallsFor(id)) : x = O(i) + k
  BY <1>1, <1>2, WhereFlat
<1>6. \A x : x \in outputs <=>
        \E i \in 1 .. Len(out) : \E k \in Where(cc[i], OutputsFor(id)) : x = O(i) + k
  BY <1>1, <1>2, WhereFlat
<1>7. /\ \A i \in 1 .. Len(out) : UsedOnce(out[i].content, id) /\ AnsweredOnce(out[i].content, id)
      /\ \A i, j \in 1 .. Len(out) :
           UsedIn(out[i].content, id) /\ UsedIn(out[j].content, id) => i = j
      /\ \A i, j \in 1 .. Len(out) :
           AnsweredIn(out[i].content, id) /\ AnsweredIn(out[j].content, id) => i = j
      /\ \A i \in 1 .. Len(out) : UsedIn(out[i].content, id) =>
           i + 1 \in 1 .. Len(out) /\ AnsweredIn(out[i + 1].content, id)
      /\ \A i \in 1 .. Len(out) : AnsweredIn(out[i].content, id) =>
           i - 1 \in 1 .. Len(out) /\ UsedIn(out[i - 1].content, id)
  BY MatchedFor
<1>. HIDE DEF calls, outputs, O
<1>9. \A i \in 1 .. Len(out) :
        /\ Where(cc[i], CallsFor(id)) # {} <=> UsedIn(out[i].content, id)
        /\ \A j, k \in Where(cc[i], CallsFor(id)) : j = k
        /\ Where(cc[i], OutputsFor(id)) # {} <=> AnsweredIn(out[i].content, id)
        /\ \A j, k \in Where(cc[i], OutputsFor(id)) : j = k
  <2>. TAKE i \in 1 .. Len(out)
  <2>. DEFINE it == ItemsAt(out, i, prior)
  <2>1. /\ Where(it, CallsFor(id)) # {} <=> UsedIn(out[i].content, id)
        /\ UsedOnce(out[i].content, id) => \A j, k \in Where(it, CallsFor(id)) : j = k
        /\ Where(it, OutputsFor(id)) # {} <=> AnsweredIn(out[i].content, id)
        /\ AnsweredOnce(out[i].content, id) => \A j, k \in Where(it, OutputsFor(id)) : j = k
    BY ItemsIn
  <2>2. cc[i] = it
    BY <1>2
  <2>3. UsedOnce(out[i].content, id) /\ AnsweredOnce(out[i].content, id)
    BY <1>7
  <2>. HIDE DEF it
  <2>. QED  BY <2>1, <2>2, <2>3
<1>10. ASSUME NEW c \in calls
       PROVE  \E i \in 1 .. Len(out) : \E k \in Where(cc[i], CallsFor(id)) :
                c = O(i) + k /\ UsedIn(out[i].content, id)
  <2>1. PICK i \in 1 .. Len(out) : \E k \in Where(cc[i], CallsFor(id)) : c = O(i) + k
    BY <1>5
  <2>. QED  BY <1>9, <2>1
<1>11. ASSUME NEW t \in outputs
       PROVE  \E i \in 1 .. Len(out) : \E k \in Where(cc[i], OutputsFor(id)) :
                t = O(i) + k /\ AnsweredIn(out[i].content, id)
  <2>1. PICK i \in 1 .. Len(out) : \E k \in Where(cc[i], OutputsFor(id)) : t = O(i) + k
    BY <1>6
  <2>. QED  BY <1>9, <2>1
<1>12. \A c, d \in calls : c = d
  <2>. TAKE c, d \in calls
  <2>1. PICK i \in 1 .. Len(out) : \E k \in Where(cc[i], CallsFor(id)) :
          c = O(i) + k /\ UsedIn(out[i].content, id)
    BY <1>10
  <2>2. PICK j \in 1 .. Len(out) : \E k \in Where(cc[j], CallsFor(id)) :
          d = O(j) + k /\ UsedIn(out[j].content, id)
    BY <1>10
  <2>3. i = j
    BY <1>7, <2>1, <2>2
  <2>4. PICK k \in Where(cc[i], CallsFor(id)) : c = O(i) + k
    BY <2>1
  <2>5. PICK l \in Where(cc[i], CallsFor(id)) : d = O(i) + l
    BY <2>2, <2>3
  <2>6. k = l
    BY <1>9
  <2>. QED  BY <2>4, <2>5, <2>6
<1>13. \A t, u \in outputs : t = u
  <2>. TAKE t, u \in outputs
  <2>1. PICK i \in 1 .. Len(out) : \E k \in Where(cc[i], OutputsFor(id)) :
          t = O(i) + k /\ AnsweredIn(out[i].content, id)
    BY <1>11
  <2>2. PICK j \in 1 .. Len(out) : \E k \in Where(cc[j], OutputsFor(id)) :
          u = O(j) + k /\ AnsweredIn(out[j].content, id)
    BY <1>11
  <2>3. i = j
    BY <1>7, <2>1, <2>2
  <2>4. PICK k \in Where(cc[i], OutputsFor(id)) : t = O(i) + k
    BY <2>1
  <2>5. PICK l \in Where(cc[i], OutputsFor(id)) : u = O(i) + l
    BY <2>2, <2>3
  <2>6. k = l
    BY <1>9
  <2>. QED  BY <2>4, <2>5, <2>6
<1>14. ASSUME NEW c \in calls PROVE outputs # {}
  <2>1. PICK i \in 1 .. Len(out) : UsedIn(out[i].content, id)
    BY <1>10
  <2>2. i + 1 \in 1 .. Len(out) /\ AnsweredIn(out[i + 1].content, id)
    BY <1>7, <2>1
  <2>3. PICK k \in Where(cc[i + 1], OutputsFor(id)) : TRUE
    BY <1>9, <2>2
  <2>4. O(i + 1) + k \in outputs
    BY <1>6, <2>2
  <2>. QED  BY <2>4
<1>15. ASSUME NEW t \in outputs PROVE calls # {}
  <2>1. PICK i \in 1 .. Len(out) : AnsweredIn(out[i].content, id)
    BY <1>11
  <2>2. i - 1 \in 1 .. Len(out) /\ UsedIn(out[i - 1].content, id)
    BY <1>7, <2>1
  <2>3. PICK k \in Where(cc[i - 1], CallsFor(id)) : TRUE
    BY <1>9, <2>2
  <2>4. O(i - 1) + k \in calls
    BY <1>5, <2>2
  <2>. QED  BY <2>4
<1>16. ASSUME NEW c \in calls, NEW t \in outputs PROVE c < t
  <2>1. PICK i \in 1 .. Len(out) : \E k \in Where(cc[i], CallsFor(id)) :
          c = O(i) + k /\ UsedIn(out[i].content, id)
    BY <1>10
  <2>2. PICK j \in 1 .. Len(out) : \E k \in Where(cc[j], OutputsFor(id)) :
          t = O(j) + k /\ AnsweredIn(out[j].content, id)
    BY <1>11
  <2>3. i + 1 \in 1 .. Len(out) /\ j = i + 1
    BY <1>7, <2>1, <2>2
  <2>4. PICK k \in Where(cc[i], CallsFor(id)) : c = O(i) + k
    BY <2>1
  <2>5. PICK l \in Where(cc[i + 1], OutputsFor(id)) : t = O(i + 1) + l
    BY <2>2, <2>3
  <2>. DEFINE x == O(i)
              m == Len(cc[i])
              y == O(i + 1)
              n == Len(cc[i + 1])
  <2>6. k \in 1 .. m /\ l \in 1 .. n
    BY DEF Where
  <2>7. x \in Nat /\ y = x + m
    <3>1. i \in 1 .. Len(out) + 1
      BY <1>2
    <3>. QED  BY <1>3, <3>1
  <2>8. m \in Nat /\ n \in Nat
    <3>1. cc[i] \in Seq(Item) /\ cc[i + 1] \in Seq(Item)
      BY <1>1, <1>2, <2>3
    <3>. QED  BY <3>1
  <2>. HIDE DEF x, m, y, n
  <2>9. c = x + k /\ t = y + l
    BY <2>4, <2>5 DEF x, y
  <2>. QED  BY <2>6, <2>7, <2>8, <2>9
<1>. QED  BY <1>12, <1>13, <1>14, <1>15, <1>16 DEF r, calls, outputs

\* Of items, those that call or answer id.
LEMMA ItemsRead ==
  ASSUME request \in Seq(Item), NEW id
  PROVE  /\ OutputsOf(id) = Where(request, OutputsFor(id))
         /\ ItemsOf(id) = Where(request, CallsFor(id))
<1>1. DOMAIN request = 1 .. Len(request) /\ \A n \in 1 .. Len(request) : request[n] \in Item
  OBVIOUS
<1>2. \A n \in 1 .. Len(request) :
        /\ request[n].type \in {"function_call_output", "custom_tool_call_output"}
             /\ request[n].id = id <=> request[n] \in OutputsFor(id)
        /\ request[n].id = id /\ request[n].type \in {"function_call", "custom_tool_call"}
             <=> request[n] \in CallsFor(id)
  BY <1>1 DEF OutputsFor, CallsFor, OutputItems, CallItems
<1>. QED  BY <1>1, <1>2 DEF OutputsOf, Outputs, ItemsOf, Where

\* A tail's outputs are all results in it.
LEMMA TailOutputs ==
  ASSUME IInv, api \in {"tail", "appended"}
  PROVE  At([n \in DOMAIN request |-> request[n].id], Outputs) =
           FlattenSeq([i \in DOMAIN tail |-> IdsOf(tail[i].content, {"tool_result"})])
<1>1. /\ upstream \in Seq(Turn)
      /\ \A i \in 1 .. Len(upstream) : upstream[i].role = "user"
      /\ FlattenSeq([i \in 1 .. Len(upstream) |-> IdsOf(upstream[i].content, {"tool_result"})])
           = FlattenSeq([i \in 1 .. Len(tail) |-> IdsOf(tail[i].content, {"tool_result"})])
  BY TailSent
<1>2. PICK prior : request = Items(upstream, prior)
  BY TailIs
<1>3. tail \in Seq(Turn)
  BY TailIs
<1>. DEFINE cc == [i \in 1 .. Len(upstream) |-> ItemsAt(upstream, i, prior)]
            ids == [n \in DOMAIN request |-> request[n].id]
<1>4. cc \in Seq(Seq(Item)) /\ request = FlattenSeq(cc) /\ request \in Seq(Item)
  BY <1>1, <1>2, ItemizedIs
<1>5. At(ids, Outputs) = Spread(OutputIds, request)
  <2>1. DOMAIN request = 1 .. Len(request) /\ \A n \in 1 .. Len(request) : request[n] \in Item
    BY <1>4
  <2>2. ASSUME NEW n \in 1 .. Len(request)
        PROVE  (IF n \in Outputs THEN << ids[n] >> ELSE <<>>) = OutputIds[request[n]]
    <3>1. request[n] \in Item /\ n \in DOMAIN request /\ ids[n] = request[n].id
      BY <2>1
    <3>. HIDE DEF ids
    <3>2. OutputIds[request[n]] = IF request[n].type \in OutputItems THEN << request[n].id >> ELSE <<>>
      BY <3>1 DEF OutputIds
    <3>3. n \in Outputs <=> request[n].type \in OutputItems
      BY <3>1 DEF Outputs, OutputItems
    <3>. QED  BY <3>1, <3>2, <3>3
  <2>3. DOMAIN ids = 1 .. Len(request)
    BY <2>1
  <2>. HIDE DEF ids
  <2>4. [k \in DOMAIN ids |-> IF k \in Outputs THEN << ids[k] >> ELSE <<>>]
          = [k \in 1 .. Len(request) |-> OutputIds[request[k]]]
    BY <2>2, <2>3
  <2>. QED  BY <2>4 DEF At, Spread
<1>6. Len(cc) = Len(upstream)
      /\ \A i \in 1 .. Len(upstream) : cc[i] = ItemsAt(upstream, i, prior)
  BY <1>1
<1>. HIDE DEF cc, ids
<1>7. Spread(OutputIds, FlattenSeq(cc)) = FlattenSeq([i \in 1 .. Len(cc) |-> Spread(OutputIds, cc[i])])
  BY <1>4, ReadTyped, SpreadFlatten
<1>8. \A i \in 1 .. Len(upstream) : Spread(OutputIds, cc[i]) = IdsOf(upstream[i].content, {"tool_result"})
  <2>. TAKE i \in 1 .. Len(upstream)
  <2>1. upstream[i].content \in Seq(UserBlock)
        /\ cc[i] = UserItems(upstream[i].content, CallKinds(upstream, i, prior))
    <3>1. upstream[i] \in Turn /\ upstream[i].role = "user"
      BY <1>1
    <3>. QED  BY <1>6, <3>1, TurnIs DEF ItemsAt
  <2>. QED  BY <2>1, UserItemized
<1>9. [i \in 1 .. Len(cc) |-> Spread(OutputIds, cc[i])]
        = [i \in 1 .. Len(upstream) |-> IdsOf(upstream[i].content, {"tool_result"})]
  BY <1>6, <1>8
<1>10. DOMAIN tail = 1 .. Len(tail)
  BY <1>3
<1>. QED  BY <1>1, <1>4, <1>5, <1>7, <1>9, <1>10 DEF ids

\* A full request answers each call once, after it, a Chat request before the next
\* message with calls (chat.go:499, 564); a tail sends every result the client gives,
\* in its order (types.go:486-489).
THEOREM AnsweredInOrder == Spec => []OutputsMatch
<1>1. ASSUME IInv PROVE OutputsMatch
  <2>1. ASSUME api = "chat", NEW id \in Ids
        PROVE  LET calls == {n \in DOMAIN request :
                               request[n].role = "assistant" /\ id \in ToSet(request[n].calls)}
                   tools == {n \in DOMAIN request :
                               request[n].role = "tool" /\ request[n].calls = <<id>>}
               IN  /\ Cardinality(tools) = Cardinality(calls) /\ Cardinality(calls) <= 1
                   /\ \A c \in calls, t \in tools :
                        /\ c < t
                        /\ \A n \in c + 1 .. t - 1 :
                             request[n].role = "assistant" => request[n].calls = <<>>
    <3>. DEFINE calls == {n \in DOMAIN request :
                            request[n].role = "assistant" /\ id \in ToSet(request[n].calls)}
                tools == {n \in DOMAIN request :
                            request[n].role = "tool" /\ request[n].calls = <<id>>}
    <3>1. upstream \in Seq(Turn) /\ Matched(upstream)
      BY <1>1, <2>1, RepairedIs DEF Full
    <3>2. request = ConvertMessages(upstream)
      BY <1>1, <2>1 DEF IInv, Made
    <3>3. request \in Seq(ChatMessage)
      BY <3>1, <3>2, ConvertedIs
    <3>4. calls = Where(request, Callers(id)) /\ tools = Where(request, Tools(id))
      <4>1. DOMAIN request = 1 .. Len(request) /\ \A n \in 1 .. Len(request) : request[n] \in ChatMessage
        BY <3>3
      <4>. QED  BY <4>1 DEF Where, Callers, Tools
    <3>. HIDE DEF calls, tools
    <3>5. /\ \A c, d \in calls : c = d
          /\ \A t, u \in tools : t = u
          /\ calls = {} <=> tools = {}
          /\ \A c \in calls, t \in tools :
               /\ c < t
               /\ \A n \in c + 1 .. t - 1 :
                    request[n].role = "assistant" => request[n].calls = <<>>
      BY <3>1, <3>2, <3>4, ChatMatched
    <3>6. /\ Cardinality(calls) \in 0 .. 1 /\ (Cardinality(calls) = 0 <=> calls = {})
          /\ Cardinality(tools) \in 0 .. 1 /\ (Cardinality(tools) = 0 <=> tools = {})
      BY <3>5, AtMostOne
    <3>7. Cardinality(tools) = Cardinality(calls) /\ Cardinality(calls) <= 1
      BY <3>5, <3>6
    <3>. QED  BY <3>5, <3>7 DEF calls, tools
  <2>2. ASSUME api = "responses", NEW id \in Ids
        PROVE  /\ Cardinality(OutputsOf(id)) = Cardinality(ItemsOf(id))
               /\ \A c \in ItemsOf(id), o \in OutputsOf(id) : c < o
    <3>. DEFINE calls == ItemsOf(id)
                outputs == OutputsOf(id)
    <3>1. upstream \in Seq(Turn) /\ Matched(upstream)
      BY <1>1, <2>2, RepairedIs DEF Full
    <3>2. request = Items(upstream, <<>>)
      BY <1>1, <2>2 DEF IInv, Made
    <3>3. request \in Seq(Item)
      BY <3>1, <3>2, ItemizedIs
    <3>4. calls = Where(request, CallsFor(id)) /\ outputs = Where(request, OutputsFor(id))
      BY <3>3, ItemsRead
    <3>. HIDE DEF calls, outputs
    <3>5. /\ \A c, d \in calls : c = d
          /\ \A t, u \in outputs : t = u
          /\ calls = {} <=> outputs = {}
          /\ \A c \in calls, t \in outputs : c < t
      BY <3>1, <3>2, <3>4, ItemsMatched
    <3>6. /\ Cardinality(calls) \in 0 .. 1 /\ (Cardinality(calls) = 0 <=> calls = {})
          /\ Cardinality(outputs) \in 0 .. 1 /\ (Cardinality(outputs) = 0 <=> outputs = {})
      BY <3>5, AtMostOne
    <3>7. Cardinality(outputs) = Cardinality(calls)
      BY <3>5, <3>6
    <3>. QED  BY <3>5, <3>7 DEF calls, outputs
  <2>. QED  BY <1>1, <2>1, <2>2, TailOutputs DEF OutputsMatch
<1>2. IInv => OutputsMatch
  BY <1>1
<1>. QED  BY <1>2, Invariant, PTL

-----------------------------------------------------------------------------
(* Results have the type of their calls *)

\* The type of a result's item is that of its call's, be the call in the request or in
\* the response it continues (responses.go:1169-1172).
THEOREM TypedAlike == Spec => []KindsAgree
<1>1. ASSUME IInv PROVE KindsAgree
  <2>1. ASSUME api = "responses", NEW id \in Ids, NEW n \in OutputsOf(id)
        PROVE  (request[n].type = "custom_tool_call_output") <=> (id \in Custom)
    <3>1. upstream \in Seq(Turn) /\ Matched(upstream)
      BY <1>1, <2>1, RepairedIs DEF Full
    <3>2. request = Items(upstream, <<>>)
      BY <1>1, <2>1 DEF IInv, Made
    <3>3. request \in Seq(Item)
      BY <3>1, <3>2, ItemizedIs
    <3>4. n \in Where(request, OutputsFor(id))
      BY <2>1, <3>3, ItemsRead
    <3>5. PICK i \in 1 .. Len(upstream) :
            /\ AnsweredIn(upstream[i].content, id)
            /\ request[n].type = OutputType(id, CallKinds(upstream, i, <<>>))
      BY <3>1, <3>2, <3>4, OutputsTyped
    <3>6. /\ i - 1 \in 1 .. Len(upstream) /\ upstream[i - 1].role = "assistant"
          /\ UsedIn(upstream[i - 1].content, id)
      BY <3>1, <3>5, MatchedFor
    <3>. DEFINE kinds == CallKinds(upstream, i, <<>>)
    <3>7. id \in DOMAIN kinds /\ kinds[id] = CallType(id)
      <4>. DEFINE A == {j \in 1 .. i - 1 : upstream[j].role = "assistant"}
                  asked == UNION {ToSet(IdsOf(upstream[j].content, ItemTypes)) : j \in A}
      <4>1. kinds = [x \in asked \cup DOMAIN <<>> |-> IF x \in asked THEN CallType(x) ELSE <<>>[x]]
        BY DEF CallKinds
      <4>2. id \in asked
        <5>1. upstream[i - 1].content \in Seq(AssistantBlock)
          BY <3>1, <3>6, TurnIs
        <5>2. id \in ToSet(IdsOf(upstream[i - 1].content, ItemTypes))
          BY <3>6, <5>1, IdsAre
        <5>3. i - 1 \in A
          BY <3>6
        <5>. HIDE DEF A
        <5>. QED  BY <5>2, <5>3
      <4>. HIDE DEF asked, kinds
      <4>. QED  BY <4>1, <4>2
    <3>. HIDE DEF kinds
    <3>8. request[n].type = OutputType(id, kinds)
      BY <3>5 DEF kinds
    <3>. QED  BY <3>7, <3>8 DEF OutputType, CallType
  <2>2. ASSUME api = "tail", NEW id \in Replied, NEW n \in OutputsOf(id)
        PROVE  (request[n].type = "custom_tool_call_output") <=> (id \in Custom)
    <3>1. messages \in Seq(Turn)
      BY <1>1 DEF IInv, Typed
    <3>2. PICK j \in 2 .. Len(messages) :
            /\ messages[j - 1].role = "assistant"
            /\ \A i \in j .. Len(messages) : messages[i].role = "user"
            /\ tail = SubSeq(messages, j, Len(messages))
            /\ request = Items(upstream, PriorCallKinds(j))
      BY <1>1, <2>2 DEF IInv, Made
    <3>3. /\ upstream \in Seq(Turn)
          /\ \A i \in 1 .. Len(upstream) : upstream[i].role = "user"
      BY <1>1, <2>2, TailSent
    <3>. DEFINE reply == {i \in 1 .. j - 1 : \A k \in i .. j - 1 : messages[k].role = "assistant"}
    <3>4. Len(messages) - Len(tail) = j - 1
      BY <3>1, <3>2
    <3>5. Replied = UNION {ToSet(IdsOf(messages[i].content, {"tool_use"})) : i \in reply}
      BY <3>4 DEF Replied
    <3>6. PICK i \in reply : id \in ToSet(IdsOf(messages[i].content, {"tool_use"}))
      <4>. HIDE DEF reply
      <4>. QED  BY <2>2, <3>5
    <3>7. i \in 1 .. Len(messages) /\ messages[i].role = "assistant"
          /\ messages[i].content \in Seq(AssistantBlock)
      <4>1. i \in 1 .. Len(messages) /\ messages[i].role = "assistant"
        BY <3>1, <3>2
      <4>. QED  BY <3>1, <4>1, TurnIs
    <3>8. id \in Ids
      <4>. DEFINE s == messages[i].content
      <4>1. s \in Seq(Block) /\ s \in Seq(AssistantBlock)
        BY <3>7, BlocksAre
      <4>. HIDE DEF s
      <4>2. id \in {s[k].id : k \in Named(s, {"tool_use"})}
        BY <3>6, <4>1, IdsOfIs DEF s
      <4>3. PICK k \in Named(s, {"tool_use"}) : id = s[k].id
        BY <4>2
      <4>4. k \in 1 .. Len(s) /\ s[k].type = "tool_use" /\ s[k].id # NoId
        BY DEF Named
      <4>5. s[k] \in AssistantBlock
        BY <4>1, <4>4
      <4>6. s[k].id \in Ids \cup {NoId}
        BY <4>4, <4>5, AssistantBlockIs
      <4>. QED  BY <4>3, <4>4, <4>6
    <3>9. id \in ToSet(IdsOf(messages[i].content, ItemTypes))
      BY <3>6, <3>7, <3>8, IdsAre
    <3>. DEFINE prior == PriorCallKinds(j)
    <3>10. id \in DOMAIN prior /\ prior[id] = CallType(id)
      <4>. DEFINE ids == UNION {ToSet(IdsOf(messages[k].content, ItemTypes)) : k \in reply}
      <4>1. prior = [x \in ids |-> CallType(x)]
        BY DEF PriorCallKinds
      <4>2. id \in ids
        <5>. HIDE DEF reply
        <5>. QED  BY <3>9
      <4>. HIDE DEF ids, prior
      <4>. QED  BY <4>1, <4>2
    <3>. HIDE DEF prior
    <3>11. request = Items(upstream, prior) /\ request \in Seq(Item)
      <4>1. request = Items(upstream, prior)
        BY <3>2 DEF prior
      <4>. QED  BY <3>3, <4>1, ItemizedIs
    <3>12. n \in Where(Items(upstream, prior), OutputsFor(id))
      BY <2>2, <3>11, ItemsRead
    <3>13. PICK m \in 1 .. Len(upstream) :
             Items(upstream, prior)[n].type = OutputType(id, CallKinds(upstream, m, prior))
      BY <3>3, <3>8, <3>12, OutputsTyped
    <3>. DEFINE kinds == CallKinds(upstream, m, prior)
    <3>14. id \in DOMAIN kinds /\ kinds[id] = CallType(id)
      <4>. DEFINE A == {k \in 1 .. m - 1 : upstream[k].role = "assistant"}
                  asked == UNION {ToSet(IdsOf(upstream[k].content, ItemTypes)) : k \in A}
      <4>1. kinds = [x \in asked \cup DOMAIN prior |-> IF x \in asked THEN CallType(x) ELSE prior[x]]
        BY DEF CallKinds
      <4>. HIDE DEF asked, kinds
      <4>. QED  BY <3>10, <4>1
    <3>. HIDE DEF kinds
    <3>15. request[n].type = OutputType(id, kinds)
      BY <3>11, <3>13 DEF kinds
    <3>. QED  BY <3>14, <3>15 DEF OutputType, CallType
  <2>. QED  BY <2>1, <2>2 DEF KindsAgree
<1>2. IInv => KindsAgree
  BY <1>1
<1>. QED  BY <1>2, Invariant, PTL

-----------------------------------------------------------------------------
(* No answer is invented that was given *)

\* The numbers of the client's blocks tell them apart and are in their order.
LEMMA FromOnce ==
  ASSUME IInv
  PROVE  LET said == WithoutOrphanedThinking(messages)
         IN  /\ said \in Seq(Turn)
             /\ \A i, j \in 1 .. Len(said) :
                  \A k \in 1 .. Len(said[i].content), l \in 1 .. Len(said[j].content) :
                    said[i].content[k].from = said[j].content[l].from => i = j
             /\ \A i \in 1 .. Len(said) : \A k, l \in 1 .. Len(said[i].content) :
                  k <= l => said[i].content[k].from <= said[i].content[l].from
<1>. DEFINE said == WithoutOrphanedThinking(messages)
            cc == [i \in 1 .. Len(messages) |-> messages[i].content]
            O(i) == Offset(cc, i)
            N == Len(messages)
<1>1. messages \in Seq(Turn) /\ passthrough \in BOOLEAN /\ Numbered
  BY DEF IInv, Typed
<1>2. cc \in Seq(Seq(Block)) /\ Len(cc) = N /\ BlocksOf(messages) = FlattenSeq(cc)
      /\ \A i \in 1 .. N : cc[i] = messages[i].content
  <2>1. DOMAIN messages = 1 .. N /\ N \in Nat
    BY <1>1
  <2>2. \A i \in 1 .. N : messages[i].content \in Seq(Block)
    BY <1>1, TurnIs
  <2>3. BlocksOf(messages) = FlattenSeq(cc)
    BY <2>1 DEF BlocksOf
  <2>. QED  BY <2>1, <2>2, <2>3
<1>3. N \in Nat
  BY <1>1
<1>. HIDE DEF cc
<1>4. /\ \A i \in 1 .. N + 1 : O(i) \in Nat
      /\ \A i \in 1 .. N : O(i + 1) = O(i) + Len(cc[i])
      /\ \A i, j \in 1 .. N + 1 : i <= j => O(i) <= O(j)
      /\ \A i \in 1 .. N : \A k \in 1 .. Len(cc[i]) :
           O(i) + k \in 1 .. Len(FlattenSeq(cc)) /\ FlattenSeq(cc)[O(i) + k] = cc[i][k]
  BY <1>2, FlattenPlaces
<1>. HIDE DEF O
<1>5. \A i \in 1 .. N : \A k \in 1 .. Len(cc[i]) : cc[i][k].from = O(i) + k
  <2>. TAKE i \in 1 .. N
  <2>. TAKE k \in 1 .. Len(cc[i])
  <2>. DEFINE n == O(i) + k
              all == FlattenSeq(cc)
  <2>1. n \in 1 .. Len(all) /\ all[n] = cc[i][k]
    BY <1>4
  <2>2. \A p \in 1 .. Len(all) : all[p].from = p
    BY <1>1, <1>2 DEF Numbered
  <2>. HIDE DEF n, all
  <2>3. cc[i][k].from = n
    BY <2>1, <2>2
  <2>. QED  BY <2>3 DEF n
<1>. HIDE DEF N
<1>6. ASSUME NEW i \in 1 .. N, NEW j \in 1 .. N, i < j,
             NEW k \in 1 .. Len(cc[i]), NEW l \in 1 .. Len(cc[j])
      PROVE  cc[i][k].from # cc[j][l].from
  <2>1. i \in 1 .. N + 1 /\ i + 1 \in 1 .. N + 1 /\ j \in 1 .. N + 1 /\ i + 1 <= j
    BY <1>3, <1>6
  <2>2. O(i) \in Nat /\ O(j) \in Nat /\ O(i + 1) = O(i) + Len(cc[i]) /\ O(i + 1) <= O(j)
    BY <1>4, <2>1
  <2>3. Len(cc[i]) \in Nat /\ Len(cc[j]) \in Nat
    BY <1>2
  <2>. DEFINE x == O(i)
              y == O(j)
              m == Len(cc[i])
              n == Len(cc[j])
  <2>4. x \in Nat /\ y \in Nat /\ x + m <= y /\ m \in Nat /\ n \in Nat /\ k \in 1 .. m /\ l \in 1 .. n
    BY <2>2, <2>3
  <2>5. cc[i][k].from = x + k /\ cc[j][l].from = y + l
    BY <1>5
  <2>. HIDE DEF x, y, m, n
  <2>6. x + k # y + l
    BY <2>4
  <2>. QED  BY <2>5, <2>6
<1>7. ASSUME NEW i \in 1 .. N, NEW k \in 1 .. Len(cc[i]), NEW l \in 1 .. Len(cc[i]), k <= l
      PROVE  cc[i][k].from <= cc[i][l].from
  <2>1. O(i) \in Nat
    BY <1>3, <1>4
  <2>. DEFINE x == O(i)
              m == Len(cc[i])
  <2>2. cc[i][k].from = x + k /\ cc[i][l].from = x + l
    BY <1>5
  <2>3. x \in Nat /\ k \in 1 .. m /\ l \in 1 .. m
    BY <2>1
  <2>. HIDE DEF x, m
  <2>4. x + k <= x + l
    BY <1>7, <2>3
  <2>. QED  BY <2>2, <2>4
<1>8. PICK pos \in [1 .. Len(said) -> 1 .. N] :
        /\ \A n \in 1 .. Len(said) : said[n] = messages[pos[n]]
        /\ \A m, n \in 1 .. Len(said) : m < n => pos[m] < pos[n]
  <2>. DEFINE K == {i \in DOMAIN messages :
                      ~(messages[i].role = "assistant" /\ OnlyThinking(messages[i].content))}
  <2>1. said = At(messages, K)
    BY DEF WithoutOrphanedThinking
  <2>. HIDE DEF K, said
  <2>. QED  BY <1>1, <2>1, AtPlaces DEF N
<1>9. said \in Seq(Turn)
  BY <1>1, WithoutOrphaned
<1>. HIDE DEF said
<1>10. \A n \in 1 .. Len(said) : said[n].content = cc[pos[n]]
  BY <1>2, <1>8
<1>11. ASSUME NEW i \in 1 .. Len(said), NEW j \in 1 .. Len(said),
              NEW k \in 1 .. Len(said[i].content), NEW l \in 1 .. Len(said[j].content),
              said[i].content[k].from = said[j].content[l].from
       PROVE  i = j
  <2>1. /\ said[i].content = cc[pos[i]] /\ said[j].content = cc[pos[j]]
        /\ pos[i] \in 1 .. N /\ pos[j] \in 1 .. N
    BY <1>8, <1>10
  <2>2. ~(pos[i] < pos[j]) /\ ~(pos[j] < pos[i])
    BY <1>6, <1>11, <2>1
  <2>3. i \in Nat /\ j \in Nat
    BY <1>9
  <2>4. ~(i < j) /\ ~(j < i)
    BY <1>8, <2>2
  <2>. QED  BY <2>3, <2>4
<1>12. \A i \in 1 .. Len(said) : \A k, l \in 1 .. Len(said[i].content) :
         k <= l => said[i].content[k].from <= said[i].content[l].from
  <2>. TAKE i \in 1 .. Len(said)
  <2>1. said[i].content = cc[pos[i]] /\ pos[i] \in 1 .. N
    BY <1>8, <1>10
  <2>. QED  BY <1>7, <2>1
<1>. QED  BY <1>9, <1>11, <1>12 DEF said

\* The proxy invents a result only for a call the client's next message, be thinking
\* only messages left aside, does not answer; else it is the first answer there
\* (types.go:613-630).
THEOREM NothingInvented == Spec => []InventsNoAnswer
<1>1. ASSUME IInv PROVE InventsNoAnswer
  <2>. SUFFICES ASSUME Full, NEW id \in Ids, NEW r \in Places(upstream, "tool_result", id)
                PROVE
         LET asked == upstream[r[1] - 1].content
             call  == CHOOSE k \in DOMAIN asked : asked[k].type = "tool_use" /\ asked[k].id = id
             said  == WithoutOrphanedThinking(messages)
             at    == CHOOSE i \in DOMAIN said :
                        \E k \in DOMAIN said[i].content : said[i].content[k].from = asked[call].from
             given == IF at < Len(said) /\ said[at + 1].role = "user"
                        THEN {said[at + 1].content[k].from :
                                k \in {k \in DOMAIN said[at + 1].content :
                                         said[at + 1].content[k].type = "tool_result"
                                           /\ said[at + 1].content[k].id = id}}
                        ELSE {}
             from  == upstream[r[1]].content[r[2]].from
         IN  IF given = {} THEN from = 0 ELSE from \in given /\ \A n \in given : from <= n
    BY Zenon DEF InventsNoAnswer
  <2>. DEFINE ms == Sent(messages, passthrough)
              said == WithoutOrphanedThinking(messages)
  <2>1. ms \in Seq(Turn) /\ upstream = Paired(ms) /\ upstream \in Seq(Turn) /\ Matched(upstream)
    BY <1>1, RepairedIs
  <2>2. /\ said \in Seq(Turn)
        /\ \A i, j \in 1 .. Len(said) :
             \A k \in 1 .. Len(said[i].content), l \in 1 .. Len(said[j].content) :
               said[i].content[k].from = said[j].content[l].from => i = j
        /\ \A i \in 1 .. Len(said) : \A k, l \in 1 .. Len(said[i].content) :
             k <= l => said[i].content[k].from <= said[i].content[l].from
    BY <1>1, FromOnce
  <2>3. messages \in Seq(Turn) /\ passthrough \in BOOLEAN
    BY <1>1 DEF IInv, Typed
  <2>4. /\ Len(ms) = Len(said)
        /\ \A i \in 1 .. Len(ms) :
             /\ ms[i].role = said[i].role
             /\ said[i].role = "user" => ms[i] = said[i]
             /\ \A k \in 1 .. Len(ms[i].content) :
                  \/ ms[i].content[k] = Placeholder
                  \/ \E j \in 1 .. Len(said[i].content) : ms[i].content[k].from = said[i].content[j].from
    <3>1. /\ Len(ms) = Len(said)
          /\ \A i \in 1 .. Len(ms) :
               /\ ms[i].role = said[i].role
               /\ said[i].role = "user" => ms[i] = said[i]
               /\ \A k \in 1 .. Len(ms[i].content) :
                    LET b == ms[i].content[k]
                    IN  /\ ~passthrough => b.type \notin ServerTypes
                        /\ \/ b = Placeholder
                           \/ \E j \in 1 .. Len(said[i].content) :
                                /\ b.from = said[i].content[j].from
                                /\ \/ /\ b.type = said[i].content[j].type
                                      /\ b.id = said[i].content[j].id
                                   \/ b.type = "text"
      BY <2>3, SentIs, Zenon
    <3>. HIDE DEF ms, said
    <3>2. ASSUME NEW i \in 1 .. Len(ms), NEW k \in 1 .. Len(ms[i].content)
          PROVE  \/ ms[i].content[k] = Placeholder
                 \/ \E j \in 1 .. Len(said[i].content) : ms[i].content[k].from = said[i].content[j].from
      <4>1. \/ ms[i].content[k] = Placeholder
            \/ \E j \in 1 .. Len(said[i].content) :
                 /\ ms[i].content[k].from = said[i].content[j].from
                 /\ \/ /\ ms[i].content[k].type = said[i].content[j].type
                       /\ ms[i].content[k].id = said[i].content[j].id
                    \/ ms[i].content[k].type = "text"
        BY <3>1, Zenon
      <4>. QED  BY <4>1, Zenon
    <3>3. Len(ms) = Len(said) /\ \A i \in 1 .. Len(ms) : ms[i].role = said[i].role
      BY <3>1, Zenon
    <3>4. \A i \in 1 .. Len(ms) : said[i].role = "user" => ms[i] = said[i]
      BY <3>1, Zenon
    <3>. QED  BY <3>2, <3>3, <3>4, Zenon
  <2>. HIDE DEF ms, said
  <2>5. PICK p \in 1 .. Len(upstream) : \E k \in 1 .. Len(upstream[p].content) :
          r = <<p, k>> /\ IsResult(upstream[p].content[k]) /\ upstream[p].content[k].id = id
    BY <2>1, PlacesIs DEF IsResult
  <2>6. PICK k \in 1 .. Len(upstream[p].content) :
          r = <<p, k>> /\ IsResult(upstream[p].content[k]) /\ upstream[p].content[k].id = id
    BY <2>5
  <2>7. PICK i \in 1 .. Len(ms) :
          /\ Asks(ms, i) /\ p - 1 \in 1 .. Len(upstream)
          /\ upstream[p - 1] = TurnAt(ms, i) /\ upstream[p] = AnswerAt(ms, i)
    BY <2>1, <2>6, PairedMatched
  <2>. DEFINE a == AnswerAt(ms, i).content
              asked == upstream[r[1] - 1].content
              next == SaidAfter(ms, i)
              call == CHOOSE c \in DOMAIN asked : asked[c].type = "tool_use" /\ asked[c].id = id
              at == CHOOSE n \in DOMAIN said :
                      \E c \in DOMAIN said[n].content : said[n].content[c].from = asked[call].from
  <2>17. Asks(ms, i) /\ i \in Int
    <3>1. Len(ms) \in Nat
      BY <2>1
    <3>. QED  BY <2>7, <3>1
  <2>16. r[1] = p /\ r[2] = k /\ asked = TurnAt(ms, i).content /\ upstream[r[1]].content = a
    BY <2>6, <2>7
  <2>8. k \in 1 .. Len(a) /\ IsResult(a[k]) /\ a[k].id = id
    BY <2>6, <2>7
  <2>9. /\ next \in Seq(UserBlock) /\ id \in ToSet(Asked(ms, i))
        /\ \/ /\ a[k].from = 0
              /\ \A j \in 1 .. Len(next) : ~(IsResult(next[j]) /\ next[j].id = id)
           \/ \E j \in 1 .. Len(next) :
                /\ a[k] = next[j]
                /\ \A l \in 1 .. j - 1 : ~(IsResult(next[l]) /\ next[l].id = id)
    <3>1. /\ next \in Seq(UserBlock)
          /\ \A q \in 1 .. Len(a) : IsResult(a[q]) => a[q].id \in ToSet(Asked(ms, i))
          /\ \A q \in 1 .. Len(a) : IsResult(a[q]) =>
               \/ /\ a[q].from = 0
                  /\ \A j \in 1 .. Len(next) : ~(IsResult(next[j]) /\ next[j].id = a[q].id)
               \/ \E j \in 1 .. Len(next) :
                    /\ a[q] = next[j]
                    /\ \A l \in 1 .. j - 1 : ~(IsResult(next[l]) /\ next[l].id = a[q].id)
      BY <2>1, <2>17, AnswerAtIs, Zenon
    <3>. HIDE DEF a, next
    <3>. QED  BY <2>8, <3>1
  <2>10. call \in 1 .. Len(asked) /\ IsUse(asked[call])
    <3>1. /\ asked \in Seq(AssistantBlock)
          /\ \E c \in 1 .. Len(asked) : IsUse(asked[c]) /\ asked[c].id = id
      <4>1. /\ asked \in Seq(AssistantBlock)
            /\ \A x \in ToSet(Asked(ms, i)) :
                 x \in Ids /\ \E c \in 1 .. Len(asked) : IsUse(asked[c]) /\ asked[c].id = x
        <5>. DEFINE t == TurnAt(ms, i).content
        <5>1. /\ t \in Seq(AssistantBlock)
              /\ \A x \in ToSet(Asked(ms, i)) :
                   x \in Ids /\ \E c \in 1 .. Len(t) : IsUse(t[c]) /\ t[c].id = x
          <6>1. t \in Seq(AssistantBlock)
            BY <2>1, <2>17, TurnAtIs
          <6>2. \A x \in ToSet(Asked(ms, i)) :
                  x \in Ids /\ \E c \in 1 .. Len(t) : IsUse(t[c]) /\ t[c].id = x
            BY <2>1, <2>17, TurnAtIs
          <6>. QED  BY <6>1, <6>2
        <5>. HIDE DEF t, asked
        <5>2. asked = t
          BY <2>16 DEF t
        <5>. QED  BY <5>1, <5>2
      <4>. HIDE DEF asked
      <4>. QED  BY <2>9, <4>1
    <3>2. \E c \in DOMAIN asked : asked[c].type = "tool_use" /\ asked[c].id = id
      <4>. HIDE DEF asked
      <4>. QED  BY <3>1 DEF IsUse
    <3>3. call \in DOMAIN asked /\ asked[call].type = "tool_use" /\ asked[call].id = id
      <4>. HIDE DEF asked
      <4>. QED  BY <3>2
    <3>. HIDE DEF asked, call
    <3>. QED  BY <3>1, <3>3 DEF IsUse
  <2>11. \E c \in 1 .. Len(said[i].content) : said[i].content[c].from = asked[call].from
    <3>1. asked[call] = Placeholder
          \/ \E j \in 1 .. Len(ms[i].content) : asked[call] = ms[i].content[j]
      <4>1. \A c \in 1 .. Len(asked) :
              asked[c] = Placeholder \/ \E j \in 1 .. Len(ms[i].content) : asked[c] = ms[i].content[j]
        <5>. DEFINE t == TurnAt(ms, i).content
        <5>1. \A c \in 1 .. Len(t) :
                t[c] = Placeholder \/ \E j \in 1 .. Len(ms[i].content) : t[c] = ms[i].content[j]
          BY <2>1, <2>17, TurnAtIs
        <5>. HIDE DEF t, asked
        <5>2. asked = t
          BY <2>16 DEF t
        <5>. QED  BY <5>1, <5>2
      <4>. HIDE DEF asked, call
      <4>. QED  BY <2>10, <4>1
    <3>. HIDE DEF asked, call
    <3>2. asked[call] # Placeholder
      BY <2>10 DEF IsUse, Placeholder
    <3>3. PICK j \in 1 .. Len(ms[i].content) : asked[call] = ms[i].content[j]
      BY <3>1, <3>2
    <3>4. \/ ms[i].content[j] = Placeholder
          \/ \E c \in 1 .. Len(said[i].content) : ms[i].content[j].from = said[i].content[c].from
      BY <2>4
    <3>. QED  BY <3>2, <3>3, <3>4
  <2>12. at = i
    <3>1. /\ DOMAIN said = 1 .. Len(said) /\ i \in 1 .. Len(said)
          /\ \A n \in 1 .. Len(said) : DOMAIN said[n].content = 1 .. Len(said[n].content)
      <4>1. \A n \in 1 .. Len(said) : said[n].content \in Seq(Block)
        BY <2>2, TurnIs
      <4>. QED  BY <2>2, <2>4, <2>7, <4>1
    <3>. HIDE DEF asked, call
    <3>2. at \in DOMAIN said
          /\ \E c \in DOMAIN said[at].content : said[at].content[c].from = asked[call].from
      <4>1. \E n \in DOMAIN said :
              \E c \in DOMAIN said[n].content : said[n].content[c].from = asked[call].from
        BY <2>11, <3>1
      <4>. QED  BY <4>1
    <3>. HIDE DEF at
    <3>3. PICK c \in 1 .. Len(said[i].content) : said[i].content[c].from = asked[call].from
      BY <2>11
    <3>4. PICK d \in DOMAIN said[at].content : said[at].content[d].from = asked[call].from
      BY <3>2
    <3>5. at \in 1 .. Len(said) /\ d \in 1 .. Len(said[at].content)
      BY <3>1, <3>2
    <3>6. said[at].content[d].from = said[i].content[c].from
      BY <3>3, <3>4
    <3>. QED  BY <2>2, <3>1, <3>3, <3>5, <3>6
  <2>. DEFINE given == IF i < Len(said) /\ said[i + 1].role = "user"
                         THEN {said[i + 1].content[q].from :
                                 q \in {q \in DOMAIN said[i + 1].content :
                                          said[i + 1].content[q].type = "tool_result"
                                            /\ said[i + 1].content[q].id = id}}
                         ELSE {}
  <2>13. \A n : n \in given <=>
           \E q \in 1 .. Len(next) : IsResult(next[q]) /\ next[q].id = id /\ n = next[q].from
    <3>1. CASE i < Len(said) /\ said[i + 1].role = "user"
      <4>1. next = said[i + 1].content
        <5>1. i + 1 \in 1 .. Len(ms) /\ i < Len(ms)
          BY <2>4, <2>7, <3>1
        <5>2. ms[i + 1] = said[i + 1]
          BY <2>4, <3>1, <5>1
        <5>. QED  BY <3>1, <5>1, <5>2 DEF SaidAfter
      <4>. HIDE DEF next
      <4>2. given = {next[q].from : q \in {q \in DOMAIN next : next[q].type = "tool_result" /\ next[q].id = id}}
        BY <3>1, <4>1
      <4>3. DOMAIN next = 1 .. Len(next)
        BY <2>9
      <4>. HIDE DEF given
      <4>. QED  BY <4>2, <4>3 DEF IsResult
    <3>2. CASE ~(i < Len(said) /\ said[i + 1].role = "user")
      <4>1. next = <<>>
        <5>1. i < Len(ms) => i + 1 \in 1 .. Len(ms)
          BY <2>7
        <5>2. ~(i < Len(ms) /\ ms[i + 1].role = "user")
          BY <2>4, <3>2, <5>1
        <5>. QED  BY <5>2 DEF SaidAfter
      <4>2. given = {}
        BY <3>2
      <4>. HIDE DEF next, given
      <4>. QED  BY <4>1, <4>2
    <3>. QED  BY <3>1, <3>2
  <2>14. \A q, l \in 1 .. Len(next) : q <= l => next[q].from <= next[l].from
    <3>1. CASE i < Len(ms) /\ ms[i + 1].role = "user"
      <4>1. i + 1 \in 1 .. Len(ms)
        BY <2>7, <3>1
      <4>2. next = said[i + 1].content /\ i + 1 \in 1 .. Len(said)
        BY <2>4, <3>1, <4>1 DEF SaidAfter
      <4>. HIDE DEF next
      <4>. QED  BY <2>2, <4>2
    <3>2. CASE ~(i < Len(ms) /\ ms[i + 1].role = "user")
      <4>1. next = <<>>
        BY <3>2 DEF SaidAfter
      <4>. HIDE DEF next
      <4>. QED  BY <4>1
    <3>. QED  BY <3>1, <3>2
  <2>15. IF given = {} THEN a[k].from = 0
         ELSE a[k].from \in given /\ \A n \in given : a[k].from <= n
    <3>. HIDE DEF a, next, given
    <3>1. CASE /\ a[k].from = 0
               /\ \A j \in 1 .. Len(next) : ~(IsResult(next[j]) /\ next[j].id = id)
      <4>1. given = {}
        BY <2>13, <3>1
      <4>. QED  BY <3>1, <4>1
    <3>2. ASSUME NEW j \in 1 .. Len(next), a[k] = next[j],
                 \A l \in 1 .. j - 1 : ~(IsResult(next[l]) /\ next[l].id = id)
          PROVE  a[k].from \in given /\ \A n \in given : a[k].from <= n
      <4>1. IsResult(next[j]) /\ next[j].id = id /\ a[k].from = next[j].from
        BY <2>8, <3>2
      <4>2. a[k].from \in given
        BY <2>13, <4>1
      <4>3. ASSUME NEW n \in given PROVE a[k].from <= n
        <5>1. PICK q \in 1 .. Len(next) : IsResult(next[q]) /\ next[q].id = id /\ n = next[q].from
          BY <2>13
        <5>2. j <= q
          <6>1. q \notin 1 .. j - 1
            BY <3>2, <5>1
          <6>2. q \in Nat /\ j \in Nat /\ 1 <= q
            BY <2>9
          <6>. QED  BY <6>1, <6>2
        <5>. QED  BY <2>14, <4>1, <5>1, <5>2
      <4>. QED  BY <4>2, <4>3
    <3>. QED  BY <2>9, <3>1, <3>2
  <2>. DEFINE answers == IF at < Len(said) /\ said[at + 1].role = "user"
                           THEN {said[at + 1].content[q].from :
                                   q \in {q \in DOMAIN said[at + 1].content :
                                            said[at + 1].content[q].type = "tool_result"
                                              /\ said[at + 1].content[q].id = id}}
                           ELSE {}
              from == upstream[r[1]].content[r[2]].from
  <2>18. answers = given
    <3>. HIDE DEF at
    <3>. QED  BY <2>12
  <2>19. from = a[k].from
    BY <2>16
  <2>20. IF answers = {} THEN from = 0 ELSE from \in answers /\ \A n \in answers : from <= n
    <3>. HIDE DEF answers, from, given, a
    <3>. QED  BY <2>15, <2>18, <2>19
  <2>. QED  BY <2>20, Zenon DEF said
<1>2. IInv => InventsNoAnswer
  BY <1>1
<1>. QED  BY <1>2, Invariant, PTL

=============================================================================
