----------------------------- MODULE BnetProofs -----------------------------
(***************************************************************************)
(* Lemmas about networks that the proofs about the programs share: bounded *)
(* induction, nodes and their readers, what SetToSeq returns, and what the *)
(* recursion in Downstream computes.                                       *)
(***************************************************************************)
EXTENDS Bnet, SequencesExt, FiniteSetTheorems, WellFoundedInduction, TLAPS

\* Induction up to a bound, for a set of numbers: if some number were missing,
\* the sets of numbers up to a missing one would have a minimal element.
LEMMA UpTo ==
    ASSUME NEW n \in Nat, NEW S \in SUBSET (0 .. n), 0 \in S,
           \A i \in 0 .. n - 1 : i \in S => i + 1 \in S
    PROVE  S = 0 .. n
<1> SUFFICES ASSUME S # 0 .. n PROVE FALSE
  OBVIOUS
<1> DEFINE T == {0 .. j : j \in (0 .. n) \ S}
<1>1. FiniteSubsetsOf(0 .. n) = SUBSET (0 .. n)
  <2>1. IsFiniteSet(0 .. n)
    BY FS_Interval
  <2>2. QED
    BY <2>1, FS_FiniteSubsetsOfFinite
<1>2. T \subseteq FiniteSubsetsOf(0 .. n) /\ T # {}
  <2>1. \A j \in (0 .. n) \ S : 0 .. j \in SUBSET (0 .. n)
    OBVIOUS
  <2>2. PICK j \in (0 .. n) \ S : TRUE
    OBVIOUS
  <2>3. 0 .. j \in T
    BY <2>2
  <2>4. QED
    BY <1>1, <2>1, <2>3
<1>3. PICK t \in T : \A u \in T : ~(<<u, t>> \in StrictSubsetOrdering(0 .. n))
  BY <1>2, FS_StrictSubsetOrderingWellFounded, FS_Interval, WFMin, Zenon
<1>4. PICK j \in (0 .. n) \ S : t = 0 .. j
  BY <1>3
<1>5. j # 0 /\ j - 1 \in 0 .. n - 1 /\ j - 1 \notin S
  BY <1>4
<1>6. 0 .. j - 1 \in T /\ 0 .. j - 1 \subseteq t /\ 0 .. j - 1 # t
  <2>1. j \in 0 .. j /\ j \notin 0 .. j - 1 /\ 0 .. j - 1 \subseteq 0 .. j
    BY <1>4
  <2>2. QED
    BY <1>4, <1>5, <2>1
<1>7. <<0 .. j - 1, t>> \in StrictSubsetOrdering(0 .. n)
  BY <1>1, <1>2, <1>3, <1>6 DEF StrictSubsetOrdering
<1>8. QED
  BY <1>3, <1>6, <1>7

-----------------------------------------------------------------------------
(* Nodes and their readers.                                                *)

LEMMA NodesAreFinite ==
  ASSUME NEW g, WellFormed(g)
  PROVE  IsFiniteSet(NodesOf(g))
<1>1. g.nodes \in [1 .. Len(g.nodes) -> NodesOf(g)] /\ Len(g.nodes) \in Nat
  BY DEF WellFormed, NodesOf
<1>2. g.nodes \in Surjection(1 .. Len(g.nodes), NodesOf(g))
  BY <1>1 DEF Surjection, NodesOf
<1>3. QED
  BY <1>1, <1>2, FS_Interval, FS_Surjection

\* What is read by m is a fanout of m, and the other way about.
LEMMA ReadersAreFanouts ==
  ASSUME NEW g, WellFormed(g), NEW m \in NodesOf(g), NEW n \in NodesOf(g),
         m \in Range(g.inputs[n])
  PROVE  n \in Range(g.fanouts[m])
<1>1. g.inputs[n] \in Seq(NodesOf(g)) /\ g.fanouts[m] \in Seq(NodesOf(g))
  BY DEF WellFormed
<1>2. IsFiniteSet(DOMAIN g.inputs[n]) /\ IsFiniteSet(DOMAIN g.fanouts[m])
  BY <1>1, FS_Interval
<1>3. IsFiniteSet(Pins(g.inputs[n], m)) /\ IsFiniteSet(Pins(g.fanouts[m], n))
  BY <1>2, FS_Subset DEF Pins
<1>4. Cardinality(Pins(g.fanouts[m], n)) = Cardinality(Pins(g.inputs[n], m))
  BY DEF WellFormed, FanoutsMatchInputs
<1>5. Pins(g.inputs[n], m) # {}
  BY DEF Pins, Range
<1>6. Pins(g.fanouts[m], n) # {}
  BY <1>3, <1>4, <1>5, FS_EmptySet
<1>7. QED
  BY <1>6 DEF Pins, Range

-----------------------------------------------------------------------------
(* Sequences that list a set.                                             *)

\* A sequence of as many different elements of S as there are has all of them.
LEMMA AllOfThem ==
  ASSUME NEW S, IsFiniteSet(S), NEW f \in [1 .. Cardinality(S) -> S],
         \A i, j \in 1 .. Cardinality(S) : f[i] = f[j] => i = j
  PROVE  f \in Seq(S) /\ Len(f) = Cardinality(S) /\ Range(f) = S
<1>1. Cardinality(S) \in Nat
  BY FS_CardinalityType
<1>2. f \in Seq(S) /\ Len(f) = Cardinality(S) /\ DOMAIN f = 1 .. Cardinality(S)
  BY <1>1
<1>3. f \in Injection(1 .. Cardinality(S), S)
  BY DEF Injection, IsInjective
<1>4. Cardinality(1 .. Cardinality(S)) = Cardinality(S)
  BY <1>1, FS_Interval
<1>5. f \in Surjection(1 .. Cardinality(S), S)
  BY <1>3, <1>4, FS_Injection
<1>6. Range(f) = S
  BY <1>5 DEF Surjection, Range
<1>7. QED
  BY <1>2, <1>6

LEMMA SetToSeqFacts ==
  ASSUME NEW S, IsFiniteSet(S)
  PROVE  /\ SetToSeq(S) \in Seq(S) /\ Len(SetToSeq(S)) = Cardinality(S)
         /\ Range(SetToSeq(S)) = S
         /\ \A i, j \in DOMAIN SetToSeq(S) : SetToSeq(S)[i] = SetToSeq(S)[j] => i = j
<1> DEFINE n == Cardinality(S)
           f == SetToSeq(S)
<1>1. \E g \in [1 .. n -> S] : IsInjective(g)
  BY FS_CardinalityType DEF ExistsBijection, Bijection, Injection
<1>2. f \in [1 .. n -> S] /\ IsInjective(f)
  BY <1>1 DEF SetToSeq
<1> HIDE DEF f
<1>3. \A i, j \in 1 .. n : f[i] = f[j] => i = j
  BY <1>2 DEF IsInjective
<1>4. f \in Seq(S) /\ Len(f) = n /\ Range(f) = S
  BY <1>2, <1>3, AllOfThem
<1>5. DOMAIN f = 1 .. n
  BY <1>2
<1>6. QED
  BY <1>3, <1>4, <1>5 DEF f

-----------------------------------------------------------------------------
(***************************************************************************)
(* Downstream: what its recursion on the number of steps computes is the   *)
(* least set that holds the readers of n and the readers of its elements.  *)
(***************************************************************************)
Grown(g, X) == X \cup UNION {Readers(g, m) : m \in X}
WithinOf(g, n, f, k) == IF k = 0 THEN Readers(g, n) ELSE Grown(g, f[k - 1])
\* f holds what Downstream looks at, K steps away.
Reaches(g, n, f, K) ==
    /\ f[0] = Readers(g, n)
    /\ \A k \in Nat : f[k + 1] = Grown(g, f[k])
    /\ Downstream(g, n) = f[K]
IsWithin(g, n, f, K) == f = [k \in 0 .. K |-> WithinOf(g, n, f, k)]

LEMMA WithinUpTo ==
  ASSUME NEW g, NEW n, NEW K \in Nat
  PROVE  \E f : IsWithin(g, n, f, K)
<1> DEFINE T == {m \in 0 .. K : \E f : IsWithin(g, n, f, m)}
<1>1. 0 \in T
  <2> DEFINE f == [k \in 0 .. 0 |-> Readers(g, n)]
  <2>1. \A k \in 0 .. 0 : f[k] = WithinOf(g, n, f, k)
    BY DEF WithinOf
  <2>2. f = [k \in 0 .. 0 |-> f[k]]
    OBVIOUS
  <2> HIDE DEF f
  <2>3. IsWithin(g, n, f, 0)
    BY <2>1, <2>2 DEF IsWithin
  <2>4. 0 \in 0 .. K
    OBVIOUS
  <2>5. QED
    BY <2>3, <2>4
<1>2. ASSUME NEW m \in 0 .. K - 1, m \in T PROVE m + 1 \in T
  <2>1. PICK f : IsWithin(g, n, f, m)
    BY <1>2
  <2> DEFINE h == [k \in 0 .. m + 1 |-> IF k = m + 1 THEN Grown(g, f[m]) ELSE f[k]]
  <2>2. h[m + 1] = Grown(g, f[m]) /\ \A k \in 0 .. m : h[k] = f[k]
    OBVIOUS
  <2>3. h = [k \in 0 .. m + 1 |-> h[k]]
    OBVIOUS
  <2> HIDE DEF h
  <2>4. ASSUME NEW k \in 0 .. m + 1 PROVE h[k] = WithinOf(g, n, h, k)
    <3>1. CASE k = m + 1
      <4>1. k # 0 /\ k - 1 = m /\ m \in 0 .. m
        BY <3>1
      <4>2. h[k - 1] = f[m]
        BY <2>2, <4>1
      <4>3. QED
        BY <2>2, <3>1, <4>1, <4>2 DEF WithinOf
    <3>2. CASE k # m + 1
      <4>1. k \in 0 .. m /\ (k # 0 => k - 1 \in 0 .. m)
        BY <3>2
      <4>2. f[k] = WithinOf(g, n, f, k)
        BY <2>1, <4>1 DEF IsWithin
      <4>3. QED
        BY <2>2, <4>1, <4>2 DEF WithinOf
    <3>3. QED
      BY <3>1, <3>2
  <2>5. IsWithin(g, n, h, m + 1)
    BY <2>3, <2>4 DEF IsWithin
  <2>6. m + 1 \in 0 .. K
    OBVIOUS
  <2>7. QED
    BY <2>5, <2>6
<1>3. T \in SUBSET (0 .. K)
  OBVIOUS
<1> HIDE DEF T
<1>4. T = 0 .. K
  BY <1>1, <1>2, <1>3, UpTo
<1>5. K \in 0 .. K
  OBVIOUS
<1>6. K \in T
  BY <1>4, <1>5, Zenon
<1>7. QED
  BY <1>6 DEF T

LEMMA WithinAgree ==
  ASSUME NEW g, NEW n, NEW K \in Nat, NEW L \in Nat, K <= L,
         NEW f, IsWithin(g, n, f, K), NEW h, IsWithin(g, n, h, L)
  PROVE  f[K] = h[K]
<1> DEFINE T == {k \in 0 .. K : f[k] = h[k]}
<1>1. \A k \in 0 .. K : f[k] = WithinOf(g, n, f, k)
  BY DEF IsWithin
<1>2. \A k \in 0 .. K : h[k] = WithinOf(g, n, h, k)
  <2>1. \A k \in 0 .. L : h[k] = WithinOf(g, n, h, k)
    BY DEF IsWithin
  <2>2. QED
    BY <2>1
<1>3. 0 \in T
  BY <1>1, <1>2 DEF WithinOf
<1>4. ASSUME NEW m \in 0 .. K - 1, m \in T PROVE m + 1 \in T
  <2>1. m + 1 \in 0 .. K /\ m + 1 # 0 /\ (m + 1) - 1 = m
    OBVIOUS
  <2>2. PICK k \in 0 .. K : k = m + 1
    BY <2>1
  <2>3. f[k] = Grown(g, f[m]) /\ h[k] = Grown(g, h[m])
    BY <1>1, <1>2, <2>1, <2>2 DEF WithinOf
  <2>4. QED
    BY <1>4, <2>2, <2>3
<1>5. T \in SUBSET (0 .. K)
  OBVIOUS
<1>6. T = 0 .. K
  <2> HIDE DEF T
  <2>1. QED
    BY <1>3, <1>4, <1>5, UpTo
<1>7. K \in 0 .. K
  OBVIOUS
<1>8. QED
  BY <1>6, <1>7

LEMMA DownstreamIs ==
  ASSUME NEW g, NEW n, NEW K \in Nat, K = Len(g.nodes)
  PROVE  \E f : Reaches(g, n, f, K)
<1> DEFINE H(k) == CHOOSE f : IsWithin(g, n, f, k)
           F == [k \in Nat |-> H(k)[k]]
           Full(f) == f = [k \in Nat |-> IF k = 0 THEN Readers(g, n)
                                         ELSE f[k - 1] \cup UNION {Readers(g, m) : m \in f[k - 1]}]
           D == CHOOSE f : Full(f)
<1>1. \A k \in Nat : IsWithin(g, n, H(k), k)
  BY WithinUpTo
<1> HIDE DEF H
<1>2. ASSUME NEW k \in Nat PROVE F[k] = IF k = 0 THEN Readers(g, n) ELSE Grown(g, F[k - 1])
  <2>1. k \in 0 .. k
    OBVIOUS
  <2>2. H(k)[k] = WithinOf(g, n, H(k), k)
    BY <1>1, <2>1 DEF IsWithin
  <2>3. CASE k = 0
    BY <2>2, <2>3 DEF WithinOf
  <2>4. CASE k # 0
    <3>1. PICK j \in Nat : j = k - 1 /\ j <= k
      BY <2>4
    <3>2. H(j)[j] = H(k)[j]
      BY <1>1, <3>1, WithinAgree
    <3>3. H(k)[k] = Grown(g, H(k)[j])
      BY <2>2, <2>4, <3>1 DEF WithinOf
    <3>4. F[k] = H(k)[k] /\ F[j] = H(j)[j]
      OBVIOUS
    <3>5. QED
      BY <2>4, <3>1, <3>2, <3>3, <3>4
  <2>5. QED
    BY <2>3, <2>4
<1>3. F = [k \in Nat |-> F[k]]
  OBVIOUS
<1> HIDE DEF F
<1>4. Full(F)
  BY <1>2, <1>3 DEF Grown
<1>5. Full(D)
  <2> HIDE DEF Full
  <2>1. QED
    BY <1>4
<1>6. Downstream(g, n) = D[K]
  BY DEF Downstream
<1> HIDE DEF D
<1>7. \A k \in Nat : D[k] = IF k = 0 THEN Readers(g, n)
                            ELSE D[k - 1] \cup UNION {Readers(g, m) : m \in D[k - 1]}
  BY <1>5
<1>8. D[0] = Readers(g, n)
  BY <1>7
<1>9. ASSUME NEW k \in Nat PROVE D[k + 1] = Grown(g, D[k])
  <2>1. PICK j \in Nat : j = k + 1 /\ j # 0 /\ j - 1 = k
    OBVIOUS
  <2>2. D[j] = D[j - 1] \cup UNION {Readers(g, m) : m \in D[j - 1]}
    BY <1>7, <2>1
  <2>3. QED
    BY <2>1, <2>2 DEF Grown
<1>10. Reaches(g, n, D, K)
  BY <1>6, <1>8, <1>9 DEF Reaches
<1>11. QED
  BY <1>10

LEMMA DownstreamLeast ==
  ASSUME NEW g, NEW n, Len(g.nodes) \in Nat, NEW X,
         Readers(g, n) \subseteq X, \A m \in X : Readers(g, m) \subseteq X
  PROVE  Downstream(g, n) \subseteq X
<1> PICK K \in Nat : K = Len(g.nodes)
  OBVIOUS
<1>0. K \in Nat /\ K = Len(g.nodes)
  OBVIOUS
<1>w. PICK f : Reaches(g, n, f, K)
  BY <1>0, DownstreamIs, Zenon
<1>1. /\ f[0] = Readers(g, n)
      /\ \A k \in Nat : f[k + 1] = Grown(g, f[k])
      /\ Downstream(g, n) = f[K]
  BY <1>w DEF Reaches
<1> DEFINE T == {k \in 0 .. K : f[k] \subseteq X}
<1>2. 0 \in T
  <2>1. 0 \in 0 .. K
    BY <1>0
  <2>2. f[0] \subseteq X
    BY <1>1, Zenon
  <2>3. QED
    BY <2>1, <2>2, Zenon
<1>3. ASSUME NEW k \in 0 .. K - 1, k \in T PROVE k + 1 \in T
  <2>0. k \in Nat /\ k + 1 \in 0 .. K
    OBVIOUS
  <2>1. f[k + 1] = Grown(g, f[k]) /\ k + 1 \in 0 .. K
    BY <1>1, <2>0
  <2>2. f[k] \subseteq X
    BY <1>3
  <2>3. Grown(g, f[k]) \subseteq X
    BY <2>2 DEF Grown
  <2>4. QED
    BY <2>1, <2>3
<1>4. T \in SUBSET (0 .. K)
  OBVIOUS
<1>5. T = 0 .. K
  <2> HIDE DEF T
  <2>1. QED
    BY <1>2, <1>3, <1>4, UpTo
<1>6. K \in 0 .. K
  OBVIOUS
<1>7. K \in T
  BY <1>5, <1>6, Zenon
<1>8. QED
  BY <1>1, <1>7

\* The list is long enough: until the set is closed, every step adds a node.
LEMMA DownstreamClosed ==
  ASSUME NEW g, NEW n, Len(g.nodes) \in Nat, IsFiniteSet(NodesOf(g)),
         Cardinality(NodesOf(g)) <= Len(g.nodes)
  PROVE  /\ Downstream(g, n) \subseteq NodesOf(g)
         /\ Readers(g, n) \subseteq Downstream(g, n)
         /\ \A m \in Downstream(g, n) : Readers(g, m) \subseteq Downstream(g, n)
<1> DEFINE N == NodesOf(g)
<1>a. \A m : Readers(g, m) \subseteq N
  BY DEF Readers
<1> PICK K \in Nat : K = Len(g.nodes)
  OBVIOUS
<1> PICK c \in Nat : c = Cardinality(N)
  BY FS_CardinalityType
<1>b. c <= K
  OBVIOUS
<1>c. IsFiniteSet(N)
  OBVIOUS
<1>0. K \in Nat /\ K = Len(g.nodes)
  OBVIOUS
<1>w. PICK f : Reaches(g, n, f, K)
  BY <1>0, DownstreamIs, Zenon
<1>1. /\ f[0] = Readers(g, n)
      /\ \A k \in Nat : f[k + 1] = Grown(g, f[k])
      /\ Downstream(g, n) = f[K]
  BY <1>w DEF Reaches
<1> HIDE DEF N
<1> DEFINE Closed(X) == \A m \in X : Readers(g, m) \subseteq X
           Fine(k) == /\ f[k] \subseteq N /\ Readers(g, n) \subseteq f[k]
                      /\ Closed(f[k]) \/ Cardinality(f[k]) > k
           T == {k \in 0 .. K : Fine(k)}
<1>2. \A X \in SUBSET N : IsFiniteSet(X) /\ Cardinality(X) \in Nat /\ Cardinality(X) <= c
  BY <1>c, FS_Subset, FS_CardinalityType
<1>3. 0 \in T
  <2>1. f[0] \in SUBSET N
    BY <1>1, <1>a
  <2>2. f[0] # {} => Cardinality(f[0]) > 0
    BY <1>2, <2>1, FS_EmptySet
  <2>3. f[0] = {} => Closed(f[0])
    OBVIOUS
  <2>4. Fine(0)
    BY <1>1, <2>1, <2>2, <2>3
  <2>5. QED
    BY <2>4
<1>4. ASSUME NEW k \in 0 .. K - 1, k \in T PROVE k + 1 \in T
  <2>0. k \in Nat /\ k + 1 \in 0 .. K
    OBVIOUS
  <2>1. f[k + 1] = Grown(g, f[k]) /\ k + 1 \in 0 .. K
    BY <1>1, <2>0
  <2>2. f[k] \subseteq N /\ Readers(g, n) \subseteq f[k] /\ (Closed(f[k]) \/ Cardinality(f[k]) > k)
    BY <1>4
  <2>3. f[k] \subseteq f[k + 1] /\ f[k + 1] \subseteq N
    BY <1>a, <2>1, <2>2 DEF Grown
  <2>4. CASE Closed(f[k])
    <3>1. f[k + 1] = f[k]
      BY <2>1, <2>4 DEF Grown
    <3>2. QED
      BY <2>1, <2>2, <2>4, <3>1
  <2>5. CASE ~Closed(f[k])
    <3>1. f[k + 1] # f[k]
      <4>1. PICK m \in f[k] : ~(Readers(g, m) \subseteq f[k])
        BY <2>5
      <4>2. Readers(g, m) \subseteq Grown(g, f[k])
        BY <4>1 DEF Grown
      <4>3. QED
        BY <2>1, <4>1, <4>2
    <3>2. PICK X \in SUBSET N : X = f[k]
      BY <2>2
    <3>3. PICK Y \in SUBSET N : Y = f[k + 1]
      BY <2>3
    <3>4. X \in SUBSET Y /\ X # Y /\ IsFiniteSet(Y)
      BY <1>2, <2>3, <3>1, <3>2, <3>3
    <3>5. Cardinality(X) <= Cardinality(Y) /\ Cardinality(Y) # Cardinality(X)
      BY <3>4, FS_Subset
    <3>6. Cardinality(X) \in Nat /\ Cardinality(Y) \in Nat /\ Cardinality(X) > k
      BY <1>2, <2>2, <2>5, <3>2
    <3>7. Cardinality(Y) > k + 1
      BY <3>5, <3>6
    <3>8. Fine(k + 1)
      BY <2>2, <2>3, <3>3, <3>7
    <3>9. QED
      BY <2>1, <3>8
  <2>6. QED
    BY <2>4, <2>5
<1>5. T \in SUBSET (0 .. K)
  OBVIOUS
<1>6. T = 0 .. K
  <2> HIDE DEF T
  <2>1. QED
    BY <1>3, <1>4, <1>5, UpTo
<1>7. K \in 0 .. K
  OBVIOUS
<1>8. K \in T
  BY <1>6, <1>7, Zenon
<1>9. Fine(K)
  BY <1>8
<1>10. Cardinality(f[K]) \in Nat /\ Cardinality(f[K]) <= c
  BY <1>2, <1>9
<1>11. Closed(f[K])
  BY <1>b, <1>9, <1>10
<1>12. QED
  BY <1>1, <1>9, <1>11 DEF N

LEMMA Downstreams ==
  ASSUME NEW g, WellFormed(g), NEW n
  PROVE  /\ Readers(g, n) \subseteq Downstream(g, n)
         /\ \A m \in Downstream(g, n) : Readers(g, m) \subseteq Downstream(g, n)
<1>1. g.nodes \in [1 .. Len(g.nodes) -> NodesOf(g)] /\ Len(g.nodes) \in Nat
  BY DEF WellFormed, NodesOf
<1>2. g.nodes \in Surjection(1 .. Len(g.nodes), NodesOf(g))
  BY <1>1 DEF Surjection, NodesOf
<1>3. IsFiniteSet(1 .. Len(g.nodes)) /\ Cardinality(1 .. Len(g.nodes)) = Len(g.nodes)
  <2>1. PICK k \in Nat : k = Len(g.nodes)
    BY <1>1
  <2>2. IsFiniteSet(1 .. k) /\ Cardinality(1 .. k) = k
    BY FS_Interval
  <2>3. QED
    BY <2>1, <2>2
<1>4. IsFiniteSet(NodesOf(g)) /\ Cardinality(NodesOf(g)) <= Len(g.nodes)
  BY <1>2, <1>3, FS_Surjection
<1>5. QED
  BY <1>1, <1>4, DownstreamClosed
=============================================================================
