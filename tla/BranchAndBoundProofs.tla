------------------------- MODULE BranchAndBoundProofs -------------------------
(***************************************************************************)
(* Proofs about the approximation, for every number of variables.          *)
(***************************************************************************)
EXTENDS BranchAndBound, FiniteSetTheorems, TLAPS

-----------------------------------------------------------------------------
(* Orders: what CHOOSE finds.                                              *)

\* A strict total order on a finite set has a least element: of the sets of
\* elements before one, a minimal one is empty.
LEMMA LeastOf ==
  ASSUME NEW S, IsFiniteSet(S), S # {}, NEW R,
         \A a \in S : <<a, a>> \notin R,
         \A a, b, c \in S : <<a, b>> \in R /\ <<b, c>> \in R => <<a, c>> \in R,
         \A a, b \in S : a # b => <<a, b>> \in R \/ <<b, a>> \in R
  PROVE  \E a \in S : \A b \in S \ {a} : <<a, b>> \in R
<1> DEFINE before(a) == {b \in S : <<b, a>> \in R}
           T == {before(a) : a \in S}
<1>1. FiniteSubsetsOf(S) = SUBSET S
  BY FS_FiniteSubsetsOfFinite
<1>2. T \subseteq FiniteSubsetsOf(S) /\ T # {}
  <2>1. \A a \in S : before(a) \in SUBSET S
    OBVIOUS
  <2>2. PICK a \in S : TRUE
    OBVIOUS
  <2>3. T # {}
    <3>1. before(a) \in T
      <4> HIDE DEF before
      <4>1. QED
        OBVIOUS
    <3>2. QED
      BY <3>1
  <2>4. T \subseteq SUBSET S
    <3> HIDE DEF before
    <3>1. QED
      BY <2>1
  <2>5. QED
    BY <1>1, <2>3, <2>4, Zenon
<1>3. PICK t \in T : \A u \in T : ~(<<u, t>> \in StrictSubsetOrdering(S))
  <2> HIDE DEF T
  <2>1. QED
    BY <1>2, FS_StrictSubsetOrderingWellFounded, WFMin, Zenon
<1>4. PICK a \in S : t = before(a)
  BY <1>3
<1>5. ASSUME NEW b \in before(a) PROVE FALSE
  <2>1. b \in S /\ <<b, a>> \in R
    OBVIOUS
  <2>2. before(b) \subseteq before(a) /\ b \notin before(b)
    BY <2>1
  <2>3. before(b) # before(a) /\ before(b) \in T
    BY <2>1, <2>2
  <2>4. <<before(b), before(a)>> \in StrictSubsetOrdering(S)
    BY <2>2, <2>3 DEF StrictSubsetOrdering
  <2>5. QED
    BY <1>3, <1>4, <2>3, <2>4
<1>6. QED
  BY <1>5

LEMMA LeastInt ==
  ASSUME NEW S \in SUBSET Int, IsFiniteSet(S), S # {}
  PROVE  \E n \in S : \A k \in S : n <= k
<1> DEFINE R == {p \in S \X S : p[1] < p[2]}
<1>1. \A a, b \in S : <<a, b>> \in R <=> a < b
  OBVIOUS
<1> HIDE DEF R
<1>2. \A a \in S : <<a, a>> \notin R
  BY <1>1
<1>3. ASSUME NEW a \in S, NEW b \in S, NEW c \in S, <<a, b>> \in R, <<b, c>> \in R
      PROVE  <<a, c>> \in R
  <2>1. a < b /\ b < c
    BY <1>1, <1>3
  <2>2. a < c
    BY <2>1
  <2>3. QED
    BY <1>1, <2>2
<1>4. ASSUME NEW a \in S, NEW b \in S, a # b
      PROVE  <<a, b>> \in R \/ <<b, a>> \in R
  <2>1. a < b \/ b < a
    BY <1>4
  <2>2. QED
    BY <1>1, <2>1
<1>5. \E a \in S : \A b \in S \ {a} : <<a, b>> \in R
  BY <1>2, <1>3, <1>4, LeastOf, Zenon
<1>6. PICK a \in S : \A b \in S \ {a} : <<a, b>> \in R
  BY <1>5
<1>7. ASSUME NEW b \in S PROVE a <= b
  <2>1. CASE b = a
    BY <2>1
  <2>2. CASE b # a
    <3>1. a < b
      BY <1>1, <1>6, <2>2
    <3>2. QED
      BY <3>1
  <2>3. QED
    BY <2>1, <2>2
<1>8. QED
  BY <1>7

LEMMA LeastNat ==
  ASSUME NEW S \in SUBSET Nat, S # {}
  PROVE  \E n \in S : \A k \in S : n <= k
<1>1. PICK m \in S : TRUE
  OBVIOUS
<1> DEFINE T == S \cap (0 .. m)
<1>2. m \in Nat /\ m \in 0 .. m
  OBVIOUS
<1>3. T \in SUBSET Int /\ T # {}
  BY <1>2
<1>4. IsFiniteSet(T)
  <2>1. IsFiniteSet(0 .. m) /\ T \in SUBSET (0 .. m)
    BY <1>2, FS_Interval
  <2>2. QED
    BY <2>1, FS_Subset
<1>5. PICK n \in T : \A k \in T : n <= k
  <2> HIDE DEF T
  <2>1. QED
    BY <1>3, <1>4, LeastInt
<1>6. ASSUME NEW k \in S PROVE n <= k
  <2>1. CASE k <= m
    BY <1>5, <2>1
  <2>2. CASE k > m
    BY <1>2, <1>5, <2>2
  <2>3. QED
    BY <1>2, <2>1, <2>2
<1>7. QED
  BY <1>5, <1>6

\* The least of finitely many integers.
LEMMA MinIn ==
  ASSUME NEW S \in SUBSET Int, IsFiniteSet(S), S # {}
  PROVE  Min(S) \in S /\ \A k \in S : Min(S) <= k
  BY LeastInt DEF Min

\* The lowest variable at which two assignments differ.
LEMMA FirstDifference ==
  ASSUME NEW V \in SUBSET Int, IsFiniteSet(V), NEW a \in SUBSET V, NEW b \in SUBSET V, a # b
  PROVE  \E m \in V : /\ m = Min(SymDiff(a, b))
                      /\ m \in a <=> m \notin b
                      /\ \A k \in V : k < m => (k \in a <=> k \in b)
<1>1. SymDiff(a, b) \in SUBSET V /\ SymDiff(a, b) # {}
  BY DEF SymDiff
<1>2. IsFiniteSet(SymDiff(a, b))
  BY <1>1, FS_Subset
<1>3. /\ Min(SymDiff(a, b)) \in SymDiff(a, b)
      /\ \A k \in SymDiff(a, b) : Min(SymDiff(a, b)) <= k
  <2> DEFINE D == SymDiff(a, b)
  <2>1. D \in SUBSET Int /\ IsFiniteSet(D) /\ D # {}
    BY <1>1, <1>2
  <2> HIDE DEF D
  <2>2. Min(D) \in D /\ \A k \in D : Min(D) <= k
    BY <2>1, MinIn
  <2>3. QED
    BY <2>2 DEF D
<1> DEFINE m == Min(SymDiff(a, b))
<1>4. m \in V
  BY <1>1, <1>3
<1>5. m \in a <=> m \notin b
  BY <1>3 DEF SymDiff
<1>6. ASSUME NEW k \in V, k < m PROVE k \in a <=> k \in b
  <2>1. k \notin SymDiff(a, b)
    <3> HIDE DEF m
    <3>1. m \in Int /\ k \in Int
      BY <1>4
    <3>2. QED
      BY <1>3, <1>6, <3>1 DEF m
  <2>2. QED
    BY <2>1 DEF SymDiff
<1>7. QED
  BY <1>4, <1>5, <1>6

\* The order of assignments is a strict total order.
LEMMA PrecedesOrder ==
  ASSUME NEW V \in SUBSET Int, IsFiniteSet(V)
  PROVE  /\ \A a \in SUBSET V : ~ Precedes(a, a)
         /\ \A a, b \in SUBSET V : a # b => Precedes(a, b) \/ Precedes(b, a)
         /\ \A a, b \in SUBSET V : ~ (Precedes(a, b) /\ Precedes(b, a))
         /\ \A a, b, c \in SUBSET V : Precedes(a, b) /\ Precedes(b, c) => Precedes(a, c)
<1>1. \A a, b : SymDiff(a, b) = SymDiff(b, a)
  BY DEF SymDiff
<1>2. ASSUME NEW a \in SUBSET V, NEW b \in SUBSET V, a # b
      PROVE  /\ Precedes(a, b) \/ Precedes(b, a)
             /\ ~ (Precedes(a, b) /\ Precedes(b, a))
  <2>1. PICK m \in V : m = Min(SymDiff(a, b)) /\ (m \in a <=> m \notin b)
    BY <1>2, FirstDifference
  <2>2. m = Min(SymDiff(b, a))
    BY <1>1, <2>1
  <2>3. QED
    BY <1>2, <2>1, <2>2 DEF Precedes
<1>3. ASSUME NEW a \in SUBSET V, NEW b \in SUBSET V, NEW c \in SUBSET V,
             Precedes(a, b), Precedes(b, c)
      PROVE  Precedes(a, c)
  <2>1. PICK m \in V : /\ m = Min(SymDiff(a, b))
                       /\ m \in a <=> m \notin b
                       /\ \A k \in V : k < m => (k \in a <=> k \in b)
    BY <1>3, FirstDifference DEF Precedes
  <2>2. PICK n \in V : /\ n = Min(SymDiff(b, c))
                       /\ n \in b <=> n \notin c
                       /\ \A k \in V : k < n => (k \in b <=> k \in c)
    BY <1>3, FirstDifference DEF Precedes
  <2>3. m \in b /\ m \notin a /\ n \in c /\ n \notin b
    BY <1>3, <2>1, <2>2 DEF Precedes
  <2>4. m \in Int /\ n \in Int /\ m # n
    BY <2>3
  <2>5. a # c
    <3>1. CASE m < n
      BY <2>2, <2>3, <3>1
    <3>2. CASE n < m
      BY <2>1, <2>3, <3>2
    <3>3. QED
      BY <2>4, <3>1, <3>2
  <2>6. PICK l \in V : /\ l = Min(SymDiff(a, c))
                       /\ l \in a <=> l \notin c
                       /\ \A k \in V : k < l => (k \in a <=> k \in c)
    BY <2>5, FirstDifference
  <2>7. l \in Int
    OBVIOUS
  <2>8. CASE m < n
    <3>1. m \in c /\ m \notin a
      BY <2>2, <2>3, <2>8
    <3>2. ~ (m < l)
      BY <2>6, <3>1
    <3>3. ~ (l < m)
      BY <2>1, <2>2, <2>4, <2>6, <2>7, <2>8
    <3>4. l = m
      BY <2>4, <2>7, <3>2, <3>3
    <3>5. QED
      BY <2>5, <2>6, <3>1, <3>4 DEF Precedes
  <2>9. CASE n < m
    <3>1. n \in c /\ n \notin a
      BY <2>1, <2>3, <2>9
    <3>2. ~ (n < l)
      BY <2>6, <3>1
    <3>3. ~ (l < n)
      BY <2>1, <2>2, <2>4, <2>6, <2>7, <2>9
    <3>4. l = n
      BY <2>4, <2>7, <3>2, <3>3
    <3>5. QED
      BY <2>5, <2>6, <3>1, <3>4 DEF Precedes
  <2>10. QED
    BY <2>4, <2>8, <2>9
<1>4. \A a \in SUBSET V : ~ Precedes(a, a)
  BY DEF Precedes
<1>5. QED
  BY <1>2, <1>3, <1>4

\* First and LastOf choose an element of the set.
LEMMA FirstIn ==
  ASSUME NEW V \in SUBSET Int, IsFiniteSet(V), NEW S \in SUBSET SUBSET V, S # {}
  PROVE  First(S) \in S /\ LastOf(S) \in S
<1>1. IsFiniteSet(S)
  BY FS_SUBSET, FS_Subset
<1> DEFINE R == {p \in S \X S : Precedes(p[1], p[2])}
           Q == {p \in S \X S : Precedes(p[2], p[1])}
<1>2. \A a, b \in S : (<<a, b>> \in R <=> Precedes(a, b)) /\ (<<a, b>> \in Q <=> Precedes(b, a))
  OBVIOUS
<1>3. /\ \A a \in S : ~ Precedes(a, a)
      /\ \A a, b \in S : a # b => Precedes(a, b) \/ Precedes(b, a)
      /\ \A a, b, c \in S : Precedes(a, b) /\ Precedes(b, c) => Precedes(a, c)
  <2>1. \A a \in S : a \in SUBSET V
    OBVIOUS
  <2>2. QED
    BY <2>1, PrecedesOrder
<1> HIDE DEF R, Q
<1>4. \E a \in S : \A b \in S \ {a} : <<a, b>> \in R
  <2>1. /\ \A a \in S : <<a, a>> \notin R
        /\ \A a, b, c \in S : <<a, b>> \in R /\ <<b, c>> \in R => <<a, c>> \in R
        /\ \A a, b \in S : a # b => <<a, b>> \in R \/ <<b, a>> \in R
    BY <1>2, <1>3
  <2>2. QED
    BY <1>1, <2>1, LeastOf, SMTT(40)
<1>5. \E a \in S : \A b \in S \ {a} : <<a, b>> \in Q
  <2>1. /\ \A a \in S : <<a, a>> \notin Q
        /\ \A a, b, c \in S : <<a, b>> \in Q /\ <<b, c>> \in Q => <<a, c>> \in Q
        /\ \A a, b \in S : a # b => <<a, b>> \in Q \/ <<b, a>> \in Q
    BY <1>2, <1>3
  <2>2. QED
    BY <1>1, <2>1, LeastOf, SMTT(40)
<1>6. First(S) \in S
  BY <1>2, <1>4 DEF First
<1>7. LastOf(S) \in S
  BY <1>2, <1>5 DEF LastOf
<1>8. QED
  BY <1>6, <1>7

\* The next left part is one of those to do.
LEMMA NextPartIn ==
  ASSUME NEW V \in SUBSET Int, IsFiniteSet(V), NEW S \in SUBSET SUBSET V, S # {}
  PROVE  NextPart(S) \in S
<1>1. IsFiniteSet(S)
  BY FS_SUBSET, FS_Subset
<1> DEFINE R == {p \in S \X S : Before(p[1], p[2])}
<1>2. \A a, b \in S : <<a, b>> \in R <=> Before(a, b)
  OBVIOUS
<1>3. \A a \in S : Cardinality(a) \in Nat
  BY FS_Subset, FS_CardinalityType
<1>4. /\ \A a \in S : ~ Precedes(a, a)
      /\ \A a, b \in S : a # b => Precedes(a, b) \/ Precedes(b, a)
      /\ \A a, b, c \in S : Precedes(a, b) /\ Precedes(b, c) => Precedes(a, c)
  <2>1. \A a \in S : a \in SUBSET V
    OBVIOUS
  <2>2. QED
    BY <2>1, PrecedesOrder
<1> HIDE DEF R
<1>5. \A a \in S : <<a, a>> \notin R
  BY <1>2, <1>3, <1>4 DEF Before
<1>6. \A a, b, c \in S : <<a, b>> \in R /\ <<b, c>> \in R => <<a, c>> \in R
  <2> SUFFICES ASSUME NEW a \in S, NEW b \in S, NEW c \in S, Before(a, b), Before(b, c)
               PROVE  Before(a, c)
    BY <1>2
  <2>1. QED
    BY <1>3, <1>4 DEF Before
<1>7. \A a, b \in S : a # b => <<a, b>> \in R \/ <<b, a>> \in R
  <2> SUFFICES ASSUME NEW a \in S, NEW b \in S, a # b
               PROVE  Before(a, b) \/ Before(b, a)
    BY <1>2
  <2>1. QED
    BY <1>3, <1>4 DEF Before
<1>8. \E a \in S : \A b \in S \ {a} : <<a, b>> \in R
  BY <1>1, <1>5, <1>6, <1>7, LeastOf, SMTT(40)
<1>9. QED
  BY <1>2, <1>8 DEF NextPart

-----------------------------------------------------------------------------
(* Tables, maps and the number of entries in which two of them differ.     *)

\* A table over the given variables, and a map for them.
IsTable(table, V) == table \subseteq SUBSET V
IsMap(map, rows, cols) == map \in [SUBSET rows -> SUBSET SUBSET cols]

(***************************************************************************)
(* set_truthTable_by_kmap undoes set_kmap_by_truthTable: the table of a    *)
(* map that was laid out from a table is that table, whatever the split,   *)
(* so that no entry is lost or moved when a map is handed on as a table.   *)
(***************************************************************************)
THEOREM TableOfMapOf ==
  ASSUME NEW rows, NEW cols, NEW table, IsTable(table, rows \cup cols)
  PROVE  TableOf(MapOf(table, rows, cols), rows, cols) = table
<1> DEFINE map == MapOf(table, rows, cols)
<1>1. ASSUME NEW a \in SUBSET (rows \cup cols)
      PROVE  a \cap cols \in map[a \cap rows] <=> a \in table
  <2>1. a \cap rows \in SUBSET rows /\ a \cap cols \in SUBSET cols
    OBVIOUS
  <2>2. (a \cap rows) \cup (a \cap cols) = a
    OBVIOUS
  <2>3. map[a \cap rows] = {c \in SUBSET cols : (a \cap rows) \cup c \in table}
    BY <2>1 DEF MapOf
  <2>4. QED
    BY <2>1, <2>2, <2>3
<1>2. QED
  BY <1>1 DEF TableOf, IsTable

(***************************************************************************)
(* And the other way round, when the two parts share no variable.          *)
(***************************************************************************)
THEOREM MapOfTableOf ==
  ASSUME NEW rows, NEW cols, rows \cap cols = {}, NEW map, IsMap(map, rows, cols)
  PROVE  MapOf(TableOf(map, rows, cols), rows, cols) = map
<1> DEFINE table == TableOf(map, rows, cols)
<1>1. ASSUME NEW r \in SUBSET rows
      PROVE  {c \in SUBSET cols : r \cup c \in table} = map[r]
  <2>1. ASSUME NEW c \in SUBSET cols PROVE r \cup c \in table <=> c \in map[r]
    <3>1. (r \cup c) \cap rows = r /\ (r \cup c) \cap cols = c
      OBVIOUS
    <3>2. r \cup c \in SUBSET (rows \cup cols)
      OBVIOUS
    <3>3. QED
      BY <3>1, <3>2 DEF TableOf
  <2>2. map[r] \subseteq SUBSET cols
    BY DEF IsMap
  <2>3. QED
    BY <2>1, <2>2
<1>2. QED
  BY <1>1 DEF MapOf, IsMap

\* The distance of two vectors over finitely many variables is 0 only if
\* they are the same.
LEMMA DistanceZero ==
  ASSUME NEW V, IsFiniteSet(V), NEW v \in SUBSET SUBSET V, NEW w \in SUBSET SUBSET V
  PROVE  /\ Distance(v, w) \in Nat
         /\ Distance(v, w) = 0 <=> v = w
<1>1. IsFiniteSet(SUBSET V)
  BY FS_SUBSET
<1>2. IsFiniteSet(SymDiff(v, w))
  BY <1>1, FS_Subset DEF SymDiff
<1>3. SymDiff(v, w) = {} <=> v = w
  BY DEF SymDiff
<1>4. QED
  BY <1>2, <1>3, FS_CardinalityType, FS_EmptySet DEF Distance

\* A map differs from itself in no entry, and from any other in some.
LEMMA ErrorZero ==
  ASSUME NEW rows, IsFiniteSet(rows), NEW cols, IsFiniteSet(cols),
         NEW m1, IsMap(m1, rows, cols), NEW m2, IsMap(m2, rows, cols)
  PROVE  /\ IsFiniteSet(Differing(m1, m2))
         /\ Error(m1, m2) \in Nat
         /\ Error(m1, m2) = 0 <=> m1 = m2
<1>1. DOMAIN m1 = SUBSET rows
  BY DEF IsMap
<1>2. Differing(m1, m2) \subseteq (SUBSET rows) \X (SUBSET cols)
  <2>1. ASSUME NEW r \in SUBSET rows
        PROVE  {r} \X SymDiff(m1[r], m2[r]) \subseteq (SUBSET rows) \X (SUBSET cols)
    <3>1. m1[r] \in SUBSET SUBSET cols /\ m2[r] \in SUBSET SUBSET cols
      BY DEF IsMap
    <3>2. SymDiff(m1[r], m2[r]) \subseteq SUBSET cols
      BY <3>1 DEF SymDiff
    <3>3. QED
      BY <3>2
  <2>2. QED
    BY <1>1, <2>1 DEF Differing
<1>3. IsFiniteSet((SUBSET rows) \X (SUBSET cols))
  BY FS_SUBSET, FS_Product
<1>4. IsFiniteSet(Differing(m1, m2))
  BY <1>2, <1>3, FS_Subset
<1>5. Differing(m1, m2) = {} <=> m1 = m2
  <2>1. ASSUME m1 = m2 PROVE Differing(m1, m2) = {}
    BY <2>1 DEF Differing, SymDiff
  <2>2. ASSUME m1 # m2 PROVE Differing(m1, m2) # {}
    <3>1. PICK r \in SUBSET rows : m1[r] # m2[r]
      BY <2>2 DEF IsMap
    <3>2. PICK c : c \in SymDiff(m1[r], m2[r])
      BY <3>1 DEF SymDiff
    <3>3. <<r, c>> \in {r} \X SymDiff(m1[r], m2[r])
      BY <3>2
    <3>4. QED
      BY <1>1, <3>3 DEF Differing
  <2>3. QED
    BY <2>1, <2>2
<1>6. QED
  BY <1>4, <1>5, FS_CardinalityType, FS_EmptySet DEF Error

\* The entries of two maps that differ are those of their tables.
LEMMA ErrorIsDistance ==
  ASSUME NEW rows, IsFiniteSet(rows), NEW cols, IsFiniteSet(cols), rows \cap cols = {},
         NEW m1, IsMap(m1, rows, cols), NEW m2, IsMap(m2, rows, cols)
  PROVE  Error(m1, m2) = Distance(TableOf(m1, rows, cols), TableOf(m2, rows, cols))
<1> DEFINE D == Differing(m1, m2)
           T == SymDiff(TableOf(m1, rows, cols), TableOf(m2, rows, cols))
           f == [p \in D |-> p[1] \cup p[2]]
<1>1. DOMAIN m1 = SUBSET rows
  BY DEF IsMap
<1>2. ASSUME NEW p \in D
      PROVE  /\ p = <<p[1], p[2]>> /\ p[1] \in SUBSET rows /\ p[2] \in SUBSET cols
             /\ p[2] \in SymDiff(m1[p[1]], m2[p[1]])
  <2>1. PICK r \in SUBSET rows : p \in {r} \X SymDiff(m1[r], m2[r])
    BY <1>1 DEF Differing
  <2>2. m1[r] \in SUBSET SUBSET cols /\ m2[r] \in SUBSET SUBSET cols
    BY DEF IsMap
  <2>3. QED
    BY <2>1, <2>2 DEF SymDiff
<1>3. ASSUME NEW r \in SUBSET rows, NEW c \in SUBSET cols, c \in SymDiff(m1[r], m2[r])
      PROVE  <<r, c>> \in D
  <2>1. <<r, c>> \in {r} \X SymDiff(m1[r], m2[r])
    BY <1>3
  <2>2. QED
    BY <1>1, <2>1 DEF Differing
<1>4. ASSUME NEW r \in SUBSET rows, NEW c \in SUBSET cols
      PROVE  /\ r \cup c \in SUBSET (rows \cup cols)
             /\ (r \cup c) \cap rows = r /\ (r \cup c) \cap cols = c
             /\ r \cup c \in T <=> c \in SymDiff(m1[r], m2[r])
  <2>1. r \cup c \in SUBSET (rows \cup cols) /\ (r \cup c) \cap rows = r /\ (r \cup c) \cap cols = c
    OBVIOUS
  <2>2. \A m : r \cup c \in TableOf(m, rows, cols) <=> c \in m[r]
    BY <2>1 DEF TableOf
  <2>3. QED
    BY <2>1, <2>2 DEF SymDiff
<1> HIDE DEF D, T
<1>5. f \in [D -> T]
  <2>1. ASSUME NEW p \in D PROVE p[1] \cup p[2] \in T
    <3>1. p[1] \in SUBSET rows /\ p[2] \in SUBSET cols /\ p[2] \in SymDiff(m1[p[1]], m2[p[1]])
      BY <1>2
    <3>2. PICK r \in SUBSET rows, c \in SUBSET cols : p[1] = r /\ p[2] = c
      BY <3>1
    <3>3. r \cup c \in T
      BY <1>4, <3>1, <3>2
    <3>4. QED
      BY <3>2, <3>3
  <2>2. QED
    BY <2>1
<1>6. ASSUME NEW p \in D, NEW q \in D, f[p] = f[q] PROVE p = q
  <2>1. p[1] \cup p[2] = q[1] \cup q[2]
    BY <1>6
  <2>2. \A d \in D : (d[1] \cup d[2]) \cap rows = d[1] /\ (d[1] \cup d[2]) \cap cols = d[2]
    <3> SUFFICES ASSUME NEW d \in D
                 PROVE  (d[1] \cup d[2]) \cap rows = d[1] /\ (d[1] \cup d[2]) \cap cols = d[2]
      OBVIOUS
    <3>1. d[1] \in SUBSET rows /\ d[2] \in SUBSET cols
      BY <1>2
    <3>2. PICK r \in SUBSET rows, c \in SUBSET cols : d[1] = r /\ d[2] = c
      BY <3>1
    <3>3. QED
      BY <1>4, <3>2
  <2>3. p[1] = q[1] /\ p[2] = q[2]
    BY <2>1, <2>2
  <2>4. QED
    BY <1>2, <2>3
<1>7. ASSUME NEW a \in T PROVE \E p \in D : f[p] = a
  <2>1. a \in SUBSET (rows \cup cols)
    BY DEF T, SymDiff, TableOf
  <2>2. PICK r \in SUBSET rows, c \in SUBSET cols : a = r \cup c
    <3>1. a = (a \cap rows) \cup (a \cap cols)
      BY <2>1
    <3>2. QED
      BY <3>1
  <2>3. c \in SymDiff(m1[r], m2[r])
    BY <1>4, <2>2
  <2>4. <<r, c>> \in D
    BY <1>3, <2>3
  <2>5. f[<<r, c>>] = a
    BY <2>2, <2>4
  <2>6. QED
    BY <2>4, <2>5
<1>8. f \in Bijection(D, T)
  <2> HIDE DEF f
  <2>1. QED
    BY <1>5, <1>6, <1>7 DEF Bijection, Injection, Surjection, IsInjective
<1>9. IsFiniteSet(D)
  BY ErrorZero DEF D
<1>10. Cardinality(T) = Cardinality(D)
  <2> HIDE DEF f
  <2>1. ExistsBijection(D, T)
    BY <1>8 DEF ExistsBijection
  <2>2. QED
    BY <1>9, <2>1, FS_Bijection
<1>11. QED
  BY <1>10 DEF D, T, Error, Distance

\* No error reaches the start value of the bound.
LEMMA ErrorBelowInfinity ==
  ASSUME NEW rows, IsFiniteSet(rows), NEW cols, IsFiniteSet(cols), rows \cap cols = {},
         NEW m1, IsMap(m1, rows, cols), NEW m2, IsMap(m2, rows, cols)
  PROVE  /\ Infinity(rows \cup cols) \in Nat
         /\ Error(m1, m2) < Infinity(rows \cup cols)
<1> DEFINE V == rows \cup cols
           T == SymDiff(TableOf(m1, rows, cols), TableOf(m2, rows, cols))
<1>1. IsFiniteSet(V)
  BY FS_Union
<1>2. IsFiniteSet(SUBSET V) /\ Cardinality(SUBSET V) = 2 ^ Cardinality(V)
  <2> HIDE DEF V
  <2>1. QED
    BY <1>1, FS_SUBSET
<1>3. T \in SUBSET SUBSET V
  BY DEF SymDiff, TableOf
<1>4. Cardinality(SUBSET V) \in Nat /\ Cardinality(T) \in Nat /\ Cardinality(T) <= Cardinality(SUBSET V)
  <2> HIDE DEF V, T
  <2>1. QED
    BY <1>2, <1>3, FS_Subset, FS_CardinalityType
<1>5. Error(m1, m2) = Cardinality(T)
  BY ErrorIsDistance DEF Distance
<1> HIDE DEF T
<1>6. Infinity(V) = Cardinality(SUBSET V) + 1
  <2> HIDE DEF V
  <2>1. QED
    BY <1>2 DEF Infinity
<1>7. QED
  BY <1>4, <1>5, <1>6

\* Of two finite sets the smaller one can be mapped into the larger one.
LEMMA SmallerMapsInto ==
  ASSUME NEW S, IsFiniteSet(S), NEW T, IsFiniteSet(T), Cardinality(S) <= Cardinality(T)
  PROVE  Injection(S, T) # {}
<1>1. PICK g : g \in Bijection(1 .. Cardinality(S), S)
  BY FS_CardinalityType DEF ExistsBijection
<1>2. PICK h : h \in Bijection(1 .. Cardinality(T), T)
  BY FS_CardinalityType DEF ExistsBijection
<1>3. Cardinality(S) \in Nat /\ Cardinality(T) \in Nat
  BY FS_CardinalityType
<1> DEFINE number(s) == CHOOSE i \in 1 .. Cardinality(S) : g[i] = s
           f == [s \in S |-> h[number(s)]]
<1>4. ASSUME NEW s \in S PROVE number(s) \in 1 .. Cardinality(S) /\ g[number(s)] = s
  <2>1. \E i \in 1 .. Cardinality(S) : g[i] = s
    BY <1>1 DEF Bijection, Surjection
  <2>2. QED
    BY <2>1
<1> HIDE DEF number
<1>5. \A s \in S : number(s) \in 1 .. Cardinality(T)
  BY <1>3, <1>4
<1>6. f \in [S -> T]
  <2>1. h \in [1 .. Cardinality(T) -> T]
    BY <1>2 DEF Bijection, Injection
  <2>2. QED
    BY <1>5, <2>1
<1>7. ASSUME NEW s \in S, NEW t \in S, f[s] = f[t] PROVE s = t
  <2>1. h[number(s)] = h[number(t)]
    BY <1>7
  <2>2. number(s) = number(t)
    BY <1>2, <1>5, <2>1 DEF Bijection, Injection, IsInjective
  <2>3. QED
    BY <1>4, <2>2
<1>8. QED
  <2> HIDE DEF f
  <2>1. f \in Injection(S, T)
    BY <1>6, <1>7 DEF Injection, IsInjective
  <2>2. QED
    BY <2>1

\* A map whose rows are all as near or nearer differs in no more entries.
LEMMA ErrorMonotone ==
  ASSUME NEW rows, IsFiniteSet(rows), NEW cols, IsFiniteSet(cols), NEW m, IsMap(m, rows, cols),
         NEW m1, IsMap(m1, rows, cols), NEW m2, IsMap(m2, rows, cols),
         \A r \in SUBSET rows : Distance(m[r], m1[r]) <= Distance(m[r], m2[r])
  PROVE  Error(m, m1) <= Error(m, m2)
<1> DEFINE S(r) == SymDiff(m[r], m1[r])
           T(r) == SymDiff(m[r], m2[r])
           J(r) == CHOOSE f : f \in Injection(S(r), T(r))
           D == Differing(m, m1)
           E == Differing(m, m2)
           F == [p \in D |-> <<p[1], J(p[1])[p[2]]>>]
<1>1. ASSUME NEW r \in SUBSET rows PROVE J(r) \in Injection(S(r), T(r))
  <2>1. IsFiniteSet(SUBSET cols)
    BY FS_SUBSET
  <2>2. S(r) \in SUBSET SUBSET cols /\ T(r) \in SUBSET SUBSET cols
    BY DEF IsMap, SymDiff
  <2>3. IsFiniteSet(S(r)) /\ IsFiniteSet(T(r))
    <3> HIDE DEF S, T
    <3>1. QED
      BY <2>1, <2>2, FS_Subset
  <2>4. Cardinality(S(r)) <= Cardinality(T(r))
    BY DEF Distance
  <2> HIDE DEF S, T
  <2>5. \E f : f \in Injection(S(r), T(r))
    BY <2>3, <2>4, SmallerMapsInto
  <2>6. QED
    BY <2>5, Zenon
<1> HIDE DEF J
<1>2. \A p : p \in D <=> \E r \in SUBSET rows : p \in {r} \X S(r)
  BY DEF Differing, IsMap
<1>3. \A p : p \in E <=> \E r \in SUBSET rows : p \in {r} \X T(r)
  BY DEF Differing, IsMap
<1> HIDE DEF S, T, D, E
<1>4. \A p \in D : p = <<p[1], p[2]>> /\ p[1] \in SUBSET rows /\ p[2] \in S(p[1])
  BY <1>2
<1>5. \A r \in SUBSET rows : \A c \in T(r) : <<r, c>> \in E
  BY <1>3
<1>6. \A r \in SUBSET rows : \A c \in S(r) : J(r)[c] \in T(r)
  BY <1>1 DEF Injection
<1>7. F \in [D -> E]
  BY <1>4, <1>5, <1>6
<1>8. ASSUME NEW p \in D, NEW q \in D, F[p] = F[q] PROVE p = q
  <2>1. F[p] = <<p[1], J(p[1])[p[2]]>> /\ F[q] = <<q[1], J(q[1])[q[2]]>>
    OBVIOUS
  <2>2. p[1] = q[1] /\ J(p[1])[p[2]] = J(q[1])[q[2]]
    BY <1>8, <2>1
  <2>3. p[2] = q[2]
    BY <1>1, <1>4, <2>2 DEF Injection, IsInjective
  <2>4. QED
    BY <1>4, <2>2, <2>3
<1>9. F \in Injection(D, E)
  <2> HIDE DEF F
  <2>1. QED
    BY <1>7, <1>8 DEF Injection, IsInjective
<1>10. IsFiniteSet(E)
  BY ErrorZero DEF E
<1>11. Cardinality(D) <= Cardinality(E)
  <2> HIDE DEF F
  <2>1. QED
    BY <1>9, <1>10, FS_Injection
<1>12. QED
  BY <1>11 DEF D, E, Error

-----------------------------------------------------------------------------
(* The candidates and the best of them.                                    *)

\* The row and the column variables of a map: finite disjoint sets of numbers,
\* and NoAssignment is no assignment of them.
Parted(rows, cols) ==
    /\ rows \in SUBSET Int /\ IsFiniteSet(rows) /\ rows # {}
    /\ cols \in SUBSET Int /\ IsFiniteSet(cols) /\ cols # {}
    /\ rows \cap cols = {}
    /\ NoAssignment \notin SUBSET (rows \cup cols)

Pair(v, w, maj) == [first |-> v, second |-> w, majRow |-> maj]

\* The four kinds of candidates.
PairsOver(cols) ==
    {Pair(Ones(cols), Zeros, NoVec)}
    \cup {Pair(Zeros, m, m) : m \in SUBSET SUBSET cols}
    \cup {Pair(Ones(cols), m, m) : m \in SUBSET SUBSET cols}
    \cup {Pair(m, Complement(cols, m), m) : m \in SUBSET SUBSET cols}

LEMMA PairsOverVectors ==
  ASSUME NEW cols, NEW pair \in PairsOver(cols)
  PROVE  /\ pair.first \in SUBSET SUBSET cols /\ pair.second \in SUBSET SUBSET cols
         /\ pair = Pair(pair.first, pair.second, pair.majRow)
<1>1. Ones(cols) \in SUBSET SUBSET cols /\ Zeros \in SUBSET SUBSET cols
  BY DEF Ones, Zeros
<1>2. \A m \in SUBSET SUBSET cols : Complement(cols, m) \in SUBSET SUBSET cols
  BY DEF Complement, Ones
<1>3. QED
  BY <1>1, <1>2 DEF PairsOver, Pair

LEMMA AppliedIsMap ==
  ASSUME NEW rows, NEW cols, NEW map, IsMap(map, rows, cols), NEW pair \in PairsOver(cols)
  PROVE  /\ IsMap(Applied(map, pair), rows, cols)
         /\ \A r \in SUBSET rows : Applied(map, pair)[r] \in {pair.first, pair.second}
         /\ \A r \in SUBSET rows : Applied(map, pair)[r] = Nearer(map[r], pair.first, pair.second)
<1>1. DOMAIN map = SUBSET rows
  BY DEF IsMap
<1>2. \A r \in SUBSET rows : Nearer(map[r], pair.first, pair.second) \in {pair.first, pair.second}
  BY DEF Nearer
<1>3. pair.first \in SUBSET SUBSET cols /\ pair.second \in SUBSET SUBSET cols
  BY PairsOverVectors
<1>4. QED
  BY <1>1, <1>2, <1>3 DEF Applied, IsMap

\* Concatenation, for the list of candidates.
Joins(X, s, t, u) ==
    /\ u \in Seq(X)
    /\ \A i \in 1 .. Len(s) : i \in 1 .. Len(u) /\ u[i] = s[i]
    /\ \A i \in 1 .. Len(t) : \E j \in 1 .. Len(u) : u[j] = t[i]

LEMMA Concat ==
  ASSUME NEW X, NEW s \in Seq(X), NEW t \in Seq(X)
  PROVE  Joins(X, s, t, s \o t)
<1>1. Len(s) \in Nat /\ Len(t) \in Nat /\ s \o t \in Seq(X) /\ Len(s \o t) = Len(s) + Len(t)
  OBVIOUS
<1>2. ASSUME NEW i \in 1 .. Len(s) PROVE i \in 1 .. Len(s \o t) /\ (s \o t)[i] = s[i]
  BY <1>1
<1>3. ASSUME NEW i \in 1 .. Len(t) PROVE \E j \in 1 .. Len(s \o t) : (s \o t)[j] = t[i]
  <2>1. Len(s) + i \in 1 .. Len(s \o t) /\ (s \o t)[Len(s) + i] = t[i]
    BY <1>1
  <2>2. QED
    BY <2>1
<1>4. QED
  BY <1>1, <1>2, <1>3 DEF Joins

LEMMA MajoritiesAreVectors ==
  ASSUME NEW rows, NEW cols, Parted(rows, cols), NEW map, NEW rs
  PROVE  Majorities(map, rs, cols) \in Seq(SUBSET SUBSET cols)
<1> DEFINE ones(c) == Cardinality({r \in rs : c \in map[r]})
           maj == {c \in SUBSET cols : 2 * ones(c) > Cardinality(rs)}
           tied == {c \in SUBSET cols : 2 * ones(c) = Cardinality(rs)}
<1>1. Majorities(map, rs, cols) = IF tied = {} THEN <<maj>> ELSE <<maj, maj \cup {LastOf(tied)}>>
  BY DEF Majorities
<1>2. maj \in SUBSET SUBSET cols /\ tied \in SUBSET SUBSET cols
  OBVIOUS
<1> HIDE DEF maj, tied
<1>3. tied # {} => LastOf(tied) \in tied
  BY <1>2, FirstIn DEF Parted
<1>4. tied # {} => maj \cup {LastOf(tied)} \in SUBSET SUBSET cols
  BY <1>2, <1>3
<1>5. CASE tied = {}
  BY <1>1, <1>2, <1>5
<1>6. CASE tied # {}
  <2>1. \A v, w \in SUBSET SUBSET cols : <<v, w>> \in Seq(SUBSET SUBSET cols)
    OBVIOUS
  <2>2. Majorities(map, rs, cols) = <<maj, maj \cup {LastOf(tied)}>>
    BY <1>1, <1>6
  <2>3. QED
    BY <1>2, <1>4, <1>6, <2>1, <2>2, Zenon
<1>7. QED
  BY <1>5, <1>6

\* Rows that are all the same have that majority.
LEMMA MajorityOfCopies ==
  ASSUME NEW rows, NEW cols, Parted(rows, cols), NEW map, NEW rs \in SUBSET SUBSET rows, rs # {},
         NEW v \in SUBSET SUBSET cols, \A r \in rs : map[r] = v
  PROVE  Majorities(map, rs, cols) = <<v>>
<1> DEFINE ones(c) == Cardinality({r \in rs : c \in map[r]})
           maj == {c \in SUBSET cols : 2 * ones(c) > Cardinality(rs)}
           tied == {c \in SUBSET cols : 2 * ones(c) = Cardinality(rs)}
<1>1. Majorities(map, rs, cols) = IF tied = {} THEN <<maj>> ELSE <<maj, maj \cup {LastOf(tied)}>>
  BY DEF Majorities
<1>2. IsFiniteSet(rs)
  BY FS_SUBSET, FS_Subset DEF Parted
<1>3. Cardinality(rs) \in Nat /\ Cardinality(rs) # 0
  BY <1>2, FS_CardinalityType, FS_EmptySet
<1>4. ASSUME NEW c \in v PROVE ones(c) = Cardinality(rs)
  <2>1. {r \in rs : c \in map[r]} = rs
    OBVIOUS
  <2>2. QED
    BY <2>1
<1>5. ASSUME NEW c, c \notin v PROVE ones(c) = 0
  <2>1. {r \in rs : c \in map[r]} = {}
    BY <1>5
  <2>2. QED
    BY <2>1, FS_EmptySet
<1> HIDE DEF ones
<1>6. tied = {}
  BY <1>3, <1>4, <1>5
<1>7. maj = v
  BY <1>3, <1>4, <1>5
<1>8. QED
  BY <1>1, <1>6, <1>7

\* Of a vector and its complement the one that occurs more often.
LEMMA MajorityOfTwo ==
  ASSUME NEW rows, NEW cols, Parted(rows, cols), NEW map, IsMap(map, rows, cols),
         NEW v \in SUBSET SUBSET cols,
         \A r \in SUBSET rows : map[r] \in {v, Complement(cols, v)},
         Cardinality({r \in SUBSET rows : map[r] = v})
            # Cardinality({r \in SUBSET rows : map[r] = Complement(cols, v)})
  PROVE  Majorities(map, SUBSET rows, cols) \in {<<v>>, <<Complement(cols, v)>>}
<1> DEFINE rs == SUBSET rows
           ones(c) == Cardinality({r \in rs : c \in map[r]})
           maj == {c \in SUBSET cols : 2 * ones(c) > Cardinality(rs)}
           tied == {c \in SUBSET cols : 2 * ones(c) = Cardinality(rs)}
           P == {r \in SUBSET rows : map[r] = v}
           Q == {r \in SUBSET rows : map[r] = Complement(cols, v)}
<1>1. Majorities(map, rs, cols) = IF tied = {} THEN <<maj>> ELSE <<maj, maj \cup {LastOf(tied)}>>
  BY DEF Majorities
<1>2. P \cup Q = rs /\ P \cap Q = {}
  <2>1. Complement(cols, v) # v
    BY DEF Complement, Ones
  <2>2. QED
    BY <2>1
<1>3. IsFiniteSet(rs) /\ IsFiniteSet(P) /\ IsFiniteSet(Q)
  <2>1. IsFiniteSet(rs) /\ P \in SUBSET rs /\ Q \in SUBSET rs
    BY FS_SUBSET DEF Parted
  <2> HIDE DEF rs, P, Q
  <2>2. QED
    BY <2>1, FS_Subset
<1>4. /\ Cardinality(P) \in Nat /\ Cardinality(Q) \in Nat
      /\ Cardinality(rs) = Cardinality(P) + Cardinality(Q)
  <2> HIDE DEF P, Q, rs
  <2>1. Cardinality(P) \in Nat /\ Cardinality(Q) \in Nat
    BY <1>3, FS_CardinalityType
  <2>2. Cardinality(P \cup Q) = Cardinality(P) + Cardinality(Q) - Cardinality(P \cap Q)
    BY <1>3, FS_Union
  <2>3. Cardinality(P \cap Q) = 0
    BY <1>2, FS_EmptySet
  <2>4. Cardinality(rs) = Cardinality(P) + Cardinality(Q) - Cardinality(P \cap Q)
    BY <1>2, <2>2
  <2>5. QED
    BY <2>1, <2>3, <2>4
<1>5. ASSUME NEW c \in SUBSET cols PROVE ones(c) = IF c \in v THEN Cardinality(P) ELSE Cardinality(Q)
  <2>1. c \in Complement(cols, v) <=> c \notin v
    BY DEF Complement, Ones
  <2>2. {r \in rs : c \in map[r]} = IF c \in v THEN P ELSE Q
    BY <2>1
  <2>3. QED
    BY <2>2
<1>6. Cardinality(P) # Cardinality(Q)
  OBVIOUS
<1> HIDE DEF ones, P, Q, rs
<1>7. tied = {}
  BY <1>4, <1>5, <1>6
<1>8. CASE Cardinality(P) > Cardinality(Q)
  <2>1. \A c \in SUBSET cols : 2 * ones(c) > Cardinality(rs) <=> c \in v
    BY <1>4, <1>5, <1>8
  <2>2. maj = v
    BY <2>1
  <2>3. QED
    BY <1>1, <1>7, <2>2 DEF rs
<1>9. CASE Cardinality(P) < Cardinality(Q)
  <2>1. \A c \in SUBSET cols : 2 * ones(c) > Cardinality(rs) <=> c \notin v
    BY <1>4, <1>5, <1>9
  <2>2. maj = Complement(cols, v)
    BY <2>1 DEF Complement, Ones
  <2>3. QED
    BY <1>1, <1>7, <2>2 DEF rs
<1>10. QED
  BY <1>4, <1>6, <1>8, <1>9

\* What Candidates lists: all are of the four kinds, and the vectors that
\* are the majority of some rows are among them.
LEMMA CandidatesListed ==
  ASSUME NEW rows, NEW cols, Parted(rows, cols), NEW map, IsMap(map, rows, cols)
  PROVE  /\ Candidates(map, cols) \in Seq(PairsOver(cols))
         /\ 1 \in DOMAIN Candidates(map, cols)
         /\ Candidates(map, cols)[1] = Pair(Ones(cols), Zeros, NoVec)
         /\ \A m : Majorities(map, RowsOtherThan(map, Zeros), cols) = <<m>> =>
               \E j \in DOMAIN Candidates(map, cols) : Candidates(map, cols)[j] = Pair(Zeros, m, m)
         /\ \A m : Majorities(map, RowsOtherThan(map, Ones(cols)), cols) = <<m>> =>
               \E j \in DOMAIN Candidates(map, cols) : Candidates(map, cols)[j] = Pair(Ones(cols), m, m)
         /\ \A m : Majorities(map, DOMAIN map, cols) = <<m>> =>
               \E j \in DOMAIN Candidates(map, cols) :
                  Candidates(map, cols)[j] = Pair(m, Complement(cols, m), m)
<1> DEFINE zero == Majorities(map, RowsOtherThan(map, Zeros), cols)
           one == Majorities(map, RowsOtherThan(map, Ones(cols)), cols)
           all == Majorities(map, DOMAIN map, cols)
           X == PairsOver(cols)
           S == <<Pair(Ones(cols), Zeros, NoVec)>>
           A == [i \in DOMAIN zero |-> Pair(Zeros, zero[i], zero[i])]
           B == [i \in DOMAIN one |-> Pair(Ones(cols), one[i], one[i])]
           C == [i \in DOMAIN all |-> Pair(all[i], Complement(cols, all[i]), all[i])]
<1>1. Candidates(map, cols) = ((S \o A) \o B) \o C
  BY DEF Candidates, Pair
<1>2. zero \in Seq(SUBSET SUBSET cols) /\ one \in Seq(SUBSET SUBSET cols) /\ all \in Seq(SUBSET SUBSET cols)
  BY MajoritiesAreVectors
<1> HIDE DEF zero, one, all
<1>3. S \in Seq(X) /\ A \in Seq(X) /\ B \in Seq(X) /\ C \in Seq(X)
  <2>1. Pair(Ones(cols), Zeros, NoVec) \in X
    BY DEF PairsOver
  <2>2. \A m \in SUBSET SUBSET cols : /\ Pair(Zeros, m, m) \in X
                                      /\ Pair(Ones(cols), m, m) \in X
                                      /\ Pair(m, Complement(cols, m), m) \in X
    BY DEF PairsOver
  <2> HIDE DEF X
  <2>3. DOMAIN zero = 1 .. Len(zero) /\ DOMAIN one = 1 .. Len(one) /\ DOMAIN all = 1 .. Len(all)
    BY <1>2
  <2>4. S \in Seq(X)
    BY <2>1
  <2>5. A \in Seq(X)
    BY <1>2, <2>2, <2>3
  <2>6. B \in Seq(X)
    BY <1>2, <2>2, <2>3
  <2>7. C \in Seq(X)
    BY <1>2, <2>2, <2>3
  <2>8. QED
    BY <2>4, <2>5, <2>6, <2>7
<1>4. Len(S) = 1 /\ S[1] = Pair(Ones(cols), Zeros, NoVec)
  OBVIOUS
<1>5. \A m : zero = <<m>> => 1 \in 1 .. Len(A) /\ A[1] = Pair(Zeros, m, m)
  OBVIOUS
<1>6. \A m : one = <<m>> => 1 \in 1 .. Len(B) /\ B[1] = Pair(Ones(cols), m, m)
  OBVIOUS
<1>7. \A m : all = <<m>> => 1 \in 1 .. Len(C) /\ C[1] = Pair(m, Complement(cols, m), m)
  OBVIOUS
<1> HIDE DEF S, A, B, C, X
<1> DEFINE SA == S \o A
<1>8. Joins(X, S, A, SA)
  BY <1>3, Concat
<1> HIDE DEF SA
<1> DEFINE SAB == SA \o B
<1>9. Joins(X, SA, B, SAB)
  <2>1. SA \in Seq(X)
    BY <1>8 DEF Joins
  <2>2. QED
    BY <1>3, <2>1, Concat
<1> HIDE DEF SAB
<1>10. Joins(X, SAB, C, SAB \o C)
  <2>1. SAB \in Seq(X)
    BY <1>9 DEF Joins
  <2>2. QED
    BY <1>3, <2>1, Concat
<1> DEFINE K == SAB \o C
<1>11. K = Candidates(map, cols)
  BY <1>1 DEF SA, SAB
<1> HIDE DEF K
<1>12. K \in Seq(X) /\ DOMAIN K = 1 .. Len(K)
  BY <1>10 DEF K, Joins
<1>13. 1 \in DOMAIN K /\ K[1] = Pair(Ones(cols), Zeros, NoVec)
  <2>1. 1 \in 1 .. Len(SA) /\ SA[1] = S[1]
    <3>1. 1 \in 1 .. Len(S)
      BY <1>4
    <3>2. QED
      BY <1>8, <3>1, Zenon DEF Joins
  <2>2. 1 \in 1 .. Len(SAB) /\ SAB[1] = SA[1]
    BY <1>9, <2>1, Zenon DEF Joins
  <2>3. 1 \in 1 .. Len(K) /\ K[1] = SAB[1]
    BY <1>10, <2>2, Zenon DEF K, Joins
  <2>4. QED
    BY <1>4, <1>12, <2>1, <2>2, <2>3
<1>14. ASSUME NEW m, zero = <<m>> PROVE \E j \in DOMAIN K : K[j] = Pair(Zeros, m, m)
  <2>1. PICK j \in 1 .. Len(SA) : SA[j] = Pair(Zeros, m, m)
    BY <1>5, <1>8, <1>14 DEF Joins
  <2>2. QED
    BY <1>9, <1>10, <1>12, <2>1 DEF K, Joins
<1>15. ASSUME NEW m, one = <<m>> PROVE \E j \in DOMAIN K : K[j] = Pair(Ones(cols), m, m)
  <2>1. PICK j \in 1 .. Len(SAB) : SAB[j] = Pair(Ones(cols), m, m)
    BY <1>6, <1>9, <1>15 DEF Joins
  <2>2. QED
    BY <1>10, <1>12, <2>1 DEF K, Joins
<1>16. ASSUME NEW m, all = <<m>>
       PROVE \E j \in DOMAIN K : K[j] = Pair(m, Complement(cols, m), m)
  BY <1>7, <1>10, <1>12, <1>16 DEF K, Joins
<1>17. QED
  BY <1>11, <1>12, <1>13, <1>14, <1>15, <1>16 DEF X, zero, one, all

\* approximation_core returns a candidate with the least error, and the first
\* one (constant rows) unless another one is strictly better.
LEMMA BestIsLeast ==
  ASSUME NEW rows, NEW cols, Parted(rows, cols), NEW map, IsMap(map, rows, cols)
  PROVE  /\ Best(map, cols) \in PairsOver(cols)
         /\ \A j \in DOMAIN Candidates(map, cols) :
               Error(map, Applied(map, Best(map, cols)))
                  <= Error(map, Applied(map, Candidates(map, cols)[j]))
         /\ \/ Best(map, cols) = Pair(Ones(cols), Zeros, NoVec)
            \/ Error(map, Applied(map, Best(map, cols)))
                  < Error(map, Applied(map, Pair(Ones(cols), Zeros, NoVec)))
<1> DEFINE pairs == Candidates(map, cols)
           errors == [i \in DOMAIN pairs |-> Error(map, Applied(map, pairs[i]))]
           E == {errors[i] : i \in DOMAIN errors}
           I == {i \in DOMAIN errors : errors[i] = Min(E)}
<1>1. Best(map, cols) = pairs[Min(I)]
  BY DEF Best
<1>2. /\ pairs \in Seq(PairsOver(cols)) /\ 1 \in DOMAIN pairs
      /\ pairs[1] = Pair(Ones(cols), Zeros, NoVec)
  BY CandidatesListed
<1> HIDE DEF pairs
<1>3. DOMAIN pairs = 1 .. Len(pairs) /\ Len(pairs) \in Nat
  BY <1>2
<1>4. \A i \in DOMAIN pairs : Error(map, Applied(map, pairs[i])) \in Nat
  <2> SUFFICES ASSUME NEW i \in DOMAIN pairs PROVE Error(map, Applied(map, pairs[i])) \in Nat
    OBVIOUS
  <2>1. pairs[i] \in PairsOver(cols)
    BY <1>2, <1>3
  <2>2. IsMap(Applied(map, pairs[i]), rows, cols)
    BY <2>1, AppliedIsMap
  <2>3. QED
    BY <2>2, ErrorZero DEF Parted
<1>5. DOMAIN errors = DOMAIN pairs /\ \A i \in DOMAIN pairs : errors[i] = Error(map, Applied(map, pairs[i]))
  OBVIOUS
<1> HIDE DEF errors
<1>6. E \in SUBSET Int /\ E # {} /\ IsFiniteSet(E)
  <2>1. E \in SUBSET Int /\ E # {}
    BY <1>2, <1>4, <1>5
  <2>2. IsFiniteSet(1 .. Len(pairs))
    BY <1>3, FS_Interval
  <2>3. IsFiniteSet(E)
    <3>1. errors \in Surjection(DOMAIN errors, E)
      <4>1. errors = [i \in DOMAIN errors |-> errors[i]]
        BY DEF errors
      <4>2. QED
        BY <4>1 DEF Surjection
    <3>2. IsFiniteSet(DOMAIN errors)
      BY <1>3, <1>5, <2>2
    <3> HIDE DEF E
    <3>3. QED
      BY <3>1, <3>2, FS_Surjection
  <2>4. QED
    BY <2>1, <2>3
<1>7. Min(E) \in E /\ \A e \in E : Min(E) <= e
  <2> HIDE DEF E
  <2>1. QED
    BY <1>6, MinIn
<1>8. I \in SUBSET (1 .. Len(pairs)) /\ I # {}
  BY <1>3, <1>5, <1>7
<1>9. Min(I) \in I /\ \A i \in I : Min(I) <= i
  <2>1. IsFiniteSet(1 .. Len(pairs))
    BY <1>3, FS_Interval
  <2>2. IsFiniteSet(I) /\ I \in SUBSET Int
    <3> HIDE DEF I
    <3>1. IsFiniteSet(I)
      BY <1>8, <2>1, FS_Subset
    <3>2. QED
      BY <1>3, <1>8, <3>1
  <2> HIDE DEF I
  <2>3. QED
    BY <1>8, <2>2, MinIn
<1> DEFINE k == Min(I)
<1>10. k \in DOMAIN pairs /\ errors[k] = Min(E) /\ k \in 1 .. Len(pairs)
  BY <1>3, <1>5, <1>9
<1>11. \A j \in DOMAIN pairs : errors[k] <= errors[j]
  BY <1>5, <1>7, <1>10
<1>12. errors[1] = Min(E) => k = 1
  <2>1. ASSUME errors[1] = Min(E) PROVE k = 1
    <3>1. 1 \in I
      BY <1>2, <1>5, <2>1
    <3>2. k <= 1
      BY <1>9, <3>1
    <3> HIDE DEF k
    <3>3. QED
      BY <1>3, <1>10, <3>2
  <2>2. QED
    BY <2>1
<1>13. pairs[k] \in PairsOver(cols)
  BY <1>2, <1>3, <1>10
<1>14. k = 1 \/ errors[k] < errors[1]
  <2>1. errors[1] \in Nat /\ errors[k] \in Nat
    BY <1>2, <1>4, <1>5, <1>10
  <2>2. errors[k] <= errors[1]
    BY <1>2, <1>11
  <2> HIDE DEF k
  <2>3. QED
    BY <1>10, <1>12, <2>1, <2>2
<1>15. \A j \in DOMAIN pairs : Error(map, Applied(map, pairs[k])) <= Error(map, Applied(map, pairs[j]))
  BY <1>5, <1>10, <1>11
<1>16. pairs[k] = Pair(Ones(cols), Zeros, NoVec)
         \/ Error(map, Applied(map, pairs[k])) < Error(map, Applied(map, Pair(Ones(cols), Zeros, NoVec)))
  <2> HIDE DEF k
  <2>1. QED
    BY <1>2, <1>5, <1>10, <1>14
<1>17. QED
  BY <1>1, <1>13, <1>15, <1>16 DEF pairs

(***************************************************************************)
(* A map that is already made of the two vectors of a candidate is not     *)
(* changed by it: what can be decomposed exactly costs that candidate      *)
(* nothing.                                                                *)
(***************************************************************************)
THEOREM AppliedKeeps ==
  ASSUME NEW rows, NEW cols, IsFiniteSet(cols), NEW map, IsMap(map, rows, cols),
         NEW first \in SUBSET SUBSET cols, NEW second \in SUBSET SUBSET cols, NEW maj,
         \A r \in SUBSET rows : map[r] \in {first, second}
  PROVE  Applied(map, Pair(first, second, maj)) = map
<1>1. ASSUME NEW r \in SUBSET rows PROVE Nearer(map[r], first, second) = map[r]
  <2>1. CASE map[r] = first
    <3>1. Distance(map[r], first) = 0 /\ Distance(map[r], second) \in Nat
      BY <2>1, DistanceZero
    <3>2. Distance(map[r], second) = 0 => second = first
      BY <2>1, DistanceZero
    <3>3. QED
      BY <2>1, <3>1, <3>2 DEF Nearer
  <2>2. CASE map[r] = second
    <3>1. Distance(map[r], second) = 0 /\ Distance(map[r], first) \in Nat
      BY <2>2, DistanceZero
    <3>2. QED
      BY <2>2, <3>1 DEF Nearer
  <2>3. QED
    BY <2>1, <2>2
<1>2. QED
  BY <1>1 DEF Applied, IsMap, Pair
(***************************************************************************)
(* A decomposable map is kept: the vector its rows are copies of is the    *)
(* majority of the rows that are looked at, the candidate made of it is    *)
(* the map itself, and only an exact candidate is as good as that.         *)
(***************************************************************************)
THEOREM BestKeepsDecomposable ==
  ASSUME NEW rows, NEW cols, Parted(rows, cols), NEW map, IsMap(map, rows, cols),
         Decomposable(map, cols)
  PROVE  Applied(map, Best(map, cols)) = map
<1>1. IsFiniteSet(cols) /\ IsFiniteSet(rows)
  BY DEF Parted
<1>2. DOMAIN map = SUBSET rows /\ \A r \in SUBSET rows : map[r] \in SUBSET SUBSET cols
  BY DEF IsMap
<1>3. SUFFICES \E j \in DOMAIN Candidates(map, cols) : Applied(map, Candidates(map, cols)[j]) = map
  <2>1. PICK j \in DOMAIN Candidates(map, cols) : Applied(map, Candidates(map, cols)[j]) = map
    BY <1>3
  <2>2. Error(map, map) = 0
    BY <1>1, ErrorZero
  <2>3. IsMap(Applied(map, Best(map, cols)), rows, cols)
    BY BestIsLeast, AppliedIsMap
  <2>4. Error(map, Applied(map, Best(map, cols))) <= 0
    BY <2>1, <2>2, BestIsLeast
  <2>5. /\ Error(map, Applied(map, Best(map, cols))) \in Nat
        /\ Error(map, Applied(map, Best(map, cols))) = 0 => map = Applied(map, Best(map, cols))
    BY <1>1, <2>3, ErrorZero
  <2>6. QED
    BY <2>4, <2>5
<1> DEFINE MadeOf(v, other) ==
             /\ \A r \in DOMAIN map : map[r] \in {v, other}
             /\ other = Complement(cols, v) =>
                   Cardinality({r \in DOMAIN map : map[r] = v}) # Cardinality({r \in DOMAIN map : map[r] = other})
<1>a. PICK v \in {map[r] : r \in DOMAIN map} :
         \E other \in {Zeros, Ones(cols), Complement(cols, v)} : MadeOf(v, other)
  BY DEF Decomposable
<1>4. PICK other \in {Zeros, Ones(cols), Complement(cols, v)} : MadeOf(v, other)
  BY <1>a
<1>5. v \in SUBSET SUBSET cols
  BY <1>2
<1>6. /\ Ones(cols) \in SUBSET SUBSET cols /\ Zeros \in SUBSET SUBSET cols
      /\ \A m \in SUBSET SUBSET cols : Complement(cols, m) \in SUBSET SUBSET cols
      /\ Complement(cols, Complement(cols, v)) = v
  BY <1>5 DEF Ones, Zeros, Complement
<1>7. ASSUME \A r \in SUBSET rows : map[r] \in {Ones(cols), Zeros}
      PROVE  \E j \in DOMAIN Candidates(map, cols) : Applied(map, Candidates(map, cols)[j]) = map
  <2>1. Applied(map, Pair(Ones(cols), Zeros, NoVec)) = map
    BY <1>1, <1>6, <1>7, AppliedKeeps
  <2>2. QED
    BY <2>1, CandidatesListed
<1>8. CASE other = Zeros
  <2> DEFINE rs == RowsOtherThan(map, Zeros)
  <2>1. rs \in SUBSET SUBSET rows /\ \A r \in rs : map[r] = v
    BY <1>2, <1>4, <1>8 DEF RowsOtherThan
  <2>2. CASE rs = {}
    <3>1. \A r \in SUBSET rows : map[r] \in {Ones(cols), Zeros}
      BY <1>2, <2>2 DEF RowsOtherThan
    <3>2. QED
      BY <1>7, <3>1
  <2>3. CASE rs # {}
    <3>1. Majorities(map, rs, cols) = <<v>>
      <4> HIDE DEF rs
      <4>1. QED
        BY <1>5, <2>1, <2>3, MajorityOfCopies, SMTT(40)
    <3>2. PICK j \in DOMAIN Candidates(map, cols) : Candidates(map, cols)[j] = Pair(Zeros, v, v)
      BY <3>1, CandidatesListed
    <3>3. Applied(map, Pair(Zeros, v, v)) = map
      BY <1>1, <1>2, <1>4, <1>5, <1>6, <1>8, AppliedKeeps
    <3>4. QED
      BY <3>2, <3>3
  <2>4. QED
    BY <2>2, <2>3
<1>9. CASE other = Ones(cols)
  <2> DEFINE rs == RowsOtherThan(map, Ones(cols))
  <2>1. rs \in SUBSET SUBSET rows /\ \A r \in rs : map[r] = v
    BY <1>2, <1>4, <1>9 DEF RowsOtherThan
  <2>2. CASE rs = {}
    <3>1. \A r \in SUBSET rows : map[r] \in {Ones(cols), Zeros}
      BY <1>2, <2>2 DEF RowsOtherThan
    <3>2. QED
      BY <1>7, <3>1
  <2>3. CASE rs # {}
    <3>1. Majorities(map, rs, cols) = <<v>>
      <4> HIDE DEF rs
      <4>1. QED
        BY <1>5, <2>1, <2>3, MajorityOfCopies
    <3>2. PICK j \in DOMAIN Candidates(map, cols) : Candidates(map, cols)[j] = Pair(Ones(cols), v, v)
      BY <3>1, CandidatesListed
    <3>3. Applied(map, Pair(Ones(cols), v, v)) = map
      BY <1>1, <1>2, <1>4, <1>5, <1>6, <1>9, AppliedKeeps
    <3>4. QED
      BY <3>2, <3>3
  <2>4. QED
    BY <2>2, <2>3
<1>10. CASE other = Complement(cols, v)
  <2>1. \A r \in SUBSET rows : map[r] \in {v, Complement(cols, v)}
    BY <1>2, <1>4, <1>10
  <2>2. Majorities(map, DOMAIN map, cols) \in {<<v>>, <<Complement(cols, v)>>}
    BY <1>2, <1>4, <1>5, <1>10, <2>1, MajorityOfTwo
  <2>3. PICK m \in {v, Complement(cols, v)} : Majorities(map, DOMAIN map, cols) = <<m>>
    BY <2>2
  <2>4. PICK j \in DOMAIN Candidates(map, cols) : Candidates(map, cols)[j] = Pair(m, Complement(cols, m), m)
    BY <2>3, CandidatesListed
  <2>5. m \in SUBSET SUBSET cols /\ \A r \in SUBSET rows : map[r] \in {m, Complement(cols, m)}
    BY <1>5, <1>6, <2>1
  <2>6. Applied(map, Pair(m, Complement(cols, m), m)) = map
    BY <1>1, <1>6, <2>5, AppliedKeeps
  <2>7. QED
    BY <2>4, <2>6
<1>11. QED
  BY <1>4, <1>8, <1>9, <1>10

-----------------------------------------------------------------------------
(* The approximate unit.                                                   *)

\* The vectors over the variables V, those that are not constant, and those
\* that are constant or the given one or its complement.
Uneven(V, vec) == vec \in SUBSET SUBSET V /\ ~ Constant(V, vec)
Patterned(V, vec, maj) ==
    \/ vec \in {Zeros, Ones(V)}
    \/ maj # NoVec /\ vec \in {maj, Complement(V, maj)}

\* What Unit makes of a table: rows and columns follow one pattern each.
UnitOK(u, rows, cols) ==
    /\ u.rows = rows /\ u.cols = cols
    /\ IsMap(u.appx, rows, cols)
    /\ u.left = u.majRow /\ u.right = u.majCol
    /\ u.majRow # NoVec => Uneven(cols, u.majRow) /\ \E r \in SUBSET rows : u.appx[r] = u.majRow
    /\ u.majCol # NoVec => Uneven(rows, u.majCol) /\ \E c \in SUBSET cols : Column(u.appx, c) = u.majCol
    /\ \A r \in SUBSET rows : Patterned(cols, u.appx[r], u.majRow)
    /\ \A c \in SUBSET cols : Patterned(rows, Column(u.appx, c), u.majCol)

\* The vector that takes a row is one of those nearest to it.
LEMMA NearerIsLeast ==
  ASSUME NEW cols, IsFiniteSet(cols), NEW row \in SUBSET SUBSET cols,
         NEW first \in SUBSET SUBSET cols, NEW second \in SUBSET SUBSET cols
  PROVE  \A vec \in {first, second} : Distance(row, Nearer(row, first, second)) <= Distance(row, vec)
<1>1. Distance(row, first) \in Nat /\ Distance(row, second) \in Nat
  BY DistanceZero
<1>2. QED
  BY <1>1 DEF Nearer

\* If all rows come out constant, it was the first candidate that won: it is
\* the best there is with constant rows.
LEMMA ConstantRowsAreFirst ==
  ASSUME NEW rows, NEW cols, Parted(rows, cols), NEW map, IsMap(map, rows, cols),
         \A r \in SUBSET rows : Constant(cols, Applied(map, Best(map, cols))[r])
  PROVE  Best(map, cols) = Pair(Ones(cols), Zeros, NoVec)
<1> DEFINE best == Best(map, cols)
           const == Pair(Ones(cols), Zeros, NoVec)
<1>1. best \in PairsOver(cols) /\ const \in PairsOver(cols)
  BY BestIsLeast DEF PairsOver
<1>2. /\ IsMap(Applied(map, best), rows, cols)
      /\ IsMap(Applied(map, const), rows, cols)
      /\ \A r \in SUBSET rows : Applied(map, const)[r] = Nearer(map[r], const.first, const.second)
  <2> HIDE DEF best, const
  <2>1. QED
    BY <1>1, AppliedIsMap
<1>3. ASSUME NEW r \in SUBSET rows
      PROVE  Distance(map[r], Applied(map, const)[r]) <= Distance(map[r], Applied(map, best)[r])
  <2>1. Applied(map, const)[r] = Nearer(map[r], Ones(cols), Zeros)
    BY <1>2 DEF Pair
  <2>2. map[r] \in SUBSET SUBSET cols /\ Ones(cols) \in SUBSET SUBSET cols /\ Zeros \in SUBSET SUBSET cols
    BY DEF IsMap, Ones, Zeros
  <2>3. Applied(map, best)[r] \in {Ones(cols), Zeros}
    BY DEF Constant
  <2> HIDE DEF best, const
  <2>4. QED
    BY <2>1, <2>2, <2>3, NearerIsLeast DEF Parted
<1>4. Error(map, Applied(map, const)) <= Error(map, Applied(map, best))
  <2> HIDE DEF best, const
  <2>1. QED
    BY <1>2, <1>3, ErrorMonotone DEF Parted
<1>5. Error(map, Applied(map, const)) \in Nat /\ Error(map, Applied(map, best)) \in Nat
  <2> HIDE DEF best, const
  <2>1. QED
    BY <1>2, ErrorZero DEF Parted
<1>6. best = const \/ Error(map, Applied(map, best)) < Error(map, Applied(map, const))
  BY BestIsLeast
<1> HIDE DEF best, const
<1>7. best = const
  BY <1>4, <1>5, <1>6
<1>8. QED
  BY <1>7 DEF best, const

\* A map laid out from a table is a map.
LEMMA MapOfIsMap ==
  ASSUME NEW table, NEW rows, NEW cols
  PROVE  IsMap(MapOf(table, rows, cols), rows, cols)
  BY DEF IsMap, MapOf

LEMMA VectorIsSet ==
  ASSUME NEW V, NoAssignment \notin SUBSET V, NEW vec \in SUBSET SUBSET V
  PROVE  vec # NoVec
  BY DEF NoVec

\* The columns of a map whose rows are two vectors: the rows that are the
\* first vector, the others, all, or none.
ColumnsFrom(map, rows, cols, F) ==
    \A c \in SUBSET cols : Column(map, c) \in {Zeros, Ones(rows), F, Complement(rows, F)}

LEMMA ColumnsOfTwo ==
  ASSUME NEW rows, NEW cols, NEW map, IsMap(map, rows, cols), NEW first, NEW second,
         \A r \in SUBSET rows : map[r] \in {first, second}
  PROVE  \E F \in SUBSET SUBSET rows : ColumnsFrom(map, rows, cols, F)
<1> DEFINE F == {r \in SUBSET rows : map[r] = first}
<1>1. DOMAIN map = SUBSET rows
  BY DEF IsMap
<1>2. ASSUME NEW c \in SUBSET cols
      PROVE  Column(map, c) \in {Zeros, Ones(rows), F, Complement(rows, F)}
  <2>1. Column(map, c) = {r \in SUBSET rows : c \in map[r]}
    BY <1>1 DEF Column
  <2>2. CASE c \in first /\ c \in second
    BY <2>1, <2>2 DEF Ones
  <2>3. CASE c \in first /\ c \notin second
    <3>1. Column(map, c) = F
      BY <2>1, <2>3
    <3>2. QED
      BY <3>1
  <2>4. CASE c \notin first /\ c \in second
    <3>1. Column(map, c) = Complement(rows, F)
      BY <2>1, <2>4 DEF Complement, Ones
    <3>2. QED
      BY <3>1
  <2>5. CASE c \notin first /\ c \notin second
    BY <2>1, <2>5 DEF Zeros
  <2>6. QED
    BY <2>2, <2>3, <2>4, <2>5
<1>3. F \in SUBSET SUBSET rows
  OBVIOUS
<1>4. QED
  BY <1>2, <1>3 DEF ColumnsFrom

LEMMA UnitShape ==
  ASSUME NEW rows, NEW cols, Parted(rows, cols), NEW table \in SUBSET SUBSET (rows \cup cols)
  PROVE  /\ UnitOK(Unit(table, rows, cols), rows, cols)
         /\ Unit(table, rows, cols).hasMap
         /\ Unit(table, rows, cols).kmap = MapOf(table, rows, cols)
         /\ Unit(table, rows, cols).appx = Applied(MapOf(table, rows, cols), Best(MapOf(table, rows, cols), cols))
         /\ Unit(table, rows, cols).error = Error(MapOf(table, rows, cols), Unit(table, rows, cols).appx)
         /\ Unit(table, rows, cols).isLeaf =>
               Unit(table, rows, cols).majRow = NoVec /\ Unit(table, rows, cols).majCol = NoVec
         /\ Unit(table, rows, cols).isLeaf = ConstantMap(Unit(table, rows, cols).appx, cols)
<1> DEFINE kmap == MapOf(table, rows, cols)
           best == Best(kmap, cols)
           appx == Applied(kmap, best)
           row == IF UnevenRows(appx, cols) = {} THEN NoVec
                  ELSE appx[First(UnevenRows(appx, cols))]
           col == IF UnevenCols(appx, rows, cols) = {} THEN NoVec
                  ELSE Column(appx, First(UnevenCols(appx, rows, cols)))
           u == Unit(table, rows, cols)
<1>1. table # NoVec
  BY VectorIsSet DEF Parted
<1>2. u = [EmptyUnit(rows, cols) EXCEPT
                 !.isLeaf = ConstantMap(appx, cols), !.hasMap = TRUE,
                 !.kmap = kmap, !.appx = appx, !.error = Error(kmap, appx),
                 !.majRow = IF row = NoVec THEN best.majRow ELSE row,
                 !.majCol = col,
                 !.left = row,
                 !.right = col]
  BY <1>1 DEF Unit
<1> HIDE DEF u
<1>3. IsMap(kmap, rows, cols) /\ best \in PairsOver(cols)
  BY MapOfIsMap, BestIsLeast
<1> HIDE DEF kmap
<1>4. IsMap(appx, rows, cols) /\ \A r \in SUBSET rows : appx[r] \in {best.first, best.second}
  <2> HIDE DEF best
  <2>1. QED
    BY <1>3, AppliedIsMap
<1>5. (\A r \in SUBSET rows : Constant(cols, appx[r])) => best = Pair(Ones(cols), Zeros, NoVec)
  BY <1>3, ConstantRowsAreFirst
<1> HIDE DEF best
<1>6. DOMAIN appx = SUBSET rows /\ \A r \in SUBSET rows : appx[r] \in SUBSET SUBSET cols
  BY <1>4 DEF IsMap
<1> HIDE DEF appx
<1>7. \A c \in SUBSET cols : Column(appx, c) \in SUBSET SUBSET rows
  BY <1>6 DEF Column
<1>8. /\ row # NoVec => \E r \in SUBSET rows : row = appx[r] /\ ~ Constant(cols, appx[r])
      /\ row = NoVec => \A r \in SUBSET rows : Constant(cols, appx[r])
  <2>1. UnevenRows(appx, cols) \in SUBSET SUBSET rows
    BY <1>6 DEF UnevenRows
  <2>2. UnevenRows(appx, cols) # {} => First(UnevenRows(appx, cols)) \in UnevenRows(appx, cols)
    BY <2>1, FirstIn DEF Parted
  <2>3. CASE UnevenRows(appx, cols) = {}
    BY <1>6, <2>3 DEF UnevenRows
  <2>4. CASE UnevenRows(appx, cols) # {}
    <3>1. PICK r \in SUBSET rows : r = First(UnevenRows(appx, cols)) /\ ~ Constant(cols, appx[r])
      BY <2>1, <2>2, <2>4 DEF UnevenRows
    <3>2. row = appx[r]
      BY <2>4, <3>1
    <3>3. row # NoVec
      <4>1. appx[r] \in SUBSET SUBSET cols /\ NoAssignment \notin SUBSET cols
        BY <1>6 DEF Parted
      <4>2. QED
        BY <3>2, <4>1, VectorIsSet
    <3>4. QED
      BY <3>1, <3>2, <3>3
  <2>5. QED
    BY <2>3, <2>4
<1>9. /\ col # NoVec => \E c \in SUBSET cols : col = Column(appx, c) /\ ~ Constant(rows, Column(appx, c))
      /\ col = NoVec => \A c \in SUBSET cols : Constant(rows, Column(appx, c))
  <2>1. UnevenCols(appx, rows, cols) \in SUBSET SUBSET cols
    BY DEF UnevenCols
  <2>2. UnevenCols(appx, rows, cols) # {} => First(UnevenCols(appx, rows, cols)) \in UnevenCols(appx, rows, cols)
    BY <2>1, FirstIn DEF Parted
  <2>3. CASE UnevenCols(appx, rows, cols) = {}
    BY <2>3 DEF UnevenCols
  <2>4. CASE UnevenCols(appx, rows, cols) # {}
    <3>1. PICK c \in SUBSET cols : c = First(UnevenCols(appx, rows, cols)) /\ ~ Constant(rows, Column(appx, c))
      BY <2>1, <2>2, <2>4 DEF UnevenCols
    <3>2. col = Column(appx, c)
      BY <2>4, <3>1
    <3>3. col # NoVec
      <4>1. Column(appx, c) \in SUBSET SUBSET rows /\ NoAssignment \notin SUBSET rows
        BY <1>7 DEF Parted
      <4>2. QED
        BY <3>2, <4>1, VectorIsSet
    <3>4. QED
      BY <3>1, <3>2, <3>3
  <2>5. QED
    BY <2>3, <2>4
<1>10. ConstantMap(appx, cols) => row = NoVec /\ col = NoVec
  <2> SUFFICES ASSUME ConstantMap(appx, cols) PROVE row = NoVec /\ col = NoVec
    OBVIOUS
  <2>1. /\ \A r \in SUBSET rows : Constant(cols, appx[r])
        /\ \A c \in SUBSET cols : Constant(rows, Column(appx, c))
    <3>1. CASE \A r \in SUBSET rows : appx[r] = Zeros
      BY <1>6, <3>1 DEF Constant, Column, Zeros, Ones
    <3>2. CASE \A r \in SUBSET rows : appx[r] = Ones(cols)
      BY <1>6, <3>2 DEF Constant, Column, Zeros, Ones
    <3>3. QED
      BY <1>6, <3>1, <3>2 DEF ConstantMap
  <2>2. QED
    BY <1>8, <1>9, <2>1
<1> HIDE DEF row, col
<1>11. /\ u.rows = rows /\ u.cols = cols /\ u.hasMap /\ u.kmap = kmap /\ u.appx = appx
       /\ u.error = Error(kmap, appx) /\ u.left = row /\ u.right = col /\ u.majCol = col
       /\ u.majRow = IF row = NoVec THEN best.majRow ELSE row
       /\ u.isLeaf = ConstantMap(appx, cols)
  BY <1>2 DEF EmptyUnit
<1>12. u.majRow = row
  <2>1. CASE row = NoVec
    <3>1. best.majRow = NoVec
      BY <1>5, <1>8, <2>1 DEF Pair
    <3>2. QED
      BY <1>11, <2>1, <3>1
  <2>2. QED
    BY <1>11, <2>1
<1>13. \A r \in SUBSET rows : Patterned(cols, appx[r], row)
  <2>1. CASE row = NoVec
    BY <1>8, <2>1 DEF Patterned, Constant
  <2>2. CASE row # NoVec
    <3>1. PICK r0 \in SUBSET rows : row = appx[r0] /\ ~ Constant(cols, appx[r0])
      BY <1>8, <2>2
    <3>2. row \in {best.first, best.second} /\ row \notin {Zeros, Ones(cols)}
      BY <1>4, <3>1 DEF Constant
    <3>3. \/ best.first \in {Zeros, Ones(cols)} /\ best.second \in {Zeros, Ones(cols)}
          \/ best.first \in {Zeros, Ones(cols)} /\ best.second = row
          \/ /\ best.second = Complement(cols, best.first)
             /\ best.first = Complement(cols, best.second)
      <4>1. \A m \in SUBSET SUBSET cols : Complement(cols, Complement(cols, m)) = m
        BY DEF Complement, Ones
      <4>2. CASE best = Pair(Ones(cols), Zeros, NoVec)
        BY <4>2 DEF Pair
      <4>3. ASSUME NEW m \in SUBSET SUBSET cols, best = Pair(Zeros, m, m)
            PROVE  best.first = Zeros /\ best.second = row
        BY <3>2, <4>3 DEF Pair
      <4>4. ASSUME NEW m \in SUBSET SUBSET cols, best = Pair(Ones(cols), m, m)
            PROVE  best.first = Ones(cols) /\ best.second = row
        BY <3>2, <4>4 DEF Pair
      <4>5. ASSUME NEW m \in SUBSET SUBSET cols, best = Pair(m, Complement(cols, m), m)
            PROVE  best.second = Complement(cols, best.first) /\ best.first = Complement(cols, best.second)
        BY <4>1, <4>5 DEF Pair
      <4>6. QED
        BY <1>3, <4>2, <4>3, <4>4, <4>5 DEF PairsOver
    <3>4. QED
      BY <1>4, <2>2, <3>2, <3>3 DEF Patterned
  <2>3. QED
    BY <2>1, <2>2
<1>14. \A c \in SUBSET cols : Patterned(rows, Column(appx, c), col)
  <2>1. CASE col = NoVec
    BY <1>9, <2>1 DEF Patterned, Constant
  <2>2. CASE col # NoVec
    <3>1. PICK F \in SUBSET SUBSET rows : ColumnsFrom(appx, rows, cols, F)
      <4>1. \E first, second : \A r \in SUBSET rows : appx[r] \in {first, second}
        BY <1>4
      <4>2. QED
        BY <1>4, <4>1, ColumnsOfTwo
    <3>2. Complement(rows, Complement(rows, F)) = F
      BY DEF Complement, Ones
    <3>3. PICK c0 \in SUBSET cols : col = Column(appx, c0) /\ ~ Constant(rows, Column(appx, c0))
      BY <1>9, <2>2
    <3>4. col \in {F, Complement(rows, F)}
      BY <3>1, <3>3 DEF Constant, ColumnsFrom
    <3>5. QED
      BY <2>2, <3>1, <3>2, <3>4 DEF Patterned, ColumnsFrom
  <2>3. QED
    BY <2>1, <2>2
<1>15. /\ row # NoVec => Uneven(cols, row) /\ \E r \in SUBSET rows : appx[r] = row
       /\ col # NoVec => Uneven(rows, col) /\ \E c \in SUBSET cols : Column(appx, c) = col
  BY <1>6, <1>7, <1>8, <1>9 DEF Uneven
<1>16. UnitOK(u, rows, cols)
  BY <1>4, <1>11, <1>12, <1>13, <1>14, <1>15 DEF UnitOK
<1>17. QED
  BY <1>10, <1>11, <1>12, <1>16 DEF u, kmap, appx, best

-----------------------------------------------------------------------------
(* The tree.                                                               *)

\* Variables of a table or of a part of one.
Variables(V) ==
    V \in SUBSET Int /\ IsFiniteSet(V) /\ V # {} /\ NoAssignment \notin SUBSET V

TableOver(V, table) == table = NoVec \/ table \in SUBSET SUBSET V

SplitOf(unit, V, table) == \E L \in LeftParts(V) : unit = Unit(table, V \ L, L)

\* A node as it was before it was visited, of the given part of a unit.
IsNode(n) ==
    /\ n = [vars |-> n.vars, table |-> n.table, isLeaf |-> n.isLeaf, chosen |-> n.chosen]
    /\ Variables(n.vars)
    /\ TableOver(n.vars, n.table)
    /\ n.isLeaf \in BOOLEAN
    /\ Cardinality(n.vars) <= 2 => n.isLeaf

IsChild(n, V, table, unit) ==
    /\ n.vars = V
    /\ n.table = table
    /\ n.isLeaf = (unit.isLeaf \/ Cardinality(V) <= 2)

IsLeft(n, unit) == IsChild(n, unit.cols, unit.left, unit)
IsRight(n, unit) == IsChild(n, unit.rows, unit.right, unit)

\* The chosen branch of a node that is no leaf.
IsBranch(branch, V, table) ==
    /\ SplitOf(branch.unit, V, table)
    /\ branch.unit.hasMap
    /\ ~ branch.unit.isLeaf
    /\ IsLeft(branch.left, branch.unit)
    /\ IsRight(branch.right, branch.unit)

NodeOK(n) ==
    /\ IsNode(n)
    /\ IF n.isLeaf THEN n.chosen = Unchosen ELSE IsBranch(n.chosen, n.vars, n.table)

(***************************************************************************)
(* A tree that the search returns: every node that is reached from the     *)
(* root is as it should be.                                                *)
(***************************************************************************)
Closed(S) == \A n \in S : NodeOK(n) /\ (~ n.isLeaf => n.chosen.left \in S /\ n.chosen.right \in S)
TreeOK(n) == \E S : n \in S /\ Closed(S)

LEMMA TreeOpen ==
  ASSUME NEW n, TreeOK(n)
  PROVE  NodeOK(n) /\ (~ n.isLeaf => TreeOK(n.chosen.left) /\ TreeOK(n.chosen.right))
<1>1. PICK S : n \in S /\ Closed(S)
  BY DEF TreeOK
<1>2. NodeOK(n) /\ (~ n.isLeaf => n.chosen.left \in S /\ n.chosen.right \in S)
  BY <1>1 DEF Closed
<1>3. QED
  BY <1>1, <1>2 DEF TreeOK

LEMMA TreeLeaf ==
  ASSUME NEW n, NodeOK(n), n.isLeaf
  PROVE  TreeOK(n)
<1>1. Closed({n})
  BY DEF Closed
<1>2. QED
  BY <1>1 DEF TreeOK

LEMMA TreeBranch ==
  ASSUME NEW n, NodeOK(n), TreeOK(n.chosen.left), TreeOK(n.chosen.right)
  PROVE  TreeOK(n)
<1>1. PICK S : n.chosen.left \in S /\ Closed(S)
  BY DEF TreeOK
<1>2. PICK T : n.chosen.right \in T /\ Closed(T)
  BY DEF TreeOK
<1>3. Closed({n} \cup S \cup T)
  <2>1. ASSUME NEW m \in {n} \cup S \cup T
        PROVE  /\ NodeOK(m)
               /\ ~ m.isLeaf => m.chosen.left \in {n} \cup S \cup T /\ m.chosen.right \in {n} \cup S \cup T
    <3>1. CASE m = n
      BY <1>1, <1>2, <3>1
    <3>2. CASE m \in S
      BY <1>1, <3>2 DEF Closed
    <3>3. CASE m \in T
      BY <1>2, <3>3 DEF Closed
    <3>4. QED
      BY <3>1, <3>2, <3>3
  <2>2. QED
    BY <2>1 DEF Closed
<1>4. QED
  BY <1>3 DEF TreeOK

LEMMA PartsOf ==
  ASSUME NEW V, Variables(V), NEW L \in LeftParts(V)
  PROVE  Parted(V \ L, L) /\ (V \ L) \cup L = V /\ Variables(L) /\ Variables(V \ L)
<1>1. L \in SUBSET V /\ L # {} /\ V \ L # {} /\ (V \ L) \cup L = V
  BY DEF LeftParts
<1>2. IsFiniteSet(L) /\ IsFiniteSet(V \ L)
  BY <1>1, FS_Subset, V \ L \in SUBSET V DEF Variables
<1>3. QED
  BY <1>1, <1>2 DEF Parted, Variables

\* The unit of a split, with a table and without one.
LEMMA SplitShape ==
  ASSUME NEW V, Variables(V), NEW table, TableOver(V, table),
         NEW unit, SplitOf(unit, V, table)
  PROVE  /\ Parted(unit.rows, unit.cols) /\ unit.rows \cup unit.cols = V
         /\ Variables(unit.rows) /\ Variables(unit.cols)
         /\ unit.cols \in LeftParts(V) /\ unit.rows = V \ unit.cols
         /\ unit.isLeaf \in BOOLEAN
         /\ unit.isLeaf => unit.majRow = NoVec /\ unit.majCol = NoVec
         /\ TableOver(unit.cols, unit.left)
         /\ TableOver(unit.rows, unit.right)
         /\ unit.error \in Nat /\ unit.error < Infinity(V)
         /\ unit.hasMap <=> table # NoVec
         /\ unit.hasMap =>
               /\ UnitOK(unit, unit.rows, unit.cols)
               /\ unit.kmap = MapOf(table, unit.rows, unit.cols)
               /\ unit.appx = Applied(unit.kmap, Best(unit.kmap, unit.cols))
<1>1. PICK L \in LeftParts(V) : unit = Unit(table, V \ L, L)
  BY DEF SplitOf
<1> DEFINE R == V \ L
<1>2. Parted(R, L) /\ R \cup L = V /\ Variables(L) /\ Variables(R)
  BY PartsOf
<1>3. Infinity(V) \in Nat /\ Infinity(V) > 0
  <2>1. Cardinality(SUBSET V) = 2 ^ Cardinality(V) /\ IsFiniteSet(SUBSET V)
    BY FS_SUBSET DEF Variables
  <2>2. Cardinality(SUBSET V) \in Nat
    BY <2>1, FS_CardinalityType
  <2>3. QED
    BY <2>1, <2>2 DEF Infinity
<1>4. CASE table = NoVec
  <2>1. unit = EmptyUnit(R, L)
    BY <1>1, <1>4 DEF Unit
  <2>2. QED
    BY <1>2, <1>3, <1>4, <2>1 DEF EmptyUnit, TableOver
<1>5. CASE table # NoVec
  <2>1. table \in SUBSET SUBSET (R \cup L)
    BY <1>2, <1>5 DEF TableOver
  <2> HIDE DEF R
  <2>2. /\ UnitOK(unit, R, L) /\ unit.hasMap /\ unit.kmap = MapOf(table, R, L)
        /\ unit.appx = Applied(MapOf(table, R, L), Best(MapOf(table, R, L), L))
        /\ unit.error = Error(MapOf(table, R, L), unit.appx)
        /\ unit.isLeaf => unit.majRow = NoVec /\ unit.majCol = NoVec
        /\ unit.isLeaf = ConstantMap(unit.appx, L)
    BY <1>1, <1>2, <2>1, UnitShape DEF R
  <2>3. unit.rows = R /\ unit.cols = L /\ unit.left = unit.majRow /\ unit.right = unit.majCol
    BY <2>2 DEF UnitOK
  <2>4. TableOver(L, unit.left) /\ TableOver(R, unit.right)
    BY <2>2, <2>3 DEF UnitOK, Uneven, TableOver
  <2>5. unit.error \in Nat /\ unit.error < Infinity(V)
    <3>1. IsMap(MapOf(table, R, L), R, L) /\ IsMap(unit.appx, R, L)
      BY <2>2, MapOfIsMap DEF UnitOK
    <3>2. QED
      BY <1>2, <2>2, <3>1, ErrorZero, ErrorBelowInfinity DEF Parted, Infinity
  <2>6. unit.isLeaf \in BOOLEAN
    BY <2>2 DEF ConstantMap
  <2>7. QED
    BY <1>1, <1>2, <1>5, <2>2, <2>3, <2>4, <2>5, <2>6 DEF R
<1>6. QED
  BY <1>4, <1>5

-----------------------------------------------------------------------------
(* The search.                                                             *)

FrameOf(node, bound, todo, at, unit, right, left) ==
    [node |-> node, bound |-> bound, todo |-> todo, at |-> at, unit |-> unit,
     right |-> right, left |-> left]

IsFrame(f) ==
    /\ f = FrameOf(f.node, f.bound, f.todo, f.at, f.unit, f.right, f.left)
    /\ IsNode(f.node)
    /\ f.at \in {"branch", "bound", "right", "left", "trace"}
    /\ f.at = "branch" => f.unit = NoUnit \/ SplitOf(f.unit, f.node.vars, f.node.table)
    /\ f.at # "branch" => SplitOf(f.unit, f.node.vars, f.node.table)

\* What an activation knows of its children: those that are back, and the
\* chosen ones.  Until a branch is chosen none has been left out.
KnowsChildren(f) ==
    /\ f.at \in {"left", "trace"} => IsRight(f.right, f.unit) /\ TreeOK(f.right)
    /\ f.at = "trace" => IsLeft(f.left, f.unit) /\ TreeOK(f.left)
    /\ f.node.chosen # Unchosen =>
          /\ IsBranch(f.node.chosen, f.node.vars, f.node.table)
          /\ TreeOK(f.node.chosen.left) /\ TreeOK(f.node.chosen.right)
    /\ IF f.node.isLeaf
       THEN f.at = "branch" /\ f.todo = {} /\ f.node.chosen = Unchosen
       ELSE /\ f.todo \in SUBSET LeftParts(f.node.vars)
            /\ f.node.chosen = Unchosen =>
                  /\ f.bound = Infinity(f.node.vars)
                  /\ f.at = "branch" => f.todo = LeftParts(f.node.vars)

FrameOK(f) == IsFrame(f) /\ KnowsChildren(f)

\* An activation and the one it waits for.
Calls(f, g) ==
    \/ f.at = "right" /\ IsRight(g.node, f.unit)
    \/ f.at = "left" /\ IsLeft(g.node, f.unit)

IsRoot(n) == n.vars = input.vars /\ n.table = input.on /\ ~ n.isLeaf

StackOK(s) ==
    /\ \E S : s \in Seq(S)
    /\ s # <<>>
    /\ \A i \in 1 .. Len(s) : FrameOK(s[i])
    /\ \A i \in 1 .. Len(s) - 1 : Calls(s[i], s[i + 1])
    /\ s[Len(s)].at # "right"
    /\ IsRoot(s[1].node)

SearchInv ==
    /\ input \in Tables
    /\ pc \in {"search", "write", "done", "search failed", "write failed"}
    /\ pc \in {"search", "search failed"} => StackOK(stack)
    /\ pc \notin {"search", "search failed"} => stack = <<>> /\ TreeOK(tree) /\ IsRoot(tree)

\* The same node, but for its choice.
SameNode(m, n) == m.vars = n.vars /\ m.table = n.table /\ m.isLeaf = n.isLeaf

(***************************************************************************)
(* The three ways in which a step changes the stack: the top activation    *)
(* moves on, it calls, or it returns.                                      *)
(***************************************************************************)
LEMMA FrameFields ==
  ASSUME NEW f, NEW node, NEW bound, NEW todo, NEW at, NEW unit, NEW right, NEW left,
         f = FrameOf(node, bound, todo, at, unit, right, left)
  PROVE  /\ f.node = node /\ f.bound = bound /\ f.todo = todo /\ f.at = at /\ f.unit = unit
         /\ f.right = right /\ f.left = left
         /\ f = FrameOf(f.node, f.bound, f.todo, f.at, f.unit, f.right, f.left)
  BY DEF FrameOf

LEMMA BelowTop ==
  ASSUME NEW S, NEW s \in Seq(S), s # <<>>
  PROVE  /\ Len(s) \in Nat /\ Len(s) > 0
         /\ SubSeq(s, 1, Len(s) - 1) \in Seq(S)
         /\ Len(SubSeq(s, 1, Len(s) - 1)) = Len(s) - 1
         /\ \A i \in 1 .. Len(s) - 1 : SubSeq(s, 1, Len(s) - 1)[i] = s[i]
<1> DEFINE l == Len(s) - 1
<1>1. Len(s) \in Nat /\ Len(s) > 0 /\ l \in Nat /\ l < Len(s) /\ l = Len(s) - 1
  OBVIOUS
<1> HIDE DEF l
<1>2. SubSeq(s, 1, l) \in Seq(S)
  BY <1>1
<1>3. Len(SubSeq(s, 1, l)) = l /\ \A i \in 1 .. l : SubSeq(s, 1, l)[i] = s[i]
  BY <1>1
<1>4. QED
  BY <1>1, <1>2, <1>3 DEF l

LEMMA TopMoves ==
  ASSUME NEW s, StackOK(s), NEW g, FrameOK(g), g.at # "right", SameNode(g.node, s[Len(s)].node)
  PROVE  StackOK(Append(SubSeq(s, 1, Len(s) - 1), g))
<1> DEFINE b == SubSeq(s, 1, Len(s) - 1)
           t == Append(b, g)
<1>1. PICK S : s \in Seq(S)
  BY DEF StackOK
<1>2. /\ Len(s) \in Nat /\ Len(s) > 0 /\ b \in Seq(S) /\ Len(b) = Len(s) - 1
      /\ \A i \in 1 .. Len(s) - 1 : b[i] = s[i]
  BY <1>1, BelowTop DEF StackOK
<1> HIDE DEF b
<1>3. b \in Seq(S \cup {g})
  BY <1>2
<1>4. /\ t \in Seq(S \cup {g}) /\ Len(t) = Len(s) /\ t # <<>> /\ t[Len(t)] = g
      /\ \A i \in 1 .. Len(s) - 1 : t[i] = s[i]
  BY <1>2, <1>3
<1> HIDE DEF t
<1>5. \A i \in 1 .. Len(t) : FrameOK(t[i])
  BY <1>2, <1>4 DEF StackOK
<1>6. ASSUME NEW i \in 1 .. Len(t) - 1 PROVE Calls(t[i], t[i + 1])
  <2>1. Calls(s[i], s[i + 1]) /\ t[i] = s[i] /\ i + 1 \in 1 .. Len(s)
    BY <1>2, <1>4 DEF StackOK
  <2>2. SameNode(t[i + 1].node, s[i + 1].node)
    BY <1>2, <1>4, <2>1 DEF SameNode
  <2>3. QED
    BY <2>1, <2>2 DEF Calls, IsRight, IsLeft, IsChild, SameNode
<1>7. IsRoot(t[1].node)
  <2>1. SameNode(t[1].node, s[1].node)
    BY <1>2, <1>4 DEF SameNode
  <2>2. QED
    BY <2>1 DEF StackOK, IsRoot, SameNode
<1>8. StackOK(t)
  BY <1>4, <1>5, <1>6, <1>7 DEF StackOK
<1>9. QED
  BY <1>8 DEF t, b

LEMMA TopCalls ==
  ASSUME NEW s, StackOK(s), NEW g, FrameOK(g), SameNode(g.node, s[Len(s)].node),
         NEW h, FrameOK(h), h.at # "right", Calls(g, h)
  PROVE  StackOK(Append(Append(SubSeq(s, 1, Len(s) - 1), g), h))
<1> DEFINE b == SubSeq(s, 1, Len(s) - 1)
           c == Append(b, g)
           t == Append(c, h)
           l == Len(s)
<1>1. PICK S : s \in Seq(S)
  BY DEF StackOK
<1>2. /\ l \in Nat /\ l > 0 /\ b \in Seq(S) /\ Len(b) = l - 1
      /\ \A i \in 1 .. l - 1 : b[i] = s[i]
  BY <1>1, BelowTop DEF StackOK
<1> HIDE DEF b
<1>3. b \in Seq(S \cup {g, h})
  BY <1>2
<1> HIDE DEF l
<1>4. /\ c \in Seq(S \cup {g, h}) /\ Len(c) = l /\ c[l] = g
      /\ \A i \in 1 .. l - 1 : c[i] = s[i]
  BY <1>2, <1>3
<1> HIDE DEF c
<1>5. /\ t \in Seq(S \cup {g, h}) /\ Len(t) = l + 1 /\ t # <<>> /\ t[l + 1] = h /\ t[l] = g
      /\ \A i \in 1 .. l - 1 : t[i] = s[i]
  BY <1>2, <1>4
<1> HIDE DEF t
<1>6. \A i \in 1 .. l + 1 : FrameOK(t[i])
  BY <1>2, <1>5 DEF StackOK, l
<1>7. ASSUME NEW i \in 1 .. l PROVE Calls(t[i], t[i + 1])
  <2>1. CASE i = l
    BY <1>5, <2>1
  <2>2. CASE i # l
    <3>1. Calls(s[i], s[i + 1]) /\ t[i] = s[i] /\ i + 1 \in 1 .. l
      BY <1>2, <1>5, <2>2 DEF StackOK, l
    <3>2. SameNode(t[i + 1].node, s[i + 1].node)
      BY <1>2, <1>5, <3>1 DEF SameNode, l
    <3>3. QED
      BY <3>1, <3>2 DEF Calls, IsRight, IsLeft, IsChild, SameNode
  <2>3. QED
    BY <2>1, <2>2
<1>8. IsRoot(t[1].node)
  <2>1. SameNode(t[1].node, s[1].node)
    BY <1>2, <1>5 DEF SameNode, l
  <2>2. QED
    BY <2>1 DEF StackOK, IsRoot, SameNode
<1>9. StackOK(t)
  BY <1>2, <1>5, <1>6, <1>7, <1>8 DEF StackOK
<1>10. QED
  BY <1>9 DEF t, c, b

LEMMA TopReturns ==
  ASSUME NEW s, StackOK(s), NEW b, b = SubSeq(s, 1, Len(s) - 1), b # <<>>,
         NEW g, FrameOK(g), g.at # "right", SameNode(g.node, b[Len(b)].node)
  PROVE  /\ StackOK([b EXCEPT ![Len(b)] = g])
<1> DEFINE t == [b EXCEPT ![Len(b)] = g]
           l == Len(b)
<1>1. PICK S : s \in Seq(S)
  BY DEF StackOK
<1>2. /\ Len(s) \in Nat /\ Len(s) > 0 /\ b \in Seq(S) /\ l = Len(s) - 1
      /\ \A i \in 1 .. Len(s) - 1 : b[i] = s[i]
  BY <1>1, BelowTop DEF StackOK
<1>3. l > 0 /\ l \in Nat
  BY <1>2
<1>4. b \in Seq(S \cup {g})
  BY <1>2
<1> HIDE DEF l
<1>5. /\ t \in Seq(S \cup {g}) /\ Len(t) = l /\ t # <<>> /\ t[l] = g
      /\ \A i \in 1 .. l - 1 : t[i] = s[i]
  <2>1. t = [b EXCEPT ![l] = g]
    BY DEF l
  <2>2. l = Len(b)
    BY DEF l
  <2> HIDE DEF t
  <2>3. t \in Seq(S \cup {g}) /\ Len(t) = l
    BY <1>3, <1>4, <2>1, <2>2
  <2>4. t[l] = g /\ \A i \in 1 .. l - 1 : t[i] = b[i]
    <3>1. DOMAIN b = 1 .. l /\ l \in 1 .. l /\ \A i \in 1 .. l - 1 : i \in 1 .. l /\ i # l
      BY <1>3, <1>4, <2>2
    <3>2. QED
      BY <2>1, <3>1, Zenon
  <2>5. QED
    BY <1>2, <1>3, <2>3, <2>4
<1>6. b[l] = s[l]
  BY <1>2, <1>3
<1> HIDE DEF t
<1>7. \A i \in 1 .. l : FrameOK(t[i])
  <2>1. \A i \in 1 .. l - 1 : FrameOK(s[i])
    BY <1>2, <1>3 DEF StackOK
  <2>2. QED
    BY <1>3, <1>5, <2>1
<1>8. ASSUME NEW i \in 1 .. l - 1 PROVE Calls(t[i], t[i + 1])
  <2>1. Calls(s[i], s[i + 1]) /\ t[i] = s[i] /\ i + 1 \in 1 .. l
    BY <1>2, <1>3, <1>5 DEF StackOK
  <2>2. SameNode(t[i + 1].node, s[i + 1].node)
    BY <1>3, <1>5, <1>6, <2>1, SMTT(40) DEF SameNode, l
  <2>3. QED
    BY <2>1, <2>2 DEF Calls, IsRight, IsLeft, IsChild, SameNode
<1>9. IsRoot(t[1].node)
  <2>1. SameNode(t[1].node, s[1].node)
    BY <1>3, <1>5, <1>6 DEF SameNode, l
  <2>2. QED
    BY <2>1 DEF StackOK, IsRoot, SameNode
<1>10. StackOK(t)
  BY <1>3, <1>5, <1>7, <1>8, <1>9 DEF StackOK
<1>11. QED
  BY <1>10 DEF t

-----------------------------------------------------------------------------
(* Its steps.                                                              *)

LEMMA FrameSetup ==
  ASSUME NEW n, IsNode(n), n.chosen = Unchosen
  PROVE  FrameOK(Frame(n)) /\ Frame(n).node = n /\ Frame(n).at = "branch"
<1>1. /\ Frame(n).node = n /\ Frame(n).at = "branch" /\ Frame(n).unit = NoUnit
      /\ Frame(n).bound = Infinity(n.vars)
      /\ Frame(n).todo = IF n.isLeaf THEN {} ELSE LeftParts(n.vars)
      /\ Frame(n) = FrameOf(n, Frame(n).bound, Frame(n).todo, Frame(n).at, Frame(n).unit,
                            Frame(n).right, Frame(n).left)
  BY DEF Frame, FrameOf
<1>2. IsFrame(Frame(n))
  BY <1>1 DEF IsFrame
<1>3. KnowsChildren(Frame(n))
  BY <1>1 DEF KnowsChildren
<1>4. QED
  BY <1>1, <1>2, <1>3 DEF FrameOK

LEMMA NodeSetup ==
  ASSUME NEW V, Variables(V), NEW table, TableOver(V, table), NEW leaf \in BOOLEAN
  PROVE  /\ IsNode(Node(V, table, leaf)) /\ Node(V, table, leaf).chosen = Unchosen
         /\ Node(V, table, leaf).vars = V /\ Node(V, table, leaf).table = table
         /\ Node(V, table, leaf).isLeaf = (leaf \/ Cardinality(V) <= 2)
  BY DEF IsNode, Node

LEMMA RootVariables ==
  ASSUME input \in Tables
  PROVE  Variables(input.vars) /\ input.on \in SUBSET SUBSET input.vars /\ ~ (Cardinality(input.vars) <= 2)
<1>1. /\ IsFiniteSet(input.vars) /\ input.vars \in SUBSET Int /\ Cardinality(input.vars) > 2
      /\ input.on \in SUBSET SUBSET input.vars
      /\ \A a \in SUBSET input.vars : a # NoAssignment
  BY TablesAssumption
<1>2. Cardinality(input.vars) \in Nat
  BY <1>1, FS_CardinalityType
<1>3. input.vars # {}
  BY <1>1, FS_EmptySet
<1>4. QED
  BY <1>1, <1>2, <1>3 DEF Variables

LEMMA SearchInit == Init => SearchInv
<1> SUFFICES ASSUME Init PROVE SearchInv
  OBVIOUS
<1> DEFINE n == Node(input.vars, input.on, FALSE)
<1>1. input \in Tables /\ stack = <<Frame(n)>> /\ pc = "search"
  BY DEF Init
<1>2. /\ IsNode(n) /\ n.chosen = Unchosen /\ n.vars = input.vars /\ n.table = input.on
      /\ ~ n.isLeaf
  <2>1. Variables(input.vars) /\ TableOver(input.vars, input.on) /\ ~ (Cardinality(input.vars) <= 2)
    BY <1>1, RootVariables DEF TableOver
  <2>2. QED
    BY <2>1 DEF IsNode, Node
<1> HIDE DEF n
<1>3. FrameOK(Frame(n)) /\ Frame(n).node = n /\ Frame(n).at = "branch"
  BY <1>2, FrameSetup
<1>4. stack \in Seq({Frame(n)}) /\ Len(stack) = 1 /\ stack[1] = Frame(n) /\ stack # <<>>
  BY <1>1
<1>5. IsRoot(n)
  BY <1>2 DEF IsRoot
<1>6. StackOK(stack)
  BY <1>3, <1>4, <1>5 DEF StackOK
<1>7. QED
  BY <1>1, <1>6 DEF SearchInv

\* The top activation of a search.
LEMMA TopFrame ==
  ASSUME SearchInv, NEW at, Searching(at)
  PROVE  /\ StackOK(stack) /\ FrameOK(Top) /\ Top.at = at /\ Top = stack[Len(stack)]
         /\ IsFrame(Top) /\ KnowsChildren(Top) /\ IsNode(Top.node) /\ Variables(Top.node.vars)
         /\ TableOver(Top.node.vars, Top.node.table)
<1>1. StackOK(stack) /\ Top.at = at
  BY DEF SearchInv, Searching
<1>2. Len(stack) \in 1 .. Len(stack)
  BY <1>1, BelowTop DEF StackOK
<1>3. FrameOK(Top)
  BY <1>1, <1>2 DEF StackOK, Top
<1>4. QED
  BY <1>1, <1>3 DEF FrameOK, IsFrame, IsNode, Top

\* A step of the top activation alone.
LEMMA StackMoves ==
  ASSUME SearchInv, StackOK(stack), NEW g, FrameOK(g), g.at # "right", SameNode(g.node, Top.node),
         stack' = Append(Below, g), UNCHANGED <<input, pc, tree>>, pc = "search"
  PROVE  SearchInv'
<1>1. StackOK(Append(Below, g))
  BY TopMoves DEF Below, Top
<1>2. (\E S : stack' \in Seq(S)) /\ stack' # <<>> /\ (\A i \in 1 .. Len(stack') : FrameOK(stack'[i]))
      /\ (\A i \in 1 .. Len(stack') - 1 : Calls(stack'[i], stack'[i + 1]))
      /\ stack'[Len(stack')].at # "right" /\ IsRoot(stack'[1].node)
  BY <1>1 DEF StackOK
<1>3. QED
  BY <1>2 DEF SearchInv, StackOK, IsRoot

LEMMA ApproximateKeeps ==
  ASSUME SearchInv, Approximate
  PROVE  SearchInv'
<1> DEFINE left == NextPart(Top.todo)
           unit == Unit(Top.node.table, Top.node.vars \ left, left)
           g == [Top EXCEPT !.todo = @ \ {left}, !.at = "bound", !.unit = unit]
<1>1. /\ StackOK(stack) /\ Top.at = "branch" /\ IsFrame(Top) /\ KnowsChildren(Top)
      /\ Variables(Top.node.vars)
  BY TopFrame DEF Approximate
<1>2. /\ Top.todo # {} /\ stack' = Append(Below, g) /\ UNCHANGED <<input, pc, tree>> /\ pc = "search"
  BY DEF Approximate, Searching
<1>3. ~ Top.node.isLeaf /\ Top.todo \in SUBSET LeftParts(Top.node.vars)
  BY <1>1, <1>2 DEF KnowsChildren
<1>4. left \in Top.todo
  <2>1. Top.todo \in SUBSET SUBSET Top.node.vars
    BY <1>3 DEF LeftParts
  <2>2. QED
    BY <1>1, <1>2, <2>1, NextPartIn DEF Variables
<1>5. SplitOf(unit, Top.node.vars, Top.node.table)
  BY <1>3, <1>4 DEF SplitOf
<1> HIDE DEF unit
<1> HIDE DEF left
<1>6. /\ g.node = Top.node /\ g.bound = Top.bound /\ g.todo = Top.todo \ {left} /\ g.at = "bound"
      /\ g.unit = unit /\ g.right = Top.right /\ g.left = Top.left
      /\ g = FrameOf(g.node, g.bound, g.todo, g.at, g.unit, g.right, g.left)
  <2>1. g = FrameOf(Top.node, Top.bound, Top.todo \ {left}, "bound", unit, Top.right, Top.left)
    <3> DEFINE a == [Top EXCEPT !.todo = @ \ {left}]
               b == [a EXCEPT !.at = "bound"]
    <3>1. a = FrameOf(Top.node, Top.bound, Top.todo \ {left}, Top.at, Top.unit, Top.right, Top.left)
      BY <1>1 DEF IsFrame, FrameOf
    <3> HIDE DEF a
    <3>2. b = FrameOf(Top.node, Top.bound, Top.todo \ {left}, "bound", Top.unit, Top.right, Top.left)
      BY <3>1 DEF FrameOf
    <3> HIDE DEF b
    <3>3. [b EXCEPT !.unit = unit]
             = FrameOf(Top.node, Top.bound, Top.todo \ {left}, "bound", unit, Top.right, Top.left)
      BY <3>2 DEF FrameOf
    <3>4. QED
      BY <3>3 DEF a, b
  <2> HIDE DEF g
  <2>2. QED
    BY <2>1, FrameFields
<1> HIDE DEF g
<1>7. IsFrame(g)
  BY <1>1, <1>5, <1>6 DEF IsFrame
<1>8. KnowsChildren(g)
  BY <1>1, <1>3, <1>6 DEF KnowsChildren
<1>9. SameNode(g.node, Top.node) /\ g.at # "right" /\ FrameOK(g)
  BY <1>6, <1>7, <1>8 DEF SameNode, FrameOK
<1>10. QED
  BY <1>1, <1>2, <1>9, StackMoves

LEMMA PruneKeeps ==
  ASSUME SearchInv, Prune
  PROVE  SearchInv'
<1> DEFINE g == [Top EXCEPT !.at = "branch"]
<1>1. /\ StackOK(stack) /\ Top.at = "bound" /\ IsFrame(Top) /\ KnowsChildren(Top)
      /\ Variables(Top.node.vars)
      /\ TableOver(Top.node.vars, Top.node.table)
  BY TopFrame DEF Prune
<1>2. /\ Top.unit.error > Top.bound
      /\ stack' = Append(Below, g) /\ UNCHANGED <<input, pc, tree>> /\ pc = "search"
  BY DEF Prune, Searching
<1>3. SplitOf(Top.unit, Top.node.vars, Top.node.table)
  BY <1>1 DEF IsFrame
<1>4. Top.node.chosen # Unchosen
  <2>1. Top.unit.error < Infinity(Top.node.vars) /\ Top.unit.error \in Nat
    BY <1>1, <1>3, SplitShape
  <2>2. Infinity(Top.node.vars) \in Nat
    <3>1. Cardinality(SUBSET Top.node.vars) = 2 ^ Cardinality(Top.node.vars) /\ IsFiniteSet(SUBSET Top.node.vars)
      BY <1>1, FS_SUBSET DEF Variables
    <3>2. QED
      BY <3>1, FS_CardinalityType DEF Infinity
  <2>3. QED
    BY <1>1, <1>2, <2>1, <2>2 DEF KnowsChildren
<1>5. /\ g.node = Top.node /\ g.bound = Top.bound /\ g.todo = Top.todo /\ g.at = "branch"
      /\ g.unit = Top.unit /\ g.right = Top.right /\ g.left = Top.left
      /\ g = FrameOf(g.node, g.bound, g.todo, g.at, g.unit, g.right, g.left)
  <2>1. g = FrameOf(Top.node, Top.bound, Top.todo, "branch", Top.unit, Top.right, Top.left)
    BY <1>1 DEF IsFrame, FrameOf
  <2> HIDE DEF g
  <2>2. QED
    BY <2>1, FrameFields
<1> HIDE DEF g
<1>6. IsFrame(g)
  BY <1>1, <1>3, <1>5 DEF IsFrame
<1>7. KnowsChildren(g)
  BY <1>1, <1>4, <1>5 DEF KnowsChildren
<1>8. SameNode(g.node, Top.node) /\ g.at # "right" /\ FrameOK(g)
  BY <1>5, <1>6, <1>7 DEF SameNode, FrameOK
<1>9. QED
  BY <1>1, <1>2, <1>8, StackMoves
\* A call of a child.
LEMMA StackCalls ==
  ASSUME SearchInv, StackOK(stack), NEW g, FrameOK(g), SameNode(g.node, Top.node),
         NEW h, FrameOK(h), h.at # "right", Calls(g, h),
         stack' = Append(Append(Below, g), h), UNCHANGED <<input, pc, tree>>, pc = "search"
  PROVE  SearchInv'
<1>1. StackOK(Append(Append(Below, g), h))
  BY TopCalls DEF Below, Top
<1>2. (\E S : stack' \in Seq(S)) /\ stack' # <<>> /\ (\A i \in 1 .. Len(stack') : FrameOK(stack'[i]))
      /\ (\A i \in 1 .. Len(stack') - 1 : Calls(stack'[i], stack'[i + 1]))
      /\ stack'[Len(stack')].at # "right" /\ IsRoot(stack'[1].node)
  BY <1>1 DEF StackOK
<1>3. QED
  BY <1>2 DEF SearchInv, StackOK, IsRoot

LEMMA VisitRightKeeps ==
  ASSUME SearchInv, VisitRight
  PROVE  SearchInv'
<1> DEFINE g == [Top EXCEPT !.at = "right"]
           n == Node(Top.unit.rows, Top.unit.right, Top.unit.isLeaf)
<1>1. /\ StackOK(stack) /\ Top.at = "bound" /\ IsFrame(Top) /\ KnowsChildren(Top)
      /\ Variables(Top.node.vars)
      /\ TableOver(Top.node.vars, Top.node.table)
  BY TopFrame DEF VisitRight
<1>2. /\ stack' = Append(Append(Below, g), Frame(n)) /\ UNCHANGED <<input, pc, tree>> /\ pc = "search"
  BY DEF VisitRight, Searching
<1>3. SplitOf(Top.unit, Top.node.vars, Top.node.table)
  BY <1>1 DEF IsFrame
<1>4. /\ IsNode(n) /\ n.chosen = Unchosen /\ IsRight(n, Top.unit)
  <2>1. /\ Variables(Top.unit.rows) /\ Top.unit.isLeaf \in BOOLEAN
        /\ TableOver(Top.unit.rows, Top.unit.right)
    BY <1>1, <1>3, SplitShape
  <2>2. QED
    BY <2>1, NodeSetup DEF IsRight, IsChild
<1> HIDE DEF n
<1>5. /\ g.node = Top.node /\ g.bound = Top.bound /\ g.todo = Top.todo /\ g.at = "right"
      /\ g.unit = Top.unit /\ g.right = Top.right /\ g.left = Top.left
      /\ g = FrameOf(g.node, g.bound, g.todo, g.at, g.unit, g.right, g.left)
  <2>1. g = FrameOf(Top.node, Top.bound, Top.todo, "right", Top.unit, Top.right, Top.left)
    BY <1>1 DEF IsFrame, FrameOf
  <2> HIDE DEF g
  <2>2. QED
    BY <2>1, FrameFields
<1> HIDE DEF g
<1>6. IsFrame(g)
  BY <1>1, <1>3, <1>5 DEF IsFrame
<1>7. KnowsChildren(g)
  BY <1>1, <1>5 DEF KnowsChildren
<1>8. FrameOK(Frame(n)) /\ Frame(n).node = n /\ Frame(n).at = "branch"
  BY <1>4, FrameSetup
<1>9. SameNode(g.node, Top.node) /\ FrameOK(g) /\ Calls(g, Frame(n))
  BY <1>4, <1>5, <1>6, <1>7, <1>8 DEF SameNode, FrameOK, Calls
<1>10. QED
  BY <1>1, <1>2, <1>8, <1>9, StackCalls

LEMMA VisitLeftKeeps ==
  ASSUME SearchInv, VisitLeft
  PROVE  SearchInv'
<1> DEFINE n == Node(Top.unit.cols, Top.unit.left, Top.unit.isLeaf)
<1>1. /\ StackOK(stack) /\ Top.at = "left" /\ IsFrame(Top) /\ FrameOK(Top)
      /\ Variables(Top.node.vars)
      /\ TableOver(Top.node.vars, Top.node.table)
  BY TopFrame DEF VisitLeft
<1>2. /\ stack' = Append(stack, Frame(n)) /\ UNCHANGED <<input, pc, tree>> /\ pc = "search"
  BY DEF VisitLeft, Searching
<1>3. SplitOf(Top.unit, Top.node.vars, Top.node.table)
  BY <1>1 DEF IsFrame
<1>4. /\ IsNode(n) /\ n.chosen = Unchosen /\ IsLeft(n, Top.unit)
  <2>1. /\ Variables(Top.unit.cols) /\ Top.unit.isLeaf \in BOOLEAN
        /\ TableOver(Top.unit.cols, Top.unit.left)
    BY <1>1, <1>3, SplitShape
  <2>2. QED
    BY <2>1, NodeSetup DEF IsLeft, IsChild
<1> HIDE DEF n
<1>5. stack = Append(Below, Top)
  <2>1. PICK S : stack \in Seq(S)
    BY <1>1 DEF StackOK
  <2>2. stack # <<>>
    BY <1>1 DEF StackOK
  <2>3. QED
    BY <2>1, <2>2 DEF Below, Top
<1>6. FrameOK(Frame(n)) /\ Frame(n).node = n /\ Frame(n).at = "branch"
  BY <1>4, FrameSetup
<1>7. SameNode(Top.node, Top.node) /\ Calls(Top, Frame(n))
  BY <1>1, <1>4, <1>6 DEF SameNode, Calls
<1>8. QED
  BY <1>1, <1>2, <1>5, <1>6, <1>7, StackCalls

-----------------------------------------------------------------------------
(* Tracing what the children made of the vectors.                          *)

UnitOf(rows, cols, isLeaf, hasMap, kmap, appx, majRow, majCol, left, right, error) ==
    [rows |-> rows, cols |-> cols, isLeaf |-> isLeaf, hasMap |-> hasMap,
     kmap |-> kmap, appx |-> appx, majRow |-> majRow, majCol |-> majCol,
     left |-> left, right |-> right, error |-> error]

IsUnit(u) ==
    u = UnitOf(u.rows, u.cols, u.isLeaf, u.hasMap, u.kmap, u.appx, u.majRow, u.majCol,
               u.left, u.right, u.error)

LEMMA UnitFields ==
  ASSUME NEW u, NEW rows, NEW cols, NEW isLeaf, NEW hasMap, NEW kmap, NEW appx, NEW majRow, NEW majCol,
         NEW left, NEW right, NEW error,
         u = UnitOf(rows, cols, isLeaf, hasMap, kmap, appx, majRow, majCol, left, right, error)
  PROVE  /\ u.rows = rows /\ u.cols = cols /\ u.isLeaf = isLeaf /\ u.hasMap = hasMap
         /\ u.kmap = kmap /\ u.appx = appx /\ u.majRow = majRow /\ u.majCol = majCol
         /\ u.left = left /\ u.right = right /\ u.error = error
         /\ IsUnit(u)
<1>1. /\ u.rows = rows /\ u.cols = cols /\ u.isLeaf = isLeaf /\ u.hasMap = hasMap
      /\ u.kmap = kmap /\ u.appx = appx /\ u.majRow = majRow /\ u.majCol = majCol
      /\ u.left = left /\ u.right = right /\ u.error = error
  BY DEF UnitOf
<1>2. IsUnit(u)
  BY <1>1 DEF IsUnit
<1>3. QED
  BY <1>1, <1>2

LEMMA UnitIsUnit ==
  ASSUME NEW table, NEW rows, NEW cols
  PROVE  IsUnit(Unit(table, rows, cols)) /\ IsUnit(NoUnit) /\ NoUnit.isLeaf
<1>1. /\ IsUnit(NoUnit) /\ NoUnit.isLeaf
      /\ EmptyUnit(rows, cols)
            = UnitOf(rows, cols, TRUE, FALSE, <<>>, <<>>, NoVec, NoVec, NoVec, NoVec, 0)
  BY DEF NoUnit, EmptyUnit, UnitOf, IsUnit
<1>2. CASE table = NoVec
  <2>1. Unit(table, rows, cols) = EmptyUnit(rows, cols)
    BY <1>2 DEF Unit
  <2>2. IsUnit(Unit(table, rows, cols))
    BY <1>1, <2>1 DEF IsUnit, UnitOf
  <2>3. QED
    BY <1>1, <2>2
<1>3. CASE table # NoVec
  <2> DEFINE kmap == MapOf(table, rows, cols)
             best == Best(kmap, cols)
             appx == Applied(kmap, best)
             row == IF UnevenRows(appx, cols) = {} THEN NoVec
                    ELSE appx[First(UnevenRows(appx, cols))]
             col == IF UnevenCols(appx, rows, cols) = {} THEN NoVec
                    ELSE Column(appx, First(UnevenCols(appx, rows, cols)))
             error == Error(kmap, appx)
             isLeaf == ConstantMap(appx, cols)
             majRow == IF row = NoVec THEN best.majRow ELSE row
  <2>1. Unit(table, rows, cols)
           = [EmptyUnit(rows, cols) EXCEPT
                 !.isLeaf = isLeaf, !.hasMap = TRUE, !.kmap = kmap, !.appx = appx, !.error = error,
                 !.majRow = majRow, !.majCol = col, !.left = row, !.right = col]
    BY <1>3 DEF Unit
  <2> HIDE DEF kmap, best, appx, row, col, error, isLeaf, majRow
  <2>2. Unit(table, rows, cols)
           = UnitOf(rows, cols, isLeaf, TRUE, kmap, appx, majRow, col, row, col, error)
    BY <2>1, ZenonT(40) DEF EmptyUnit, UnitOf
  <2>3. QED
    BY <1>1, <2>2, UnitFields
<1>4. QED
  BY <1>2, <1>3

\* A child that is split again brings a map of its variables.
SubOf(sub, V) == sub.isLeaf \/ sub.rows \cup sub.cols = V

LEMMA TableIsVector ==
  ASSUME NEW map, NEW rows, NEW cols
  PROVE  TableOf(map, rows, cols) \in SUBSET SUBSET (rows \cup cols)
  BY DEF TableOf

\* What tracing leaves alone, and what it sets.
LEMMA WithLeftFields ==
  ASSUME NEW u, IsUnit(u), IsMap(u.appx, u.rows, u.cols), NEW sub, SubOf(sub, u.cols)
  PROVE  /\ IsUnit(WithLeft(u, sub)) /\ IsMap(WithLeft(u, sub).appx, u.rows, u.cols)
         /\ WithLeft(u, sub).rows = u.rows /\ WithLeft(u, sub).cols = u.cols
         /\ WithLeft(u, sub).isLeaf = u.isLeaf /\ WithLeft(u, sub).majCol = u.majCol
         /\ sub.isLeaf => WithLeft(u, sub) = u
         /\ ~ sub.isLeaf =>
               /\ WithLeft(u, sub).majRow = TableOf(sub.appx, sub.rows, sub.cols)
               /\ \A r \in SUBSET u.rows :
                     WithLeft(u, sub).appx[r] =
                        Substituted(u.appx[r], u.majRow, TableOf(sub.appx, sub.rows, sub.cols), u.cols)
<1>1. CASE sub.isLeaf
  BY <1>1 DEF WithLeft
<1>2. CASE ~ sub.isLeaf
  <2> DEFINE new == TableOf(sub.appx, sub.rows, sub.cols)
             appx == [r \in SUBSET u.rows |-> Substituted(u.appx[r], u.majRow, new, u.cols)]
  <2>1. DOMAIN u.appx = SUBSET u.rows /\ \A r \in SUBSET u.rows : u.appx[r] \in SUBSET SUBSET u.cols
    BY DEF IsMap
  <2>2. new \in SUBSET SUBSET u.cols
    BY <1>2, TableIsVector DEF SubOf
  <2>3. WithLeft(u, sub) = [u EXCEPT !.appx = [r \in DOMAIN @ |-> Substituted(@[r], u.majRow, new, u.cols)],
                                     !.majRow = new]
    BY <1>2 DEF WithLeft
  <2> HIDE DEF new
  <2>4. WithLeft(u, sub) = [u EXCEPT !.appx = appx, !.majRow = new]
    BY <2>1, <2>3
  <2>5. \A vec, old : vec \in SUBSET SUBSET u.cols => Substituted(vec, old, new, u.cols) \in SUBSET SUBSET u.cols
    BY <2>2 DEF Substituted, Complement, Ones
  <2>6. IsMap(appx, u.rows, u.cols)
    BY <2>1, <2>5 DEF IsMap
  <2> HIDE DEF appx
  <2>7. WithLeft(u, sub) = UnitOf(u.rows, u.cols, u.isLeaf, u.hasMap, u.kmap, appx, new, u.majCol,
                                  u.left, u.right, u.error)
    <3> DEFINE a == [u EXCEPT !.appx = appx]
    <3>1. a = UnitOf(u.rows, u.cols, u.isLeaf, u.hasMap, u.kmap, appx, u.majRow, u.majCol,
                     u.left, u.right, u.error)
      BY DEF IsUnit, UnitOf
    <3> HIDE DEF a
    <3>2. [a EXCEPT !.majRow = new]
             = UnitOf(u.rows, u.cols, u.isLeaf, u.hasMap, u.kmap, appx, new, u.majCol,
                      u.left, u.right, u.error)
      BY <3>1 DEF UnitOf
    <3>3. QED
      BY <2>4, <3>2 DEF a
  <2>8. IsUnit(WithLeft(u, sub)) /\ WithLeft(u, sub).appx = appx /\ WithLeft(u, sub).majRow = new
        /\ WithLeft(u, sub).rows = u.rows /\ WithLeft(u, sub).cols = u.cols
        /\ WithLeft(u, sub).isLeaf = u.isLeaf /\ WithLeft(u, sub).majCol = u.majCol
    BY <2>7, UnitFields
  <2>9. \A r \in SUBSET u.rows : appx[r] = Substituted(u.appx[r], u.majRow, new, u.cols)
    BY DEF appx
  <2>10. QED
    BY <1>2, <2>6, <2>8, <2>9 DEF new
<1>3. QED
  BY <1>1, <1>2

LEMMA WithRightFields ==
  ASSUME NEW u, IsUnit(u), IsMap(u.appx, u.rows, u.cols), NEW sub
  PROVE  /\ IsUnit(WithRight(u, sub)) /\ IsMap(WithRight(u, sub).appx, u.rows, u.cols)
         /\ WithRight(u, sub).rows = u.rows /\ WithRight(u, sub).cols = u.cols
         /\ WithRight(u, sub).isLeaf = u.isLeaf /\ WithRight(u, sub).majRow = u.majRow
         /\ sub.isLeaf => WithRight(u, sub) = u
         /\ ~ sub.isLeaf =>
               /\ WithRight(u, sub).majCol = TableOf(sub.appx, sub.rows, sub.cols)
               /\ \A r \in SUBSET u.rows, c \in SUBSET u.cols :
                     c \in WithRight(u, sub).appx[r] <=>
                        r \in Substituted(Column(u.appx, c), u.majCol,
                                          TableOf(sub.appx, sub.rows, sub.cols), u.rows)
<1>1. CASE sub.isLeaf
  BY <1>1 DEF WithRight
<1>2. CASE ~ sub.isLeaf
  <2> DEFINE new == TableOf(sub.appx, sub.rows, sub.cols)
             column(c) == Substituted(Column(u.appx, c), u.majCol, new, u.rows)
             appx == [r \in SUBSET u.rows |-> {c \in SUBSET u.cols : r \in column(c)}]
  <2>1. DOMAIN u.appx = SUBSET u.rows
    BY DEF IsMap
  <2>2. WithRight(u, sub) = [u EXCEPT !.appx = [r \in DOMAIN @ |-> {c \in SUBSET u.cols : r \in column(c)}],
                                      !.majCol = new]
    BY <1>2 DEF WithRight
  <2> HIDE DEF new, column
  <2>3. WithRight(u, sub) = [u EXCEPT !.appx = appx, !.majCol = new]
    BY <2>1, <2>2
  <2>4. /\ IsMap(appx, u.rows, u.cols)
        /\ \A r \in SUBSET u.rows, c \in SUBSET u.cols : c \in appx[r] <=> r \in column(c)
    BY DEF IsMap
  <2> HIDE DEF appx
  <2>5. WithRight(u, sub) = UnitOf(u.rows, u.cols, u.isLeaf, u.hasMap, u.kmap, appx, u.majRow, new,
                                   u.left, u.right, u.error)
    <3> DEFINE a == [u EXCEPT !.appx = appx]
    <3>1. a = UnitOf(u.rows, u.cols, u.isLeaf, u.hasMap, u.kmap, appx, u.majRow, u.majCol,
                     u.left, u.right, u.error)
      BY DEF IsUnit, UnitOf
    <3> HIDE DEF a
    <3>2. [a EXCEPT !.majCol = new]
             = UnitOf(u.rows, u.cols, u.isLeaf, u.hasMap, u.kmap, appx, u.majRow, new,
                      u.left, u.right, u.error)
      BY <3>1 DEF UnitOf
    <3>3. QED
      BY <2>3, <3>2 DEF a
  <2>6. IsUnit(WithRight(u, sub)) /\ WithRight(u, sub).appx = appx /\ WithRight(u, sub).majCol = new
        /\ WithRight(u, sub).rows = u.rows /\ WithRight(u, sub).cols = u.cols
        /\ WithRight(u, sub).isLeaf = u.isLeaf /\ WithRight(u, sub).majRow = u.majRow
    BY <2>5, UnitFields
  <2>7. QED
    BY <1>2, <2>4, <2>6 DEF column, new
<1>3. QED
  BY <1>1, <1>2

LEMMA TracedFields ==
  ASSUME NEW u, IsUnit(u), IsMap(u.appx, u.rows, u.cols), NEW l, SubOf(l, u.cols), NEW r
  PROVE  /\ IsUnit(Traced(u, l, r)) /\ IsMap(Traced(u, l, r).appx, u.rows, u.cols)
         /\ Traced(u, l, r).rows = u.rows /\ Traced(u, l, r).cols = u.cols
         /\ Traced(u, l, r).isLeaf = u.isLeaf
         /\ l.isLeaf /\ r.isLeaf => Traced(u, l, r) = u
<1> DEFINE w == WithLeft(u, l)
<1>1. /\ IsUnit(w) /\ IsMap(w.appx, u.rows, u.cols) /\ w.rows = u.rows /\ w.cols = u.cols
      /\ w.isLeaf = u.isLeaf
      /\ l.isLeaf => w = u
  BY WithLeftFields
<1> HIDE DEF w
<1>2. /\ IsUnit(WithRight(w, r)) /\ IsMap(WithRight(w, r).appx, u.rows, u.cols)
      /\ WithRight(w, r).rows = u.rows /\ WithRight(w, r).cols = u.cols
      /\ WithRight(w, r).isLeaf = u.isLeaf
      /\ r.isLeaf => WithRight(w, r) = w
  BY <1>1, WithRightFields
<1>3. QED
  BY <1>1, <1>2 DEF Traced, w

-----------------------------------------------------------------------------
(* The return of a child and the choice of a branch.                       *)

LEMMA PartsExist ==
  ASSUME NEW n, IsNode(n), ~ n.isLeaf
  PROVE  LeftParts(n.vars) # {}
<1>1. n.vars # {} /\ ~ (Cardinality(n.vars) <= 2)
  BY DEF IsNode, Variables
<1>2. PICK v : v \in n.vars
  BY <1>1
<1>3. Cardinality({v}) = 1
  BY FS_Singleton
<1>4. {v} # n.vars
  BY <1>1, <1>3
<1>5. {v} \in LeftParts(n.vars)
  BY <1>2, <1>4 DEF LeftParts
<1>6. QED
  BY <1>5

\* The node of an activation that has no branch left is complete.
LEMMA Complete ==
  ASSUME NEW f, FrameOK(f), f.at = "branch", f.todo = {}
  PROVE  TreeOK(f.node)
<1>1. IsNode(f.node) /\ KnowsChildren(f)
  BY DEF FrameOK, IsFrame
<1>2. CASE f.node.isLeaf
  BY <1>1, <1>2, TreeLeaf DEF KnowsChildren, NodeOK
<1>3. CASE ~ f.node.isLeaf
  <2>1. LeftParts(f.node.vars) # {}
    BY <1>1, <1>3, PartsExist
  <2>2. f.node.chosen # Unchosen
    BY <1>1, <1>3, <2>1 DEF KnowsChildren
  <2>3. IsBranch(f.node.chosen, f.node.vars, f.node.table) /\ TreeOK(f.node.chosen.left)
        /\ TreeOK(f.node.chosen.right)
    BY <1>1, <2>2 DEF KnowsChildren
  <2>4. NodeOK(f.node)
    BY <1>1, <1>3, <2>3 DEF NodeOK
  <2>5. QED
    BY <2>3, <2>4, TreeBranch
<1>4. QED
  BY <1>2, <1>3

LEMMA ReturnKeeps ==
  ASSUME SearchInv, Return
  PROVE  SearchInv'
<1>1. /\ StackOK(stack) /\ Top.at = "branch" /\ FrameOK(Top) /\ Top = stack[Len(stack)]
  BY TopFrame DEF Return
<1>2. Top.todo = {} /\ input' = input /\ pc = "search" /\ input \in Tables
  BY DEF Return, Searching, SearchInv
<1>3. TreeOK(Top.node)
  BY <1>1, <1>2, Complete
<1>4. PICK S : stack \in Seq(S)
  BY <1>1 DEF StackOK
<1>5. /\ Len(stack) \in Nat /\ Len(stack) > 0 /\ Below \in Seq(S) /\ Len(Below) = Len(stack) - 1
      /\ \A i \in 1 .. Len(stack) - 1 : Below[i] = stack[i]
  BY <1>1, <1>4, BelowTop DEF StackOK, Below
<1>6. CASE Below = <<>>
  <2>1. stack' = <<>> /\ tree' = Top.node /\ pc' = "write"
    BY <1>6 DEF Return
  <2>2. Len(stack) = 1
    BY <1>5, <1>6
  <2>3. IsRoot(Top.node)
    BY <1>1, <2>2 DEF StackOK
  <2>4. TreeOK(tree')
    BY <1>3, <2>1
  <2>5. IsRoot(tree)'
    BY <1>2, <2>1, <2>3 DEF IsRoot
  <2>6. TreeOK(tree)'
    BY <2>4 DEF TreeOK, Closed, NodeOK, IsNode, IsBranch, SplitOf, IsLeft, IsRight, IsChild, Unchosen, TableOver, Variables
  <2>7. QED
    BY <1>2, <2>1, <2>5, <2>6 DEF SearchInv
<1>7. CASE Below # <<>>
  <2> DEFINE c == Below[Len(Below)]
             r == [c EXCEPT !.right = Top.node, !.at = "left"]
             l == [c EXCEPT !.left = Top.node, !.at = "trace"]
             g == IF c.at = "right" THEN r ELSE l
  <2>1. stack' = [Below EXCEPT ![Len(Below)] = g] /\ tree' = tree /\ pc' = pc
    BY <1>7 DEF Return
  <2>2. Len(Below) \in 1 .. Len(stack) - 1 /\ c = stack[Len(Below)]
    BY <1>5, <1>7
  <2>3. FrameOK(c) /\ Calls(c, Top)
    <3>1. Len(Below) + 1 = Len(stack) /\ Len(Below) \in 1 .. Len(stack)
      BY <1>5, <2>2
    <3>2. QED
      BY <1>1, <2>2, <3>1 DEF StackOK
  <2> HIDE DEF c
  <2>4. IsFrame(c) /\ KnowsChildren(c) /\ c.at \in {"left", "right"}
    BY <2>3 DEF FrameOK, Calls
  <2>5. ASSUME c.at = "right" PROVE FrameOK(r) /\ r.at # "right" /\ r.node = c.node
    <3>1. r = FrameOf(c.node, c.bound, c.todo, "left", c.unit, Top.node, c.left)
      <4> DEFINE a == [c EXCEPT !.right = Top.node]
      <4>1. a = FrameOf(c.node, c.bound, c.todo, c.at, c.unit, Top.node, c.left)
        BY <2>4 DEF IsFrame, FrameOf
      <4> HIDE DEF a
      <4>2. [a EXCEPT !.at = "left"] = FrameOf(c.node, c.bound, c.todo, "left", c.unit, Top.node, c.left)
        BY <4>1 DEF FrameOf
      <4>3. QED
        BY <4>2 DEF a
    <3> HIDE DEF r
    <3>2. /\ r.node = c.node /\ r.bound = c.bound /\ r.todo = c.todo /\ r.at = "left" /\ r.unit = c.unit
          /\ r.right = Top.node /\ r.left = c.left
          /\ r = FrameOf(r.node, r.bound, r.todo, r.at, r.unit, r.right, r.left)
      BY <3>1, FrameFields
    <3>3. IsRight(Top.node, c.unit)
      BY <2>3, <2>5 DEF Calls
    <3>4. IsFrame(r)
      BY <2>4, <2>5, <3>2 DEF IsFrame
    <3>5. KnowsChildren(r)
      BY <1>3, <2>4, <2>5, <3>2, <3>3 DEF KnowsChildren
    <3>6. QED
      BY <3>2, <3>4, <3>5 DEF FrameOK
  <2>6. ASSUME c.at = "left" PROVE FrameOK(l) /\ l.at # "right" /\ l.node = c.node
    <3>1. l = FrameOf(c.node, c.bound, c.todo, "trace", c.unit, c.right, Top.node)
      <4> DEFINE a == [c EXCEPT !.left = Top.node]
      <4>1. a = FrameOf(c.node, c.bound, c.todo, c.at, c.unit, c.right, Top.node)
        BY <2>4 DEF IsFrame, FrameOf
      <4> HIDE DEF a
      <4>2. [a EXCEPT !.at = "trace"] = FrameOf(c.node, c.bound, c.todo, "trace", c.unit, c.right, Top.node)
        BY <4>1 DEF FrameOf
      <4>3. QED
        BY <4>2 DEF a
    <3> HIDE DEF l
    <3>2. /\ l.node = c.node /\ l.bound = c.bound /\ l.todo = c.todo /\ l.at = "trace" /\ l.unit = c.unit
          /\ l.right = c.right /\ l.left = Top.node
          /\ l = FrameOf(l.node, l.bound, l.todo, l.at, l.unit, l.right, l.left)
      BY <3>1, FrameFields
    <3>3. IsLeft(Top.node, c.unit)
      BY <2>3, <2>6 DEF Calls
    <3>4. IsFrame(l)
      BY <2>4, <2>6, <3>2 DEF IsFrame
    <3>5. KnowsChildren(l)
      BY <1>3, <2>4, <2>6, <3>2, <3>3 DEF KnowsChildren
    <3>6. QED
      BY <3>2, <3>4, <3>5 DEF FrameOK
  <2>7. FrameOK(g) /\ g.at # "right" /\ g.node = c.node
    <3>1. CASE c.at = "right"
      <4>1. g = r
        BY <3>1
      <4> HIDE DEF g, r, l
      <4>2. QED
        BY <2>5, <3>1, <4>1
    <3>2. CASE c.at = "left"
      <4>1. g = l
        BY <3>2
      <4> HIDE DEF g, r, l
      <4>2. QED
        BY <2>6, <3>2, <4>1
    <3>3. QED
      BY <2>4, <3>1, <3>2
  <2> HIDE DEF g, r, l
  <2>8. SameNode(g.node, Below[Len(Below)].node)
    BY <2>7 DEF SameNode, c
  <2>9. StackOK([Below EXCEPT ![Len(Below)] = g])
    BY <1>1, <1>7, <2>7, <2>8, TopReturns DEF Below
  <2>10. (\E T : stack' \in Seq(T)) /\ stack' # <<>> /\ (\A i \in 1 .. Len(stack') : FrameOK(stack'[i]))
         /\ (\A i \in 1 .. Len(stack') - 1 : Calls(stack'[i], stack'[i + 1]))
         /\ stack'[Len(stack')].at # "right" /\ IsRoot(stack'[1].node)
    BY <2>1, <2>9 DEF StackOK
  <2>11. QED
    BY <1>2, <2>1, <2>10 DEF SearchInv, StackOK, IsRoot
<1>8. QED
  BY <1>6, <1>7

\* What is traced in the search is a map of the unit.
LEMMA TracedHereIsMap ==
  ASSUME NEW f, FrameOK(f), f.at = "trace", f.unit.hasMap
  PROVE  /\ IsUnit(f.unit)
         /\ Error(Traced(f.unit, f.left.chosen.unit, f.right.chosen.unit).appx, f.unit.kmap)
               < Infinity(f.node.vars)
         /\ f.unit.isLeaf => TraceFails(Traced(f.unit, f.left.chosen.unit, f.right.chosen.unit))
<1> DEFINE u == f.unit
           l == f.left.chosen.unit
           r == f.right.chosen.unit
<1>1. /\ SplitOf(u, f.node.vars, f.node.table) /\ Variables(f.node.vars) /\ TableOver(f.node.vars, f.node.table)
      /\ IsRight(f.right, u) /\ TreeOK(f.right) /\ IsLeft(f.left, u) /\ TreeOK(f.left)
  BY DEF FrameOK, IsFrame, KnowsChildren, IsNode
<1>2. IsUnit(u)
  BY <1>1, UnitIsUnit DEF SplitOf
<1>3. /\ Parted(u.rows, u.cols) /\ u.rows \cup u.cols = f.node.vars
      /\ u.isLeaf \in BOOLEAN /\ u.isLeaf => u.majRow = NoVec /\ u.majCol = NoVec
      /\ UnitOK(u, u.rows, u.cols) /\ u.kmap = MapOf(f.node.table, u.rows, u.cols)
  BY <1>1, SplitShape
<1>4. IsMap(u.appx, u.rows, u.cols) /\ IsMap(u.kmap, u.rows, u.cols)
  BY <1>3, MapOfIsMap DEF UnitOK
<1>5. /\ f.left.isLeaf => l = NoUnit
      /\ f.right.isLeaf => r = NoUnit
      /\ SubOf(l, u.cols)
  <2>1. NodeOK(f.left) /\ NodeOK(f.right)
    BY <1>1, TreeOpen
  <2>2. /\ f.left.isLeaf => l = NoUnit
        /\ f.right.isLeaf => r = NoUnit
    BY <2>1 DEF NodeOK, Unchosen
  <2>3. CASE f.left.isLeaf
    BY <2>2, <2>3, UnitIsUnit DEF SubOf
  <2>4. CASE ~ f.left.isLeaf
    <3>1. SplitOf(l, f.left.vars, f.left.table) /\ IsNode(f.left)
      BY <2>1, <2>4 DEF NodeOK, IsBranch
    <3>2. l.rows \cup l.cols = f.left.vars
      BY <3>1, SplitShape DEF IsNode
    <3>3. QED
      BY <1>1, <2>2, <2>4, <3>2 DEF SubOf, IsLeft, IsChild
  <2>5. QED
    BY <2>2, <2>3, <2>4
<1> HIDE DEF u, l, r
<1>6. IsMap(Traced(u, l, r).appx, u.rows, u.cols)
  BY <1>2, <1>4, <1>5, TracedFields
<1>7. Error(Traced(u, l, r).appx, u.kmap) < Infinity(u.rows \cup u.cols)
  BY <1>3, <1>4, <1>6, ErrorBelowInfinity DEF Parted
<1>8. ASSUME u.isLeaf PROVE TraceFails(Traced(u, l, r))
  <2>1. f.left.isLeaf /\ f.right.isLeaf
    BY <1>1, <1>8 DEF IsLeft, IsRight, IsChild, u
  <2>2. l.isLeaf /\ r.isLeaf
    BY <1>5, <2>1, UnitIsUnit
  <2>3. Traced(u, l, r) = u
    BY <1>2, <1>4, <1>5, <2>2, TracedFields
  <2>4. QED
    BY <1>3, <1>8, <2>3 DEF TraceFails
<1>9. QED
  BY <1>2, <1>3, <1>7, <1>8 DEF u, l, r

LEMMA TraceKeeps ==
  ASSUME SearchInv, Trace
  PROVE  SearchInv'
<1> DEFINE error == Error(TracedHere.appx, Top.unit.kmap)
           next == [Top EXCEPT !.at = "branch"]
           branch == [unit |-> Top.unit, left |-> Top.left, right |-> Top.right]
           chosen == [next EXCEPT !.bound = error, !.node.chosen = branch]
           g == IF error < Top.bound THEN chosen ELSE next
<1>1. /\ StackOK(stack) /\ Top.at = "trace" /\ FrameOK(Top)
  BY TopFrame DEF Trace
<1>2. /\ stack' = Append(Below, g) /\ UNCHANGED <<input, pc, tree>> /\ pc = "search"
      /\ Top.unit.hasMap /\ ~ TraceFails(TracedHere)
  BY DEF Trace, Searching, TracingFails
<1>3. /\ IsFrame(Top) /\ KnowsChildren(Top) /\ IsNode(Top.node)
      /\ SplitOf(Top.unit, Top.node.vars, Top.node.table)
  BY <1>1 DEF FrameOK, IsFrame
<1>4. error < Infinity(Top.node.vars) /\ ~ Top.unit.isLeaf
  BY <1>1, <1>2, TracedHereIsMap DEF TracedHere
<1> HIDE DEF error
<1>5. ~ Top.node.isLeaf /\ Top.todo \in SUBSET LeftParts(Top.node.vars)
  BY <1>1, <1>3 DEF KnowsChildren
<1>6. next = FrameOf(Top.node, Top.bound, Top.todo, "branch", Top.unit, Top.right, Top.left)
  BY <1>3 DEF IsFrame, FrameOf
<1> DEFINE m == [vars |-> Top.node.vars, table |-> Top.node.table, isLeaf |-> Top.node.isLeaf,
                 chosen |-> branch]
<1>7. chosen = FrameOf(m, error, Top.todo, "branch", Top.unit, Top.right, Top.left)
  <2>1. Top.node = [vars |-> Top.node.vars, table |-> Top.node.table, isLeaf |-> Top.node.isLeaf,
                    chosen |-> Top.node.chosen]
    BY <1>3 DEF IsNode
  <2> HIDE DEF next, branch
  <2>2. [Top.node EXCEPT !.chosen = branch] = m
    BY <2>1
  <2> DEFINE a == [next EXCEPT !.bound = error]
  <2>3. a = FrameOf(Top.node, error, Top.todo, "branch", Top.unit, Top.right, Top.left)
    BY <1>6 DEF FrameOf
  <2>4. a.node = Top.node
    BY <2>3 DEF FrameOf
  <2> HIDE DEF a, m
  <2>5. [a EXCEPT !.node = m] = FrameOf(m, error, Top.todo, "branch", Top.unit, Top.right, Top.left)
    BY <2>3 DEF FrameOf
  <2>6. chosen = [a EXCEPT !.node = [a.node EXCEPT !.chosen = branch]]
    BY DEF a
  <2>7. QED
    BY <2>2, <2>4, <2>5, <2>6
<1>8. /\ branch.unit = Top.unit /\ branch.left = Top.left /\ branch.right = Top.right
      /\ branch # Unchosen
  <2>1. Unchosen.unit = NoUnit /\ ~ NoUnit.hasMap
    BY DEF Unchosen, NoUnit, EmptyUnit
  <2>2. QED
    BY <1>2, <2>1
<1> HIDE DEF branch
<1>9. /\ m.vars = Top.node.vars /\ m.table = Top.node.table /\ m.isLeaf = Top.node.isLeaf
      /\ m.chosen = branch /\ m = [vars |-> m.vars, table |-> m.table, isLeaf |-> m.isLeaf, chosen |-> m.chosen]
  OBVIOUS
<1> HIDE DEF m, next, chosen
<1>10. /\ next.node = Top.node /\ next.bound = Top.bound /\ next.todo = Top.todo /\ next.at = "branch"
       /\ next.unit = Top.unit
       /\ next = FrameOf(next.node, next.bound, next.todo, next.at, next.unit, next.right, next.left)
  BY <1>6, FrameFields
<1>11. /\ chosen.node = m /\ chosen.bound = error /\ chosen.todo = Top.todo /\ chosen.at = "branch"
       /\ chosen.unit = Top.unit
       /\ chosen = FrameOf(chosen.node, chosen.bound, chosen.todo, chosen.at, chosen.unit, chosen.right, chosen.left)
  BY <1>7, FrameFields
<1>12. FrameOK(chosen)
  <2>1. IsNode(m)
    BY <1>3, <1>9 DEF IsNode
  <2>2. IsFrame(chosen)
    BY <1>3, <1>9, <1>11, <2>1 DEF IsFrame
  <2>3. /\ IsBranch(branch, m.vars, m.table) /\ TreeOK(branch.left) /\ TreeOK(branch.right)
    BY <1>1, <1>2, <1>3, <1>4, <1>8, <1>9 DEF IsBranch, KnowsChildren
  <2>4. KnowsChildren(chosen)
    BY <1>5, <1>8, <1>9, <1>11, <2>3 DEF KnowsChildren
  <2>5. QED
    BY <2>2, <2>4 DEF FrameOK
<1>13. CASE error < Top.bound
  <2>1. g = chosen
    BY <1>13
  <2>2. SameNode(chosen.node, Top.node)
    BY <1>9, <1>11 DEF SameNode
  <2> HIDE DEF g
  <2>3. QED
    BY <1>1, <1>2, <1>11, <1>12, <2>1, <2>2, StackMoves
<1>14. CASE ~ (error < Top.bound)
  <2>1. g = next
    BY <1>14
  <2>2. Top.node.chosen # Unchosen
    BY <1>3, <1>4, <1>5, <1>14 DEF KnowsChildren
  <2>3. IsFrame(next)
    BY <1>3, <1>10 DEF IsFrame
  <2>4. KnowsChildren(next)
    BY <1>3, <1>5, <1>10, <2>2 DEF KnowsChildren
  <2>5. SameNode(next.node, Top.node) /\ FrameOK(next)
    BY <1>10, <2>3, <2>4 DEF SameNode, FrameOK
  <2> HIDE DEF g
  <2>6. QED
    BY <1>1, <1>2, <1>10, <2>1, <2>5, StackMoves
<1>15. QED
  BY <1>13, <1>14

\* The steps that write do not touch the search or what it returned.
LEMMA OtherStepsKeep ==
  ASSUME SearchInv,
         TraceError \/ WriteLeaf \/ WriteLeft \/ WriteRight \/ WriteGate \/ WriteError \/ UNCHANGED vars
  PROVE  SearchInv'
<1>1. UNCHANGED <<input, stack, tree>>
  BY DEF TraceError, WriteLeaf, WriteLeft, WriteRight, WriteGate, WriteError, vars
<1>2. \/ pc = "search" /\ pc' \in {"search", "search failed"}
      \/ pc = "write" /\ pc' \in {"write", "done", "write failed"}
      \/ pc' = pc
  BY DEF TraceError, WriteLeaf, WriteLeft, WriteRight, WriteGate, WriteError, vars, Searching, Writing, ReturnUnit
<1>3. IsRoot(tree)' <=> IsRoot(tree)
  BY <1>1 DEF IsRoot
<1>4. TreeOK(tree)' <=> TreeOK(tree)
  BY <1>1
<1>5. StackOK(stack)' <=> StackOK(stack)
  BY <1>1 DEF StackOK, IsRoot
<1>6. QED
  BY <1>1, <1>2, <1>3, <1>4, <1>5 DEF SearchInv

LEMMA SearchStep == SearchInv /\ [Next]_vars => SearchInv'
<1> SUFFICES ASSUME SearchInv, [Next]_vars PROVE SearchInv'
  OBVIOUS
<1>1. CASE Approximate
  BY <1>1, ApproximateKeeps
<1>2. CASE Prune
  BY <1>2, PruneKeeps
<1>3. CASE VisitRight
  BY <1>3, VisitRightKeeps
<1>4. CASE VisitLeft
  BY <1>4, VisitLeftKeeps
<1>5. CASE Return
  BY <1>5, ReturnKeeps
<1>6. CASE Trace
  BY <1>6, TraceKeeps
<1>7. CASE TraceError \/ WriteLeaf \/ WriteLeft \/ WriteRight \/ WriteGate \/ WriteError \/ UNCHANGED vars
  BY <1>7, OtherStepsKeep
<1>8. QED
  BY <1>1, <1>2, <1>3, <1>4, <1>5, <1>6, <1>7 DEF Next

(***************************************************************************)
(* The search, for any table: every activation works on a part of the      *)
(* inputs with a vector over it or none, its unit is that of one of the    *)
(* splits, the children that are back are trees as they should be, an      *)
(* activation that returns has chosen a branch unless it is a leaf, and    *)
(* the tree that is written has the table of the input at its root         *)
(* (traverse_tree_branch_and_bound).                                       *)
(***************************************************************************)
THEOREM SearchCorrect == Spec => []SearchInv
<1>1. QED
  BY SearchInit, SearchStep, PTL DEF Spec

LEMMA KeepsDecomposable == SearchInv => KeepsDecomposableMaps
<1> SUFFICES ASSUME SearchInv,
                    NEW i \in DOMAIN stack, stack[i].unit.hasMap,
                    Decomposable(stack[i].unit.kmap, stack[i].unit.cols)
             PROVE  stack[i].unit.appx = stack[i].unit.kmap
  BY DEF KeepsDecomposableMaps
<1> DEFINE f == stack[i]
           u == f.unit
<1>1. stack # <<>>
  OBVIOUS
<1>2. FrameOK(f)
  <2>1. StackOK(stack)
    BY <1>1 DEF SearchInv
  <2>2. PICK S : stack \in Seq(S)
    BY <2>1 DEF StackOK
  <2>3. DOMAIN stack = 1 .. Len(stack)
    BY <2>2
  <2>4. QED
    BY <2>1, <2>3 DEF StackOK
<1>3. ~ NoUnit.hasMap
  BY DEF NoUnit, EmptyUnit
<1>4. /\ SplitOf(u, f.node.vars, f.node.table) /\ Variables(f.node.vars)
      /\ TableOver(f.node.vars, f.node.table)
  BY <1>2, <1>3 DEF FrameOK, IsFrame, IsNode
<1> HIDE DEF u
<1>5. /\ Parted(u.rows, u.cols) /\ u.kmap = MapOf(f.node.table, u.rows, u.cols)
      /\ u.appx = Applied(u.kmap, Best(u.kmap, u.cols))
  BY <1>4, SplitShape DEF u
<1>6. IsMap(u.kmap, u.rows, u.cols)
  BY <1>5, MapOfIsMap
<1>7. Decomposable(u.kmap, u.cols)
  BY DEF u
<1>8. Applied(u.kmap, Best(u.kmap, u.cols)) = u.kmap
  BY <1>5, <1>6, <1>7, BestKeepsDecomposable
<1>9. QED
  BY <1>5, <1>8 DEF u

(***************************************************************************)
(* A map that one kind of candidate can reproduce is not changed, in any   *)
(* activation of the search for a table of any number of inputs            *)
(* (approximation_core, find_best_approximate_kmap1 to 4).                 *)
(***************************************************************************)
THEOREM DecomposableMapsKept == Spec => []KeepsDecomposableMaps
<1>1. QED
  BY SearchCorrect, KeepsDecomposable, PTL

-----------------------------------------------------------------------------
(* The traced map still follows the two vectors.                           *)

FollowsRows(map, rows, cols, maj) == \A r \in SUBSET rows : Patterned(cols, map[r], maj)
FollowsCols(map, rows, cols, maj) == \A c \in SUBSET cols : Patterned(rows, Column(map, c), maj)

\* A substituted vector follows the new one, and reads like the old vector at
\* a place of the old one's kind.
LEMMA SubstitutedFollows ==
  ASSUME NEW V, NEW old, Uneven(V, old), old # NoVec, NEW new \in SUBSET SUBSET V, new # NoVec,
         NEW vec, Patterned(V, vec, old)
  PROVE  /\ Patterned(V, Substituted(vec, old, new, V), new)
         /\ Substituted(vec, old, new, V) \in SUBSET SUBSET V
         /\ \A a \in SUBSET V, b \in SUBSET V :
               (a \in new <=> b \in old) => (a \in Substituted(vec, old, new, V) <=> b \in vec)
<1>1. old \in SUBSET SUBSET V /\ old # {} /\ old # SUBSET V
  BY DEF Uneven, Constant, Zeros, Ones
<1>2. (SUBSET V) \ old # {} /\ (SUBSET V) \ old # SUBSET V
  BY <1>1
<1>3. CASE vec = old
  <2>1. Substituted(vec, old, new, V) = new
    BY <1>3 DEF Substituted
  <2>2. QED
    BY <1>3, <2>1 DEF Patterned
<1>4. CASE vec # old /\ vec = (SUBSET V) \ old
  <2>1. Substituted(vec, old, new, V) = (SUBSET V) \ new
    BY <1>4 DEF Substituted, Complement, Ones
  <2>2. QED
    BY <1>4, <2>1 DEF Patterned, Complement, Ones
<1>5. CASE vec # old /\ vec # (SUBSET V) \ old /\ vec \in {{}, SUBSET V}
  <2>1. Substituted(vec, old, new, V) = vec
    BY <1>5 DEF Substituted, Complement, Ones
  <2>2. QED
    BY <1>5, <2>1 DEF Patterned, Zeros, Ones
<1>6. QED
  BY <1>3, <1>4, <1>5 DEF Patterned, Complement, Zeros, Ones

\* Of every kind there is a place.
LEMMA KindsExist ==
  ASSUME NEW V, NEW old, Uneven(V, old), NEW new, NEW a \in SUBSET V
  PROVE  \E b \in SUBSET V : a \in new <=> b \in old
<1>1. old \in SUBSET SUBSET V /\ old # {} /\ old # SUBSET V
  BY DEF Uneven, Constant, Zeros, Ones
<1>2. (\E b \in SUBSET V : b \in old) /\ (\E b \in SUBSET V : b \notin old)
  BY <1>1
<1>3. QED
  BY <1>2

\* A child that is split again belongs to a vector that was set.
SetBefore(sub, V, maj) == ~ sub.isLeaf => sub.rows \cup sub.cols = V /\ maj # NoVec /\ Uneven(V, maj)

LEMMA WithLeftFollows ==
  ASSUME NEW u, IsUnit(u), IsMap(u.appx, u.rows, u.cols),
         NoAssignment \notin SUBSET (u.rows \cup u.cols),
         NEW sub, SetBefore(sub, u.cols, u.majRow),
         FollowsRows(u.appx, u.rows, u.cols, u.majRow), FollowsCols(u.appx, u.rows, u.cols, u.majCol)
  PROVE  /\ FollowsRows(WithLeft(u, sub).appx, u.rows, u.cols, WithLeft(u, sub).majRow)
         /\ FollowsCols(WithLeft(u, sub).appx, u.rows, u.cols, u.majCol)
         /\ (\E r \in SUBSET u.rows : u.appx[r] = u.majRow) =>
               \E r \in SUBSET u.rows : WithLeft(u, sub).appx[r] = WithLeft(u, sub).majRow
<1> DEFINE w == WithLeft(u, sub)
           new == TableOf(sub.appx, sub.rows, sub.cols)
<1>1. SubOf(sub, u.cols)
  BY DEF SubOf, SetBefore
<1>2. /\ IsMap(w.appx, u.rows, u.cols)
      /\ sub.isLeaf => w = u
      /\ ~ sub.isLeaf =>
            /\ w.majRow = new
            /\ \A r \in SUBSET u.rows : w.appx[r] = Substituted(u.appx[r], u.majRow, new, u.cols)
  BY <1>1, WithLeftFields
<1>3. CASE sub.isLeaf
  <2> HIDE DEF w
  <2>1. QED
    BY <1>2, <1>3 DEF w
<1>4. CASE ~ sub.isLeaf
  <2>1. new \in SUBSET SUBSET u.cols /\ u.majRow # NoVec /\ Uneven(u.cols, u.majRow)
    BY <1>4, TableIsVector DEF SetBefore
  <2> HIDE DEF w, new
  <2>2. new # NoVec
    BY <2>1 DEF NoVec
  <2>3. ASSUME NEW r \in SUBSET u.rows
        PROVE  /\ Patterned(u.cols, w.appx[r], w.majRow)
               /\ \A a \in SUBSET u.cols, b \in SUBSET u.cols :
                     (a \in new <=> b \in u.majRow) => (a \in w.appx[r] <=> b \in u.appx[r])
    <3>1. w.appx[r] = Substituted(u.appx[r], u.majRow, new, u.cols) /\ w.majRow = new
      BY <1>2, <1>4
    <3>2. Patterned(u.cols, u.appx[r], u.majRow)
      BY DEF FollowsRows
    <3>3. QED
      BY <2>1, <2>2, <3>1, <3>2, SubstitutedFollows
  <2>4. ASSUME NEW c \in SUBSET u.cols
        PROVE  Patterned(u.rows, Column(w.appx, c), u.majCol)
    <3>1. PICK b \in SUBSET u.cols : c \in new <=> b \in u.majRow
      BY <2>1, KindsExist
    <3>2. \A r \in SUBSET u.rows : c \in w.appx[r] <=> b \in u.appx[r]
      BY <2>3, <3>1
    <3>3. Column(w.appx, c) = Column(u.appx, b)
      BY <1>2, <3>2 DEF Column, IsMap
    <3>4. QED
      BY <3>3 DEF FollowsCols
  <2>5. ASSUME NEW r \in SUBSET u.rows, u.appx[r] = u.majRow PROVE w.appx[r] = w.majRow
    BY <1>2, <1>4, <2>5 DEF Substituted
  <2>6. QED
    BY <2>3, <2>4, <2>5 DEF FollowsRows, FollowsCols, w
<1>5. QED
  BY <1>3, <1>4

LEMMA WithRightFollows ==
  ASSUME NEW u, IsUnit(u), IsMap(u.appx, u.rows, u.cols),
         NoAssignment \notin SUBSET (u.rows \cup u.cols),
         NEW sub, SetBefore(sub, u.rows, u.majCol),
         FollowsRows(u.appx, u.rows, u.cols, u.majRow), FollowsCols(u.appx, u.rows, u.cols, u.majCol)
  PROVE  /\ FollowsRows(WithRight(u, sub).appx, u.rows, u.cols, u.majRow)
         /\ FollowsCols(WithRight(u, sub).appx, u.rows, u.cols, WithRight(u, sub).majCol)
         /\ (\E c \in SUBSET u.cols : Column(u.appx, c) = u.majCol) =>
               \E c \in SUBSET u.cols : Column(WithRight(u, sub).appx, c) = WithRight(u, sub).majCol
<1> DEFINE w == WithRight(u, sub)
           new == TableOf(sub.appx, sub.rows, sub.cols)
<1>1. /\ IsMap(w.appx, u.rows, u.cols)
      /\ sub.isLeaf => w = u
      /\ ~ sub.isLeaf =>
            /\ w.majCol = new
            /\ \A r \in SUBSET u.rows, c \in SUBSET u.cols :
                  c \in w.appx[r] <=> r \in Substituted(Column(u.appx, c), u.majCol, new, u.rows)
  BY WithRightFields
<1>2. CASE sub.isLeaf
  <2> HIDE DEF w
  <2>1. QED
    BY <1>1, <1>2 DEF w
<1>3. CASE ~ sub.isLeaf
  <2>1. new \in SUBSET SUBSET u.rows /\ u.majCol # NoVec /\ Uneven(u.rows, u.majCol)
    BY <1>3, TableIsVector DEF SetBefore
  <2> HIDE DEF w, new
  <2>2. new # NoVec
    BY <2>1 DEF NoVec
  <2>3. ASSUME NEW c \in SUBSET u.cols
        PROVE  /\ Patterned(u.rows, Column(w.appx, c), w.majCol)
               /\ \A a \in SUBSET u.rows, b \in SUBSET u.rows :
                     (a \in new <=> b \in u.majCol) => (c \in w.appx[a] <=> c \in u.appx[b])
               /\ Column(u.appx, c) = u.majCol => Column(w.appx, c) = w.majCol
    <3> DEFINE s == Substituted(Column(u.appx, c), u.majCol, new, u.rows)
    <3>1. Patterned(u.rows, Column(u.appx, c), u.majCol)
      BY DEF FollowsCols
    <3>2. /\ Patterned(u.rows, s, new) /\ s \in SUBSET SUBSET u.rows
          /\ \A a \in SUBSET u.rows, b \in SUBSET u.rows :
                (a \in new <=> b \in u.majCol) => (a \in s <=> b \in Column(u.appx, c))
      BY <2>1, <2>2, <3>1, SubstitutedFollows
    <3>3. /\ \A r \in SUBSET u.rows : c \in w.appx[r] <=> r \in s
          /\ w.majCol = new
      BY <1>1, <1>3
    <3>7. Column(u.appx, c) = u.majCol => s = new
      BY DEF Substituted
    <3> HIDE DEF s
    <3>4. Column(w.appx, c) = s
      BY <1>1, <3>2, <3>3 DEF Column, IsMap
    <3>5. \A b \in SUBSET u.rows : b \in Column(u.appx, c) <=> c \in u.appx[b]
      BY DEF Column, IsMap
    <3>6. QED
      BY <3>2, <3>3, <3>4, <3>5, <3>7
  <2>4. ASSUME NEW r \in SUBSET u.rows
        PROVE  Patterned(u.cols, w.appx[r], u.majRow)
    <3>1. PICK b \in SUBSET u.rows : r \in new <=> b \in u.majCol
      BY <2>1, KindsExist
    <3>2. \A c \in SUBSET u.cols : c \in w.appx[r] <=> c \in u.appx[b]
      BY <2>3, <3>1
    <3>3. w.appx[r] \in SUBSET SUBSET u.cols /\ u.appx[b] \in SUBSET SUBSET u.cols
      BY <1>1 DEF IsMap
    <3>4. w.appx[r] = u.appx[b]
      BY <3>2, <3>3
    <3>5. QED
      BY <3>4 DEF FollowsRows
  <2>5. QED
    BY <2>3, <2>4 DEF FollowsRows, FollowsCols, w
<1>4. QED
  BY <1>2, <1>3

(***************************************************************************)
(* Tracing the units of the children into a map leaves each of its rows    *)
(* one of 0, 1, the row vector and its complement, and each of its columns *)
(* one of 0, 1, the column vector and its complement: the two-input table  *)
(* of the node's gate is well defined (traceBack_unit_class).              *)
(***************************************************************************)
THEOREM TracedFollows ==
  ASSUME NEW u, IsUnit(u), IsMap(u.appx, u.rows, u.cols),
         NoAssignment \notin SUBSET (u.rows \cup u.cols),
         NEW l, SetBefore(l, u.cols, u.majRow), NEW r, SetBefore(r, u.rows, u.majCol),
         FollowsRows(u.appx, u.rows, u.cols, u.majRow), FollowsCols(u.appx, u.rows, u.cols, u.majCol)
  PROVE  /\ FollowsRows(Traced(u, l, r).appx, u.rows, u.cols, Traced(u, l, r).majRow)
         /\ FollowsCols(Traced(u, l, r).appx, u.rows, u.cols, Traced(u, l, r).majCol)
         /\ (\E a \in SUBSET u.rows : u.appx[a] = u.majRow) /\ r.isLeaf =>
               \E a \in SUBSET u.rows : Traced(u, l, r).appx[a] = Traced(u, l, r).majRow
         /\ (\E c \in SUBSET u.cols : Column(u.appx, c) = u.majCol) /\ l.isLeaf =>
               \E c \in SUBSET u.cols : Column(Traced(u, l, r).appx, c) = Traced(u, l, r).majCol
         /\ Traced(u, l, r).majRow = IF l.isLeaf THEN u.majRow ELSE TableOf(l.appx, l.rows, l.cols)
         /\ Traced(u, l, r).majCol = IF r.isLeaf THEN u.majCol ELSE TableOf(r.appx, r.rows, r.cols)
<1> DEFINE w == WithLeft(u, l)
<1>1. SubOf(l, u.cols)
  BY DEF SubOf, SetBefore
<1>2. /\ IsUnit(w) /\ IsMap(w.appx, u.rows, u.cols) /\ w.rows = u.rows /\ w.cols = u.cols
      /\ w.majCol = u.majCol
      /\ w.majRow = IF l.isLeaf THEN u.majRow ELSE TableOf(l.appx, l.rows, l.cols)
  BY <1>1, WithLeftFields, ZenonT(40)
<1>3. /\ FollowsRows(w.appx, u.rows, u.cols, w.majRow) /\ FollowsCols(w.appx, u.rows, u.cols, u.majCol)
      /\ (\E a \in SUBSET u.rows : u.appx[a] = u.majRow) =>
            \E a \in SUBSET u.rows : w.appx[a] = w.majRow
  BY WithLeftFollows
<1>4. l.isLeaf => w = u
  BY <1>1, WithLeftFields
<1> HIDE DEF w
<1>5. /\ FollowsRows(WithRight(w, r).appx, u.rows, u.cols, w.majRow)
      /\ FollowsCols(WithRight(w, r).appx, u.rows, u.cols, WithRight(w, r).majCol)
      /\ (\E c \in SUBSET u.cols : Column(w.appx, c) = w.majCol) =>
            \E c \in SUBSET u.cols : Column(WithRight(w, r).appx, c) = WithRight(w, r).majCol
  BY <1>2, <1>3, WithRightFollows
<1>6. /\ WithRight(w, r).majRow = w.majRow
      /\ WithRight(w, r).majCol = IF r.isLeaf THEN u.majCol ELSE TableOf(r.appx, r.rows, r.cols)
      /\ r.isLeaf => WithRight(w, r) = w
  BY <1>2, WithRightFields
<1>7. Traced(u, l, r) = WithRight(w, r)
  BY DEF Traced, w
<1>8. QED
  BY <1>2, <1>3, <1>5, <1>6, <1>7, <1>4

-----------------------------------------------------------------------------
(* The two-input table of a gate.                                          *)

\* The value of a pin that is fed by a part's only variable, or by a wire
\* that carries the vector.
IsBit(bit) == bit \in {0, 1}
CarriesBit(bit, V, vec, a) ==
    /\ IsBit(bit)
    /\ IF Cardinality(V) = 1 THEN bit = 1 <=> a # {} ELSE bit = 1 <=> a \in vec

Searchable(V, vec) == Cardinality(V) # 1 => ~ Constant(V, vec) /\ vec \in SUBSET SUBSET V

\* The place by which the table looks up a pin's value is of the right kind.
LEMMA RepresentativeKind ==
  ASSUME NEW V, Variables(V), NEW vec, Searchable(V, vec),
         NEW a \in SUBSET V, NEW bit, CarriesBit(bit, V, vec, a)
  PROVE  /\ Representative(V, vec, bit) \in SUBSET V
         /\ Representative(V, vec, bit) \in vec <=> a \in vec
<1>1. CASE Cardinality(V) = 1
  <2>1. PICK v : V = {v}
    BY <1>1, FS_Singleton DEF Variables
  <2>2. Representative(V, vec, bit) = IF bit = 1 THEN V ELSE {}
    BY <1>1 DEF Representative
  <2>3. bit = 1 <=> a # {}
    BY <1>1 DEF CarriesBit
  <2>4. a = {} \/ a = V
    BY <2>1
  <2>5. V # {}
    BY <2>1
  <2>6. QED
    BY <2>2, <2>3, <2>4, <2>5
<1>2. CASE Cardinality(V) # 1
  <2> DEFINE S == {b \in SUBSET V : b \in vec <=> bit = 1}
  <2>1. Representative(V, vec, bit) = First(S)
    BY <1>2 DEF Representative
  <2>2. vec # {} /\ vec # SUBSET V /\ vec \in SUBSET SUBSET V
    BY <1>2 DEF Searchable, Constant, Zeros, Ones
  <2>3. S # {}
    BY <2>2
  <2>4. S \in SUBSET SUBSET V
    OBVIOUS
  <2>5. V \in SUBSET Int /\ IsFiniteSet(V)
    BY DEF Variables
  <2> HIDE DEF S
  <2>6. First(S) \in S
    BY <2>3, <2>4, <2>5, FirstIn
  <2>7. bit = 1 <=> a \in vec
    BY <1>2 DEF CarriesBit
  <2>8. QED
    BY <2>1, <2>6, <2>7 DEF S
<1>3. QED
  BY <1>1, <1>2

\* Vectors that follow one vector agree at places of one kind.
LEMMA PatternedAgree ==
  ASSUME NEW V, NEW vec, NEW maj, Patterned(V, vec, maj), NEW a \in SUBSET V, NEW b \in SUBSET V,
         a \in maj <=> b \in maj
  PROVE  a \in vec <=> b \in vec
  BY DEF Patterned, Zeros, Ones, Complement

\* A map that follows its two vectors.
Followed(t, rows, cols) ==
    /\ t.rows = rows /\ t.cols = cols /\ IsMap(t.appx, rows, cols)
    /\ FollowsRows(t.appx, rows, cols, t.majRow)
    /\ FollowsCols(t.appx, rows, cols, t.majCol)

RowOf(t) == \E r \in SUBSET t.rows : t.appx[r] = t.majRow
ColumnOf(t) == \E c \in SUBSET t.cols : Column(t.appx, c) = t.majCol

\* Only one of the vectors was set.
FromRow(t, rows, cols) ==
    Followed(t, rows, cols) /\ RowOf(t) /\ t.majCol = NoVec /\ t.majRow # NoVec /\ Cardinality(cols) # 1
FromColumn(t, rows, cols) ==
    Followed(t, rows, cols) /\ ColumnOf(t) /\ t.majRow = NoVec /\ t.majCol # NoVec /\ Cardinality(rows) # 1

LEMMA BothSet ==
  ASSUME NEW t, NEW rows, NEW cols, Variables(rows), Variables(cols), Followed(t, rows, cols),
         Searchable(cols, t.majRow), Searchable(rows, t.majCol),
         t.majRow # NoVec, t.majCol # NoVec,
         NEW r \in SUBSET rows, NEW c \in SUBSET cols, NEW pl, CarriesBit(pl, cols, t.majRow, c),
         NEW pr, CarriesBit(pr, rows, t.majCol, r)
  PROVE  <<pl, pr>> \in TwoByTwo(t) <=> c \in t.appx[r]
<1> DEFINE d == Representative(cols, t.majRow, pl)
           s == Representative(rows, t.majCol, pr)
<1>1. d \in SUBSET cols /\ (d \in t.majRow <=> c \in t.majRow)
  BY RepresentativeKind
<1>2. s \in SUBSET rows /\ (s \in t.majCol <=> r \in t.majCol)
  BY RepresentativeKind
<1>3. TwoByTwo(t) = {p \in (0 .. 1) \X (0 .. 1) :
                        Representative(cols, t.majRow, p[1]) \in t.appx[Representative(rows, t.majCol, p[2])]}
  BY DEF TwoByTwo, Followed
<1>4. <<pl, pr>> \in (0 .. 1) \X (0 .. 1)
  BY DEF CarriesBit, IsBit
<1>5. <<pl, pr>> \in TwoByTwo(t) <=> d \in t.appx[s]
  BY <1>3, <1>4
<1> HIDE DEF d, s
<1>6. d \in t.appx[s] <=> c \in t.appx[s]
  <2>1. Patterned(cols, t.appx[s], t.majRow)
    BY <1>2 DEF Followed, FollowsRows
  <2>2. QED
    BY <1>1, <2>1, PatternedAgree
<1>7. c \in t.appx[s] <=> c \in t.appx[r]
  <2>1. Patterned(rows, Column(t.appx, c), t.majCol)
    BY DEF Followed, FollowsCols
  <2>2. s \in Column(t.appx, c) <=> r \in Column(t.appx, c)
    BY <1>2, <2>1, PatternedAgree
  <2>3. QED
    BY <1>2, <2>2 DEF Followed, Column, IsMap
<1>8. QED
  BY <1>5, <1>6, <1>7

\* A map all whose rows are the same: the vector that was set, if its columns
\* follow none, and the other way round.
LEMMA OnlyRowSet ==
  ASSUME NEW t, NEW rows, NEW cols, FromRow(t, rows, cols),
         NEW r \in SUBSET rows, NEW c \in SUBSET cols, NEW pl, CarriesBit(pl, cols, t.majRow, c),
         NEW pr, IsBit(pr)
  PROVE  <<pl, pr>> \in TwoByTwo(t) <=> c \in t.appx[r]
<1>1. PICK r0 \in SUBSET rows : t.appx[r0] = t.majRow
  BY DEF FromRow, RowOf, Followed
<1>2. TwoByTwo(t) = {<<1, 0>>, <<1, 1>>}
  BY DEF TwoByTwo, FromRow
<1>3. <<pl, pr>> \in TwoByTwo(t) <=> c \in t.majRow
  BY <1>2 DEF CarriesBit, IsBit, FromRow
<1>4. Column(t.appx, c) = {} \/ Column(t.appx, c) = SUBSET rows
  BY DEF FromRow, Followed, FollowsCols, Patterned, Zeros, Ones
<1>5. c \in t.appx[r] <=> c \in t.appx[r0]
  BY <1>4 DEF FromRow, Followed, Column, IsMap
<1>6. QED
  BY <1>1, <1>3, <1>5

LEMMA OnlyColSet ==
  ASSUME NEW t, NEW rows, NEW cols, FromColumn(t, rows, cols),
         NEW r \in SUBSET rows, NEW c \in SUBSET cols, NEW pl, IsBit(pl),
         NEW pr, CarriesBit(pr, rows, t.majCol, r)
  PROVE  <<pl, pr>> \in TwoByTwo(t) <=> c \in t.appx[r]
<1>1. PICK c0 \in SUBSET cols : Column(t.appx, c0) = t.majCol
  BY DEF FromColumn, ColumnOf, Followed
<1>2. TwoByTwo(t) = {<<0, 1>>, <<1, 1>>}
  BY DEF TwoByTwo, FromColumn
<1>3. <<pl, pr>> \in TwoByTwo(t) <=> r \in t.majCol
  BY <1>2 DEF CarriesBit, IsBit, FromColumn
<1>4. t.appx[r] = {} \/ t.appx[r] = SUBSET cols
  BY DEF FromColumn, Followed, FollowsRows, Patterned, Zeros, Ones
<1>5. c \in t.appx[r] <=> c0 \in t.appx[r]
  BY <1>4
<1>6. r \in Column(t.appx, c0) <=> c0 \in t.appx[r]
  BY DEF FromColumn, Followed, Column, IsMap
<1>7. QED
  BY <1>1, <1>3, <1>5, <1>6

-----------------------------------------------------------------------------
(* The gates written so far.  F.vars are the inputs, F.root is the tree,   *)
(* and F.on gives each wire the set of assignments at which it is 1.       *)

SignalBit(F, pin, a) ==
    IF pin[1] = "x" THEN IF pin[2] \in a THEN 1 ELSE 0 ELSE IF a \in F.on[pin] THEN 1 ELSE 0

GateValue(F, g, a) == <<SignalBit(F, g.left, a), SignalBit(F, g.right, a)>>

Outs(gs) == {gs[i].out : i \in 1 .. Len(gs)}

\* A pin of the gate number i is an input or is driven by an earlier gate.
PinOK(V, gs, pin, i) ==
    IF pin[1] = "x" THEN pin[2] \in V ELSE \E j \in 1 .. i - 1 : gs[j].out = pin

GateOK(F, gs, i) ==
    /\ gs[i].out \in DOMAIN F.on
    /\ \A j \in 1 .. Len(gs) : j # i => gs[j].out # gs[i].out
    /\ PinOK(F.vars, gs, gs[i].left, i) /\ PinOK(F.vars, gs, gs[i].right, i)
    /\ \A a \in SUBSET F.vars : a \in F.on[gs[i].out] <=> GateValue(F, gs[i], a) \in gs[i].on

Circuit(F, gs) ==
    /\ \E S : gs \in Seq(S)
    /\ \A i \in 1 .. Len(gs) : GateOK(F, gs, i)

\* A wire carries a vector over a part of the inputs.
Carries(F, w, V, vec) == \A a \in SUBSET F.vars : a \in F.on[w] <=> a \cap V \in vec

Extended(F, gs, g, G) ==
    /\ G.vars = F.vars /\ G.root = F.root
    /\ Circuit(G, Append(gs, g))
    /\ \A w \in Outs(gs) : G.on[w] = F.on[w]
    /\ \A a \in SUBSET F.vars : a \in G.on[g.out] <=> GateValue(F, g, a) \in g.on

LEMMA CircuitExtends ==
  ASSUME NEW F, NEW gs, Circuit(F, gs), NEW g, g.out \notin Outs(gs),
         PinOK(F.vars, gs, g.left, Len(gs) + 1), PinOK(F.vars, gs, g.right, Len(gs) + 1)
  PROVE  \E G : Extended(F, gs, g, G)
<1> DEFINE new == {a \in SUBSET F.vars : GateValue(F, g, a) \in g.on}
           on == [w \in DOMAIN F.on \cup {g.out} |-> IF w = g.out THEN new ELSE F.on[w]]
           G == [vars |-> F.vars, root |-> F.root, on |-> on]
           hs == Append(gs, g)
           n == Len(gs)
<1>1. PICK S : gs \in Seq(S)
  BY DEF Circuit
<1>2. n \in Nat /\ gs \in Seq(S \cup {g})
  BY <1>1
<1>3. /\ hs \in Seq(S \cup {g}) /\ Len(hs) = n + 1 /\ hs[n + 1] = g
      /\ \A i \in 1 .. n : hs[i] = gs[i]
  BY <1>2
<1> HIDE DEF n, hs
<1>4. /\ DOMAIN G.on = DOMAIN F.on \cup {g.out} /\ G.on[g.out] = new
      /\ \A w \in DOMAIN F.on : w # g.out => G.on[w] = F.on[w]
      /\ G.vars = F.vars /\ G.root = F.root
  OBVIOUS
<1>5. \A a \in SUBSET F.vars : a \in new <=> GateValue(F, g, a) \in g.on
  OBVIOUS
<1> HIDE DEF G, new, on
<1>6. \A i \in 1 .. n : gs[i].out # g.out /\ gs[i].out \in DOMAIN F.on /\ GateOK(F, gs, i)
  BY DEF Circuit, GateOK, Outs, n
<1>7. \A i \in 1 .. n : G.on[gs[i].out] = F.on[gs[i].out]
  BY <1>4, <1>6
<1>8. ASSUME NEW i \in 1 .. n + 1, NEW pin, PinOK(F.vars, gs, pin, i)
      PROVE  PinOK(F.vars, hs, pin, i) /\ \A a \in SUBSET F.vars : SignalBit(G, pin, a) = SignalBit(F, pin, a)
  <2>1. CASE pin[1] = "x"
    BY <1>8, <2>1 DEF PinOK, SignalBit
  <2>2. CASE pin[1] # "x"
    <3>1. PICK j \in 1 .. i - 1 : gs[j].out = pin
      BY <1>8, <2>2 DEF PinOK
    <3>2. j \in 1 .. n
      BY <1>2
    <3>3. hs[j].out = pin /\ G.on[pin] = F.on[pin]
      BY <1>3, <1>7, <3>1, <3>2
    <3>4. PinOK(F.vars, hs, pin, i)
      BY <2>2, <3>3 DEF PinOK
    <3>5. QED
      BY <2>2, <3>3, <3>4 DEF SignalBit
  <2>3. QED
    BY <2>1, <2>2
<1>9. ASSUME NEW i \in 1 .. n PROVE GateOK(G, hs, i)
  <2>1. /\ PinOK(F.vars, gs, gs[i].left, i) /\ PinOK(F.vars, gs, gs[i].right, i)
        /\ \A j \in 1 .. n : j # i => gs[j].out # gs[i].out
        /\ \A a \in SUBSET F.vars : a \in F.on[gs[i].out] <=> GateValue(F, gs[i], a) \in gs[i].on
    BY <1>6 DEF GateOK, n
  <2>2. i \in 1 .. n + 1 /\ hs[i] = gs[i]
    BY <1>2, <1>3
  <2>3. /\ PinOK(F.vars, hs, gs[i].left, i) /\ PinOK(F.vars, hs, gs[i].right, i)
        /\ \A a \in SUBSET F.vars : GateValue(G, gs[i], a) = GateValue(F, gs[i], a)
    BY <1>8, <2>1, <2>2 DEF GateValue
  <2>4. \A j \in 1 .. n + 1 : j # i => hs[j].out # hs[i].out
    BY <1>2, <1>3, <1>6, <2>1, <2>2
  <2>5. gs[i].out \in DOMAIN G.on
    <3>1. gs[i].out \in DOMAIN F.on
      BY <1>6
    <3>2. QED
      BY <1>4, <3>1
  <2>6. QED
    BY <1>3, <1>4, <1>7, <2>1, <2>2, <2>3, <2>4, <2>5 DEF GateOK
<1>10. GateOK(G, hs, n + 1)
  <2>1. n + 1 \in 1 .. n + 1
    BY <1>2
  <2>2. PinOK(F.vars, gs, g.left, n + 1) /\ PinOK(F.vars, gs, g.right, n + 1)
    BY DEF n
  <2>3. /\ PinOK(F.vars, hs, g.left, n + 1) /\ PinOK(F.vars, hs, g.right, n + 1)
        /\ \A a \in SUBSET F.vars : GateValue(G, g, a) = GateValue(F, g, a)
    BY <1>8, <2>1, <2>2 DEF GateValue
  <2>4. \A j \in 1 .. n + 1 : j # n + 1 => hs[j].out # g.out
    BY <1>2, <1>3, <1>6
  <2>5. QED
    BY <1>3, <1>4, <1>5, <2>3, <2>4 DEF GateOK
<1>11. Circuit(G, hs)
  <2>1. \A i \in 1 .. n + 1 : GateOK(G, hs, i)
    BY <1>2, <1>9, <1>10
  <2>2. QED
    BY <1>3, <1>4, <2>1 DEF Circuit
<1>12. \A w \in Outs(gs) : G.on[w] = F.on[w]
  BY <1>7 DEF Outs, n
<1>13. Extended(F, gs, g, G)
  BY <1>4, <1>5, <1>11, <1>12 DEF Extended, hs
<1>14. QED
  BY <1>13

LEMMA OutsAppend ==
  ASSUME NEW S, NEW gs \in Seq(S), NEW g
  PROVE  Outs(Append(gs, g)) = Outs(gs) \cup {g.out}
<1> DEFINE hs == Append(gs, g)
           n == Len(gs)
<1>1. n \in Nat /\ gs \in Seq(S \cup {g})
  OBVIOUS
<1>2. /\ Len(hs) = n + 1 /\ hs[n + 1] = g
      /\ \A i \in 1 .. n : hs[i] = gs[i]
  BY <1>1
<1> HIDE DEF n, hs
<1>3. \A i \in 1 .. n + 1 : i \in 1 .. n \/ i = n + 1
  BY <1>1
<1>4. \A i \in 1 .. n : i \in 1 .. n + 1
  BY <1>1
<1>5. n + 1 \in 1 .. n + 1
  BY <1>1
<1>6. {hs[i].out : i \in 1 .. n + 1} = {gs[i].out : i \in 1 .. n} \cup {g.out}
  BY <1>2, <1>3, <1>4, <1>5
<1>7. QED
  BY <1>2, <1>6 DEF Outs, hs, n

(***************************************************************************)
(* A circuit has one valuation at which no gate changes its output, the    *)
(* one by F: every gate reads only inputs and outputs of earlier gates.    *)
(***************************************************************************)
THEOREM SettledOnce ==
  ASSUME NEW F, Circuit(F, gates), Output \in Outs(gates), NEW a \in SUBSET F.vars
  PROVE  (\E wire \in Settled(a) : wire[Output] = 1) <=> a \in F.on[Output]
<1> DEFINE w0 == [w \in Wires |-> IF a \in F.on[w] THEN 1 ELSE 0]
           n == Len(gates)
<1>1. PICK S : gates \in Seq(S)
  BY DEF Circuit
<1>2. n \in Nat /\ DOMAIN gates = 1 .. n
  BY <1>1
<1>3. Wires = Outs(gates) /\ \A i \in 1 .. n : gates[i].out \in Wires
  BY <1>2 DEF Wires, Outs
<1>4. \A i \in 1 .. n : GateOK(F, gates, i)
  BY DEF Circuit
<1> HIDE DEF n
<1>5. w0 \in [Wires -> 0 .. 1] /\ \A w \in Wires : w0[w] = IF a \in F.on[w] THEN 1 ELSE 0
  OBVIOUS
<1> HIDE DEF w0
<1>6. ASSUME NEW i \in 1 .. n, NEW pin, PinOK(F.vars, gates, pin, i)
      PROVE  PinValue(pin, w0, a) = SignalBit(F, pin, a)
  <2>1. CASE pin[1] = "x"
    BY <2>1 DEF PinValue, SignalBit
  <2>2. CASE pin[1] # "x"
    <3>1. PICK j \in 1 .. i - 1 : gates[j].out = pin
      BY <1>6, <2>2 DEF PinOK
    <3>2. j \in 1 .. n
      BY <1>2
    <3>3. pin \in Wires
      BY <1>3, <3>1, <3>2
    <3>4. QED
      BY <1>5, <2>2, <3>3 DEF PinValue, SignalBit
  <2>3. QED
    BY <2>1, <2>2
<1>7. w0 \in Settled(a)
  <2>1. ASSUME NEW i \in 1 .. n
        PROVE  w0[gates[i].out] = 1 <=>
                  <<PinValue(gates[i].left, w0, a), PinValue(gates[i].right, w0, a)>> \in gates[i].on
    <3>1. /\ PinOK(F.vars, gates, gates[i].left, i) /\ PinOK(F.vars, gates, gates[i].right, i)
          /\ a \in F.on[gates[i].out] <=> GateValue(F, gates[i], a) \in gates[i].on
      BY <1>4 DEF GateOK
    <3>2. w0[gates[i].out] = 1 <=> a \in F.on[gates[i].out]
      BY <1>3, <1>5
    <3>3. <<PinValue(gates[i].left, w0, a), PinValue(gates[i].right, w0, a)>> = GateValue(F, gates[i], a)
      BY <1>6, <3>1 DEF GateValue
    <3>4. QED
      BY <3>1, <3>2, <3>3
  <2>2. QED
    BY <1>2, <1>5, <2>1 DEF Settled
<1>8. ASSUME NEW wire \in Settled(a) PROVE \A i \in 1 .. n : wire[gates[i].out] = w0[gates[i].out]
  <2> DEFINE D == {i \in 1 .. n : wire[gates[i].out] # w0[gates[i].out]}
  <2>1. wire \in [Wires -> 0 .. 1]
        /\ \A i \in 1 .. n : wire[gates[i].out] = 1 <=>
              <<PinValue(gates[i].left, wire, a), PinValue(gates[i].right, wire, a)>> \in gates[i].on
    BY <1>2 DEF Settled
  <2>2. \A i \in 1 .. n : w0[gates[i].out] = 1 <=>
              <<PinValue(gates[i].left, w0, a), PinValue(gates[i].right, w0, a)>> \in gates[i].on
    BY <1>2, <1>7 DEF Settled
  <2>3. ASSUME D # {} PROVE FALSE
    <3>1. D \in SUBSET Nat
      BY <1>2
    <3>2. PICK m \in D : \A k \in D : m <= k
      <4> HIDE DEF D
      <4>1. QED
        BY <2>3, <3>1, LeastNat
    <3>3. m \in 1 .. n /\ wire[gates[m].out] # w0[gates[m].out]
      OBVIOUS
    <3>4. \A j \in 1 .. m - 1 : wire[gates[j].out] = w0[gates[j].out]
      <4>1. ASSUME NEW j \in 1 .. m - 1 PROVE j \in 1 .. n /\ ~ (m <= j)
        BY <1>2, <3>3
      <4>2. QED
        BY <3>2, <4>1
    <3>5. ASSUME NEW pin, PinOK(F.vars, gates, pin, m) PROVE PinValue(pin, wire, a) = PinValue(pin, w0, a)
      BY <3>4, <3>5 DEF PinOK, PinValue
    <3>6. PinOK(F.vars, gates, gates[m].left, m) /\ PinOK(F.vars, gates, gates[m].right, m)
      BY <1>4, <3>3 DEF GateOK
    <3>7. wire[gates[m].out] = 1 <=> w0[gates[m].out] = 1
      <4>1. /\ PinValue(gates[m].left, wire, a) = PinValue(gates[m].left, w0, a)
            /\ PinValue(gates[m].right, wire, a) = PinValue(gates[m].right, w0, a)
        BY <3>5, <3>6
      <4>2. wire[gates[m].out] = 1 <=>
              <<PinValue(gates[m].left, wire, a), PinValue(gates[m].right, wire, a)>> \in gates[m].on
        BY <2>1, <3>3
      <4>3. w0[gates[m].out] = 1 <=>
              <<PinValue(gates[m].left, w0, a), PinValue(gates[m].right, w0, a)>> \in gates[m].on
        BY <2>2, <3>3
      <4>4. QED
        BY <4>1, <4>2, <4>3
    <3>8. wire[gates[m].out] \in 0 .. 1 /\ w0[gates[m].out] \in 0 .. 1
      BY <1>3, <1>5, <2>1, <3>3
    <3>9. QED
      BY <3>3, <3>7, <3>8
  <2>4. QED
    BY <2>3
<1>9. PICK i \in 1 .. n : gates[i].out = Output
  BY DEF Outs, n
<1>10. w0[Output] = 1 <=> a \in F.on[Output]
  BY <1>3, <1>5, <1>9
<1>11. QED
  BY <1>7, <1>8, <1>9, <1>10

-----------------------------------------------------------------------------
(* The names of wires, and the activations that write.                     *)

IsName(w) == w \in Seq({"f", 1, 2}) /\ w # <<>> /\ w[1] = "f"

\* A wire at or below another one in the tree of names.
Under(w, p) == Len(p) <= Len(w) /\ \A i \in 1 .. Len(p) : w[i] = p[i]

LEMMA NamesAppend ==
  ASSUME NEW w, IsName(w), NEW x \in {1, 2}
  PROVE  /\ IsName(Append(w, x)) /\ Append(w, x)[1] = "f" /\ Len(Append(w, x)) = Len(w) + 1
         /\ Append(w, x)[Len(w) + 1] = x /\ \A i \in 1 .. Len(w) : Append(w, x)[i] = w[i]
         /\ Len(w) \in Nat /\ Len(w) > 0
<1> DEFINE v == Append(w, x)
           n == Len(w)
<1>1. w \in Seq({"f", 1, 2}) /\ w # <<>> /\ w[1] = "f"
  BY DEF IsName
<1>2. n \in Nat /\ n > 0
  BY <1>1
<1>3. v \in Seq({"f", 1, 2}) /\ v # <<>> /\ Len(v) = n + 1 /\ v[n + 1] = x /\ \A i \in 1 .. n : v[i] = w[i]
  BY <1>1
<1> HIDE DEF v, n
<1>4. v[1] = "f"
  BY <1>1, <1>2, <1>3
<1>5. QED
  BY <1>2, <1>3, <1>4 DEF IsName, v, n

LEMMA UnderItself ==
  ASSUME NEW w, IsName(w)
  PROVE  Under(w, w)
<1>1. Len(w) \in Nat
  BY DEF IsName
<1>2. QED
  BY <1>1 DEF Under

LEMMA UnderDeeper ==
  ASSUME NEW w, IsName(w), NEW x \in {1, 2}, NEW p, IsName(p), Under(w, p)
  PROVE  Under(Append(w, x), p)
<1>1. Len(p) \in Nat
  BY DEF IsName
<1>2. /\ Len(Append(w, x)) = Len(w) + 1 /\ Len(w) \in Nat
      /\ \A i \in 1 .. Len(w) : Append(w, x)[i] = w[i]
  BY NamesAppend
<1>3. QED
  BY <1>1, <1>2 DEF Under

LEMMA UnderHigher ==
  ASSUME NEW w, IsName(w), NEW x \in {1, 2}, NEW p, IsName(p), Under(w, Append(p, x))
  PROVE  Under(w, p) /\ w # p /\ w[Len(p) + 1] = x
<1>1. Len(w) \in Nat
  BY DEF IsName
<1>2. /\ Len(Append(p, x)) = Len(p) + 1 /\ Len(p) \in Nat /\ Append(p, x)[Len(p) + 1] = x
      /\ \A i \in 1 .. Len(p) : Append(p, x)[i] = p[i]
  BY NamesAppend
<1>3. QED
  BY <1>1, <1>2 DEF Under

-----------------------------------------------------------------------------

Shallow(n) == n.isLeaf \/ (n.chosen.left.isLeaf /\ n.chosen.right.isLeaf)

\* What is known of a node whose activation has returned the unit: its wire
\* carries the table of the leaf, or that of the traced map.
Written(F, gs, n, unit, w) ==
    /\ Shallow(n) => unit = n.chosen.unit
    /\ IF n.isLeaf
       THEN Cardinality(n.vars) = 2 => n.table # NoVec /\ w \in Outs(gs) /\ Carries(F, w, n.vars, n.table)
       ELSE /\ ~ unit.isLeaf /\ unit.rows \cup unit.cols = n.vars /\ w \in Outs(gs)
            /\ Carries(F, w, n.vars, TableOf(unit.appx, unit.rows, unit.cols))

CallOf(node, out, at, left, right) ==
    [node |-> node, out |-> out, at |-> at, left |-> left, right |-> right]

IsCall(F, c) ==
    /\ c = CallOf(c.node, c.out, c.at, c.left, c.right)
    /\ TreeOK(c.node)
    /\ c.node.vars \in SUBSET F.vars
    /\ IsName(c.out)
    /\ c.at \in {"left", "right", "trace"}
    /\ c.at # "left" => ~ c.node.isLeaf

KnowsWritten(F, gs, c) ==
    /\ c.at \in {"right", "trace"} => Written(F, gs, c.node.chosen.left, c.left, Append(c.out, 1))
    /\ c.at = "trace" => Written(F, gs, c.node.chosen.right, c.right, Append(c.out, 2))

\* An activation and the one it waits for; the name below which the latter
\* writes; and the wires that are written below the former.
Waits(c, d) ==
    /\ ~ c.node.isLeaf
    /\ \/ c.at = "left" /\ d.node = c.node.chosen.left /\ d.out = Append(c.out, 1)
       \/ c.at = "right" /\ d.node = c.node.chosen.right /\ d.out = Append(c.out, 2)

Place(c) == Append(c.out, IF c.at = "left" THEN 1 ELSE 2)

Drives(c, w) ==
    \/ c.at \in {"right", "trace"} /\ Under(w, Append(c.out, 1))
    \/ c.at = "trace" /\ Under(w, Append(c.out, 2))

CallsOK(F, gs, s) ==
    /\ \E S : s \in Seq(S)
    /\ s # <<>>
    /\ \A i \in 1 .. Len(s) : IsCall(F, s[i]) /\ KnowsWritten(F, gs, s[i])
    /\ \A i \in 1 .. Len(s) - 1 : Waits(s[i], s[i + 1])
    /\ \A j \in 1 .. Len(s) : \A i \in 1 .. j - 1 : Under(s[j].out, Place(s[i]))
    /\ \A w \in Outs(gs) : IsName(w) /\ \E i \in 1 .. Len(s) : Drives(s[i], w)
    /\ s[1].node = F.root /\ s[1].out = Output

LEMMA CallFields ==
  ASSUME NEW c, NEW node, NEW out, NEW at, NEW left, NEW right, c = CallOf(node, out, at, left, right)
  PROVE  /\ c.node = node /\ c.out = out /\ c.at = at /\ c.left = left /\ c.right = right
         /\ c = CallOf(c.node, c.out, c.at, c.left, c.right)
  BY DEF CallOf

\* No gate has the name of the activation at the top yet.
LEMMA FreshName ==
  ASSUME NEW F, NEW gs, NEW s, CallsOK(F, gs, s)
  PROVE  s[Len(s)].out \notin Outs(gs)
<1> DEFINE n == Len(s)
           d == s[n]
<1>1. PICK S : s \in Seq(S)
  BY DEF CallsOK
<1>2. n \in Nat /\ n > 0
  BY <1>1 DEF CallsOK
<1>3. \A i \in 1 .. n : IsCall(F, s[i])
  BY DEF CallsOK
<1>4. IsName(d.out)
  BY <1>2, <1>3 DEF IsCall
<1>5. \A i \in 1 .. n - 1 : Waits(s[i], s[i + 1]) /\ Under(d.out, Place(s[i]))
  BY <1>2 DEF CallsOK
<1>6. \A w \in Outs(gs) : \E i \in 1 .. n : Drives(s[i], w)
  BY DEF CallsOK
<1> HIDE DEF n, d
<1>7. SUFFICES ASSUME d.out \in Outs(gs) PROVE FALSE
  BY DEF n, d
<1>8. PICK i \in 1 .. n : Drives(s[i], d.out)
  BY <1>6, <1>7
<1>9. IsName(s[i].out)
  BY <1>3 DEF IsCall
<1>10. CASE i = n
  <2>1. Under(d.out, Append(d.out, 1)) \/ Under(d.out, Append(d.out, 2))
    BY <1>8, <1>10 DEF Drives, d
  <2>2. QED
    BY <1>4, <2>1, UnderHigher
<1>11. CASE i # n
  <2>1. i \in 1 .. n - 1
    BY <1>2, <1>11
  <2>2. Waits(s[i], s[i + 1]) /\ Under(d.out, Place(s[i]))
    BY <1>5, <2>1
  <2>3. s[i].at \in {"left", "right"}
    BY <2>2 DEF Waits
  <2>4. s[i].at = "right" /\ Under(d.out, Append(s[i].out, 1))
    BY <1>8, <2>3 DEF Drives
  <2>5. Under(d.out, Append(s[i].out, 2))
    BY <2>2, <2>4 DEF Place
  <2>6. d.out[Len(s[i].out) + 1] = 1 /\ d.out[Len(s[i].out) + 1] = 2
    BY <1>4, <1>9, <2>4, <2>5, UnderHigher
  <2>7. QED
    BY <2>6
<1>12. QED
  BY <1>10, <1>11

LEMMA CallsCall ==
  ASSUME NEW F, NEW gs, NEW s, CallsOK(F, gs, s), NEW d, IsCall(F, d), d.at = "left", Waits(s[Len(s)], d)
  PROVE  CallsOK(F, gs, Append(s, d))
<1> DEFINE n == Len(s)
           t == Append(s, d)
<1>1. PICK S : s \in Seq(S)
  BY DEF CallsOK
<1>2. n \in Nat /\ n > 0 /\ s \in Seq(S \cup {d})
  BY <1>1 DEF CallsOK
<1>3. /\ t \in Seq(S \cup {d}) /\ Len(t) = n + 1 /\ t # <<>> /\ t[n + 1] = d
      /\ \A i \in 1 .. n : t[i] = s[i]
  BY <1>2
<1>4. /\ \A i \in 1 .. n : IsCall(F, s[i]) /\ KnowsWritten(F, gs, s[i])
      /\ \A i \in 1 .. n - 1 : Waits(s[i], s[i + 1])
      /\ \A j \in 1 .. n : \A i \in 1 .. j - 1 : Under(s[j].out, Place(s[i]))
      /\ \A w \in Outs(gs) : IsName(w) /\ \E i \in 1 .. n : Drives(s[i], w)
      /\ s[1].node = F.root /\ s[1].out = Output
      /\ Waits(s[n], d)
  BY DEF CallsOK
<1> HIDE DEF n, t
<1>5. KnowsWritten(F, gs, d)
  BY DEF KnowsWritten
<1>6. \A i \in 1 .. n + 1 : IsCall(F, t[i]) /\ KnowsWritten(F, gs, t[i])
  BY <1>2, <1>3, <1>4, <1>5
<1>7. \A i \in 1 .. n : Waits(t[i], t[i + 1])
  BY <1>2, <1>3, <1>4
<1>8. ASSUME NEW j \in 1 .. n + 1, NEW i \in 1 .. j - 1
      PROVE  Under(t[j].out, Place(t[i]))
  <2>1. i \in 1 .. n /\ t[i] = s[i] /\ IsCall(F, s[i]) /\ n \in 1 .. n
    BY <1>2, <1>3, <1>4
  <2>2. CASE j # n + 1
    <3>1. j \in 1 .. n
      BY <1>2, <2>2
    <3>2. QED
      BY <1>3, <1>4, <2>1, <3>1
  <2>3. CASE j = n + 1 /\ i = n
    <3>1. d.out = Place(s[n])
      BY <1>4 DEF Waits, Place
    <3>2. QED
      BY <1>3, <2>1, <2>3, <3>1, UnderItself DEF IsCall
  <2>4. CASE j = n + 1 /\ i # n
    <3>1. i \in 1 .. n - 1
      BY <1>2, <2>4
    <3>2. Under(s[n].out, Place(s[i]))
      BY <1>2, <1>4, <3>1, SMTT(40)
    <3>3. IsName(s[n].out) /\ IsName(Place(s[i]))
      BY <1>4, <2>1, NamesAppend DEF IsCall, Place
    <3>4. d.out = Append(s[n].out, 1) \/ d.out = Append(s[n].out, 2)
      BY <1>4 DEF Waits
    <3>5. Under(d.out, Place(s[i]))
      BY <3>2, <3>3, <3>4, UnderDeeper
    <3>6. QED
      BY <1>3, <2>1, <2>4, <3>5
  <2>5. QED
    BY <2>2, <2>3, <2>4
<1>9. \A w \in Outs(gs) : IsName(w) /\ \E i \in 1 .. n + 1 : Drives(t[i], w)
  <2>1. \A i \in 1 .. n : i \in 1 .. n + 1 /\ t[i] = s[i]
    BY <1>2, <1>3
  <2>2. QED
    BY <1>4, <2>1
<1>10. t[1] = s[1]
  BY <1>2, <1>3
<1>11. CallsOK(F, gs, t)
  <2>1. \A i \in 1 .. Len(t) - 1 : Waits(t[i], t[i + 1])
    BY <1>2, <1>3, <1>7
  <2>2. QED
    BY <1>3, <1>4, <1>6, <1>8, <1>9, <1>10, <2>1 DEF CallsOK
<1>12. QED
  BY <1>11 DEF t

\* More gates, the wires so far as they were.
Grown(F, gs, G, hs) ==
    /\ G.vars = F.vars /\ G.root = F.root
    /\ \A w \in Outs(gs) : w \in Outs(hs) /\ G.on[w] = F.on[w]

LEMMA WrittenKept ==
  ASSUME NEW F, NEW gs, NEW G, NEW hs, Grown(F, gs, G, hs), NEW n, NEW unit, NEW w, Written(F, gs, n, unit, w)
  PROVE  Written(G, hs, n, unit, w)
<1>1. w \in Outs(gs) => w \in Outs(hs) /\ \A V, vec : Carries(F, w, V, vec) => Carries(G, w, V, vec)
  BY DEF Grown, Carries
<1>2. QED
  BY <1>1 DEF Written

\* What the caller is once the activation it waited for has returned.
Resumed(c, unit) ==
    IF c.at = "left" THEN [c EXCEPT !.left = unit, !.at = "right"]
    ELSE [c EXCEPT !.right = unit, !.at = "trace"]

LEMMA ResumedFields ==
  ASSUME NEW F, NEW c, IsCall(F, c), NEW unit
  PROVE  /\ Resumed(c, unit) = CallOf(Resumed(c, unit).node, Resumed(c, unit).out, Resumed(c, unit).at,
                                      Resumed(c, unit).left, Resumed(c, unit).right)
         /\ Resumed(c, unit).node = c.node /\ Resumed(c, unit).out = c.out
         /\ c.at = "left" => Resumed(c, unit).at = "right" /\ Resumed(c, unit).left = unit
         /\ c.at # "left" => /\ Resumed(c, unit).at = "trace" /\ Resumed(c, unit).right = unit
                             /\ Resumed(c, unit).left = c.left
<1>1. c = CallOf(c.node, c.out, c.at, c.left, c.right)
  BY DEF IsCall
<1>2. CASE c.at = "left"
  <2> DEFINE a == [c EXCEPT !.left = unit]
             b == [a EXCEPT !.at = "right"]
  <2>1. Resumed(c, unit) = b
    BY <1>2 DEF Resumed
  <2>2. a = CallOf(c.node, c.out, c.at, unit, c.right)
    BY <1>1 DEF CallOf
  <2> HIDE DEF a
  <2>3. b = CallOf(c.node, c.out, "right", unit, c.right)
    BY <2>2 DEF CallOf
  <2> HIDE DEF b
  <2>4. QED
    BY <1>2, <2>1, <2>3, CallFields
<1>3. CASE c.at # "left"
  <2> DEFINE a == [c EXCEPT !.right = unit]
             b == [a EXCEPT !.at = "trace"]
  <2>1. Resumed(c, unit) = b
    BY <1>3 DEF Resumed
  <2>2. a = CallOf(c.node, c.out, c.at, c.left, unit)
    BY <1>1 DEF CallOf
  <2> HIDE DEF a
  <2>3. b = CallOf(c.node, c.out, "trace", c.left, unit)
    BY <2>2 DEF CallOf
  <2> HIDE DEF b
  <2>4. QED
    BY <1>3, <2>1, <2>3, CallFields
<1>4. QED
  BY <1>2, <1>3

LEMMA CallsReturn ==
  ASSUME NEW F, NEW gs, NEW s, CallsOK(F, gs, s), NEW b, b = SubSeq(s, 1, Len(s) - 1), b # <<>>,
         NEW G, NEW hs, Grown(F, gs, G, hs), \A w \in Outs(hs) : w \in Outs(gs) \/ w = s[Len(s)].out,
         NEW unit, Written(G, hs, s[Len(s)].node, unit, s[Len(s)].out)
  PROVE  CallsOK(G, hs, [b EXCEPT ![Len(b)] = Resumed(b[Len(b)], unit)])
<1> DEFINE l == Len(b)
           g == Resumed(b[l], unit)
           t == [b EXCEPT ![l] = g]
           d == s[Len(s)]
<1>1. PICK S : s \in Seq(S)
  BY DEF CallsOK
<1>2. /\ Len(s) \in Nat /\ Len(s) > 0 /\ b \in Seq(S) /\ l = Len(s) - 1
      /\ \A i \in 1 .. Len(s) - 1 : b[i] = s[i]
  BY <1>1, BelowTop DEF CallsOK
<1>3. l > 0 /\ l \in Nat /\ Len(s) = l + 1
  BY <1>2
<1>4. b \in Seq(S \cup {g})
  BY <1>2
<1>5. l = Len(b)
  OBVIOUS
<1> HIDE DEF l, g
<1>6. t \in Seq(S \cup {g}) /\ Len(t) = l
  BY <1>3, <1>4, <1>5
<1>7. t[l] = g /\ \A i \in 1 .. l - 1 : t[i] = s[i]
  <2>1. DOMAIN b = 1 .. l /\ l \in 1 .. l /\ \A i \in 1 .. l - 1 : i \in 1 .. l /\ i # l
    BY <1>3, <1>4, <1>5
  <2>2. t[l] = g /\ \A i \in 1 .. l - 1 : t[i] = b[i]
    BY <2>1, Zenon
  <2>3. QED
    BY <1>2, <1>3, <2>2
<1>8. b[l] = s[l] /\ t # <<>>
  BY <1>2, <1>3, <1>6
<1> HIDE DEF t
<1>9. /\ \A i \in 1 .. l + 1 : IsCall(F, s[i]) /\ KnowsWritten(F, gs, s[i])
      /\ \A i \in 1 .. l : Waits(s[i], s[i + 1])
      /\ \A j \in 1 .. l + 1 : \A i \in 1 .. j - 1 : Under(s[j].out, Place(s[i]))
      /\ \A w \in Outs(gs) : IsName(w) /\ \E i \in 1 .. l + 1 : Drives(s[i], w)
      /\ s[1].node = F.root /\ s[1].out = Output
  BY <1>3 DEF CallsOK
<1> DEFINE c == s[l]
<1>10. l \in 1 .. l /\ l \in 1 .. l + 1 /\ l + 1 \in 1 .. l + 1 /\ IsCall(F, c) /\ Waits(c, d) /\ d = s[l + 1]
       /\ IsCall(F, d) /\ KnowsWritten(F, gs, c)
  BY <1>3, <1>9
<1> HIDE DEF c, d
<1>11. /\ g = CallOf(g.node, g.out, g.at, g.left, g.right)
       /\ g.node = c.node /\ g.out = c.out
       /\ c.at = "left" => g.at = "right" /\ g.left = unit
       /\ c.at # "left" => g.at = "trace" /\ g.right = unit /\ g.left = c.left
  <2>1. g = Resumed(c, unit)
    BY <1>8 DEF g, c
  <2>2. QED
    BY <1>10, <2>1, ResumedFields
<1>12. IsCall(G, g)
  BY <1>10, <1>11 DEF IsCall, Waits, Grown
<1>13. KnowsWritten(G, hs, g)
  <2>1. CASE c.at = "left"
    <3>1. Written(G, hs, c.node.chosen.left, unit, Append(c.out, 1))
      BY <1>10, <2>1 DEF Waits, d
    <3>2. QED
      BY <1>11, <2>1, <3>1 DEF KnowsWritten
  <2>2. CASE c.at # "left"
    <3>1. c.at = "right" /\ Written(G, hs, c.node.chosen.right, unit, Append(c.out, 2))
      BY <1>10, <2>2 DEF Waits, d
    <3>2. Written(G, hs, c.node.chosen.left, c.left, Append(c.out, 1))
      BY <1>10, <3>1, WrittenKept DEF KnowsWritten
    <3>3. QED
      BY <1>11, <2>2, <3>1, <3>2 DEF KnowsWritten
  <2>3. QED
    BY <2>1, <2>2
<1>14. \A i \in 1 .. l - 1 : IsCall(G, s[i]) /\ KnowsWritten(G, hs, s[i])
  <2>1. ASSUME NEW i \in 1 .. l - 1 PROVE IsCall(G, s[i]) /\ KnowsWritten(G, hs, s[i])
    <3>1. IsCall(F, s[i]) /\ KnowsWritten(F, gs, s[i])
      BY <1>3, <1>9, SMTT(40)
    <3>2. IsCall(G, s[i])
      BY <3>1 DEF IsCall, Grown
    <3>3. QED
      BY <3>1, <3>2, WrittenKept DEF KnowsWritten
  <2>2. QED
    BY <2>1
<1>15. \A i \in 1 .. l : IsCall(G, t[i]) /\ KnowsWritten(G, hs, t[i])
  BY <1>3, <1>7, <1>12, <1>13, <1>14
<1>16. ASSUME NEW i \in 1 .. l - 1 PROVE Waits(t[i], t[i + 1])
  <2>0. i \in 1 .. l
    BY <1>3
  <2>1. Waits(s[i], s[i + 1]) /\ t[i] = s[i]
    BY <1>7, <1>9, <2>0
  <2>2. t[i + 1].node = s[i + 1].node /\ t[i + 1].out = s[i + 1].out
    BY <1>3, <1>7, <1>11 DEF c
  <2>3. QED
    BY <2>1, <2>2 DEF Waits
<1>17. ASSUME NEW j \in 1 .. l, NEW i \in 1 .. j - 1 PROVE Under(t[j].out, Place(t[i]))
  <2>1. i \in 1 .. l - 1 /\ j \in 1 .. l + 1
    BY <1>3
  <2>2. t[i] = s[i] /\ t[j].out = s[j].out
    BY <1>3, <1>7, <1>11, <2>1 DEF c
  <2>3. Under(s[j].out, Place(s[i]))
    BY <1>9, <2>1
  <2>4. QED
    BY <2>2, <2>3
<1>18. ASSUME NEW w \in Outs(hs) PROVE IsName(w) /\ \E i \in 1 .. l : Drives(t[i], w)
  <2>1. \/ /\ d.out = Append(c.out, 1) /\ g.at = "right" /\ g.out = c.out
        \/ /\ d.out = Append(c.out, 2) /\ g.at = "trace" /\ g.out = c.out
    BY <1>10, <1>11 DEF Waits
  <2>2. ASSUME IsName(w), Under(w, d.out) PROVE Drives(t[l], w)
    BY <1>7, <2>1, <2>2 DEF Drives
  <2>3. CASE w = d.out
    <3>1. IsName(w)
      BY <1>10, <2>3 DEF IsCall
    <3>2. QED
      BY <1>10, <2>2, <2>3, <3>1, UnderItself
  <2>4. CASE w \in Outs(gs)
    <3>1. IsName(w)
      BY <1>9, <2>4
    <3>2. PICK i \in 1 .. l + 1 : Drives(s[i], w)
      BY <1>9, <2>4
    <3>3. CASE i = l + 1
      <4>1. Under(w, Append(d.out, 1)) \/ Under(w, Append(d.out, 2))
        BY <1>10, <3>2, <3>3 DEF Drives
      <4>2. Under(w, d.out)
        BY <1>10, <3>1, <4>1, UnderHigher DEF IsCall
      <4>3. QED
        BY <1>10, <2>2, <3>1, <4>2
    <3>4. CASE i = l
      <4>1. Drives(c, w)
        BY <3>2, <3>4 DEF c
      <4>2. Drives(g, w)
        BY <1>10, <1>11, <4>1 DEF Drives, Waits
      <4>3. QED
        BY <1>7, <1>10, <3>1, <4>2
    <3>5. CASE i # l /\ i # l + 1
      <4>1. i \in 1 .. l - 1 /\ i \in 1 .. l
        BY <1>3, <3>5
      <4>2. QED
        BY <1>7, <3>1, <3>2, <4>1
    <3>6. QED
      BY <3>3, <3>4, <3>5
  <2>5. QED
    BY <2>3, <2>4 DEF d
<1>19. t[1].node = G.root /\ t[1].out = Output
  <2>1. CASE l = 1
    BY <1>7, <1>9, <1>11, <2>1 DEF c, Grown
  <2>2. CASE l # 1
    <3>1. 1 \in 1 .. l - 1
      BY <1>3, <2>2
    <3>2. QED
      BY <1>7, <1>9, <3>1 DEF Grown
  <2>3. QED
    BY <2>1, <2>2
<1>20. CallsOK(G, hs, t)
  BY <1>6, <1>8, <1>15, <1>16, <1>17, <1>18, <1>19 DEF CallsOK
<1>21. QED
  BY <1>20 DEF t, g, l

-----------------------------------------------------------------------------
(* The gates.                                                              *)

PinVector(n, unit) == IF unit.isLeaf THEN n.table ELSE TableOf(unit.appx, unit.rows, unit.cols)

\* A child of a node that is no leaf by its parent.
IsPart(F, n) == TreeOK(n) /\ n.vars \in SUBSET F.vars /\ (n.isLeaf <=> Cardinality(n.vars) <= 2)

PinShape(F, gs, n, unit, w) ==
    /\ PinOK(F.vars, gs, PinName(n.vars, w), Len(gs) + 1)
    /\ \A a \in SUBSET F.vars :
          CarriesBit(SignalBit(F, PinName(n.vars, w), a), n.vars, PinVector(n, unit), a \cap n.vars)
    /\ unit.isLeaf <=> n.isLeaf
    /\ n.isLeaf => unit = NoUnit
    /\ n.table = NoVec => n.isLeaf /\ Cardinality(n.vars) = 1
    /\ ~ n.isLeaf => unit.rows \cup unit.cols = n.vars

\* The pin of a child that has been written.
LEMMA ChildPin ==
  ASSUME NEW F, NEW n, IsPart(F, n), NEW gs, Len(gs) \in Nat, NEW unit, NEW w, IsName(w), Written(F, gs, n, unit, w)
  PROVE  PinShape(F, gs, n, unit, w)
<1>1. TreeOK(n) /\ n.vars \in SUBSET F.vars /\ (n.isLeaf <=> Cardinality(n.vars) <= 2)
  BY DEF IsPart
<1>2. NodeOK(n) /\ Variables(n.vars) /\ TableOver(n.vars, n.table)
  BY <1>1, TreeOpen DEF NodeOK, IsNode
<1>3. NoUnit.isLeaf
  BY UnitIsUnit
<1>4. n.isLeaf => unit = NoUnit
  <2>1. n.isLeaf => n.chosen = Unchosen
    BY <1>2 DEF NodeOK
  <2>2. Unchosen.unit = NoUnit
    BY DEF Unchosen
  <2>3. QED
    BY <2>1, <2>2 DEF Written, Shallow
<1>5. (unit.isLeaf <=> n.isLeaf) /\ (~ n.isLeaf => unit.rows \cup unit.cols = n.vars)
  BY <1>3, <1>4 DEF Written
<1>6. ~ n.isLeaf => n.table # NoVec
  <2>1. ~ n.isLeaf => SplitOf(n.chosen.unit, n.vars, n.table) /\ n.chosen.unit.hasMap
    BY <1>2 DEF NodeOK, IsBranch
  <2>2. QED
    BY <1>2, <2>1, SplitShape
<1>7. Cardinality(n.vars) \in Nat /\ Cardinality(n.vars) # 0
  BY <1>2, FS_CardinalityType, FS_EmptySet DEF Variables
<1>8. CASE Cardinality(n.vars) = 1
  <2>1. PICK v : n.vars = {v}
    BY <1>2, <1>8, FS_Singleton DEF Variables
  <2>2. PinName(n.vars, w) = <<"x", v>> /\ v \in F.vars
    BY <1>1, <1>8, <2>1 DEF PinName, InputName
  <2>3. PinOK(F.vars, gs, <<"x", v>>, Len(gs) + 1)
    BY <2>2 DEF PinOK
  <2>4. ASSUME NEW a \in SUBSET F.vars
        PROVE  CarriesBit(SignalBit(F, <<"x", v>>, a), n.vars, PinVector(n, unit), a \cap n.vars)
    BY <1>8, <2>1 DEF CarriesBit, IsBit, SignalBit
  <2>5. n.isLeaf
    BY <1>1, <1>8
  <2>6. QED
    BY <1>4, <1>5, <1>8, <2>2, <2>3, <2>4, <2>5 DEF PinShape
<1>9. CASE Cardinality(n.vars) # 1
  <2>1. PinName(n.vars, w) = w /\ w[1] # "x"
    BY <1>9 DEF PinName, IsName
  <2>2. w \in Outs(gs) /\ Carries(F, w, n.vars, PinVector(n, unit))
    <3>1. CASE n.isLeaf
      <4>1. Cardinality(n.vars) = 2
        BY <1>1, <1>7, <1>9, <3>1
      <4>2. QED
        BY <1>5, <3>1, <4>1 DEF Written, PinVector
    <3>2. CASE ~ n.isLeaf
      BY <1>5, <3>2 DEF Written, PinVector
    <3>3. QED
      BY <3>1, <3>2
  <2>3. PICK j \in 1 .. Len(gs) : gs[j].out = w
    BY <2>2 DEF Outs
  <2>4. PinOK(F.vars, gs, w, Len(gs) + 1)
    <3>1. j \in 1 .. Len(gs) + 1 - 1
      OBVIOUS
    <3>2. QED
      BY <2>1, <2>3, <3>1 DEF PinOK
  <2>5. ASSUME NEW a \in SUBSET F.vars
        PROVE  CarriesBit(SignalBit(F, w, a), n.vars, PinVector(n, unit), a \cap n.vars)
    <3>1. SignalBit(F, w, a) = IF a \in F.on[w] THEN 1 ELSE 0
      BY <2>1 DEF SignalBit
    <3>2. a \in F.on[w] <=> a \cap n.vars \in PinVector(n, unit)
      BY <2>2 DEF Carries
    <3>3. QED
      BY <1>9, <3>1, <3>2 DEF CarriesBit, IsBit
  <2>6. n.table # NoVec
    <3>1. CASE n.isLeaf
      <4>1. Cardinality(n.vars) = 2
        BY <1>1, <1>7, <1>9, <3>1
      <4>2. QED
        BY <3>1, <4>1 DEF Written
    <3>2. QED
      BY <1>6, <3>1
  <2>7. QED
    BY <1>4, <1>5, <2>1, <2>4, <2>5, <2>6 DEF PinShape
<1>10. QED
  BY <1>8, <1>9

LEMMA ThreeVariables ==
  ASSUME NEW rows, NEW cols, Parted(rows, cols), ~ (Cardinality(rows \cup cols) <= 2)
  PROVE  ~ (Cardinality(rows) = 1 /\ Cardinality(cols) = 1)
<1>1. IsFiniteSet(rows) /\ IsFiniteSet(cols) /\ rows \cap cols = {}
  BY DEF Parted
<1>2. Cardinality(rows \cup cols) = Cardinality(rows) + Cardinality(cols) - Cardinality(rows \cap cols)
  BY <1>1, FS_Union
<1>3. Cardinality(rows \cap cols) = 0
  BY <1>1, FS_EmptySet, SMTT(40)
<1>4. QED
  BY <1>2, <1>3

\* What the unit that is traced for a node's gate is.
TracedOK(node, t) ==
    /\ Parted(t.rows, t.cols) /\ t.rows \cup t.cols = node.vars
    /\ Variables(t.rows) /\ Variables(t.cols)
    /\ IsMap(t.appx, t.rows, t.cols)
    /\ t.rows = node.chosen.unit.rows /\ t.cols = node.chosen.unit.cols
    /\ ~ t.isLeaf

LEMMA TracedGate ==
  ASSUME NEW F, NEW c, IsCall(F, c), c.at = "trace", NEW gs, Len(gs) \in Nat, KnowsWritten(F, gs, c),
         NEW t, t = Traced(c.node.chosen.unit, c.left, c.right), ~ TraceFails(t)
  PROVE  /\ PinOK(F.vars, gs, PinName(t.cols, Append(c.out, 1)), Len(gs) + 1)
         /\ PinOK(F.vars, gs, PinName(t.rows, Append(c.out, 2)), Len(gs) + 1)
         /\ \A a \in SUBSET F.vars :
               <<SignalBit(F, PinName(t.cols, Append(c.out, 1)), a),
                 SignalBit(F, PinName(t.rows, Append(c.out, 2)), a)>> \in TwoByTwo(t)
                    <=> a \cap c.node.vars \in TableOf(t.appx, t.rows, t.cols)
         /\ TracedOK(c.node, t)
         /\ Shallow(c.node) => t = c.node.chosen.unit
<1> DEFINE n == c.node
           u == n.chosen.unit
           nl == n.chosen.left
           nr == n.chosen.right
           l == c.left
           r == c.right
           rows == u.rows
           cols == u.cols
<1>1. /\ TreeOK(n) /\ n.vars \in SUBSET F.vars /\ IsName(c.out) /\ ~ n.isLeaf
      /\ NodeOK(n) /\ TreeOK(nl) /\ TreeOK(nr)
  BY TreeOpen DEF IsCall
<1>2. /\ Variables(n.vars) /\ TableOver(n.vars, n.table) /\ SplitOf(u, n.vars, n.table)
      /\ u.hasMap /\ ~ u.isLeaf /\ IsLeft(nl, u) /\ IsRight(nr, u) /\ ~ (Cardinality(n.vars) <= 2)
  BY <1>1 DEF NodeOK, IsNode, IsBranch
<1> HIDE DEF u
<1>3. /\ Parted(rows, cols) /\ rows \cup cols = n.vars /\ Variables(rows) /\ Variables(cols)
      /\ UnitOK(u, rows, cols)
  BY <1>2, SplitShape
<1>4. IsUnit(u)
  BY <1>2, UnitIsUnit DEF SplitOf
<1>5. /\ nl.vars = cols /\ nl.table = u.majRow /\ (nl.isLeaf <=> Cardinality(cols) <= 2)
      /\ nr.vars = rows /\ nr.table = u.majCol /\ (nr.isLeaf <=> Cardinality(rows) <= 2)
  BY <1>2, <1>3 DEF IsLeft, IsRight, IsChild, UnitOK
<1>6. /\ Written(F, gs, nl, l, Append(c.out, 1)) /\ Written(F, gs, nr, r, Append(c.out, 2))
      /\ IsName(Append(c.out, 1)) /\ IsName(Append(c.out, 2))
  BY <1>1, NamesAppend DEF KnowsWritten
<1> HIDE DEF n, nl, nr, l, r
<1>7. /\ PinOK(F.vars, gs, PinName(cols, Append(c.out, 1)), Len(gs) + 1)
      /\ \A a \in SUBSET F.vars :
            CarriesBit(SignalBit(F, PinName(cols, Append(c.out, 1)), a), cols, PinVector(nl, l), a \cap cols)
      /\ l.isLeaf <=> nl.isLeaf
      /\ nl.isLeaf => l = NoUnit
      /\ u.majRow = NoVec => nl.isLeaf /\ Cardinality(cols) = 1
      /\ ~ nl.isLeaf => l.rows \cup l.cols = cols
  <2>1. IsPart(F, nl)
    BY <1>1, <1>3, <1>5 DEF IsPart
  <2>2. PinShape(F, gs, nl, l, Append(c.out, 1))
    BY <1>6, <2>1, ChildPin
  <2>3. QED
    BY <1>5, <2>2 DEF PinShape
<1>8. /\ PinOK(F.vars, gs, PinName(rows, Append(c.out, 2)), Len(gs) + 1)
      /\ \A a \in SUBSET F.vars :
            CarriesBit(SignalBit(F, PinName(rows, Append(c.out, 2)), a), rows, PinVector(nr, r), a \cap rows)
      /\ r.isLeaf <=> nr.isLeaf
      /\ nr.isLeaf => r = NoUnit
      /\ u.majCol = NoVec => nr.isLeaf /\ Cardinality(rows) = 1
      /\ ~ nr.isLeaf => r.rows \cup r.cols = rows
  <2>1. IsPart(F, nr)
    BY <1>1, <1>3, <1>5 DEF IsPart
  <2>2. PinShape(F, gs, nr, r, Append(c.out, 2))
    BY <1>6, <2>1, ChildPin
  <2>3. QED
    BY <1>5, <2>2 DEF PinShape
<1>9. /\ IsMap(u.appx, rows, cols)
      /\ u.majRow # NoVec => Uneven(cols, u.majRow) /\ \E a \in SUBSET rows : u.appx[a] = u.majRow
      /\ u.majCol # NoVec => Uneven(rows, u.majCol) /\ \E b \in SUBSET cols : Column(u.appx, b) = u.majCol
      /\ FollowsRows(u.appx, rows, cols, u.majRow) /\ FollowsCols(u.appx, rows, cols, u.majCol)
  BY <1>3 DEF UnitOK, FollowsRows, FollowsCols
<1>10. SetBefore(l, cols, u.majRow) /\ SetBefore(r, rows, u.majCol)
  BY <1>7, <1>8, <1>9 DEF SetBefore
<1>11. NoAssignment \notin SUBSET (rows \cup cols)
  BY <1>2, <1>3 DEF Variables
<1>12. t = Traced(u, l, r)
  BY DEF u, n, l, r
<1>13. /\ t.rows = rows /\ t.cols = cols /\ t.isLeaf = u.isLeaf /\ IsMap(t.appx, rows, cols)
       /\ l.isLeaf /\ r.isLeaf => t = u
  BY <1>4, <1>9, <1>10, <1>12, TracedFields DEF SubOf, SetBefore
<1>14. /\ FollowsRows(t.appx, rows, cols, t.majRow) /\ FollowsCols(t.appx, rows, cols, t.majCol)
       /\ (\E a \in SUBSET rows : u.appx[a] = u.majRow) /\ r.isLeaf =>
             \E a \in SUBSET rows : t.appx[a] = t.majRow
       /\ (\E b \in SUBSET cols : Column(u.appx, b) = u.majCol) /\ l.isLeaf =>
             \E b \in SUBSET cols : Column(t.appx, b) = t.majCol
       /\ t.majRow = IF l.isLeaf THEN u.majRow ELSE TableOf(l.appx, l.rows, l.cols)
       /\ t.majCol = IF r.isLeaf THEN u.majCol ELSE TableOf(r.appx, r.rows, r.cols)
  <2>1. /\ FollowsRows(Traced(u, l, r).appx, u.rows, u.cols, Traced(u, l, r).majRow)
        /\ FollowsCols(Traced(u, l, r).appx, u.rows, u.cols, Traced(u, l, r).majCol)
        /\ (\E a \in SUBSET u.rows : u.appx[a] = u.majRow) /\ r.isLeaf =>
              \E a \in SUBSET u.rows : Traced(u, l, r).appx[a] = Traced(u, l, r).majRow
        /\ (\E b \in SUBSET u.cols : Column(u.appx, b) = u.majCol) /\ l.isLeaf =>
              \E b \in SUBSET u.cols : Column(Traced(u, l, r).appx, b) = Traced(u, l, r).majCol
        /\ Traced(u, l, r).majRow = IF l.isLeaf THEN u.majRow ELSE TableOf(l.appx, l.rows, l.cols)
        /\ Traced(u, l, r).majCol = IF r.isLeaf THEN u.majCol ELSE TableOf(r.appx, r.rows, r.cols)
    BY <1>4, <1>9, <1>10, <1>11, TracedFollows, ZenonT(40)
  <2>2. QED
    BY <1>12, <2>1
<1>15. PinVector(nl, l) = t.majRow /\ PinVector(nr, r) = t.majCol
  BY <1>5, <1>14 DEF PinVector
<1>16. /\ t.majRow # NoVec => t.majRow \in SUBSET SUBSET cols
       /\ t.majCol # NoVec => t.majCol \in SUBSET SUBSET rows
       /\ ~ l.isLeaf => t.majRow # NoVec
       /\ ~ r.isLeaf => t.majCol # NoVec
  <2>1. ~ l.isLeaf => t.majRow \in SUBSET SUBSET cols
    BY <1>7, <1>14, TableIsVector
  <2>2. ~ r.isLeaf => t.majCol \in SUBSET SUBSET rows
    BY <1>8, <1>14, TableIsVector
  <2>3. NoAssignment \notin SUBSET rows /\ NoAssignment \notin SUBSET cols
    BY <1>3 DEF Variables
  <2>4. QED
    BY <1>9, <1>14, <2>1, <2>2, <2>3, VectorIsSet DEF Uneven
<1>17. TracedOK(n, t)
  BY <1>2, <1>3, <1>13 DEF TracedOK, u
<1>18. Shallow(n) => t = u
  <2>1. Shallow(n) => l.isLeaf /\ r.isLeaf
    BY <1>1, <1>7, <1>8 DEF Shallow, nl, nr, n
  <2>2. QED
    BY <1>13, <2>1
<1>19. ~ (Cardinality(rows) = 1 /\ Cardinality(cols) = 1)
  <2>1. Parted(rows, cols) /\ ~ (Cardinality(rows \cup cols) <= 2)
    BY <1>2, <1>3
  <2>2. QED
    BY <2>1, ThreeVariables
<1>20. Followed(t, rows, cols)
  BY <1>13, <1>14 DEF Followed
<1>21. \A V : Variables(V) => Cardinality(V) \in Nat /\ Cardinality(V) # 0
  BY FS_CardinalityType, FS_EmptySet DEF Variables
<1>22. ASSUME NEW a \in SUBSET F.vars
       PROVE  <<SignalBit(F, PinName(cols, Append(c.out, 1)), a),
                SignalBit(F, PinName(rows, Append(c.out, 2)), a)>> \in TwoByTwo(t)
                 <=> a \cap n.vars \in TableOf(t.appx, rows, cols)
  <2> DEFINE pl == SignalBit(F, PinName(cols, Append(c.out, 1)), a)
             pr == SignalBit(F, PinName(rows, Append(c.out, 2)), a)
             x == a \cap rows
             y == a \cap cols
  <2>1. CarriesBit(pl, cols, t.majRow, y) /\ CarriesBit(pr, rows, t.majCol, x)
    BY <1>7, <1>8, <1>15
  <2>2. a \cap n.vars \in TableOf(t.appx, rows, cols) <=> y \in t.appx[x]
    <3>1. (a \cap n.vars) \cap cols = y /\ (a \cap n.vars) \cap rows = x /\ a \cap n.vars \in SUBSET (rows \cup cols)
      BY <1>3
    <3>2. QED
      BY <3>1 DEF TableOf
  <2>3. x \in SUBSET rows /\ y \in SUBSET cols
    OBVIOUS
  <2> HIDE DEF pl, pr, x, y
  <2>4. IsBit(pl) /\ IsBit(pr)
    BY <2>1 DEF CarriesBit
  <2>5. t.majRow # NoVec \/ t.majCol # NoVec
    BY DEF TraceFails
  <2>6. CASE t.majRow # NoVec /\ t.majCol # NoVec
    <3>1. Searchable(cols, t.majRow)
      <4>1. Cardinality(cols) \in Nat /\ Cardinality(cols) # 0
        BY <1>3, <1>21
      <4>2. Cardinality(cols) # 1 => ~ Constant(cols, t.majRow)
        BY <1>13, <2>6, <4>1 DEF TraceFails, Searched
      <4>3. QED
        BY <1>16, <2>6, <4>2 DEF Searchable
    <3>2. Searchable(rows, t.majCol)
      <4>1. Cardinality(rows) \in Nat /\ Cardinality(rows) # 0
        BY <1>3, <1>21
      <4>2. Cardinality(rows) # 1 => ~ Constant(rows, t.majCol)
        BY <1>13, <2>6, <4>1 DEF TraceFails, Searched
      <4>3. QED
        BY <1>16, <2>6, <4>2 DEF Searchable
    <3>3. <<pl, pr>> \in TwoByTwo(t) <=> y \in t.appx[x]
      BY <1>3, <1>20, <2>1, <2>3, <2>6, <3>1, <3>2, BothSet
    <3>4. QED
      BY <2>2, <3>3 DEF pl, pr
  <2>7. CASE t.majCol = NoVec
    <3>1. t.majRow # NoVec /\ r.isLeaf /\ u.majCol = NoVec /\ Cardinality(rows) = 1
      BY <1>8, <1>14, <1>16, <2>5, <2>7
    <3>2. u.majRow # NoVec
      BY <1>10, <1>14, <3>1, SMTT(40) DEF SetBefore
    <3>3. RowOf(t)
      BY <1>9, <1>13, <1>14, <3>1, <3>2 DEF RowOf
    <3>4. Cardinality(cols) # 1
      BY <1>19, <3>1
    <3>5. FromRow(t, rows, cols)
      BY <1>20, <2>7, <3>1, <3>3, <3>4 DEF FromRow
    <3>6. <<pl, pr>> \in TwoByTwo(t) <=> y \in t.appx[x]
      BY <2>1, <2>3, <2>4, <3>5, OnlyRowSet
    <3>7. QED
      BY <2>2, <3>6 DEF pl, pr
  <2>8. CASE t.majRow = NoVec
    <3>1. t.majCol # NoVec /\ l.isLeaf /\ u.majRow = NoVec /\ Cardinality(cols) = 1
      BY <1>7, <1>14, <1>16, <2>5, <2>8
    <3>2. u.majCol # NoVec
      BY <1>10, <1>14, <3>1, SMTT(40) DEF SetBefore
    <3>3. ColumnOf(t)
      BY <1>9, <1>13, <1>14, <3>1, <3>2 DEF ColumnOf
    <3>4. Cardinality(rows) # 1
      BY <1>19, <3>1
    <3>5. FromColumn(t, rows, cols)
      BY <1>20, <2>8, <3>1, <3>3, <3>4 DEF FromColumn
    <3>6. <<pl, pr>> \in TwoByTwo(t) <=> y \in t.appx[x]
      BY <2>1, <2>3, <2>4, <3>5, OnlyColSet
    <3>7. QED
      BY <2>2, <3>6 DEF pl, pr
  <2>9. QED
    BY <2>6, <2>7, <2>8
<1>23. QED
  BY <1>7, <1>8, <1>13, <1>17, <1>18, <1>22 DEF n, u
\* The two variables of a leaf that is written as a gate.
LEMMA TwoVariables ==
  ASSUME NEW V, Variables(V), Cardinality(V) = 2
  PROVE  Min(V) \in V /\ Max(V) \in V /\ V = {Min(V), Max(V)}
<1>1. V \in SUBSET Int /\ IsFiniteSet(V) /\ V # {}
  BY DEF Variables
<1>2. PICK x : x \in V
  BY <1>1
<1>3. IsFiniteSet(V \ {x}) /\ Cardinality(V \ {x}) = 1
  BY <1>1, <1>2, FS_RemoveElement
<1>4. PICK y : V \ {x} = {y}
  BY <1>3, FS_Singleton
<1>5. V = {x, y} /\ x \in Int /\ y \in Int /\ x # y
  BY <1>1, <1>2, <1>4
<1>6. CASE x <= y
  <2>1. \A m \in V : (\A k \in V : m >= k) <=> m = y
    BY <1>5, <1>6
  <2>2. Max(V) = y
    BY <1>5, <2>1 DEF Max
  <2>3. \A m \in V : (\A k \in V : m <= k) <=> m = x
    BY <1>5, <1>6
  <2>4. Min(V) = x
    BY <1>5, <2>3 DEF Min
  <2>5. QED
    BY <1>5, <2>2, <2>4
<1>7. CASE y <= x
  <2>1. \A m \in V : (\A k \in V : m >= k) <=> m = x
    BY <1>5, <1>7
  <2>2. Max(V) = x
    BY <1>5, <2>1 DEF Max
  <2>3. \A m \in V : (\A k \in V : m <= k) <=> m = y
    BY <1>5, <1>7
  <2>4. Min(V) = y
    BY <1>5, <2>3 DEF Min
  <2>5. QED
    BY <1>5, <2>2, <2>4
<1>8. QED
  BY <1>5, <1>6, <1>7

\* A gate, to be written next, of which the output is a vector over a part.
GateFor(F, gs, g, V, vec) ==
    /\ PinOK(F.vars, gs, g.left, Len(gs) + 1) /\ PinOK(F.vars, gs, g.right, Len(gs) + 1)
    /\ \A a \in SUBSET F.vars : GateValue(F, g, a) \in g.on <=> a \cap V \in vec

LEMMA LeafGateOK ==
  ASSUME NEW F, NEW n, TreeOK(n), n.vars \in SUBSET F.vars, Cardinality(n.vars) = 2, n.table # NoVec,
         NEW out, NEW gs
  PROVE  LeafGate(n, out).out = out /\ GateFor(F, gs, LeafGate(n, out), n.vars, n.table)
<1> DEFINE lo == Min(n.vars)
           hi == Max(n.vars)
           unit == EmptyUnit({lo}, {hi})
           bits(l, r) == (IF r = 1 THEN unit.rows ELSE {}) \cup (IF l = 1 THEN unit.cols ELSE {})
           on == {p \in (0 .. 1) \X (0 .. 1) : bits(p[1], p[2]) \in n.table}
           g == LeafGate(n, out)
<1>1. Variables(n.vars)
  BY TreeOpen DEF NodeOK, IsNode
<1>2. lo \in n.vars /\ hi \in n.vars /\ n.vars = {lo, hi}
  BY <1>1, TwoVariables
<1>3. g = Gate(unit, out, on)
  BY DEF LeafGate
<1> HIDE DEF lo, hi, g
<1>4. unit.rows = {lo} /\ unit.cols = {hi}
  BY DEF EmptyUnit
<1> HIDE DEF unit
<1>5. /\ \A v : Cardinality({v}) = 1
      /\ \A v : (CHOOSE w \in {v} : TRUE) = v
  BY FS_Singleton
<1>6. PinName(unit.cols, Append(out, 1)) = <<"x", hi>> /\ PinName(unit.rows, Append(out, 2)) = <<"x", lo>>
  BY <1>4, <1>5 DEF PinName, InputName
<1> HIDE DEF on
<1>7. g.left = <<"x", hi>> /\ g.right = <<"x", lo>> /\ g.out = out /\ g.on = on
  BY <1>3, <1>6 DEF Gate
<1>8. PinOK(F.vars, gs, g.left, Len(gs) + 1) /\ PinOK(F.vars, gs, g.right, Len(gs) + 1)
  BY <1>2, <1>7 DEF PinOK
<1>9. ASSUME NEW a \in SUBSET F.vars
      PROVE  GateValue(F, g, a) \in g.on <=> a \cap n.vars \in n.table
  <2> DEFINE pl == IF hi \in a THEN 1 ELSE 0
             pr == IF lo \in a THEN 1 ELSE 0
  <2>1. GateValue(F, g, a) = <<pl, pr>>
    BY <1>7 DEF GateValue, SignalBit
  <2>2. <<pl, pr>> \in (0 .. 1) \X (0 .. 1)
    OBVIOUS
  <2>3. (pl = 1 <=> hi \in a) /\ (pr = 1 <=> lo \in a)
    OBVIOUS
  <2> HIDE DEF pl, pr
  <2>4. bits(pl, pr) = a \cap n.vars
    BY <1>2, <1>4, <2>3
  <2>5. <<pl, pr>> \in on <=> bits(pl, pr) \in n.table
    BY <2>2 DEF on
  <2>6. QED
    BY <1>7, <2>1, <2>4, <2>5
<1>10. QED
  BY <1>7, <1>8, <1>9 DEF GateFor, g
-----------------------------------------------------------------------------
(* The invariant of the writing.                                           *)

Drawn(F) ==
    /\ F.vars = input.vars /\ F.root = tree
    /\ Circuit(F, gates)
    /\ CallsOK(F, gates, calls)

\* The circuit is complete, and the unit of the root is what its children
\* made of it.
Finished(F) ==
    /\ F.vars = input.vars
    /\ Circuit(F, gates)
    /\ Output \in Outs(gates)
    /\ Carries(F, Output, F.vars, TableOf(traced.appx, traced.rows, traced.cols))
    /\ TracedOK(tree, traced)
    /\ Flat(tree) => traced = Traced(tree.chosen.unit, tree.chosen.left.chosen.unit,
                                     tree.chosen.right.chosen.unit)

WriteInv ==
    /\ pc \in {"search", "search failed"} => gates = <<>>
    /\ pc = "write" => \E F : Drawn(F)
    /\ pc = "done" => \E F : Finished(F)

LEMMA ChildCall ==
  ASSUME NEW F, NEW c, IsCall(F, c), ~ c.node.isLeaf, NEW x \in {1, 2},
         NEW n \in {c.node.chosen.left, c.node.chosen.right}
  PROVE  /\ IsCall(F, Call(n, Append(c.out, x))) /\ Call(n, Append(c.out, x)).at = "left"
         /\ Call(n, Append(c.out, x)).node = n /\ Call(n, Append(c.out, x)).out = Append(c.out, x)
<1> DEFINE w == Append(c.out, x)
           d == Call(n, w)
<1>1. TreeOK(c.node) /\ c.node.vars \in SUBSET F.vars /\ IsName(c.out)
  BY DEF IsCall
<1>2. d = CallOf(n, w, "left", NoUnit, NoUnit)
  BY DEF Call, CallOf
<1> HIDE DEF d, w
<1>3. d.node = n /\ d.out = w /\ d.at = "left"
      /\ d = CallOf(d.node, d.out, d.at, d.left, d.right)
  BY <1>2, CallFields
<1>4. TreeOK(n) /\ NodeOK(c.node)
  BY <1>1, TreeOpen
<1>5. n.vars \in SUBSET F.vars
  <2>1. /\ IsBranch(c.node.chosen, c.node.vars, c.node.table)
        /\ Variables(c.node.vars) /\ TableOver(c.node.vars, c.node.table)
    BY <1>4 DEF NodeOK, IsNode
  <2>2. n.vars = c.node.chosen.unit.cols \/ n.vars = c.node.chosen.unit.rows
    BY <2>1 DEF IsBranch, IsLeft, IsRight, IsChild
  <2>3. c.node.chosen.unit.rows \cup c.node.chosen.unit.cols = c.node.vars
    BY <2>1, SplitShape DEF IsBranch
  <2>4. QED
    BY <1>1, <2>2, <2>3
<1>6. IsName(w)
  BY <1>1, NamesAppend DEF w
<1>7. IsCall(F, d)
  BY <1>3, <1>4, <1>5, <1>6 DEF IsCall
<1>8. QED
  BY <1>3, <1>7 DEF d, w

\* A step of the writing that leaves more of the circuit to be written.
LEMMA StillWriting ==
  ASSUME NEW F, F.vars = input.vars, F.root = tree, NEW hs, NEW s, Circuit(F, hs), CallsOK(F, hs, s),
         gates' = hs, calls' = s, UNCHANGED <<input, tree>>, pc' = "write"
  PROVE  WriteInv'
<1>1. F.vars = input'.vars /\ F.root = tree' /\ Circuit(F, gates') /\ CallsOK(F, gates', calls')
  OBVIOUS
<1>2. Drawn(F)'
  BY <1>1 DEF Drawn
<1>3. (\E G : Drawn(G))'
  BY <1>2
<1>4. QED
  BY <1>3 DEF WriteInv

\* The first activation, before anything is written.
LEMMA FirstCall ==
  ASSUME NEW n, TreeOK(n), ~ n.isLeaf
  PROVE  \E F : F.vars = n.vars /\ F.root = n /\ Circuit(F, <<>>) /\ CallsOK(F, <<>>, << Call(n, Output) >>)
<1> DEFINE c == Call(n, Output)
           F == [vars |-> n.vars, root |-> n, on |-> <<>>]
           s == << c >>
<1>1. c = CallOf(n, Output, "left", NoUnit, NoUnit)
  BY DEF Call, CallOf
<1>2. F.vars = n.vars /\ F.root = n
  OBVIOUS
<1> HIDE DEF c, F
<1>3. c.node = n /\ c.out = Output /\ c.at = "left"
      /\ c = CallOf(c.node, c.out, c.at, c.left, c.right)
  BY <1>1, CallFields
<1>4. IsName(Output)
  BY DEF IsName, Output
<1>5. IsCall(F, c)
  BY <1>2, <1>3, <1>4 DEF IsCall
<1>6. KnowsWritten(F, <<>>, c)
  BY <1>3 DEF KnowsWritten
<1>7. Circuit(F, <<>>)
  <2>1. <<>> \in Seq({}) /\ Len(<<>>) = 0
    OBVIOUS
  <2>2. QED
    BY <2>1 DEF Circuit
<1>8. s \in Seq({c}) /\ Len(s) = 1 /\ s[1] = c /\ s # <<>>
  OBVIOUS
<1>9. Outs(<<>>) = {}
  BY DEF Outs
<1> HIDE DEF s
<1>10. CallsOK(F, <<>>, s)
  <2>1. \A i \in 1 .. Len(s) : i = 1
    BY <1>8
  <2>2. \A j \in 1 .. Len(s) : 1 .. j - 1 = {}
    BY <1>8
  <2>3. 1 .. Len(s) - 1 = {}
    BY <1>8
  <2>4. QED
    BY <1>2, <1>3, <1>5, <1>6, <1>8, <1>9, <2>1, <2>2, <2>3 DEF CallsOK
<1>11. QED
  BY <1>2, <1>7, <1>10 DEF s, c

LEMMA StartWriting ==
  ASSUME SearchInv, WriteInv, Return, Below = <<>>
  PROVE  WriteInv'
<1>1. /\ calls' = << Call(Top.node, Output) >> /\ tree' = Top.node /\ pc' = "write" /\ input' = input
      /\ gates' = gates
  BY DEF Return
<1>2. gates = <<>>
  BY DEF Return, Searching, WriteInv
<1>3. SearchInv'
  BY ReturnKeeps
<1>4. TreeOK(tree') /\ tree'.vars = input'.vars /\ ~ tree'.isLeaf
  BY <1>1, <1>3 DEF SearchInv, IsRoot
<1>5. PICK F : /\ F.vars = tree'.vars /\ F.root = tree' /\ Circuit(F, <<>>)
               /\ CallsOK(F, <<>>, << Call(tree', Output) >>)
  BY <1>4, FirstCall
<1>6. F.vars = input'.vars /\ F.root = tree' /\ Circuit(F, gates') /\ CallsOK(F, gates', calls')
  BY <1>1, <1>2, <1>4, <1>5
<1>7. Drawn(F)'
  BY <1>6 DEF Drawn
<1>8. (\E G : Drawn(G))'
  BY <1>7
<1>9. QED
  BY <1>1, <1>8 DEF WriteInv

\* What is known of the activation at the top.
LEMMA HereIsCall ==
  ASSUME NEW F, Drawn(F)
  PROVE  /\ \E S : calls \in Seq(S) /\ Callers \in Seq(S)
         /\ Len(calls) \in Nat /\ Len(calls) > 0 /\ Len(Callers) = Len(calls) - 1
         /\ Here = calls[Len(calls)] /\ IsCall(F, Here) /\ KnowsWritten(F, gates, Here)
         /\ TreeOK(Here.node) /\ Here.node.vars \in SUBSET F.vars
         /\ \E S : gates \in Seq(S)
         /\ Len(gates) \in Nat
<1>1. PICK S : calls \in Seq(S)
  BY DEF Drawn, CallsOK
<1>2. calls # <<>>
  BY DEF Drawn, CallsOK
<1>3. /\ Len(calls) \in Nat /\ Len(calls) > 0 /\ Callers \in Seq(S) /\ Len(Callers) = Len(calls) - 1
  BY <1>1, <1>2, BelowTop DEF Callers
<1>4. Len(calls) \in 1 .. Len(calls)
  BY <1>3
<1>5. IsCall(F, Here) /\ KnowsWritten(F, gates, Here)
  BY <1>4 DEF Drawn, CallsOK, Here
<1>6. PICK T : gates \in Seq(T)
  BY DEF Drawn, Circuit
<1>7. Len(gates) \in Nat
  BY <1>6
<1>8. QED
  BY <1>1, <1>3, <1>5, <1>6, <1>7 DEF IsCall, Here

LEMMA WriteLeftKeeps ==
  ASSUME SearchInv, WriteInv, WriteLeft
  PROVE  WriteInv'
<1> DEFINE d == Call(Here.node.chosen.left, Append(Here.out, 1))
<1>1. /\ pc = "write" /\ Here.at = "left" /\ ~ Here.node.isLeaf /\ calls' = Append(calls, d)
      /\ UNCHANGED <<input, tree, gates, pc>>
  BY DEF WriteLeft, Writing
<1>2. PICK F : Drawn(F)
  BY <1>1 DEF WriteInv
<1>3. IsCall(F, Here) /\ Here = calls[Len(calls)]
  BY <1>2, HereIsCall
<1>4. F.vars = input.vars /\ F.root = tree
  BY <1>2 DEF Drawn
<1>5. IsCall(F, d) /\ d.at = "left" /\ d.node = Here.node.chosen.left /\ d.out = Append(Here.out, 1)
  BY <1>1, <1>3, ChildCall
<1> HIDE DEF d
<1>6. Waits(calls[Len(calls)], d)
  BY <1>1, <1>3, <1>5 DEF Waits
<1>7. CallsOK(F, gates, Append(calls, d)) /\ Circuit(F, gates)
  BY <1>2, <1>5, <1>6, CallsCall DEF Drawn
<1>8. QED
  BY <1>1, <1>4, <1>7, StillWriting

LEMMA WriteRightKeeps ==
  ASSUME SearchInv, WriteInv, WriteRight
  PROVE  WriteInv'
<1> DEFINE d == Call(Here.node.chosen.right, Append(Here.out, 2))
<1>1. /\ pc = "write" /\ Here.at = "right" /\ calls' = Append(calls, d)
      /\ UNCHANGED <<input, tree, gates, pc>>
  BY DEF WriteRight, Writing
<1>2. PICK F : Drawn(F)
  BY <1>1 DEF WriteInv
<1>3. IsCall(F, Here) /\ Here = calls[Len(calls)] /\ ~ Here.node.isLeaf
  BY <1>1, <1>2, HereIsCall DEF IsCall
<1>4. F.vars = input.vars /\ F.root = tree
  BY <1>2 DEF Drawn
<1>5. IsCall(F, d) /\ d.at = "left" /\ d.node = Here.node.chosen.right /\ d.out = Append(Here.out, 2)
  BY <1>3, ChildCall
<1> HIDE DEF d
<1>6. Waits(calls[Len(calls)], d)
  BY <1>1, <1>3, <1>5 DEF Waits
<1>7. CallsOK(F, gates, Append(calls, d)) /\ Circuit(F, gates)
  BY <1>2, <1>5, <1>6, CallsCall DEF Drawn
<1>8. QED
  BY <1>1, <1>4, <1>7, StillWriting
-----------------------------------------------------------------------------
(* The steps that write a gate or return.                                  *)

LEMMA ReturnsToCaller ==
  ASSUME NEW unit, ReturnUnit(unit), Callers # <<>>
  PROVE  /\ calls' = [Callers EXCEPT ![Len(Callers)] = Resumed(Callers[Len(Callers)], unit)]
         /\ pc' = pc
  BY DEF ReturnUnit, Resumed

\* An activation has written what it had to write, and returns to the one
\* that waits for it.
LEMMA ReturnsUnit ==
  ASSUME NEW F, Drawn(F), pc = "write", NEW unit, ReturnUnit(unit), Callers # <<>>, UNCHANGED <<input, tree>>,
         NEW G, NEW hs, Circuit(G, hs), Grown(F, gates, G, hs), gates' = hs,
         \A w \in Outs(hs) : w \in Outs(gates) \/ w = Here.out,
         Written(G, hs, Here.node, unit, Here.out)
  PROVE  WriteInv'
<1> DEFINE t == [Callers EXCEPT ![Len(Callers)] = Resumed(Callers[Len(Callers)], unit)]
<1>1. calls' = t /\ pc' = "write"
  BY ReturnsToCaller
<1>2. CallsOK(F, gates, calls) /\ F.vars = input.vars /\ F.root = tree
  BY DEF Drawn
<1>3. Callers = SubSeq(calls, 1, Len(calls) - 1) /\ Here = calls[Len(calls)]
  BY DEF Callers, Here
<1>4. CallsOK(G, hs, t)
  BY <1>2, <1>3, CallsReturn
<1>5. G.vars = input.vars /\ G.root = tree
  BY <1>2 DEF Grown
<1> HIDE DEF t
<1>6. QED
  BY <1>1, <1>4, <1>5, StillWriting

LEMMA RootReturns ==
  ASSUME NEW F, Drawn(F), Callers = <<>>
  PROVE  Here.node = tree /\ Here.out = Output
<1>1. Len(calls) \in Nat /\ Len(calls) > 0 /\ Len(Callers) = Len(calls) - 1 /\ Here = calls[Len(calls)]
  BY HereIsCall
<1>2. Len(calls) = 1
  BY <1>1
<1>3. QED
  BY <1>1, <1>2 DEF Drawn, CallsOK

LEMMA WriteLeafKeeps ==
  ASSUME SearchInv, WriteInv, WriteLeaf
  PROVE  WriteInv'
<1> DEFINE n == Here.node
           w == Here.out
<1>1. pc = "write" /\ n.isLeaf /\ ReturnUnit(NoUnit) /\ UNCHANGED <<input, tree>>
  BY DEF WriteLeaf, Writing
<1>2. PICK F : Drawn(F)
  BY <1>1 DEF WriteInv
<1>3. /\ IsCall(F, Here) /\ TreeOK(n) /\ n.vars \in SUBSET F.vars /\ Len(gates) \in Nat
      /\ \E S : gates \in Seq(S)
  BY <1>2, HereIsCall
<1>4. Callers # <<>>
  <2>1. ~ tree.isLeaf
    BY <1>1 DEF SearchInv, IsRoot
  <2>2. QED
    BY <1>1, <1>2, <2>1, RootReturns
<1>5. n.chosen.unit = NoUnit
  BY <1>1, <1>3, TreeOpen DEF NodeOK, Unchosen
<1>6. Circuit(F, gates) /\ F.vars = input.vars
  BY <1>2 DEF Drawn
<1>7. CASE Cardinality(n.vars) # 2 /\ gates' = gates
  <2>1. Grown(F, gates, F, gates)
    BY DEF Grown
  <2>2. Written(F, gates, n, NoUnit, w)
    BY <1>1, <1>5, <1>7 DEF Written
  <2>3. \A v \in Outs(gates) : v \in Outs(gates) \/ v = Here.out
    OBVIOUS
  <2>4. QED
    BY <1>1, <1>2, <1>4, <1>6, <1>7, <2>1, <2>2, <2>3, ReturnsUnit
<1>8. CASE Cardinality(n.vars) = 2 /\ n.table # NoVec /\ gates' = Append(gates, LeafGate(n, w))
  <2> DEFINE g == LeafGate(n, w)
             hs == Append(gates, g)
  <2>1. g.out = w /\ GateFor(F, gates, g, n.vars, n.table)
    BY <1>3, <1>8, LeafGateOK
  <2>2. w \notin Outs(gates)
    BY <1>2, FreshName DEF Drawn, Here
  <2> HIDE DEF g
  <2>3. PICK G : Extended(F, gates, g, G)
    BY <1>6, <2>1, <2>2, CircuitExtends DEF GateFor
  <2>4. Outs(hs) = Outs(gates) \cup {w}
    BY <1>3, <2>1, OutsAppend
  <2> HIDE DEF hs
  <2>5. Circuit(G, hs) /\ Grown(F, gates, G, hs)
    BY <2>3, <2>4 DEF Extended, Grown, hs
  <2>6. Carries(G, w, n.vars, n.table)
    BY <2>1, <2>3 DEF Extended, Carries, GateFor
  <2>7. Written(G, hs, n, NoUnit, w)
    BY <1>1, <1>5, <1>8, <2>4, <2>6 DEF Written
  <2>8. gates' = hs /\ \A v \in Outs(hs) : v \in Outs(gates) \/ v = Here.out
    BY <1>8, <2>4 DEF hs, g
  <2>9. QED
    BY <1>1, <1>2, <1>4, <2>5, <2>7, <2>8, ReturnsUnit
<1>9. QED
  BY <1>7, <1>8 DEF WriteLeaf

LEMMA WriteGateKeeps ==
  ASSUME SearchInv, WriteInv, WriteGate
  PROVE  WriteInv'
<1> DEFINE c == Here
           n == c.node
           w == c.out
           t == TracedUnit
           g == Gate(t, w, TwoByTwo(t))
           hs == Append(gates, g)
<1>1. /\ pc = "write" /\ c.at = "trace" /\ ~ TraceFails(t) /\ ReturnUnit(t) /\ gates' = hs
      /\ UNCHANGED <<input, tree>>
  BY DEF WriteGate, Writing
<1>2. PICK F : Drawn(F)
  BY <1>1 DEF WriteInv
<1>3. /\ IsCall(F, c) /\ KnowsWritten(F, gates, c) /\ Len(gates) \in Nat
      /\ \E S : gates \in Seq(S)
  BY <1>2, HereIsCall
<1>4. Circuit(F, gates) /\ F.vars = input.vars /\ F.root = tree
  BY <1>2 DEF Drawn
<1>5. t = Traced(c.node.chosen.unit, c.left, c.right)
  BY DEF TracedUnit
<1>6. g.left = PinName(t.cols, Append(w, 1)) /\ g.right = PinName(t.rows, Append(w, 2))
      /\ g.out = w /\ g.on = TwoByTwo(t)
  BY DEF Gate
<1>7. w \notin Outs(gates)
  BY <1>2, FreshName DEF Drawn, Here
<1> HIDE DEF c, t, g
<1>8. /\ PinOK(F.vars, gates, PinName(t.cols, Append(w, 1)), Len(gates) + 1)
      /\ PinOK(F.vars, gates, PinName(t.rows, Append(w, 2)), Len(gates) + 1)
      /\ \A a \in SUBSET F.vars :
            <<SignalBit(F, PinName(t.cols, Append(w, 1)), a),
              SignalBit(F, PinName(t.rows, Append(w, 2)), a)>> \in TwoByTwo(t)
                 <=> a \cap n.vars \in TableOf(t.appx, t.rows, t.cols)
      /\ TracedOK(n, t)
      /\ Shallow(n) => t = n.chosen.unit
  BY <1>1, <1>3, <1>5, TracedGate
<1>9. \A a \in SUBSET F.vars : GateValue(F, g, a) \in g.on <=> a \cap n.vars \in TableOf(t.appx, t.rows, t.cols)
  BY <1>6, <1>8 DEF GateValue
<1>10. PICK G : Extended(F, gates, g, G)
  BY <1>4, <1>6, <1>7, <1>8, CircuitExtends
<1>11. Outs(hs) = Outs(gates) \cup {w}
  BY <1>3, <1>6, OutsAppend
<1> HIDE DEF hs
<1>12. Circuit(G, hs) /\ Grown(F, gates, G, hs)
  BY <1>10, <1>11 DEF Extended, Grown, hs
<1>13. Carries(G, w, n.vars, TableOf(t.appx, t.rows, t.cols))
  BY <1>6, <1>9, <1>10, SMTT(40) DEF Extended, Carries
<1>14. ~ n.isLeaf
  BY <1>1, <1>3 DEF IsCall
<1>15. Written(G, hs, n, t, w)
  BY <1>8, <1>11, <1>13, <1>14 DEF Written, TracedOK
<1>16. CASE Callers # <<>>
  <2>1. \A v \in Outs(hs) : v \in Outs(gates) \/ v = Here.out
    BY <1>11 DEF c
  <2>2. Written(G, hs, Here.node, t, Here.out)
    BY <1>15 DEF c
  <2>3. QED
    BY <1>1, <1>2, <1>12, <1>16, <2>1, <2>2, ReturnsUnit
<1>17. CASE Callers = <<>>
  <2>1. traced' = t /\ pc' = "done"
    BY <1>1, <1>17 DEF ReturnUnit
  <2>2. n = tree /\ w = Output
    BY <1>2, <1>17, RootReturns DEF c
  <2>3. F.vars = tree.vars
    BY <1>1, <1>4 DEF SearchInv, IsRoot
  <2>4. G.vars = F.vars
    BY <1>12 DEF Grown
  <2>5. Flat(tree) => t = Traced(tree.chosen.unit, tree.chosen.left.chosen.unit, tree.chosen.right.chosen.unit)
    <3>1. /\ Shallow(tree.chosen.left) => c.left = tree.chosen.left.chosen.unit
          /\ Shallow(tree.chosen.right) => c.right = tree.chosen.right.chosen.unit
      BY <1>1, <1>3, <2>2 DEF KnowsWritten, Written
    <3>2. Flat(tree) => Shallow(tree.chosen.left) /\ Shallow(tree.chosen.right)
      BY DEF Flat, Shallow
    <3>3. QED
      BY <1>5, <2>2, <3>1, <3>2
  <2>6. Carries(G, Output, G.vars, TableOf(t.appx, t.rows, t.cols))
    BY <1>13, <2>2, <2>3, <2>4
  <2>7. /\ G.vars = input'.vars /\ Circuit(G, gates') /\ Output \in Outs(gates')
        /\ Carries(G, Output, G.vars, TableOf(traced'.appx, traced'.rows, traced'.cols))
        /\ TracedOK(tree', traced')
        /\ Flat(tree') => traced' = Traced(tree'.chosen.unit, tree'.chosen.left.chosen.unit,
                                           tree'.chosen.right.chosen.unit)
    BY <1>1, <1>4, <1>8, <1>11, <1>12, <2>1, <2>2, <2>4, <2>5, <2>6
  <2>8. Finished(G)'
    BY <2>7 DEF Finished
  <2>9. (\E H : Finished(H))'
    BY <2>8
  <2>10. QED
    BY <2>1, <2>9 DEF WriteInv
<1>18. QED
  BY <1>16, <1>17

LEMMA WriteInit == Init => WriteInv
  BY DEF Init, WriteInv

\* The search writes nothing, and a step that stops leaves what is written.
LEMMA OthersWriteNothing ==
  ASSUME WriteInv,
         \/ Approximate \/ Prune \/ VisitRight \/ VisitLeft \/ Trace \/ TraceError \/ WriteError
         \/ Return /\ Below # <<>>
         \/ UNCHANGED vars
  PROVE  WriteInv'
<1>1. CASE UNCHANGED vars
  <2>1. UNCHANGED <<input, pc, tree, calls, gates, traced>>
    BY <1>1 DEF vars
  <2>2. (\E F : Drawn(F)) => (\E F : Drawn(F))'
    BY <2>1 DEF Drawn
  <2>3. (\E F : Finished(F)) => (\E F : Finished(F))'
    BY <2>1 DEF Finished
  <2>4. QED
    BY <2>1, <2>2, <2>3 DEF WriteInv
<1>2. CASE Approximate \/ Prune \/ VisitRight \/ VisitLeft \/ Trace \/ TraceError \/ (Return /\ Below # <<>>)
  <2>1. pc = "search" /\ pc' \in {"search", "search failed"} /\ gates' = gates
    BY <1>2 DEF Approximate, Prune, VisitRight, VisitLeft, Trace, TraceError, Return, Searching, written
  <2>2. QED
    BY <2>1 DEF WriteInv
<1>3. CASE WriteError
  BY <1>3 DEF WriteError, WriteInv
<1>4. QED
  BY <1>1, <1>2, <1>3

LEMMA WriteStep == SearchInv /\ WriteInv /\ [Next]_vars => WriteInv'
<1> SUFFICES ASSUME SearchInv, WriteInv, [Next]_vars PROVE WriteInv'
  OBVIOUS
<1>1. CASE Return
  BY <1>1, StartWriting, OthersWriteNothing
<1>2. CASE WriteLeaf
  BY <1>2, WriteLeafKeeps
<1>3. CASE WriteLeft
  BY <1>3, WriteLeftKeeps
<1>4. CASE WriteRight
  BY <1>4, WriteRightKeeps
<1>5. CASE WriteGate
  BY <1>5, WriteGateKeeps
<1>6. CASE \/ Approximate \/ Prune \/ VisitRight \/ VisitLeft \/ Trace \/ TraceError \/ WriteError
           \/ UNCHANGED vars
  BY <1>6, OthersWriteNothing
<1>7. QED
  BY <1>1, <1>2, <1>3, <1>4, <1>5, <1>6 DEF Next

(***************************************************************************)
(* The writing, for any table: every wire that has been written carries    *)
(* the table of its leaf or of the map traced for its node, the            *)
(* activations are a path in the tree from the root, and a wire is named   *)
(* below the part of the path that is done, so that no name is used twice  *)
(* (traceBack_binaryTree).                                                 *)
(***************************************************************************)
THEOREM WritingCorrect == Spec => [](SearchInv /\ WriteInv)
<1>1. Init => SearchInv /\ WriteInv
  BY SearchInit, WriteInit
<1>2. SearchInv /\ WriteInv /\ [Next]_vars => (SearchInv /\ WriteInv)'
  BY SearchStep, WriteStep
<1>3. QED
  BY <1>1, <1>2, PTL DEF Spec

-----------------------------------------------------------------------------
(* The circuit that is written.                                            *)

LEMMA FunctionOfCircuit ==
  ASSUME NEW F, Finished(F), SearchInv, pc = "done"
  PROVE  CircuitFunction = TableOf(traced.appx, traced.rows, traced.cols)
<1> DEFINE table == TableOf(traced.appx, traced.rows, traced.cols)
<1>1. /\ F.vars = input.vars /\ Circuit(F, gates) /\ Output \in Outs(gates)
      /\ Carries(F, Output, F.vars, table)
      /\ traced.rows \cup traced.cols = tree.vars
  BY DEF Finished, TracedOK
<1>2. tree.vars = input.vars
  BY DEF SearchInv, IsRoot
<1>3. table \in SUBSET SUBSET input.vars
  BY <1>1, <1>2 DEF TableOf
<1> HIDE DEF table
<1>4. ASSUME NEW a \in SUBSET input.vars
      PROVE  (\E wire \in Settled(a) : wire[Output] = 1) <=> a \in table
  <2>1. (\E wire \in Settled(a) : wire[Output] = 1) <=> a \in F.on[Output]
    BY <1>1, SettledOnce
  <2>2. a \cap F.vars = a
    BY <1>1
  <2>3. a \in F.on[Output] <=> a \in table
    BY <1>1, <2>2 DEF Carries
  <2>4. QED
    BY <2>1, <2>3
<1>5. CircuitFunction = table
  BY <1>3, <1>4 DEF CircuitFunction
<1>6. QED
  BY <1>5 DEF table

LEMMA ComputesTable == SearchInv /\ WriteInv => CircuitComputesTable
<1> SUFFICES ASSUME SearchInv, WriteInv, pc = "done" PROVE CircuitComputesTable
  BY DEF CircuitComputesTable
<1>1. PICK F : Finished(F)
  BY DEF WriteInv
<1>2. F.vars = input.vars /\ Circuit(F, gates) /\ Output \in Outs(gates)
  BY <1>1 DEF Finished
<1>3. PICK S : gates \in Seq(S)
  BY <1>2 DEF Circuit
<1>4. DOMAIN gates = 1 .. Len(gates)
  BY <1>3
<1>5. Output \in Wires
  BY <1>2, <1>4 DEF Wires, Outs
<1>6. ASSUME NEW i \in DOMAIN gates
      PROVE  /\ \A j \in DOMAIN gates \ {i} : gates[j].out # gates[i].out
             /\ \A pin \in {gates[i].left, gates[i].right} :
                   IF pin[1] = "x" THEN pin[2] \in input.vars
                   ELSE \E j \in 1 .. i - 1 : gates[j].out = pin
  <2>1. GateOK(F, gates, i)
    BY <1>2, <1>4 DEF Circuit
  <2>2. \A pin \in {gates[i].left, gates[i].right} : PinOK(F.vars, gates, pin, i)
    BY <2>1 DEF GateOK
  <2>3. \A j \in DOMAIN gates \ {i} : gates[j].out # gates[i].out
    BY <1>4, <2>1 DEF GateOK
  <2>4. QED
    BY <1>2, <2>2, <2>3 DEF PinOK
<1>7. CircuitFunction = TableOf(traced.appx, traced.rows, traced.cols)
  BY <1>1, FunctionOfCircuit
<1>8. QED
  BY <1>5, <1>6, <1>7 DEF CircuitComputesTable

(***************************************************************************)
(* For any table the circuit that is written computes the traced map of    *)
(* the root (traceBack_binaryTree, set_boolean_expression_for_appx_kmap_   *)
(* 2x2).                                                                   *)
(***************************************************************************)
THEOREM CircuitIsRight == Spec => []CircuitComputesTable
<1>1. QED
  BY WritingCorrect, ComputesTable, PTL

LEMMA ErrorOfCircuit == SearchInv /\ WriteInv => ExactErrorIsExact
<1> SUFFICES ASSUME SearchInv, WriteInv, pc = "done", Flat(tree)
             PROVE  Distance(CircuitFunction, input.on) = ChosenError
  BY DEF ExactErrorIsExact
<1> DEFINE u == tree.chosen.unit
           rows == u.rows
           cols == u.cols
<1>1. PICK F : Finished(F)
  BY DEF WriteInv
<1>2. /\ TracedOK(tree, traced)
      /\ traced = Traced(u, tree.chosen.left.chosen.unit, tree.chosen.right.chosen.unit)
  BY <1>1 DEF Finished
<1>3. CircuitFunction = TableOf(traced.appx, traced.rows, traced.cols)
  BY <1>1, FunctionOfCircuit
<1>4. NodeOK(tree) /\ ~ tree.isLeaf /\ tree.table = input.on
  BY TreeOpen DEF SearchInv, IsRoot
<1>5. /\ Variables(tree.vars) /\ TableOver(tree.vars, tree.table)
      /\ SplitOf(u, tree.vars, tree.table) /\ u.hasMap
  BY <1>4 DEF NodeOK, IsNode, IsBranch
<1> HIDE DEF u
<1>6. /\ Parted(rows, cols) /\ rows \cup cols = tree.vars /\ UnitOK(u, rows, cols)
      /\ u.kmap = MapOf(tree.table, rows, cols) /\ tree.table # NoVec
      /\ Variables(rows) /\ Variables(cols)
  BY <1>5, SplitShape, SMTT(40)
<1>7. traced.rows = rows /\ traced.cols = cols /\ IsMap(traced.appx, rows, cols)
  BY <1>2 DEF TracedOK, u
<1>8. TableOf(u.kmap, rows, cols) = input.on
  <2>1. IsTable(input.on, rows \cup cols)
    BY <1>4, <1>5, <1>6 DEF TableOver, IsTable
  <2>2. TableOf(MapOf(input.on, rows, cols), rows, cols) = input.on
    BY <2>1, TableOfMapOf
  <2>3. QED
    BY <1>4, <1>6, <2>2
<1>9. IsMap(u.kmap, rows, cols) /\ IsFiniteSet(rows) /\ IsFiniteSet(cols) /\ rows \cap cols = {}
  <2>1. IsMap(MapOf(tree.table, rows, cols), rows, cols)
    BY MapOfIsMap
  <2>2. QED
    BY <1>6, <2>1 DEF Parted
<1>10. Error(traced.appx, u.kmap)
         = Distance(TableOf(traced.appx, rows, cols), TableOf(u.kmap, rows, cols))
  BY <1>7, <1>9, ErrorIsDistance
<1>11. ChosenError = Error(traced.appx, u.kmap)
  BY <1>2 DEF ChosenError, u
<1>12. QED
  BY <1>3, <1>7, <1>8, <1>10, <1>11

(***************************************************************************)
(* For any table, if the tree is flat, the error by which it was chosen is *)
(* the number of assignments at which the circuit differs from the table   *)
(* (exact_error_bit_count).                                                *)
(***************************************************************************)
THEOREM ErrorIsExact == Spec => []ExactErrorIsExact
<1>1. QED
  BY WritingCorrect, ErrorOfCircuit, PTL
=============================================================================
