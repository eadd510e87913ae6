-------------------------- MODULE LinkedQueueProofs --------------------------
(***************************************************************************)
(* class queue implements the first-in first-out queue, and while it lives *)
(* no cell is lost and no pointer dangles, however many cells and data     *)
(* there are.  The invariant names the cells of the list as a sequence     *)
(* that starts at 0 with the sentinel: what the walks of the code find     *)
(* (CellAt, Length) is read off it.                                        *)
(***************************************************************************)
EXTENDS LinkedQueue, FiniteSetTheorems, WellFoundedInduction, TLAPS

\* c is the list of cells from the sentinel to the last.
IsList(n, c) ==
    /\ c \in [0 .. n -> Cell]
    /\ c[0] = front /\ c[n] = rear
    /\ \A i \in 0 .. n - 1 : next[c[i]] = c[i + 1]
    /\ next[c[n]] = NULL
    /\ \A i, j \in 0 .. n : c[i] = c[j] => i = j

QueueTypeOK ==
    /\ next \in [Cell -> Cell \cup {NULL}]
    /\ data \in [Cell -> Datum]
    /\ alive \in BOOLEAN

QueueInv ==
    /\ QueueTypeOK
    /\ alive => \E n \in Nat : \E c \in [0 .. n -> Cell] :
                   IsList(n, c) /\ allocated = {c[i] : i \in 0 .. n}

-----------------------------------------------------------------------------
\* Induction up to a bound, for a set of numbers: if some number were missing,
\* the sets of numbers up to a missing one would have a minimal element.
LEMMA UpTo ==
    ASSUME NEW n \in Nat, NEW S \in SUBSET (0 .. n), 0 \in S,
           \A i \in 0 .. n - 1 : i \in S => i + 1 \in S
    PROVE  S = 0 .. n
<1> SUFFICES ASSUME S # 0 .. n PROVE FALSE
  OBVIOUS
<1> DEFINE T == {0 .. j : j \in (0 .. n) \ S}
<1>1. FiniteSubsetsOf(0 .. n) = SUBSET (0 .. n)
  <2>1. IsFiniteSet(0 .. n)
    BY FS_Interval
  <2>2. QED
    BY <2>1, FS_FiniteSubsetsOfFinite
<1>2. T \subseteq FiniteSubsetsOf(0 .. n) /\ T # {}
  <2>1. \A j \in (0 .. n) \ S : 0 .. j \in SUBSET (0 .. n)
    OBVIOUS
  <2>2. PICK j \in (0 .. n) \ S : TRUE
    OBVIOUS
  <2>3. 0 .. j \in T
    BY <2>2
  <2>4. QED
    BY <1>1, <2>1, <2>3
<1>3. PICK t \in T : \A u \in T : ~(<<u, t>> \in StrictSubsetOrdering(0 .. n))
  BY <1>2, FS_StrictSubsetOrderingWellFounded, FS_Interval, WFMin, Zenon
<1>4. PICK j \in (0 .. n) \ S : t = 0 .. j
  BY <1>3
<1>5. j # 0 /\ j - 1 \in 0 .. n - 1 /\ j - 1 \notin S
  BY <1>4
<1>6. 0 .. j - 1 \in T /\ 0 .. j - 1 \subseteq t /\ 0 .. j - 1 # t
  <2>1. j \in 0 .. j /\ j \notin 0 .. j - 1 /\ 0 .. j - 1 \subseteq 0 .. j
    BY <1>4
  <2>2. QED
    BY <1>4, <1>5, <2>1
<1>7. <<0 .. j - 1, t>> \in StrictSubsetOrdering(0 .. n)
  BY <1>1, <1>2, <1>3, <1>6 DEF StrictSubsetOrdering
<1>8. QED
  BY <1>3, <1>6, <1>7

-----------------------------------------------------------------------------
\* Following the links along a list gives its cells.
LEMMA Walk ==
    ASSUME NEW n \in Nat, NEW c \in [0 .. n -> Cell], IsList(n, c), NEW k \in 0 .. n
    PROVE  CellAt(k) = c[k]
<1> DEFINE Step(at) == [i \in 0 .. k |-> IF i = 0 THEN front
                                      ELSE IF at[i - 1] = NULL THEN NULL ELSE next[at[i - 1]]]
           walk == CHOOSE at : at = Step(at)
           found == [i \in 0 .. k |-> c[i]]
<1>1. CellAt(k) = walk[k]
  BY DEF CellAt
<1>2. found = Step(found)
  <2>1. ASSUME NEW i \in 0 .. k PROVE found[i] = Step(found)[i]
    <3>1. CASE i = 0
      BY <3>1 DEF IsList
    <3>2. CASE i # 0
      <4>1. i - 1 \in 0 .. k /\ i - 1 \in 0 .. n - 1 /\ i - 1 + 1 = i
        BY <3>2
      <4>2. next[c[i - 1]] = c[i] /\ c[i - 1] # NULL
        BY SMTT(40), <4>1, NullIsNoCell DEF IsList
      <4>3. QED
        BY <3>2, <4>1, <4>2
    <3>3. QED
      BY <3>1, <3>2
  <2>2. QED
    BY <2>1
<1>3. walk = Step(walk)
  BY <1>2, ZenonT(40)
<1> HIDE DEF walk
<1> DEFINE S == {i \in 0 .. k : walk[i] = c[i]}
<1>4. 0 \in S
  BY <1>3 DEF IsList
<1>5. ASSUME NEW i \in 0 .. k - 1, i \in S PROVE i + 1 \in S
  <2>1. i \in 0 .. n - 1 /\ i + 1 \in 0 .. k /\ i + 1 # 0 /\ i + 1 - 1 = i
    OBVIOUS
  <2>2. walk[i + 1] = IF walk[i] = NULL THEN NULL ELSE next[walk[i]]
    BY <1>3, <2>1
  <2>3. walk[i] = c[i] /\ c[i] # NULL /\ next[c[i]] = c[i + 1]
    BY <1>5, <2>1, NullIsNoCell DEF IsList
  <2>4. QED
    BY <2>1, <2>2, <2>3
<1> HIDE DEF S
<1>6. S = 0 .. k
  <2>1. S \in SUBSET (0 .. k)
    BY DEF S
  <2>2. QED
    BY <1>4, <1>5, <2>1, UpTo
<1>7. QED
  BY <1>1, <1>6 DEF S

\* A list has at most as many cells as there are.
LEMMA ListFits ==
    ASSUME NEW n \in Nat, NEW c \in [0 .. n -> Cell], IsList(n, c)
    PROVE  n \in 0 .. Cardinality(Cell)
<1>1. Cardinality(0 .. n) = n + 1 /\ IsFiniteSet(0 .. n)
  BY FS_Interval
<1>2. Cardinality(Cell) \in Nat
  BY MemoryIsFinite, FS_CardinalityType
<1>3. \A i, j \in 0 .. n : i # j => c[i] # c[j]
  BY DEF IsList
<1>4. ~(Cardinality(Cell) < Cardinality(0 .. n))
  BY <1>1, <1>3, MemoryIsFinite, FS_PigeonHole
<1>5. QED
  BY <1>1, <1>2, <1>4

\* What the code reads off a list: size(), the content, the allocated cells.
ListFacts ==
    \A n \in Nat : \A c \in [0 .. n -> Cell] :
        IsList(n, c) =>
            /\ Length = n
            /\ {CellAt(k) : k \in 0 .. n} = {c[k] : k \in 0 .. n}
            /\ alive => Items = [k \in 1 .. n |-> data[c[k]]]
            /\ front = rear <=> n = 0

LEMMA ListsAreRead == ListFacts
<1> SUFFICES ASSUME NEW n \in Nat, NEW c \in [0 .. n -> Cell], IsList(n, c)
             PROVE  /\ Length = n
                    /\ {CellAt(k) : k \in 0 .. n} = {c[k] : k \in 0 .. n}
                    /\ alive => Items = [k \in 1 .. n |-> data[c[k]]]
                    /\ front = rear <=> n = 0
  BY DEF ListFacts
<1>1. \A k \in 0 .. n : CellAt(k) = c[k]
  BY Walk
<1>2. Length = n
  <2> DEFINE Last(k) == CellAt(k) = rear /\ \A i \in 0 .. k - 1 : CellAt(i) # rear
  <2>1. n \in 0 .. Cardinality(Cell)
    BY ListFits
  <2>2. \A k \in 0 .. n : CellAt(k) = rear <=> k = n
    BY <1>1 DEF IsList
  <2>3. Last(n)
    BY <2>2
  <2>4. ASSUME NEW k \in 0 .. Cardinality(Cell), Last(k) PROVE k = n
    <3>1. Cardinality(Cell) \in Nat
      BY MemoryIsFinite, FS_CardinalityType
    <3>2. ~(n \in 0 .. k - 1)
      BY <2>2, <2>4
    <3>3. k \in 0 .. n
      BY <3>1, <3>2
    <3>4. QED
      BY <2>2, <2>4, <3>3
  <2> HIDE DEF Last
  <2>5. Length = CHOOSE k \in 0 .. Cardinality(Cell) : Last(k)
    BY DEF Length, Last
  <2>6. QED
    BY <2>1, <2>3, <2>4, <2>5
<1>3. alive => Items = [k \in 1 .. n |-> data[c[k]]]
  <2>1. \A k \in 1 .. n : CellAt(k) = c[k]
    BY <1>1
  <2>2. QED
    BY <1>2, <2>1 DEF Items
<1>4. front = rear <=> n = 0
  BY DEF IsList
<1>5. QED
  BY <1>1, <1>2, <1>3, <1>4

LEMMA ListsAreReadNext == ListFacts'
  BY ListsAreRead, PTL

-----------------------------------------------------------------------------
(***************************************************************************)
(* What a step does to the list and to its content.                        *)
(***************************************************************************)
\* The list and the data on it are as before.
LEMMA ListKept ==
    ASSUME QueueInv, alive, UNCHANGED <<front, rear, next, data, allocated, alive>>
    PROVE  QueueInv' /\ Items' = Items
<1>a. PICK n \in Nat :
          \E c \in [0 .. n -> Cell] : IsList(n, c) /\ allocated = {c[i] : i \in 0 .. n}
  BY DEF QueueInv
<1>1. PICK c \in [0 .. n -> Cell] : IsList(n, c) /\ allocated = {c[i] : i \in 0 .. n}
  BY <1>a
<1>2. IsList(n, c)'
  BY <1>1 DEF IsList
<1>3. QueueInv'
  BY <1>1, <1>2 DEF QueueInv, QueueTypeOK
<1>4. Items = [k \in 1 .. n |-> data[c[k]]]
  BY <1>1, ListsAreRead DEF ListFacts
<1>5. Items' = [k \in 1 .. n |-> data'[c[k]]]
  BY <1>2, ListsAreReadNext DEF ListFacts
<1>6. QED
  BY <1>3, <1>4, <1>5

LEMMA PushAppends ==
    ASSUME QueueInv, alive, NEW e \in Datum, Push(e)
    PROVE  QueueInv' /\ Items' = Append(Items, e) /\ UNCHANGED <<ret, alive>>
<1>a. PICK n \in Nat :
          \E c \in [0 .. n -> Cell] : IsList(n, c) /\ allocated = {c[i] : i \in 0 .. n}
  BY DEF QueueInv
<1>1. PICK c \in [0 .. n -> Cell] : IsList(n, c) /\ allocated = {c[i] : i \in 0 .. n}
  BY <1>a
<1>2. PICK p \in Cell \ allocated :
          /\ allocated' = allocated \cup {p}
          /\ data' = [data EXCEPT ![p] = e]
          /\ next' = [next EXCEPT ![p] = NULL, ![rear] = p]
          /\ rear' = p
          /\ UNCHANGED <<front, ret, alive>>
  BY DEF Push
<1> DEFINE d == [i \in 0 .. n + 1 |-> IF i <= n THEN c[i] ELSE p]
<1>3. /\ d \in [0 .. n + 1 -> Cell] /\ n + 1 \in Nat
      /\ \A i \in 0 .. n : d[i] = c[i] /\ c[i] # p /\ c[i] \in Cell
      /\ d[n + 1] = p
  BY <1>1, <1>2
<1> HIDE DEF d
<1>4. next \in [Cell -> Cell \cup {NULL}] /\ data \in [Cell -> Datum] /\ rear = c[n]
  BY <1>1 DEF QueueInv, QueueTypeOK, IsList
<1>5. IsList(n + 1, d)'
  <2>1. d[0] = front' /\ d[n + 1] = rear'
    BY <1>1, <1>2, <1>3 DEF IsList
  <2>2. ASSUME NEW i \in 0 .. (n + 1) - 1 PROVE next'[d[i]] = d[i + 1]
    <3>1. CASE i = n
      BY <3>1, <1>2, <1>3, <1>4
    <3>2. CASE i # n
      <4>1. i \in 0 .. n - 1 /\ i \in 0 .. n /\ i + 1 \in 0 .. n /\ n \in 0 .. n
        BY <3>2
      <4>2. c[i] # c[n] /\ next[c[i]] = c[i + 1]
        BY <3>2, <4>1, <1>1 DEF IsList
      <4>3. QED
        BY <4>1, <4>2, <1>2, <1>3, <1>4
    <3>3. QED
      BY <3>1, <3>2
  <2>3. next'[d[n + 1]] = NULL
    BY <1>2, <1>3, <1>4
  <2>4. ASSUME NEW i \in 0 .. n + 1, NEW j \in 0 .. n + 1, d[i] = d[j] PROVE i = j
    <3>1. (i \in 0 .. n \/ i = n + 1) /\ (j \in 0 .. n \/ j = n + 1)
      OBVIOUS
    <3>2. QED
      BY <2>4, <3>1, <1>1, <1>3 DEF IsList
  <2>5. QED
    BY <1>3, <2>1, <2>2, <2>3, <2>4 DEF IsList
<1>6. allocated' = {d[i] : i \in 0 .. n + 1}
  <2>1. 0 .. n + 1 = (0 .. n) \cup {n + 1}
    OBVIOUS
  <2>2. QED
    BY <2>1, <1>1, <1>2, <1>3
<1>7. QueueInv'
  BY <1>2, <1>3, <1>4, <1>5, <1>6 DEF QueueInv, QueueTypeOK
<1>8. Items = [k \in 1 .. n |-> data[c[k]]]
  BY <1>1, ListsAreRead DEF ListFacts
<1>9. Items' = [k \in 1 .. n + 1 |-> data'[d[k]]]
  BY <1>2, <1>3, <1>5, ListsAreReadNext DEF ListFacts
<1>10. Items' = Append(Items, e)
  <2>1. \A k \in 1 .. n : data'[d[k]] = data[c[k]]
    BY <1>2, <1>3, <1>4
  <2>2. data'[d[n + 1]] = e
    BY <1>2, <1>3, <1>4
  <2>3. Len(Items) = n
    BY <1>8
  <2>4. Append(Items, e) = [k \in 1 .. n + 1 |-> IF k <= n THEN data[c[k]] ELSE e]
    BY <1>8
  <2>5. QED
    BY <1>9, <2>1, <2>2, <2>4
<1>11. QED
  BY <1>2, <1>7, <1>10

LEMMA PopTakesFirst ==
    ASSUME QueueInv, alive, PopFirst
    PROVE  /\ QueueInv' /\ alive' = alive
           /\ Items # <<>> /\ ret' = Head(Items) /\ Items' = Tail(Items)
<1>a. PICK n \in Nat :
          \E c \in [0 .. n -> Cell] : IsList(n, c) /\ allocated = {c[i] : i \in 0 .. n}
  BY DEF QueueInv
<1>1. PICK c \in [0 .. n -> Cell] : IsList(n, c) /\ allocated = {c[i] : i \in 0 .. n}
  BY <1>a
<1>2. n # 0 /\ n - 1 \in Nat
  BY <1>1, ListsAreRead DEF PopFirst, ListFacts
<1>3. /\ next \in [Cell -> Cell \cup {NULL}] /\ data \in [Cell -> Datum]
      /\ c[0] = front /\ c[n] = rear /\ next[c[n]] = NULL
      /\ \A i \in 0 .. n - 1 : next[c[i]] = c[i + 1]
      /\ \A i, j \in 0 .. n : c[i] = c[j] => i = j
  BY <1>1 DEF QueueInv, QueueTypeOK, IsList
<1>4. next[front] = c[1]
  BY <1>2, <1>3
<1>5. /\ next' = [next EXCEPT ![front] = next[c[1]]]
      /\ ret' = data[c[1]]
      /\ rear' = IF rear = c[1] THEN front ELSE rear
      /\ allocated' = allocated \ {c[1]}
      /\ UNCHANGED <<front, data, alive>>
  BY <1>4 DEF PopFirst
<1> DEFINE d == [i \in 0 .. n - 1 |-> IF i = 0 THEN c[0] ELSE c[i + 1]]
<1>6. d \in [0 .. n - 1 -> Cell] /\ d[0] = c[0] /\ \A i \in 1 .. n - 1 : d[i] = c[i + 1]
  BY <1>2
<1> HIDE DEF d
<1>7. IsList(n - 1, d)'
  <2>1. CASE n = 1
    <3>1. rear' = front /\ next'[front] = NULL
      BY <2>1, <1>3, <1>5
    <3>2. QED
      BY <2>1, <3>1, <1>3, <1>5, <1>6 DEF IsList
  <2>2. CASE n # 1
    <3>1. 1 \in 0 .. n /\ n \in 0 .. n /\ 0 \in 0 .. n /\ n - 1 \in 1 .. n - 1 /\ n - 1 + 1 = n
      BY <1>2, <2>2
    <3>2. rear' = c[n] /\ d[n - 1] = c[n] /\ d[0] = front'
      BY <2>2, <3>1, <1>3, <1>5, <1>6
    <3>3. \A j \in 1 .. n : next'[c[j]] = next[c[j]]
      <4>1. \A j \in 1 .. n : c[j] # front /\ c[j] \in Cell
        BY <1>3
      <4>2. QED
        BY <4>1, <1>3, <1>5
    <3>4. next'[front] = c[2]
      BY <2>2, <1>2, <1>3, <1>5
    <3>5. ASSUME NEW i \in 0 .. (n - 1) - 1 PROVE next'[d[i]] = d[i + 1]
      <4>1. CASE i = 0
        <5>1. 1 \in 1 .. n - 1 /\ 0 + 1 = 1
          BY <1>2, <2>2
        <5>2. d[1] = c[1 + 1]
          BY <5>1, <1>6
        <5>3. QED
          BY <4>1, <5>2, <3>4, <1>3, <1>6
      <4>2. CASE i # 0
        <5>1. i \in 1 .. n - 1 /\ i + 1 \in 1 .. n - 1 /\ i + 1 \in 0 .. n - 1 /\ i + 1 \in 1 .. n
          BY <4>2
        <5>2. d[i] = c[i + 1] /\ d[i + 1] = c[(i + 1) + 1]
          BY <5>1, <1>6
        <5>3. QED
          BY <5>1, <5>2, <3>3, <1>3
      <4>3. QED
        BY <4>1, <4>2
    <3>6. next'[d[n - 1]] = NULL
      BY <1>2, <3>2, <3>3, <1>3
    <3>7. ASSUME NEW i \in 0 .. n - 1, NEW j \in 0 .. n - 1, d[i] = d[j] PROVE i = j
      <4> DEFINE at(k) == IF k = 0 THEN 0 ELSE k + 1
      <4>1. \A k \in 0 .. n - 1 : d[k] = c[at(k)] /\ at(k) \in 0 .. n
        BY <1>6
      <4>2. at(i) = at(j)
        BY <3>7, <4>1, <1>3
      <4>3. QED
        BY <4>2
    <3>8. QED
      BY <3>2, <3>5, <3>6, <3>7, <1>6 DEF IsList
  <2>3. QED
    BY <2>1, <2>2
<1>8. allocated' = {d[i] : i \in 0 .. n - 1}
  <2>1. ASSUME NEW x \in allocated' PROVE x \in {d[i] : i \in 0 .. n - 1}
    <3>1. PICK i \in 0 .. n : x = c[i] /\ i # 1
      BY <2>1, <1>1, <1>5
    <3>2. CASE i = 0
      <4>1. 0 \in 0 .. n - 1
        BY <1>2
      <4>2. QED
        BY <3>1, <3>2, <4>1, <1>6
    <3>3. CASE i # 0
      <4>1. i - 1 \in 1 .. n - 1 /\ i - 1 \in 0 .. n - 1 /\ (i - 1) + 1 = i
        BY <3>1, <3>3
      <4>2. d[i - 1] = x
        BY <3>1, <4>1, <1>6
      <4>3. QED
        BY <4>1, <4>2
    <3>4. QED
      BY <3>2, <3>3
  <2>2. ASSUME NEW i \in 0 .. n - 1 PROVE d[i] \in allocated'
    <3>1. PICK j \in 0 .. n : d[i] = c[j] /\ j # 1
      <4>1. CASE i = 0
        BY <4>1, <1>2, <1>6
      <4>2. CASE i # 0
        <5>1. i \in 1 .. n - 1 /\ i + 1 \in 0 .. n /\ i + 1 # 1
          BY <4>2
        <5>2. QED
          BY <5>1, <1>6
      <4>3. QED
        BY <4>1, <4>2
    <3>2. 1 \in 0 .. n
      BY <1>2
    <3>3. QED
      BY <3>1, <3>2, <1>1, <1>3, <1>5
  <2>3. QED
    BY <2>1, <2>2
<1>9. QueueInv'
  <2>1. next' \in [Cell -> Cell \cup {NULL}]
    BY <1>2, <1>3, <1>5
  <2>2. QED
    BY <2>1, <1>2, <1>5, <1>6, <1>7, <1>8 DEF QueueInv, QueueTypeOK
<1>10. Items = [k \in 1 .. n |-> data[c[k]]]
  BY <1>1, ListsAreRead DEF ListFacts
<1>11. Items' = [k \in 1 .. n - 1 |-> data[d[k]]]
  BY <1>2, <1>5, <1>6, <1>7, ListsAreReadNext DEF ListFacts
<1>12. Items \in Seq(Datum) /\ Len(Items) = n /\ Items # <<>>
  BY SMTT(40), <1>2, <1>3, <1>10
<1>13. Items' = Tail(Items)
  <2>1. \A k \in 1 .. n - 1 : data[d[k]] = Items[k + 1]
    BY <1>6, <1>10
  <2>2. Tail(Items) = [k \in 1 .. n - 1 |-> Items[k + 1]]
    BY <1>12
  <2>3. QED
    BY <2>1, <2>2, <1>11
<1>14. ret' = Head(Items)
  BY <1>2, <1>5, <1>10, <1>12
<1>15. QED
  BY <1>5, <1>9, <1>12, <1>13, <1>14

\* What the calls that change nothing but ret read.
LEMMA ListReadAs ==
    ASSUME QueueInv, alive
    PROVE  /\ front = rear <=> Items = <<>>
           /\ Len(Items) = Length
           /\ Items # <<>> => Items[1] = Head(Items) /\ Items[1] = data[next[front]]
                              /\ Items[Len(Items)] = data[rear]
<1>a. PICK n \in Nat : \E c \in [0 .. n -> Cell] : IsList(n, c)
  BY DEF QueueInv
<1>1. PICK c \in [0 .. n -> Cell] : IsList(n, c)
  BY <1>a
<1>2. /\ Length = n
      /\ Items = [k \in 1 .. n |-> data[c[k]]]
      /\ front = rear <=> n = 0
  BY <1>1, ListsAreRead DEF ListFacts
<1>3. \A k \in 1 .. n : data[c[k]] \in Datum
  BY DEF QueueInv, QueueTypeOK
<1>4. Items \in Seq(Datum) /\ Len(Items) = n
  BY <1>2, <1>3
<1>5. n # 0 => next[front] = c[1] /\ rear = c[n]
  BY <1>1 DEF IsList
<1>6. QED
  BY <1>2, <1>4, <1>5

-----------------------------------------------------------------------------
\* The invariant holds at first and is kept by every call.
LEMMA QueueStarts == Init => QueueInv
<1> SUFFICES ASSUME Init PROVE QueueInv
  OBVIOUS
<1> DEFINE c == [i \in 0 .. 0 |-> front]
<1>1. QueueTypeOK
  BY DEF Init, QueueTypeOK
<1>2. c \in [0 .. 0 -> Cell] /\ IsList(0, c)
  BY DEF Init, IsList
<1>3. allocated = {c[i] : i \in 0 .. 0}
  BY DEF Init
<1>4. QED
  BY <1>1, <1>2, <1>3 DEF QueueInv

\* In the words of the abstract queue: each call is one of its calls.
LEMMA CallsAreCalls ==
    ASSUME QueueInv, [Next]_qVars
    PROVE  QueueInv' /\ [Fifo!Next]_<<Items, ret, alive>>
<1>1. CASE UNCHANGED qVars /\ alive
  BY <1>1, ListKept DEF qVars
<1>2. CASE UNCHANGED qVars /\ ~alive
  BY <1>2 DEF qVars, QueueInv, QueueTypeOK, Items
<1>3. ASSUME alive, NEW e \in Datum, Push(e)
      PROVE  QueueInv' /\ Fifo!Next
  BY <1>3, PushAppends DEF Fifo!Next, Fifo!Push
<1>4. CASE alive /\ PopEmpty
  BY <1>4, ListKept, ListReadAs DEF PopEmpty, Fifo!Next, Fifo!Pop
<1>5. CASE alive /\ PopFirst
  BY <1>5, PopTakesFirst DEF Fifo!Next, Fifo!Pop
<1>6. CASE alive /\ FrontElement
  BY <1>6, ListKept, ListReadAs DEF FrontElement, Fifo!Next, Fifo!FrontElement
<1>7. CASE alive /\ BackElement
  BY <1>7, ListKept, ListReadAs DEF BackElement, Fifo!Next, Fifo!BackElement
<1>8. CASE alive /\ Size
  BY <1>8, ListKept, ListReadAs DEF Size, Fifo!Next, Fifo!Size
<1>9. CASE alive /\ Empty
  BY <1>9, ListKept, ListReadAs DEF Empty, Fifo!Next, Fifo!Empty
<1>10. CASE alive /\ Destroy
  BY <1>10 DEF Destroy, QueueInv, QueueTypeOK, Items, Fifo!Next, Fifo!Destroy
<1>11. QED
  BY <1>1, <1>2, <1>3, <1>4, <1>5, <1>6, <1>7, <1>8, <1>9, <1>10 DEF Next

\* The list behind the sentinel is well formed in every reachable state.
THEOREM QueueInvariant == Spec => []QueueInv
<1>1. QueueInv /\ [Next]_qVars => QueueInv'
  BY CallsAreCalls
<1>2. QED
  BY <1>1, QueueStarts, PTL DEF Spec

\* No pop leaks a cell, and neither a link nor front or rear dangles.
THEOREM CellsAccounted == Spec => []NoLeakNoDangle
<1>1. QueueInv => NoLeakNoDangle
  <2> SUFFICES ASSUME QueueInv, alive
               PROVE  allocated = {CellAt(k) : k \in 0 .. Length} /\ next[rear] = NULL
    BY DEF NoLeakNoDangle
  <2>a. PICK n \in Nat :
            \E c \in [0 .. n -> Cell] : IsList(n, c) /\ allocated = {c[i] : i \in 0 .. n}
    BY DEF QueueInv
  <2>1. PICK c \in [0 .. n -> Cell] : IsList(n, c) /\ allocated = {c[i] : i \in 0 .. n}
    BY <2>a
  <2>2. Length = n /\ {CellAt(k) : k \in 0 .. n} = {c[k] : k \in 0 .. n}
    BY <2>1, ListsAreRead DEF ListFacts
  <2>3. QED
    BY <2>1, <2>2 DEF IsList
<1>2. QED
  BY <1>1, QueueInvariant, PTL

\* The linked list implements the first-in first-out queue: push, pop and the
\* calls that read do to the content exactly what FifoQueue says.
THEOREM ListIsFifo == Spec => FifoSpec
<1>1. Init => Fifo!Init
  <2> SUFFICES ASSUME Init PROVE Fifo!Init
    OBVIOUS
  <2>a. QueueInv /\ alive
    BY QueueStarts DEF Init
  <2>1. Items = <<>>
    BY <2>a, ListReadAs DEF Init
  <2>2. QED
    BY <2>1 DEF Init, Fifo!Init
<1>2. QueueInv /\ [Next]_qVars => [Fifo!Next]_<<Items, ret, alive>>
  BY CallsAreCalls
<1>3. QED
  BY <1>1, <1>2, QueueInvariant, PTL DEF Spec, FifoSpec, Fifo!Spec
=============================================================================
