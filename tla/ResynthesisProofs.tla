------------------------- MODULE ResynthesisProofs --------------------------
(***************************************************************************)
(* What the scripts make of a circuit and the approximate cone, for every  *)
(* circuit, every candidate that is a fanout-free cone and every tree.     *)
(*                                                                         *)
(* Arrays are put together by FlattenSeq, which is a recursion; what it    *)
(* returns is shown first, by going up its argument.                       *)
(***************************************************************************)
EXTENDS Resynthesis, BnetProofs, SequenceTheorems

-----------------------------------------------------------------------------
(* FlattenSeq.                                                             *)

\* The partial results of the recursion, up to the n-th sequence.
IsFlatten(f, ss, n) ==
    \A i \in 1 .. n : f[i] = IF i = 1 THEN ss[i] ELSE f[i - 1] \o ss[i]

LEMMA FlattenExists ==
  ASSUME NEW S, NEW ss \in Seq(Seq(S)), NEW n \in Nat, n = Len(ss)
  PROVE  \E f \in [1 .. n -> Seq(S)] : IsFlatten(f, ss, n)
<1> DEFINE T == {m \in 0 .. n : \E f \in [1 .. m -> Seq(S)] : IsFlatten(f, ss, m)}
<1>1. \A i \in 1 .. n : ss[i] \in Seq(S)
  OBVIOUS
<1>2. 0 \in T
  <2>1. PICK g \in [1 .. 0 -> Seq(S)] : TRUE
    <3>1. [i \in 1 .. 0 |-> <<>>] \in [1 .. 0 -> Seq(S)]
      OBVIOUS
    <3>2. QED
      BY <3>1
  <2>2. IsFlatten(g, ss, 0)
    BY DEF IsFlatten
  <2>3. 0 \in 0 .. n
    OBVIOUS
  <2>4. QED
    BY <2>1, <2>2, <2>3
<1>3. ASSUME NEW m \in 0 .. n - 1, m \in T PROVE m + 1 \in T
  <2>1. PICK f \in [1 .. m -> Seq(S)] : IsFlatten(f, ss, m)
    BY <1>3
  <2> DEFINE last == IF m = 0 THEN ss[1] ELSE f[m] \o ss[m + 1]
             g == [i \in 1 .. m + 1 |-> IF i = m + 1 THEN last ELSE f[i]]
  <2>2. last \in Seq(S)
    <3>1. CASE m = 0
      BY <1>1, <3>1
    <3>2. CASE m # 0
      <4>1. f[m] \in Seq(S) /\ ss[m + 1] \in Seq(S)
        BY <1>1, <3>2
      <4>2. f[m] \o ss[m + 1] \in Seq(S)
        BY <4>1
      <4>3. QED
        BY <3>2, <4>2
    <3>3. QED
      BY <3>1, <3>2
  <2> HIDE DEF last
  <2>3. g \in [1 .. m + 1 -> Seq(S)]
    BY <2>2
  <2>4. IsFlatten(g, ss, m + 1)
    <3> SUFFICES ASSUME NEW i \in 1 .. m + 1
                 PROVE  g[i] = IF i = 1 THEN ss[i] ELSE g[i - 1] \o ss[i]
      BY DEF IsFlatten
    <3>1. CASE i = m + 1
      <4>1. i = 1 <=> m = 0
        BY <3>1
      <4>2. m # 0 => i - 1 = m /\ i - 1 \in 1 .. m + 1 /\ g[i - 1] = f[m]
        BY <3>1
      <4>3. g[i] = last
        BY <3>1
      <4>4. QED
        BY <3>1, <4>1, <4>2, <4>3 DEF last
    <3>2. CASE i # m + 1
      <4>1. i \in 1 .. m /\ g[i] = f[i]
        BY <3>2
      <4>2. i # 1 => i - 1 \in 1 .. m + 1 /\ i - 1 # m + 1 /\ g[i - 1] = f[i - 1]
        BY <4>1
      <4>3. f[i] = IF i = 1 THEN ss[i] ELSE f[i - 1] \o ss[i]
        BY <2>1, <4>1 DEF IsFlatten
      <4>4. QED
        BY <4>1, <4>2, <4>3
    <3>3. QED
      BY <3>1, <3>2
  <2> HIDE DEF g
  <2>5. m + 1 \in 0 .. n
    OBVIOUS
  <2>6. QED
    BY <2>3, <2>4, <2>5
<1> HIDE DEF T
<1>4. T \in SUBSET (0 .. n)
  BY DEF T
<1>5. T = 0 .. n
  BY <1>2, <1>3, <1>4, UpTo
<1>6. n \in T
  BY <1>5
<1>7. QED
  BY <1>6 DEF T

\* FlattenSeq is the last of them.
LEMMA FlattenIs ==
  ASSUME NEW S, NEW ss \in Seq(Seq(S)), NEW n \in Nat, n = Len(ss)
  PROVE  /\ n = 0 => FlattenSeq(ss) = <<>>
         /\ n # 0 => \E f \in [1 .. n -> Seq(S)] : IsFlatten(f, ss, n) /\ FlattenSeq(ss) = f[n]
<1>1. ASSUME n = 0 PROVE FlattenSeq(ss) = <<>>
  <2>1. ss = <<>>
    BY <1>1, EmptySeq
  <2>2. FlattenSeq(ss) = ss
    BY <1>1 DEF FlattenSeq
  <2>3. QED
    BY <2>1, <2>2
<1>2. ASSUME n # 0
      PROVE  \E f \in [1 .. n -> Seq(S)] : IsFlatten(f, ss, n) /\ FlattenSeq(ss) = f[n]
  <2> DEFINE body(f) == [i \in 1 .. n |-> IF i = 1 THEN ss[i] ELSE f[i - 1] \o ss[i]]
             flat == CHOOSE f : f = body(f)
  <2>1. PICK f \in [1 .. n -> Seq(S)] : IsFlatten(f, ss, n)
    BY FlattenExists
  <2>2. f = body(f)
    BY <2>1 DEF IsFlatten
  <2>3. flat = body(flat)
    BY ZenonT(40), <2>2
  <2>4. FlattenSeq(ss) = flat[n]
    BY <1>2 DEF FlattenSeq
  <2> HIDE DEF flat
  <2>5. \A i \in 1 .. n : flat[i] = IF i = 1 THEN ss[i] ELSE flat[i - 1] \o ss[i]
    BY <2>3
  <2>6. DOMAIN flat = 1 .. n /\ flat = [i \in 1 .. n |-> flat[i]]
    BY <2>3
  <2> DEFINE T == {m \in 0 .. n : m # 0 => flat[m] = f[m]}
  <2>7. 0 \in T
    OBVIOUS
  <2>8. ASSUME NEW m \in 0 .. n - 1, m \in T PROVE m + 1 \in T
    <3>1. m + 1 \in 1 .. n /\ m + 1 - 1 = m /\ (m + 1 = 1 <=> m = 0)
      OBVIOUS
    <3> PICK k \in 1 .. n : k = m + 1
      BY <3>1
    <3>2. f[k] = IF k = 1 THEN ss[k] ELSE f[k - 1] \o ss[k]
      BY <2>1 DEF IsFlatten
    <3>3. flat[k] = IF k = 1 THEN ss[k] ELSE flat[k - 1] \o ss[k]
      BY <2>5
    <3>4. k # 1 => k - 1 = m /\ flat[m] = f[m]
      BY <2>8
    <3>5. flat[k] = f[k]
      BY <3>2, <3>3, <3>4
    <3>6. QED
      BY <3>1, <3>5
  <2>9. T = 0 .. n
    <3>1. T \in SUBSET (0 .. n)
      OBVIOUS
    <3> HIDE DEF T
    <3>2. QED
      BY <2>7, <2>8, <3>1, UpTo
  <2>10. flat[n] = f[n]
    <3>1. n \in 0 .. n
      OBVIOUS
    <3>2. n \in T
      BY <2>9, <3>1, Zenon
    <3>3. QED
      BY <1>2, <3>2
  <2>11. QED
    BY <2>1, <2>4, <2>10
<1>3. QED
  BY <1>1, <1>2

\* Each element of t is one of the first m sequences in ss, at row and column,
\* and each of theirs stands in t once.
Origin(row, col, t, ss, m) ==
    /\ row \in [DOMAIN t -> 1 .. m] /\ col \in [DOMAIN t -> Nat]
    /\ \A p \in DOMAIN t : col[p] \in DOMAIN ss[row[p]] /\ t[p] = ss[row[p]][col[p]]
    /\ \A p, q \in DOMAIN t : row[p] = row[q] /\ col[p] = col[q] => p = q
    /\ \A i \in 1 .. m : \A c \in DOMAIN ss[i] : \E p \in DOMAIN t : row[p] = i /\ col[p] = c

LEMMA JoinedFacts ==
  ASSUME NEW S, NEW s \in Seq(S), NEW t \in Seq(S)
  PROVE  /\ s \o t \in Seq(S) /\ Len(s) \in Nat /\ Len(t) \in Nat
         /\ DOMAIN s = 1 .. Len(s) /\ DOMAIN t = 1 .. Len(t)
         /\ Len(s \o t) = Len(s) + Len(t)
         /\ DOMAIN (s \o t) = 1 .. Len(s) + Len(t)
         /\ \A i \in 1 .. Len(s) : (s \o t)[i] = s[i]
         /\ \A i \in 1 .. Len(t) : (s \o t)[Len(s) + i] = t[i]
<1>1. /\ s \o t \in Seq(S) /\ Len(s) \in Nat /\ Len(t) \in Nat
      /\ DOMAIN s = 1 .. Len(s) /\ DOMAIN t = 1 .. Len(t)
      /\ Len(s \o t) = Len(s) + Len(t)
      /\ DOMAIN (s \o t) = 1 .. Len(s) + Len(t)
  OBVIOUS
<1>2. \A i \in 1 .. Len(s) : (s \o t)[i] = s[i]
  OBVIOUS
<1>3. ASSUME NEW i \in 1 .. Len(t) PROVE (s \o t)[Len(s) + i] = t[i]
  <2>1. Len(s) + i \in 1 .. Len(s) + Len(t) /\ Len(s) + i > Len(s) /\ Len(s) + i - Len(s) = i
    BY <1>1
  <2>2. QED
    BY <1>1, <2>1
<1>4. QED
  BY <1>1, <1>2, <1>3

\* One more sequence behind.
LEMMA OriginGrows ==
  ASSUME NEW S, NEW ss \in Seq(Seq(S)), NEW m \in Nat, m + 1 \in DOMAIN ss,
         NEW t \in Seq(S), NEW row, NEW col, Origin(row, col, t, ss, m)
  PROVE  \E row1, col1 : Origin(row1, col1, t \o ss[m + 1], ss, m + 1)
<1> PICK u \in Seq(S) : u = ss[m + 1]
  OBVIOUS
<1> PICK n \in Nat, k \in Nat : n = Len(t) /\ k = Len(u)
  OBVIOUS
<1>1. DOMAIN t = 1 .. n /\ DOMAIN u = 1 .. k
  OBVIOUS
<1> PICK tu : tu = t \o u
  OBVIOUS
<1>2. /\ DOMAIN tu = 1 .. n + k
      /\ \A p \in 1 .. n : tu[p] = t[p]
      /\ \A c \in 1 .. k : tu[n + c] = u[c]
  BY JoinedFacts
<1>3. ASSUME NEW p \in 1 .. n + k, p \notin 1 .. n PROVE p - n \in 1 .. k /\ p = n + (p - n)
  BY <1>3
<1> DEFINE row1 == [p \in 1 .. n + k |-> IF p \in 1 .. n THEN row[p] ELSE m + 1]
           col1 == [p \in 1 .. n + k |-> IF p \in 1 .. n THEN col[p] ELSE p - n]
<1>4. \A p \in 1 .. n : /\ p \in 1 .. n + k /\ row1[p] = row[p] /\ col1[p] = col[p]
                        /\ row[p] \in 1 .. m /\ col[p] \in Nat
  <2>1. row \in [1 .. n -> 1 .. m] /\ col \in [1 .. n -> Nat]
    BY <1>1 DEF Origin
  <2>2. \A p \in 1 .. n : p \in 1 .. n + k
    OBVIOUS
  <2>3. \A p \in 1 .. n : row1[p] = row[p] /\ col1[p] = col[p]
    BY <2>2
  <2>4. QED
    BY <2>1, <2>2, <2>3
<1>5. \A p \in 1 .. n + k : p \notin 1 .. n => row1[p] = m + 1 /\ col1[p] = p - n
  OBVIOUS
<1>6. row1 \in [1 .. n + k -> 1 .. m + 1] /\ col1 \in [1 .. n + k -> Nat]
  <2>1. ASSUME NEW p \in 1 .. n + k PROVE row1[p] \in 1 .. m + 1 /\ col1[p] \in Nat
    <3> HIDE DEF row1, col1
    <3>1. CASE p \in 1 .. n
      <4>1. \A i \in 1 .. m : i \in 1 .. m + 1
        OBVIOUS
      <4>2. QED
        BY <1>4, <3>1, <4>1
    <3>2. CASE p \notin 1 .. n
      BY <1>3, <1>5, <3>2
    <3>3. QED
      BY <3>1, <3>2
  <2>2. QED
    BY <2>1
<1> HIDE DEF row1, col1
<1>7. ASSUME NEW p \in 1 .. n + k
      PROVE  col1[p] \in DOMAIN ss[row1[p]] /\ tu[p] = ss[row1[p]][col1[p]]
  <2>1. CASE p \in 1 .. n
    <3>1. col[p] \in DOMAIN ss[row[p]] /\ t[p] = ss[row[p]][col[p]]
      BY <1>1, <2>1 DEF Origin
    <3>2. QED
      BY <1>2, <1>4, <2>1, <3>1
  <2>2. CASE p \notin 1 .. n
    <3>1. PICK c \in 1 .. k : c = p - n /\ p = n + c
      BY <1>3, <2>2
    <3>2. row1[p] = m + 1 /\ col1[p] = c
      BY <1>5, <2>2, <3>1
    <3>3. tu[p] = u[c]
      BY <1>2, <3>1
    <3>4. QED
      BY <1>1, <3>2, <3>3
  <2>3. QED
    BY <2>1, <2>2
<1>8. ASSUME NEW p \in 1 .. n + k, NEW q \in 1 .. n + k, row1[p] = row1[q], col1[p] = col1[q]
      PROVE  p = q
  <2>1. CASE p \in 1 .. n /\ q \in 1 .. n
    <3>1. row[p] = row[q] /\ col[p] = col[q]
      BY <1>4, <1>8, <2>1
    <3>2. QED
      BY <1>1, <2>1, <3>1 DEF Origin
  <2>2. CASE p \notin 1 .. n /\ q \notin 1 .. n
    <3>1. p - n = q - n
      BY <1>5, <1>8, <2>2
    <3>2. p = n + (p - n) /\ q = n + (q - n)
      OBVIOUS
    <3>3. QED
      BY <3>1, <3>2
  <2>3. CASE (p \in 1 .. n /\ q \notin 1 .. n) \/ (p \notin 1 .. n /\ q \in 1 .. n)
    <3>1. ~(m + 1 \in 1 .. m)
      OBVIOUS
    <3>2. QED
      BY <1>4, <1>5, <1>8, <2>3, <3>1, ZenonT(40)
  <2>4. QED
    BY <2>1, <2>2, <2>3
<1>9. ASSUME NEW i \in 1 .. m + 1, NEW c \in DOMAIN ss[i]
      PROVE  \E p \in 1 .. n + k : row1[p] = i /\ col1[p] = c
  <2>1. CASE i \in 1 .. m
    <3>1. PICK p \in 1 .. n : row[p] = i /\ col[p] = c
      BY <1>1, <2>1 DEF Origin
    <3>2. QED
      BY <1>4, <3>1
  <2>2. CASE i = m + 1
    <3>1. c \in 1 .. k
      BY <1>1, <2>2
    <3>2. n + c \in 1 .. n + k /\ n + c \notin 1 .. n /\ (n + c) - n = c
      BY SMTT(40), <3>1
    <3>3. row1[n + c] = m + 1 /\ col1[n + c] = c
      BY <1>5, <3>2
    <3>4. QED
      BY <2>2, <3>2, <3>3
  <2>3. QED
    BY <2>1, <2>2
<1>10. Origin(row1, col1, tu, ss, m + 1)
  <2>1. DOMAIN tu = 1 .. n + k
    BY <1>2
  <2>2. row1 \in [DOMAIN tu -> 1 .. m + 1] /\ col1 \in [DOMAIN tu -> Nat]
    BY <1>6, <2>1
  <2>3. \A p \in DOMAIN tu : col1[p] \in DOMAIN ss[row1[p]] /\ tu[p] = ss[row1[p]][col1[p]]
    BY <1>7, <2>1
  <2>4. \A p, q \in DOMAIN tu : row1[p] = row1[q] /\ col1[p] = col1[q] => p = q
    BY ZenonT(40), <1>8, <2>1
  <2>5. \A i \in 1 .. m + 1 : \A c \in DOMAIN ss[i] :
           \E p \in DOMAIN tu : row1[p] = i /\ col1[p] = c
    <3> SUFFICES ASSUME NEW i \in 1 .. m + 1, NEW c \in DOMAIN ss[i]
                 PROVE  \E p \in DOMAIN tu : row1[p] = i /\ col1[p] = c
      OBVIOUS
    <3>1. PICK p \in 1 .. n + k : row1[p] = i /\ col1[p] = c
      BY <1>9
    <3>2. QED
      BY <2>1, <3>1
  <2>6. QED
    BY <2>2, <2>3, <2>4, <2>5, Zenon DEF Origin
<1>11. QED
  BY <1>10

(* What FlattenSeq returns: every element of every sequence, once each.    *)
LEMMA FlattenFacts ==
  ASSUME NEW S, NEW ss \in Seq(Seq(S))
  PROVE  /\ FlattenSeq(ss) \in Seq(S)
         /\ \E row, col : Origin(row, col, FlattenSeq(ss), ss, Len(ss))
<1> PICK n \in Nat : n = Len(ss)
  OBVIOUS
<1>1. DOMAIN ss = 1 .. n
  OBVIOUS
<1>2. CASE n = 0
  <2>1. FlattenSeq(ss) = <<>>
    BY <1>2, FlattenIs
  <2>2. <<>> \in Seq(S) /\ DOMAIN <<>> = {}
    OBVIOUS
  <2>3. Origin(<<>>, <<>>, <<>>, ss, 0)
    <3>1. 1 .. 0 = {}
      OBVIOUS
    <3>2. <<>> \in [{} -> 1 .. 0] /\ <<>> \in [{} -> Nat]
      OBVIOUS
    <3>3. QED
      BY <2>2, <3>1, <3>2 DEF Origin
  <2>4. QED
    BY <1>2, <2>1, <2>2, <2>3
<1>3. CASE n # 0
  <2>1. PICK f \in [1 .. n -> Seq(S)] : IsFlatten(f, ss, n) /\ FlattenSeq(ss) = f[n]
    BY <1>3, FlattenIs
  <2> DEFINE T == {m \in 0 .. n : m # 0 => \E row, col : Origin(row, col, f[m], ss, m)}
  <2>2. 0 \in T
    OBVIOUS
  <2>3. ASSUME NEW m \in 0 .. n - 1, m \in T PROVE m + 1 \in T
    <3>1. PICK k \in 1 .. n : k = m + 1
      OBVIOUS
    <3>2. f[k] = IF k = 1 THEN ss[k] ELSE f[k - 1] \o ss[k]
      BY <2>1 DEF IsFlatten
    <3>3. \E row, col : Origin(row, col, f[k], ss, k)
      <4>1. CASE m = 0
        <5>1. k = 1 /\ f[1] = ss[1] /\ ss[1] \in Seq(S)
          BY <1>1, <3>1, <3>2, <4>1
        <5> DEFINE row == [p \in DOMAIN ss[1] |-> 1]
                   col == [p \in DOMAIN ss[1] |-> p]
        <5>2. row \in [DOMAIN ss[1] -> 1 .. 1]
          OBVIOUS
        <5>3. col \in [DOMAIN ss[1] -> Nat]
          BY <5>1
        <5>4. \A i \in 1 .. 1 : i = 1
          OBVIOUS
        <5>5. Origin(row, col, ss[1], ss, 1)
          BY <5>2, <5>3, <5>4 DEF Origin
        <5>6. QED
          BY <5>1, <5>5
      <4>2. CASE m # 0
        <5>1. PICK row, col : Origin(row, col, f[m], ss, m)
          BY <2>3, <4>2
        <5>2. m \in Nat /\ m \in 1 .. n /\ m + 1 \in DOMAIN ss /\ k - 1 = m /\ k # 1
          BY <1>1, <3>1, <4>2
        <5>3. f[m] \in Seq(S)
          BY <5>2
        <5>4. \E row1, col1 : Origin(row1, col1, f[m] \o ss[m + 1], ss, m + 1)
          BY <5>1, <5>2, <5>3, OriginGrows
        <5>5. QED
          BY <3>1, <3>2, <5>2, <5>4
      <4>3. QED
        BY <4>1, <4>2
    <3>4. QED
      BY <3>1, <3>3
  <2>4. T = 0 .. n
    <3>1. T \in SUBSET (0 .. n)
      OBVIOUS
    <3> HIDE DEF T
    <3>2. QED
      BY <2>2, <2>3, <3>1, UpTo
  <2>5. n \in 0 .. n
    OBVIOUS
  <2>6. n \in T
    BY <2>4, <2>5, Zenon
  <2>7. \E row, col : Origin(row, col, f[n], ss, n)
    BY <1>3, <2>6
  <2>8. f[n] \in Seq(S)
    BY <1>3
  <2>9. QED
    BY <2>1, <2>7, <2>8
<1>4. QED
  BY <1>2, <1>3

-----------------------------------------------------------------------------
(***************************************************************************)
(* Cutting out the candidate.                                              *)
(***************************************************************************)
\* The lines of the circuit.
NamesLines == {NamesLine(net.inputs[n], n) : n \in Gates}
Rows == [kind : {"row"}, gate : Gates, shape : {"digits", "other"}]
FileLine == NamesLines \cup Rows \cup {EndLine}

AreNames(lines, i) == i \in DOMAIN lines /\ lines[i].kind = "names"

\* No gate has two .names lines.
OneLineEach(lines) ==
    \A i, j \in DOMAIN lines :
        AreNames(lines, i) /\ AreNames(lines, j) /\ lines[i].out = lines[j].out => i = j

\* The file has one for every gate.
FileIsWhole ==
    /\ file \in Seq(FileLine)
    /\ OneLineEach(file)
    /\ GatesOn(file) = Gates

\* Of those passed, the rest has the ones that are not found.
Left == {file[j].out : j \in {k \in 1 .. line : AreNames(file, k) /\ ~Found(file[k])}}

RestIsLeft ==
    /\ line \in 0 .. Len(file)
    /\ rest \in Seq(FileLine)
    /\ OneLineEach(rest)
    /\ GatesOn(rest) = Left

RestInv ==
    /\ net \in Circuits /\ candidate \in Candidates
    /\ FileIsWhole
    /\ RestIsLeft

LEMMA CandidateFacts ==
  ASSUME net \in Circuits, candidate \in Candidates
  PROVE  /\ WellFormed(net)
         /\ Cone \subseteq Gates
<1>1. WellFormed(net)
  BY CircuitsWellFormed
<1>2. PICK r \in Gates : \E gs \in SetToSeqs(MFFC(r) \cap Gates) : candidate.gates = gs
  <2>1. PICK r \in {n \in Gates : Chosen(n)} :
          candidate \in {[inputs |-> SetToSeq(InSig(MFFC(r))), output |-> r, gates |-> gs] :
                            gs \in SetToSeqs(MFFC(r) \cap Gates)}
    BY Zenon DEF Candidates
  <2>2. PICK gs \in SetToSeqs(MFFC(r) \cap Gates) :
          candidate = [inputs |-> SetToSeq(InSig(MFFC(r))), output |-> r, gates |-> gs]
    BY <2>1, Zenon
  <2>3. candidate.gates = gs
    BY <2>2
  <2>4. QED
    BY <2>1, <2>3
<1>3. Cone \subseteq Gates
  BY <1>2 DEF SetToSeqs, Cone, Range
<1>4. QED
  BY <1>1, <1>3

\* The lines of one gate: its .names line first, then rows.
LEMMA LinesOfFacts ==
  ASSUME NEW table \in [Gates -> Tables], NEW n
  PROVE  /\ LinesOf(n, table) \in Seq(FileLine)
         /\ n \notin Gates => DOMAIN LinesOf(n, table) = {}
         /\ n \in Gates =>
                /\ 1 \in DOMAIN LinesOf(n, table)
                /\ LinesOf(n, table)[1] = NamesLine(net.inputs[n], n)
                /\ \A i \in DOMAIN LinesOf(n, table) : i # 1 => LinesOf(n, table)[i].kind = "row"
<1>1. CASE n \notin Gates
  <2>1. LinesOf(n, table) = <<>>
    BY <1>1 DEF LinesOf
  <2>2. <<>> \in Seq(FileLine) /\ DOMAIN <<>> = {}
    OBVIOUS
  <2>3. QED
    BY <1>1, <2>1, <2>2, Zenon
<1>2. CASE n \in Gates
  <2> PICK t \in Seq({"digits", "other"}) : t = table[n]
    BY <1>2, TableShapes
  <2> DEFINE rows == [i \in DOMAIN t |-> [kind |-> "row", gate |-> n, shape |-> t[i]]]
             head == NamesLine(net.inputs[n], n)
  <2>1. DOMAIN t = 1 .. Len(t) /\ Len(t) \in Nat
    OBVIOUS
  <2>2. rows \in Seq(FileLine)
    <3>1. \A i \in DOMAIN t : [kind |-> "row", gate |-> n, shape |-> t[i]] \in FileLine
      BY <1>2 DEF FileLine, Rows
    <3>2. rows \in [1 .. Len(t) -> FileLine]
      BY <2>1, <3>1
    <3>3. QED
      BY <2>1, <3>2
  <2>3. head \in FileLine
    BY <1>2 DEF FileLine, NamesLines
  <2>4. \A i \in DOMAIN rows : rows[i].kind = "row"
    OBVIOUS
  <2>5. LinesOf(n, table) = <<head>> \o rows
    BY <1>2 DEF LinesOf, GateLines
  <2> HIDE DEF rows, head
  <2>6. <<head>> \in Seq(FileLine) /\ Len(<<head>>) = 1 /\ <<head>>[1] = head
    BY <2>3
  <2> DEFINE all == <<head>> \o rows
             k == Len(rows)
  <2>7. /\ all \in Seq(FileLine) /\ k \in Nat /\ DOMAIN rows = 1 .. k
        /\ DOMAIN all = 1 .. 1 + k
        /\ \A i \in 1 .. 1 : all[i] = <<head>>[i]
        /\ \A i \in 1 .. k : all[1 + i] = rows[i]
    BY <2>2, <2>6, JoinedFacts
  <2> HIDE DEF all, k
  <2>8. 1 \in DOMAIN all /\ all[1] = head
    BY <2>6, <2>7
  <2>9. ASSUME NEW i \in DOMAIN all, i # 1 PROVE all[i].kind = "row"
    <3>1. i - 1 \in 1 .. k /\ 1 + (i - 1) = i
      BY <2>7, <2>9
    <3>2. all[i] = rows[i - 1]
      BY <2>7, <3>1
    <3>3. QED
      BY <2>4, <2>7, <3>1, <3>2
  <2>10. QED
    BY <1>2, <2>5, <2>7, <2>8, <2>9, Zenon DEF all, head
<1>3. QED
  BY <1>1, <1>2

LEMMA NamesLineFacts ==
  ASSUME NEW l \in FileLine
  PROVE  /\ l.kind = "names" => l.out \in Gates /\ l = NamesLine(net.inputs[l.out], l.out)
         /\ l.kind \in {"names", "row", "end"}
         /\ l = EndLine <=> l.kind = "end"
  BY DEF FileLine, NamesLines, NamesLine, Rows, EndLine

LEMMA FileFacts ==
  ASSUME WellFormed(net), file \in CircuitFiles
  PROVE  FileIsWhole
<1> PICK table \in [Gates -> Tables] :
        file = FlattenSeq([i \in DOMAIN net.nodes |-> LinesOf(net.nodes[i], table)]) \o <<EndLine>>
  BY DEF CircuitFiles
<1> DEFINE ss == [i \in DOMAIN net.nodes |-> LinesOf(net.nodes[i], table)]
           t == FlattenSeq(ss)
<1>1. net.nodes \in Seq(Name) /\ DOMAIN net.nodes = 1 .. Len(net.nodes) /\ Len(net.nodes) \in Nat
  BY DEF WellFormed
<1>2. ss \in Seq(Seq(FileLine)) /\ Len(ss) = Len(net.nodes)
  <2>1. \A i \in DOMAIN net.nodes : LinesOf(net.nodes[i], table) \in Seq(FileLine)
    BY LinesOfFacts
  <2>2. ss \in [1 .. Len(net.nodes) -> Seq(FileLine)]
    BY <1>1, <2>1
  <2>3. QED
    BY <1>1, <2>2
<1>3. \A i \in DOMAIN net.nodes : ss[i] = LinesOf(net.nodes[i], table)
  OBVIOUS
<1> HIDE DEF ss
<1>4. t \in Seq(FileLine) /\ \E row, col : Origin(row, col, t, ss, Len(ss))
  BY <1>2, FlattenFacts
<1> PICK row, col : Origin(row, col, t, ss, Len(ss))
  BY <1>4
<1> HIDE DEF t
<1>5. file = t \o <<EndLine>>
  BY DEF t, ss
<1>6. EndLine \in FileLine /\ EndLine.kind = "end"
  BY DEF FileLine, EndLine
<1>7. /\ file \in Seq(FileLine) /\ DOMAIN t = 1 .. Len(t) /\ Len(t) \in Nat
      /\ DOMAIN file = 1 .. Len(t) + 1
      /\ \A p \in DOMAIN t : file[p] = t[p]
      /\ file[Len(t) + 1] = EndLine
  <2>1. <<EndLine>> \in Seq(FileLine) /\ Len(<<EndLine>>) = 1 /\ <<EndLine>>[1] = EndLine /\ 1 \in 1 .. 1
    BY <1>6
  <2>2. /\ t \o <<EndLine>> \in Seq(FileLine) /\ Len(t) \in Nat /\ DOMAIN t = 1 .. Len(t)
        /\ DOMAIN (t \o <<EndLine>>) = 1 .. Len(t) + Len(<<EndLine>>)
        /\ \A i \in 1 .. Len(t) : (t \o <<EndLine>>)[i] = t[i]
        /\ \A i \in 1 .. Len(<<EndLine>>) : (t \o <<EndLine>>)[Len(t) + i] = <<EndLine>>[i]
    BY <1>4, <2>1, JoinedFacts
  <2>3. (t \o <<EndLine>>)[Len(t) + 1] = EndLine
    BY <2>1, <2>2, SMTT(30)
  <2>4. QED
    BY <1>5, <2>1, <2>2, <2>3
<1>8. ASSUME NEW p, AreNames(file, p)
      PROVE  /\ p \in DOMAIN t /\ row[p] \in DOMAIN net.nodes /\ col[p] = 1
             /\ net.nodes[row[p]] \in Gates
             /\ file[p].out = net.nodes[row[p]]
  <2>1. p \in DOMAIN t /\ t[p].kind = "names" /\ file[p] = t[p]
    <3>1. p \in DOMAIN file /\ file[p].kind = "names"
      BY <1>8 DEF AreNames
    <3>2. p # Len(t) + 1
      BY <1>6, <1>7, <3>1
    <3>3. QED
      BY <1>7, <3>1, <3>2
  <2>2. row[p] \in DOMAIN net.nodes /\ col[p] \in DOMAIN ss[row[p]] /\ t[p] = ss[row[p]][col[p]]
    BY <1>1, <1>2, <2>1 DEF Origin
  <2> DEFINE n == net.nodes[row[p]]
  <2>3. ss[row[p]] = LinesOf(n, table)
    BY <1>3, <2>2
  <2>4. n \in Gates /\ col[p] = 1 /\ t[p] = NamesLine(net.inputs[n], n)
    BY <2>1, <2>2, <2>3, LinesOfFacts
  <2>5. file[p].out = n
    <3>1. NamesLine(net.inputs[n], n).out = n
      BY DEF NamesLine
    <3>2. QED
      BY <2>1, <2>4, <3>1, Zenon
  <2>6. QED
    BY <2>1, <2>2, <2>4, <2>5
<1>9. OneLineEach(file)
  <2> SUFFICES ASSUME NEW p, NEW q, AreNames(file, p), AreNames(file, q), file[p].out = file[q].out
               PROVE  p = q
    BY DEF OneLineEach
  <2>1. /\ p \in DOMAIN t /\ row[p] \in DOMAIN net.nodes /\ col[p] = 1
        /\ q \in DOMAIN t /\ row[q] \in DOMAIN net.nodes /\ col[q] = 1
        /\ net.nodes[row[p]] = net.nodes[row[q]]
    BY <1>8
  <2>2. row[p] = row[q]
    BY <2>1 DEF WellFormed, DistinctNodes
  <2>3. QED
    BY <2>1, <2>2 DEF Origin
<1>10. GatesOn(file) = Gates
  <2>1. GatesOn(file) \subseteq Gates
    BY <1>8 DEF GatesOn, AreNames
  <2>2. ASSUME NEW n \in Gates PROVE n \in GatesOn(file)
    <3>1. PICK i \in DOMAIN net.nodes : n = net.nodes[i]
      BY DEF Gates, NodesOf
    <3>2. 1 \in DOMAIN ss[i] /\ ss[i][1] = NamesLine(net.inputs[n], n)
      BY <1>3, <3>1, LinesOfFacts
    <3>3. PICK p \in DOMAIN t : row[p] = i /\ col[p] = 1
      BY <1>1, <1>2, <3>1, <3>2 DEF Origin
    <3>4. t[p] = NamesLine(net.inputs[n], n)
      BY <3>2, <3>3 DEF Origin
    <3>5. p \in DOMAIN file /\ file[p].kind = "names" /\ file[p].out = n
      BY <1>7, <3>4 DEF NamesLine
    <3>6. QED
      BY <3>5 DEF GatesOn
  <2>3. QED
    BY <2>1, <2>2
<1>11. QED
  BY <1>7, <1>9, <1>10 DEF FileIsWhole

\* Printing one more line.
LEMMA Printed ==
  ASSUME NEW S, NEW s \in Seq(S), NEW l \in S
  PROVE  /\ Append(s, l) \in Seq(S)
         /\ \A i : AreNames(Append(s, l), i) <=>
                     AreNames(s, i) \/ (i = Len(s) + 1 /\ l.kind = "names")
         /\ \A i \in DOMAIN s : Append(s, l)[i] = s[i]
         /\ Append(s, l)[Len(s) + 1] = l
         /\ GatesOn(Append(s, l)) = GatesOn(s) \cup (IF l.kind = "names" THEN {l.out} ELSE {})
<1> DEFINE a == Append(s, l)
           k == Len(s)
<1>1. /\ a \in Seq(S) /\ k \in Nat /\ DOMAIN s = 1 .. k /\ DOMAIN a = 1 .. k + 1
      /\ \A i \in DOMAIN s : a[i] = s[i]
      /\ a[k + 1] = l
  OBVIOUS
<1> HIDE DEF a, k
<1>2. ASSUME NEW i
      PROVE  AreNames(a, i) <=> AreNames(s, i) \/ (i = k + 1 /\ l.kind = "names")
  <2>1. i \in DOMAIN a <=> i \in DOMAIN s \/ i = k + 1
    BY <1>1
  <2>2. k + 1 \notin DOMAIN s
    BY <1>1
  <2>3. QED
    BY <1>1, <2>1, <2>2 DEF AreNames
<1>3. ASSUME NEW x
      PROVE  x \in GatesOn(a) <=> x \in GatesOn(s) \/ (l.kind = "names" /\ x = l.out)
  <2>1. x \in GatesOn(a) <=> \E i : AreNames(a, i) /\ a[i].out = x
    BY DEF GatesOn, AreNames
  <2>2. x \in GatesOn(s) <=> \E i : AreNames(s, i) /\ s[i].out = x
    BY DEF GatesOn, AreNames
  <2>3. \A i : AreNames(s, i) => a[i] = s[i]
    BY <1>1 DEF AreNames
  <2>4. QED
    BY <1>1, <1>2, <2>1, <2>2, <2>3
<1>4. GatesOn(a) = GatesOn(s) \cup (IF l.kind = "names" THEN {l.out} ELSE {})
  BY <1>3
<1>5. QED
  BY <1>1, <1>2, <1>4 DEF a, k

LEMMA RestStarts == RestInit => RestInv
<1> SUFFICES ASSUME RestInit PROVE RestInv
  OBVIOUS
<1>1. net \in Circuits /\ candidate \in Candidates /\ file \in CircuitFiles /\ line = 0 /\ rest = <<>>
  BY DEF RestInit
<1>2. FileIsWhole
  BY <1>1, CandidateFacts, FileFacts
<1>3. RestIsLeft
  <2>1. Len(file) \in Nat
    BY <1>2 DEF FileIsWhole
  <2>2. 1 .. line = {} /\ line \in 0 .. Len(file)
    BY <1>1, <2>1
  <2>3. rest \in Seq(FileLine) /\ DOMAIN rest = {}
    BY <1>1
  <2>4. OneLineEach(rest) /\ GatesOn(rest) = {}
    BY <2>3 DEF OneLineEach, GatesOn, AreNames
  <2>5. Left = {}
    BY <2>2 DEF Left
  <2>6. QED
    BY <2>2, <2>3, <2>4, <2>5 DEF RestIsLeft
<1>4. QED
  BY <1>1, <1>2, <1>3 DEF RestInv

\* One more line is passed.
LeftAfter == Left \cup (IF Current.kind = "names" /\ ~Found(Current) THEN {Current.out} ELSE {})

LEMMA Passed ==
  ASSUME RestInv, ~RestDone
  PROVE  /\ Current \in FileLine
         /\ line + 1 \in 1 .. Len(file)
         /\ Current.kind = "names" => Current.out \notin Left
         /\ LeftAfter = {file[j].out : j \in {k \in 1 .. line + 1 : AreNames(file, k) /\ ~Found(file[k])}}
<1>1. /\ file \in Seq(FileLine) /\ Len(file) \in Nat /\ DOMAIN file = 1 .. Len(file)
      /\ line \in 0 .. Len(file) /\ OneLineEach(file)
  BY DEF RestInv, FileIsWhole, RestIsLeft
<1>2. line + 1 \in 1 .. Len(file) /\ 1 .. line + 1 = (1 .. line) \cup {line + 1} /\ line + 1 \notin 1 .. line
  <2>1. PICK n \in Nat : n = Len(file)
    BY <1>1, ZenonT(40)
  <2>2. line \in 0 .. n /\ line # n
    BY ZenonT(40), <1>1, <2>1 DEF RestDone
  <2>3. line + 1 \in 1 .. n /\ 1 .. line + 1 = (1 .. line) \cup {line + 1} /\ line + 1 \notin 1 .. line
    BY <2>2
  <2>4. QED
    BY <2>1, <2>3, SMTT(30)
<1>3. Current \in FileLine
  BY <1>1, <1>2 DEF Current
<1>4. AreNames(file, line + 1) <=> Current.kind = "names"
  BY <1>1, <1>2 DEF AreNames, Current
<1>5. ASSUME Current.kind = "names", Current.out \in Left PROVE FALSE
  <2>1. PICK j \in 1 .. line : AreNames(file, j) /\ file[j].out = Current.out
    BY <1>5 DEF Left
  <2>2. j = line + 1
    <3>1. AreNames(file, line + 1) /\ file[line + 1].out = Current.out
      BY <1>4, <1>5 DEF Current
    <3>2. \A i, m : AreNames(file, i) /\ AreNames(file, m) /\ file[i].out = file[m].out => i = m
      <4>1. OneLineEach(file)
        BY <1>1
      <4>2. QED
        BY <4>1 DEF OneLineEach, AreNames
    <3>3. QED
      BY <2>1, <3>1, <3>2, Zenon
  <2>3. QED
    BY <1>2, <2>1, <2>2
<1>6. LeftAfter = {file[j].out : j \in {k \in 1 .. line + 1 : AreNames(file, k) /\ ~Found(file[k])}}
  <2> DEFINE Kept == {k \in 1 .. line : AreNames(file, k) /\ ~Found(file[k])}
             Now == {k \in 1 .. line + 1 : AreNames(file, k) /\ ~Found(file[k])}
  <2>1. Now = Kept \cup (IF Current.kind = "names" /\ ~Found(Current) THEN {line + 1} ELSE {})
    BY <1>2, <1>4 DEF Current
  <2>2. Left = {file[j].out : j \in Kept}
    BY DEF Left
  <2> HIDE DEF Kept, Now
  <2>3. {file[j].out : j \in Now} = LeftAfter
    BY <2>1, <2>2 DEF LeftAfter, Current
  <2>4. QED
    BY <2>3 DEF Now
<1>7. QED
  BY <1>2, <1>3, <1>5, <1>6

LEMMA RestMoves == RestInv /\ RestNext => RestInv'
<1> SUFFICES ASSUME RestInv, RestNext PROVE RestInv'
  OBVIOUS
<1>1. UNCHANGED <<net, candidate, file>> /\ line' = line + 1 /\ ~RestDone
  BY DEF RestNext, PrintNames, PrintRow, PrintOther
<1>2. /\ Current \in FileLine
      /\ line + 1 \in 1 .. Len(file)
      /\ Current.kind = "names" => Current.out \notin Left
      /\ LeftAfter = {file[j].out : j \in {k \in 1 .. line + 1 : AreNames(file, k) /\ ~Found(file[k])}}
  BY <1>1, Passed
<1>3. rest \in Seq(FileLine) /\ OneLineEach(rest) /\ GatesOn(rest) = Left
  BY DEF RestInv, RestIsLeft
<1>4. Gates' = Gates /\ Candidates' = Candidates /\ FileLine' = FileLine /\ Cone' = Cone
  BY <1>1 DEF Gates, Candidates, FileLine, NamesLines, Rows, Cone, Chosen, MFFC, InSig, TFI
<1>5. FileIsWhole'
  BY <1>1, <1>4 DEF RestInv, FileIsWhole
<1>6. Left' = LeftAfter
  BY <1>1, <1>2, <1>4 DEF Left, Found
<1>7. line' \in 0 .. Len(file')
  BY <1>1, <1>2
<1>8. rest' \in Seq(FileLine) /\ OneLineEach(rest') /\ GatesOn(rest') = LeftAfter
  <2>1. CASE rest' = rest /\ ~(Current.kind = "names" /\ ~Found(Current))
    BY <1>3, <2>1 DEF LeftAfter
  <2>2. CASE rest' = Append(rest, Current) /\ ~(Current.kind = "names" /\ Found(Current))
    <3>1. /\ rest' \in Seq(FileLine)
          /\ \A i : AreNames(rest', i) <=>
                      AreNames(rest, i) \/ (i = Len(rest) + 1 /\ Current.kind = "names")
          /\ \A i \in DOMAIN rest : rest'[i] = rest[i]
          /\ rest'[Len(rest) + 1] = Current
          /\ GatesOn(rest') = GatesOn(rest) \cup (IF Current.kind = "names" THEN {Current.out} ELSE {})
      BY <1>2, <1>3, <2>2, Printed
    <3>2. GatesOn(rest') = LeftAfter
      BY <1>3, <2>2, <3>1 DEF LeftAfter
    <3>3. OneLineEach(rest')
      <4> SUFFICES ASSUME NEW i, NEW j, AreNames(rest', i), AreNames(rest', j),
                          rest'[i].out = rest'[j].out, i # j
                   PROVE  FALSE
        BY DEF OneLineEach
      <4>1. \A m : AreNames(rest, m) => rest[m].out \in Left /\ rest'[m] = rest[m]
        BY <1>3, <3>1 DEF AreNames, GatesOn
      <4>2. ~(AreNames(rest, i) /\ AreNames(rest, j))
        BY <1>3, <4>1 DEF OneLineEach, AreNames
      <4>3. QED
        BY <1>2, <3>1, <4>1, <4>2
    <3>4. QED
      BY <3>1, <3>2, <3>3
  <2>3. CASE PrintNames
    BY <2>1, <2>2, <2>3 DEF PrintNames
  <2>4. CASE PrintRow
    BY <2>1, <2>2, <2>4 DEF PrintRow
  <2>5. CASE PrintOther
    BY <2>1, <2>2, <2>5 DEF PrintOther
  <2>6. QED
    BY <2>3, <2>4, <2>5 DEF RestNext
<1>9. OneLineEach(rest)' /\ GatesOn(rest)' = LeftAfter
  BY <1>8 DEF OneLineEach, AreNames, GatesOn
<1>10. RestIsLeft'
  BY <1>4, <1>6, <1>7, <1>8, <1>9 DEF RestIsLeft
<1>11. QED
  BY <1>1, <1>4, <1>5, <1>10 DEF RestInv

LEMMA RestStays == RestInv /\ UNCHANGED restVars => RestInv'
<1> SUFFICES ASSUME RestInv, UNCHANGED restVars PROVE RestInv'
  OBVIOUS
<1>1. UNCHANGED <<net, candidate, file, line, rest>>
  BY DEF restVars
<1>2. Gates' = Gates /\ Candidates' = Candidates /\ FileLine' = FileLine /\ Cone' = Cone
  BY <1>1 DEF Gates, Candidates, FileLine, NamesLines, Rows, Cone, Chosen, MFFC, InSig, TFI
<1>3. Left' = Left
  BY <1>1, <1>2 DEF Left, Found
<1>4. FileIsWhole' /\ RestIsLeft'
  BY <1>1, <1>2, <1>3 DEF RestInv, FileIsWhole, RestIsLeft
<1>5. QED
  BY <1>1, <1>2, <1>4 DEF RestInv

\* Throughout the three scripts the rest has the gates of the circuit that were
\* passed and not found in the candidate, once each.
THEOREM CutOut == SynSpec => []RestInv
<1>1. SynInitAll => RestInv
  BY RestStarts DEF SynInitAll
<1>2. RestInv /\ [SynNext]_synAllVars => RestInv'
  <2>1. [SynNext]_synAllVars => RestNext \/ UNCHANGED restVars
    BY DEF SynNext, synAllVars
  <2>2. QED
    BY <2>1, RestMoves, RestStays
<1>3. QED
  BY <1>1, <1>2, PTL DEF SynSpec

\* When all lines are passed.
LEMMA RestSplits ==
  ASSUME RestInv, RestDone
  PROVE  /\ GatesOn(rest) \cup Cone = Gates
         /\ GatesOn(rest) \cap Cone =
                {n \in Cone : ~(Range(net.inputs[n]) \cup {n} \subseteq Literal)}
<1>1. /\ file \in Seq(FileLine) /\ DOMAIN file = 1 .. Len(file)
      /\ GatesOn(file) = Gates /\ GatesOn(rest) = Left /\ line = Len(file)
  BY DEF RestInv, FileIsWhole, RestIsLeft, RestDone
<1>2. Cone \subseteq Gates
  BY CandidateFacts DEF RestInv
<1>3. ASSUME NEW j, AreNames(file, j)
      PROVE  /\ file[j].out \in Gates
             /\ Found(file[j]) <=>
                  /\ file[j].out \in Cone
                  /\ Range(net.inputs[file[j].out]) \cup {file[j].out} \subseteq Literal
  <2>1. file[j].out \in Gates /\ file[j] = NamesLine(net.inputs[file[j].out], file[j].out)
    BY <1>1, <1>3, NamesLineFacts DEF AreNames
  <2>2. file[j].pins = net.inputs[file[j].out]
    BY <2>1 DEF NamesLine
  <2>3. QED
    BY <2>1, <2>2 DEF Found
<1>4. \A n : n \in GatesOn(rest) <=>
         \E j : AreNames(file, j) /\ ~Found(file[j]) /\ n = file[j].out
  BY <1>1 DEF Left, AreNames
<1>5. \A n \in Gates : \E j : AreNames(file, j) /\ n = file[j].out
  BY <1>1 DEF GatesOn, AreNames
<1>6. \A n \in Gates : n \in GatesOn(rest) <=>
         ~(n \in Cone /\ Range(net.inputs[n]) \cup {n} \subseteq Literal)
  BY <1>3, <1>4, <1>5
<1>7. GatesOn(rest) \subseteq Gates
  BY <1>3, <1>4
<1>8. QED
  BY <1>2, <1>6, <1>7

\* GatesAreSplit: when all lines are passed, the rest and the candidate share
\* the gates of the circuit among them, except those with brackets.
THEOREM GatesSplit == SynSpec => []GatesAreSplit
<1>1. RestInv => GatesAreSplit
  BY RestSplits DEF GatesAreSplit
<1>2. QED
  BY <1>1, CutOut, PTL

-----------------------------------------------------------------------------
(***************************************************************************)
(* The candidate.                                                          *)
(***************************************************************************)
\* The candidate is the cone of its output.
LEMMA CandidateIs ==
  ASSUME net \in Circuits, candidate \in Candidates
  PROVE  LET r == candidate.output
             M == MFFC(r)
         IN  /\ r \in Gates /\ r \in M /\ M \subseteq NodesOf(net) /\ M \subseteq TFI(r)
             /\ \A m \in M \ {r} : Range(net.fanouts[m]) \subseteq M
             /\ Cone = M \cap Gates /\ candidate.gates \in Seq(M \cap Gates)
             /\ Range(candidate.inputs) = InSig(M) /\ InSig(M) \subseteq NodesOf(net)
             /\ candidate.inputs \in Seq(InSig(M))
             /\ Len(candidate.inputs) = Cardinality(InSig(M))
             /\ Len(candidate.inputs) \in num_input_min .. num_input_max
             /\ IsFiniteSet(InSig(M)) /\ IsFiniteSet(M \cap Gates)
<1>1. WellFormed(net)
  BY CandidateFacts
<1>2. PICK r \in {n \in Gates : Chosen(n)} :
        candidate \in {[inputs |-> SetToSeq(InSig(MFFC(r))), output |-> r, gates |-> gs] :
                          gs \in SetToSeqs(MFFC(r) \cap Gates)}
  BY Zenon DEF Candidates
<1>3. PICK gs \in SetToSeqs(MFFC(r) \cap Gates) :
        candidate = [inputs |-> SetToSeq(InSig(MFFC(r))), output |-> r, gates |-> gs]
  BY <1>2, Zenon
<1> DEFINE M == MFFC(r)
<1>4. /\ candidate.inputs = SetToSeq(InSig(M))
      /\ candidate.output = r
      /\ candidate.gates = gs
  BY <1>3
<1>5. TFI(r) \subseteq NodesOf(net) \cup {r}
  BY DEF TFI
<1>6. r \in NodesOf(net) /\ r \in Gates
  BY <1>2 DEF Gates
<1>7. M \subseteq NodesOf(net) /\ M \subseteq TFI(r)
  <2>1. M \subseteq TFI(r)
    BY DEF MFFC
  <2>2. QED
    BY <1>5, <1>6, <2>1
<1>8. r \in M
  <2>1. {r} \in SUBSET TFI(r)
    BY DEF TFI
  <2>2. QED
    BY <2>1 DEF MFFC
<1>9. \A m \in M \ {r} : Range(net.fanouts[m]) \subseteq M
  BY DEF MFFC
<1>10. Cardinality(InSig(M)) \in num_input_min .. num_input_max
  BY <1>2 DEF Chosen
<1>11. gs \in SetToSeqs(M \cap Gates)
  BY <1>3
<1>12. InSig(M) \subseteq UNION {Range(net.inputs[n]) : n \in M}
  BY DEF InSig
<1> HIDE DEF M
<1>13. \A n \in NodesOf(net) : Range(net.inputs[n]) \subseteq NodesOf(net)
  BY <1>1 DEF WellFormed, Range
<1>14. InSig(M) \subseteq NodesOf(net)
  BY <1>7, <1>12, <1>13
<1>15. IsFiniteSet(InSig(M)) /\ IsFiniteSet(M \cap Gates)
  BY <1>1, <1>7, <1>14, NodesAreFinite, FS_Subset
<1>16. gs \in Seq(M \cap Gates) /\ Range(gs) = M \cap Gates
  <2>1. /\ gs \in [1 .. Cardinality(M \cap Gates) -> M \cap Gates]
        /\ \A i, j \in 1 .. Cardinality(M \cap Gates) : gs[i] = gs[j] => i = j
    BY <1>11 DEF SetToSeqs
  <2>2. QED
    BY <1>15, <2>1, AllOfThem
<1>17. Cone = M \cap Gates
  BY <1>4, <1>16 DEF Cone
<1>18. /\ candidate.inputs \in Seq(InSig(M)) /\ Range(candidate.inputs) = InSig(M)
       /\ Len(candidate.inputs) = Cardinality(InSig(M))
  BY <1>4, <1>15, SetToSeqFacts
<1>19. candidate.gates \in Seq(M \cap Gates) /\ M = MFFC(candidate.output)
  BY <1>4, <1>16 DEF M
<1>20. QED
  BY <1>4, <1>6, <1>7, <1>8, <1>9, <1>10, <1>14, <1>15, <1>17, <1>18, <1>19

\* What the proofs about the new circuit use of the candidate: its gates are
\* closed under readers, except for the output, and its inputs are what they
\* read from outside.
LEMMA ConeFacts ==
  ASSUME net \in Circuits, candidate \in Candidates
  PROVE  /\ candidate.output \in Cone
         /\ candidate.gates \in Seq(Cone)
         /\ candidate.inputs \in Seq(NodesOf(net))
         /\ Len(candidate.inputs) \in num_input_min .. num_input_max
         /\ Range(candidate.inputs) \cap Cone = {}
         /\ \A n \in Cone : Range(net.inputs[n]) \subseteq Cone \cup Range(candidate.inputs)
         /\ \A n \in NodesOf(net) \ Cone :
               Range(net.inputs[n]) \cap Cone \subseteq {candidate.output}
<1> DEFINE r == candidate.output
           M == MFFC(r)
<1>1. WellFormed(net)
  BY CandidateFacts
<1>2. /\ r \in Gates /\ r \in M /\ M \subseteq NodesOf(net)
      /\ \A m \in M \ {r} : Range(net.fanouts[m]) \subseteq M
      /\ Cone = M \cap Gates /\ candidate.gates \in Seq(M \cap Gates)
      /\ Range(candidate.inputs) = InSig(M) /\ InSig(M) \subseteq NodesOf(net)
      /\ candidate.inputs \in Seq(InSig(M))
      /\ Len(candidate.inputs) \in num_input_min .. num_input_max
  BY CandidateIs
<1>3. InSig(M) = {m \in UNION {Range(net.inputs[n]) : n \in M} :
                      net.type[m] = "INPUT" \/ m \notin M}
  BY DEF InSig
<1> HIDE DEF M
<1>4. \A n \in NodesOf(net) : Range(net.inputs[n]) \subseteq NodesOf(net)
  BY <1>1 DEF WellFormed, Range
<1>5. candidate.inputs \in Seq(NodesOf(net))
  BY <1>2
<1>6. \A m \in NodesOf(net) : m \in Gates <=> net.type[m] # "INPUT"
  BY DEF Gates
<1>7. Range(candidate.inputs) \cap Cone = {}
  BY <1>2, <1>3, <1>6
<1>8. ASSUME NEW n \in Cone
      PROVE  Range(net.inputs[n]) \subseteq Cone \cup Range(candidate.inputs)
  BY <1>2, <1>3, <1>4, <1>6
<1>9. ASSUME NEW n \in NodesOf(net) \ Cone, NEW m \in Range(net.inputs[n]) \cap Cone
      PROVE  m = r
  <2> SUFFICES ASSUME m # r PROVE FALSE
    OBVIOUS
  <2>1. m \in M \ {r} /\ m \in NodesOf(net)
    BY <1>2
  <2>2. n \in Range(net.fanouts[m])
    BY <1>1, <2>1, ReadersAreFanouts
  <2>3. n \in M
    BY <1>2, <2>1, <2>2
  <2>4. net.type[n] = "INPUT"
    BY <1>2, <1>6, <2>3
  <2>5. net.inputs[n] = <<>>
    BY <1>1, <2>4 DEF WellFormed, InputsReadNothing
  <2>6. QED
    BY <2>5 DEF Range
<1>10. candidate.gates \in Seq(Cone) /\ r \in Cone
  BY <1>2
<1>11. QED
  BY <1>2, <1>5, <1>7, <1>8, <1>9, <1>10

-----------------------------------------------------------------------------
(***************************************************************************)
(* The trees of gates.                                                     *)
(***************************************************************************)
Path == Seq({1, 2})
Signal == {Var(i) : i \in Nat} \cup {Wire(p) : p \in Path}
TreeLine == [left : Signal, right : Signal, out : Signal]

Operand(l, w) == w = l.left \/ w = l.right

\* Over k variables: every gate has a wire of its own, the last one the wire of
\* the tree, and reads variables and inner wires of gates before it.
IsTree(t, k) ==
    /\ t \in Seq(TreeLine)
    /\ Len(t) = k - 1
    /\ k > 1 => t[k - 1].out = Wire(<<>>)
    /\ \A i \in DOMAIN t : ~IsVar(t[i].out)
    /\ \A i, j \in DOMAIN t : t[i].out = t[j].out => i = j
    /\ \A i \in DOMAIN t : \A w \in Signal : Operand(t[i], w) =>
          \/ \E v \in 1 .. k : w = Var(v)
          \/ IsInner(w) /\ \E j \in DOMAIN t : j < i /\ t[j].out = w

LEMMA SignalFacts ==
  /\ \A i : IsVar(Var(i)) /\ Var(i).var = i
  /\ \A p : ~IsVar(Wire(p)) /\ Wire(p).path = p
  /\ \A w \in Signal : IsVar(w) => \E i \in Nat : w = Var(i)
  /\ \A w \in Signal : ~IsVar(w) => w.path \in Path /\ w = Wire(w.path)
  /\ \A p : IsInner(Wire(p)) <=> p # <<>>
<1>1. \A i : IsVar(Var(i)) /\ Var(i).var = i
  BY DEF IsVar, Var
<1>2. \A p : ~IsVar(Wire(p)) /\ Wire(p).path = p
  BY DEF IsVar, Wire
<1>3. \A w \in Signal : (\E i \in Nat : w = Var(i)) \/ \E p \in Path : w = Wire(p)
  BY DEF Signal
<1>4. \A p : IsInner(Wire(p)) <=> p # <<>>
  BY <1>2 DEF IsInner
<1>5. QED
  BY <1>1, <1>2, <1>3, <1>4

LEMMA SideFacts ==
  ASSUME NEW side \in {1, 2}, NEW p \in Path
  PROVE  /\ <<side>> \o p \in Path /\ <<side>> \o p # <<>> /\ (<<side>> \o p)[1] = side
         /\ \A q \in Path : <<side>> \o p = <<side>> \o q => p = q
<1>1. <<side>> \in Seq({1, 2}) /\ Len(<<side>>) = 1 /\ <<side>>[1] = side
  OBVIOUS
<1>2. p \in Seq({1, 2})
  BY DEF Path
<1>3. <<side>> \o p \in Seq({1, 2}) /\ Len(<<side>> \o p) = 1 + Len(p) /\ Len(p) \in Nat
  BY <1>1, <1>2, ConcatProperties
<1>4. (<<side>> \o p)[1] = <<side>>[1]
  BY <1>1, <1>2, JoinedFacts
<1>5. <<side>> \o p # <<>>
  <2>1. Len(<<>>) = 0 /\ Len(<<side>> \o p) # 0
    BY <1>3
  <2>2. QED
    BY <2>1
<1>6. \A q \in Path : <<side>> \o p = <<side>> \o q => p = q
  BY <1>1, <1>2, ConcatSimplifications DEF Path
<1>7. QED
  BY <1>1, <1>3, <1>4, <1>5, <1>6 DEF Path

\* The signal w of a subtree, in the tree.
At(w, side, shift) == IF IsVar(w) THEN Var(w.var + shift) ELSE Wire(<<side>> \o w.path)

LEMMA AtFacts ==
  ASSUME NEW side \in {1, 2}, NEW shift \in Nat, NEW w \in Signal
  PROVE  /\ At(w, side, shift) \in Signal
         /\ \A v \in Nat : w = Var(v) => At(w, side, shift) = Var(v + shift)
         /\ ~IsVar(w) => /\ At(w, side, shift) = Wire(<<side>> \o w.path)
                         /\ IsInner(At(w, side, shift))
                         /\ ~IsVar(At(w, side, shift))
                         /\ At(w, side, shift).path[1] = side
                         /\ \A u \in Signal : ~IsVar(u) /\ At(u, side, shift) = At(w, side, shift) => u = w
<1>1. CASE IsVar(w)
  <2>1. PICK i \in Nat : w = Var(i)
    BY <1>1, SignalFacts
  <2>2. At(w, side, shift) = Var(i + shift) /\ i + shift \in Nat
    BY <1>1, <2>1, SignalFacts DEF At
  <2>3. \A v \in Nat : w = Var(v) => v = i
    <3>1. \A v : Var(v) = Var(i) => v = i
      BY DEF Var
    <3>2. QED
      BY <2>1, <3>1
  <2>4. QED
    BY <1>1, <2>2, <2>3 DEF Signal
<1>2. CASE ~IsVar(w)
  <2>1. w.path \in Path /\ w = Wire(w.path)
    BY <1>2, SignalFacts
  <2> DEFINE q == <<side>> \o w.path
  <2>2. q \in Path /\ q # <<>> /\ q[1] = side
    BY <2>1, SideFacts
  <2>3. At(w, side, shift) = Wire(q)
    BY <1>2 DEF At
  <2>4. /\ Wire(q) \in Signal /\ IsInner(Wire(q)) /\ ~IsVar(Wire(q)) /\ Wire(q).path = q
    BY <2>2, SignalFacts DEF Signal
  <2>5. ASSUME NEW u \in Signal, ~IsVar(u), At(u, side, shift) = At(w, side, shift)
        PROVE  u = w
    <3>1. u.path \in Path /\ u = Wire(u.path)
      BY <2>5, SignalFacts
    <3>2. Wire(<<side>> \o u.path) = Wire(q)
      BY <2>3, <2>5 DEF At
    <3>3. <<side>> \o u.path = q
      BY <3>2, SignalFacts, ZenonT(40)
    <3>4. u.path = w.path
      BY <2>1, <3>1, <3>3, SideFacts
    <3>5. QED
      BY <2>1, <3>1, <3>4
  <2>6. \A v \in Nat : w # Var(v)
    BY <1>2, SignalFacts
  <2>7. QED
    BY <1>2, <2>2, <2>3, <2>4, <2>5, <2>6
<1>3. QED
  BY <1>1, <1>2

LEMMA MovedFacts ==
  ASSUME NEW k \in Nat \ {0}, NEW t, IsTree(t, k), NEW side \in {1, 2}, NEW shift \in Nat
  PROVE  LET m == Moved(t, side, shift)
         IN  /\ m \in Seq(TreeLine) /\ Len(m) = k - 1 /\ DOMAIN m = 1 .. k - 1
             /\ k > 1 => m[k - 1].out = Wire(<<side>>)
             /\ \A i \in DOMAIN m : /\ IsInner(m[i].out) /\ ~IsVar(m[i].out)
                                    /\ m[i].out.path[1] = side
             /\ \A i, j \in DOMAIN m : m[i].out = m[j].out => i = j
             /\ \A i \in DOMAIN m : \A w \in Signal : Operand(m[i], w) =>
                   \/ \E v \in 1 + shift .. k + shift : w = Var(v)
                   \/ IsInner(w) /\ \E j \in DOMAIN m : j < i /\ m[j].out = w
<1> DEFINE at(w) == At(w, side, shift)
           m == [i \in DOMAIN t |-> [left  |-> at(t[i].left),
                                     right |-> at(t[i].right),
                                     out   |-> at(t[i].out)]]
<1>1. Moved(t, side, shift) = m
  BY DEF Moved, At
<1>2. t \in Seq(TreeLine) /\ Len(t) = k - 1 /\ DOMAIN t = 1 .. k - 1
  BY DEF IsTree
<1>3. \A i \in DOMAIN t : t[i] \in TreeLine
  BY <1>2
<1>4. \A i \in DOMAIN t : t[i].left \in Signal /\ t[i].right \in Signal /\ t[i].out \in Signal
  BY <1>3 DEF TreeLine
<1>5. \A w \in Signal : at(w) \in Signal
  BY AtFacts
<1>6. \A i \in DOMAIN t : ~IsVar(t[i].out)
  BY DEF IsTree
<1>7. \A i \in DOMAIN t :
         /\ m[i] \in TreeLine
         /\ m[i].left = at(t[i].left) /\ m[i].right = at(t[i].right) /\ m[i].out = at(t[i].out)
  BY <1>4, <1>5 DEF TreeLine
<1>8. DOMAIN m = 1 .. k - 1
  BY <1>2
<1>9. m \in Seq(TreeLine) /\ Len(m) = k - 1
  <2>1. m \in [1 .. k - 1 -> TreeLine]
    BY <1>2, <1>7
  <2>2. k - 1 \in Nat
    OBVIOUS
  <2>3. QED
    BY <2>1, <2>2
<1> HIDE DEF m, at
<1>10. ASSUME k > 1 PROVE m[k - 1].out = Wire(<<side>>)
  <2>1. t[k - 1].out = Wire(<<>>) /\ k - 1 \in DOMAIN t
    BY <1>2, <1>10 DEF IsTree
  <2>2. <<side>> \o <<>> = <<side>>
    <3>1. <<side>> \in Seq({1, 2})
      OBVIOUS
    <3>2. QED
      BY <3>1, ConcatEmptySeq
  <2>3. at(Wire(<<>>)) = Wire(<<side>> \o <<>>)
    BY SignalFacts DEF at, At
  <2>4. QED
    BY <1>7, <2>1, <2>2, <2>3
<1>11. \A i \in DOMAIN m : IsInner(m[i].out) /\ ~IsVar(m[i].out) /\ m[i].out.path[1] = side
  BY <1>2, <1>4, <1>6, <1>7, <1>8, AtFacts DEF at
<1>12. ASSUME NEW i \in DOMAIN m, NEW j \in DOMAIN m, m[i].out = m[j].out PROVE i = j
  <2>1. t[i].out = t[j].out
    BY <1>2, <1>4, <1>6, <1>7, <1>8, <1>12, AtFacts DEF at
  <2>2. QED
    BY <1>2, <1>8, <2>1 DEF IsTree
<1>13. ASSUME NEW i \in DOMAIN m, NEW w \in Signal, Operand(m[i], w)
       PROVE  \/ \E v \in 1 + shift .. k + shift : w = Var(v)
              \/ IsInner(w) /\ \E j \in DOMAIN m : j < i /\ m[j].out = w
  <2>1. PICK u \in Signal : Operand(t[i], u) /\ w = at(u)
    BY <1>2, <1>4, <1>7, <1>8, <1>13 DEF Operand
  <2>2. \/ \E v \in 1 .. k : u = Var(v)
        \/ IsInner(u) /\ \E j \in DOMAIN t : j < i /\ t[j].out = u
    BY <1>2, <1>8, <2>1 DEF IsTree
  <2>3. CASE \E v \in 1 .. k : u = Var(v)
    <3>1. PICK v \in 1 .. k : u = Var(v)
      BY <2>3
    <3>2. v + shift \in 1 + shift .. k + shift
      OBVIOUS
    <3>3. v \in Nat
      OBVIOUS
    <3>4. w = Var(v + shift)
      BY <2>1, <3>1, <3>3, AtFacts DEF at
    <3>5. QED
      BY <3>2, <3>4
  <2>4. CASE IsInner(u) /\ \E j \in DOMAIN t : j < i /\ t[j].out = u
    <3>1. PICK j \in DOMAIN t : j < i /\ t[j].out = u
      BY <2>4
    <3>2. m[j].out = w /\ j \in DOMAIN m /\ j < i
      BY <1>2, <1>7, <1>8, <2>1, <3>1
    <3>3. QED
      BY <1>11, <3>2
  <2>5. QED
    BY <2>2, <2>3, <2>4
<1>14. QED
  BY <1>1, <1>8, <1>9, <1>10, <1>11, <1>12, <1>13

\* The gate over two subtrees, the left one of i of the k variables.
RootLine(i, k) ==
    [left  |-> IF i = 1 THEN Var(1) ELSE Wire(<<1>>),
     right |-> IF i = k - 1 THEN Var(k) ELSE Wire(<<2>>),
     out   |-> Wire(<<>>)]

Over(a, b, i, k) == Moved(a, 1, 0) \o Moved(b, 2, i) \o <<RootLine(i, k)>>

LEMMA OverIsTree ==
  ASSUME NEW i \in Nat \ {0}, NEW j \in Nat \ {0}, NEW a, IsTree(a, i), NEW b, IsTree(b, j)
  PROVE  IsTree(Over(a, b, i, i + j), i + j)
<1> DEFINE A == Moved(a, 1, 0)
           B == Moved(b, 2, i)
           R == RootLine(i, i + j)
           T == Over(a, b, i, i + j)
<1>a. /\ A \in Seq(TreeLine) /\ Len(A) = i - 1 /\ DOMAIN A = 1 .. i - 1
      /\ i > 1 => A[i - 1].out = Wire(<<1>>)
      /\ \A p \in DOMAIN A : IsInner(A[p].out) /\ ~IsVar(A[p].out) /\ A[p].out.path[1] = 1
      /\ \A p, q \in DOMAIN A : A[p].out = A[q].out => p = q
      /\ \A p \in DOMAIN A : \A w \in Signal : Operand(A[p], w) =>
            \/ \E v \in 1 + 0 .. i + 0 : w = Var(v)
            \/ IsInner(w) /\ \E q \in DOMAIN A : q < p /\ A[q].out = w
  BY MovedFacts, Zenon
<1>b. /\ B \in Seq(TreeLine) /\ Len(B) = j - 1 /\ DOMAIN B = 1 .. j - 1
      /\ j > 1 => B[j - 1].out = Wire(<<2>>)
      /\ \A p \in DOMAIN B : IsInner(B[p].out) /\ ~IsVar(B[p].out) /\ B[p].out.path[1] = 2
      /\ \A p, q \in DOMAIN B : B[p].out = B[q].out => p = q
      /\ \A p \in DOMAIN B : \A w \in Signal : Operand(B[p], w) =>
            \/ \E v \in 1 + i .. j + i : w = Var(v)
            \/ IsInner(w) /\ \E q \in DOMAIN B : q < p /\ B[q].out = w
  <2>1. i \in Nat
    OBVIOUS
  <2>2. QED
    BY <2>1, MovedFacts, Zenon
<1>c. /\ R \in TreeLine /\ R.out = Wire(<<>>) /\ ~IsInner(R.out) /\ ~IsVar(R.out)
      /\ R.left = (IF i = 1 THEN Var(1) ELSE Wire(<<1>>))
      /\ R.right = (IF j = 1 THEN Var(i + j) ELSE Wire(<<2>>))
  <2>1. i = i + j - 1 <=> j = 1
    OBVIOUS
  <2>2. <<1>> \in Path /\ <<2>> \in Path /\ <<>> \in Path /\ 1 \in Nat /\ i + j \in Nat
    BY DEF Path
  <2>3. Var(1) \in Signal /\ Var(i + j) \in Signal
    BY <2>2 DEF Signal
  <2>4. Wire(<<1>>) \in Signal /\ Wire(<<2>>) \in Signal /\ Wire(<<>>) \in Signal
    BY <2>2 DEF Signal
  <2>5. ~IsInner(Wire(<<>>)) /\ ~IsVar(Wire(<<>>))
    BY SignalFacts
  <2>6. /\ R.out = Wire(<<>>)
        /\ R.left = (IF i = 1 THEN Var(1) ELSE Wire(<<1>>))
        /\ R.right = (IF j = 1 THEN Var(i + j) ELSE Wire(<<2>>))
    BY <2>1 DEF RootLine
  <2>7. R = [left |-> R.left, right |-> R.right, out |-> R.out]
    BY DEF RootLine
  <2>8. R \in TreeLine
    BY <2>3, <2>4, <2>6, <2>7 DEF TreeLine
  <2>9. QED
    BY <2>5, <2>6, <2>8
<1> HIDE DEF A, B, R
<1>1. T = (A \o B) \o <<R>>
  BY DEF Over, A, B, R
<1> DEFINE n1 == i - 1
           n2 == i + j - 2
           n3 == i + j - 1
<1>2. /\ A \o B \in Seq(TreeLine) /\ Len(A \o B) = n2 /\ DOMAIN (A \o B) = 1 .. n2
      /\ \A p \in 1 .. n1 : (A \o B)[p] = A[p]
      /\ \A p \in 1 .. j - 1 : (A \o B)[n1 + p] = B[p]
  <2>1. n1 + (j - 1) = n2
    OBVIOUS
  <2>2. /\ A \o B \in Seq(TreeLine) /\ Len(A \o B) = Len(A) + Len(B)
        /\ DOMAIN (A \o B) = 1 .. Len(A) + Len(B)
        /\ \A p \in 1 .. Len(A) : (A \o B)[p] = A[p]
        /\ \A p \in 1 .. Len(B) : (A \o B)[Len(A) + p] = B[p]
    <3>1. A \in Seq(TreeLine) /\ B \in Seq(TreeLine)
      BY <1>a, <1>b
    <3>2. QED
      BY <3>1, JoinedFacts
  <2>3. QED
    BY <1>a, <1>b, <2>1, <2>2, Zenon
<1>3. /\ T \in Seq(TreeLine) /\ Len(T) = n3 /\ DOMAIN T = 1 .. n3
      /\ \A p \in 1 .. n2 : T[p] = (A \o B)[p]
      /\ T[n3] = R
  <2> DEFINE C == A \o B
             D == <<R>>
  <2>1. D \in Seq(TreeLine) /\ Len(D) = 1 /\ D[1] = R /\ 1 \in 1 .. 1
    BY <1>c
  <2>2. C \in Seq(TreeLine) /\ Len(C) = n2
    BY <1>2
  <2> HIDE DEF C, D
  <2>3. /\ C \o D \in Seq(TreeLine) /\ Len(C \o D) = Len(C) + Len(D)
        /\ DOMAIN (C \o D) = 1 .. Len(C) + Len(D)
        /\ \A p \in 1 .. Len(C) : (C \o D)[p] = C[p]
        /\ \A p \in 1 .. Len(D) : (C \o D)[Len(C) + p] = D[p]
    <3>1. C \in Seq(TreeLine) /\ D \in Seq(TreeLine)
      BY <2>1, <2>2
    <3>2. QED
      BY <3>1, JoinedFacts
  <2>4. n2 + 1 = n3
    OBVIOUS
  <2>5. T = C \o D
    BY <1>1 DEF C, D
  <2>6. (C \o D)[n2 + 1] = R
    BY <2>1, <2>2, <2>3, Zenon
  <2>7. QED
    BY <2>1, <2>2, <2>3, <2>4, <2>5, <2>6, Zenon DEF C
<1> HIDE DEF T
<1>4. ASSUME NEW p \in DOMAIN T
      PROVE  \/ p \in DOMAIN A /\ T[p] = A[p]
             \/ p - n1 \in DOMAIN B /\ T[p] = B[p - n1]
             \/ p = n3 /\ T[p] = R
  <2>1. p \in 1 .. n3
    BY <1>3
  <2>2. \/ p \in 1 .. n1
        \/ p - n1 \in 1 .. j - 1 /\ n1 + (p - n1) = p /\ p \in 1 .. n2
        \/ p = n3
    BY <2>1
  <2>3. n1 <= n2
    OBVIOUS
  <2>4. CASE p \in 1 .. n1
    <3>1. p \in 1 .. n2
      BY <2>3, <2>4
    <3>2. QED
      BY <1>a, <1>2, <1>3, <2>4, <3>1, Zenon
  <2>5. CASE p - n1 \in 1 .. j - 1 /\ n1 + (p - n1) = p /\ p \in 1 .. n2
    <3>1. (A \o B)[n1 + (p - n1)] = B[p - n1]
      BY <1>2, <2>5, Zenon
    <3>2. QED
      BY <1>b, <1>3, <2>5, <3>1, Zenon
  <2>6. CASE p = n3
    BY <1>3, <2>6, Zenon
  <2>7. QED
    BY <2>2, <2>4, <2>5, <2>6, Zenon
<1>5. \A p \in DOMAIN A : p \in DOMAIN T /\ T[p] = A[p]
  <2> SUFFICES ASSUME NEW p \in DOMAIN A PROVE p \in DOMAIN T /\ T[p] = A[p]
    OBVIOUS
  <2>1. p \in 1 .. n1
    BY <1>a
  <2>2. p \in 1 .. n2 /\ p \in 1 .. n3
    BY <2>1
  <2>3. QED
    BY <1>2, <1>3, <2>1, <2>2, Zenon
<1>6. \A p \in DOMAIN B : n1 + p \in DOMAIN T /\ T[n1 + p] = B[p]
  <2> SUFFICES ASSUME NEW p \in DOMAIN B PROVE n1 + p \in DOMAIN T /\ T[n1 + p] = B[p]
    OBVIOUS
  <2>1. p \in 1 .. j - 1
    BY <1>b
  <2>2. n1 + p \in 1 .. n2 /\ n1 + p \in 1 .. n3
    BY <2>1
  <2>3. QED
    BY <1>2, <1>3, <2>1, <2>2, Zenon
<1>7. T[i + j - 1].out = Wire(<<>>)
  BY <1>3, <1>c
<1>8. \A p \in DOMAIN T : ~IsVar(T[p].out)
  <2> SUFFICES ASSUME NEW p \in DOMAIN T PROVE ~IsVar(T[p].out)
    OBVIOUS
  <2>1. /\ \A q \in DOMAIN A : ~IsVar(A[q].out)
        /\ \A q \in DOMAIN B : ~IsVar(B[q].out)
        /\ ~IsVar(R.out)
    BY <1>a, <1>b, <1>c
  <2>2. QED
    BY <1>4, <2>1
<1>9. ASSUME NEW p \in DOMAIN T, NEW q \in DOMAIN T, T[p].out = T[q].out PROVE p = q
  <2> DEFINE InA(x) == x \in DOMAIN A /\ T[x] = A[x]
             InB(x) == x - n1 \in DOMAIN B /\ T[x] = B[x - n1]
             InR(x) == x = n3 /\ T[x] = R
  <2>1. (InA(p) \/ InB(p) \/ InR(p)) /\ (InA(q) \/ InB(q) \/ InR(q))
    BY <1>4
  <2>2. \A x : InA(x) => IsInner(T[x].out) /\ T[x].out.path[1] = 1
    BY <1>a
  <2>3. \A x : InB(x) => IsInner(T[x].out) /\ T[x].out.path[1] = 2
    BY <1>b
  <2>4. \A x : InR(x) => ~IsInner(T[x].out)
    BY <1>c
  <2>5. InA(p) /\ InA(q) => p = q
    BY <1>a, <1>9
  <2>6. ASSUME InB(p), InB(q) PROVE p = q
    <3>1. p - n1 = q - n1
      BY <1>b, <1>9, <2>6
    <3>2. p \in Nat /\ q \in Nat
      BY <1>3
    <3>3. QED
      BY <3>1, <3>2
  <2>7. InR(p) /\ InR(q) => p = q
    OBVIOUS
  <2> HIDE DEF InA, InB, InR
  <2>8. QED
    BY <1>9, <2>1, <2>2, <2>3, <2>4, <2>5, <2>6, <2>7
<1>10. ASSUME NEW p \in DOMAIN T, NEW w \in Signal, Operand(T[p], w)
       PROVE  \/ \E v \in 1 .. i + j : w = Var(v)
              \/ IsInner(w) /\ \E q \in DOMAIN T : q < p /\ T[q].out = w
  <2>1. CASE p \in DOMAIN A /\ T[p] = A[p]
    <3>1. 1 + 0 .. i + 0 \subseteq 1 .. i + j
      OBVIOUS
    <3>2. \/ \E v \in 1 + 0 .. i + 0 : w = Var(v)
          \/ IsInner(w) /\ \E q \in DOMAIN A : q < p /\ A[q].out = w
      BY <1>a, <1>10, <2>1, Zenon
    <3>3. QED
      BY <1>5, <3>1, <3>2, Zenon
  <2>2. CASE p - n1 \in DOMAIN B /\ T[p] = B[p - n1]
    <3>1. 1 + i .. j + i \subseteq 1 .. i + j
      OBVIOUS
    <3>2. \/ \E v \in 1 + i .. j + i : w = Var(v)
          \/ IsInner(w) /\ \E q \in DOMAIN B : n1 + q < p /\ B[q].out = w
      <4>1. PICK r \in DOMAIN B : T[p] = B[r] /\ r = p - n1
        BY <2>2
      <4>2. Operand(B[r], w)
        BY <1>10, <4>1
      <4>3. \/ \E v \in 1 + i .. j + i : w = Var(v)
            \/ IsInner(w) /\ \E q \in DOMAIN B : q < r /\ B[q].out = w
        BY <1>b, <4>2, Zenon
      <4>4. p \in Nat
        BY <1>3
      <4>5. \A q \in DOMAIN B : q < r => n1 + q < p
        BY <1>b, <4>1, <4>4
      <4>6. QED
        BY <4>3, <4>5, Zenon
    <3>3. QED
      BY <1>6, <3>1, <3>2, Zenon
  <2>3. CASE p = n3 /\ T[p] = R
    <3>1. w = R.left \/ w = R.right
      BY <1>10, <2>3 DEF Operand
    <3>2. <<1>> # <<>> /\ <<2>> # <<>>
      OBVIOUS
    <3>3. IsInner(Wire(<<1>>)) /\ IsInner(Wire(<<2>>))
      BY <3>2, SignalFacts
    <3>4. CASE w = R.left
      <4>1. CASE i = 1
        <5>1. w = Var(1) /\ 1 \in 1 .. i + j
          BY <1>c, <3>4, <4>1
        <5>2. QED
          BY <5>1
      <4>2. CASE i # 1
        <5>1. i - 1 \in DOMAIN A /\ A[i - 1].out = Wire(<<1>>) /\ w = Wire(<<1>>)
          BY <1>a, <1>c, <3>4, <4>2
        <5>2. i - 1 < p
          BY <2>3
        <5>3. QED
          BY <1>5, <3>3, <5>1, <5>2
      <4>3. QED
        BY <4>1, <4>2
    <3>5. CASE w = R.right
      <4>1. CASE j = 1
        <5>1. w = Var(i + j) /\ i + j \in 1 .. i + j
          BY <1>c, <3>5, <4>1
        <5>2. QED
          BY <5>1
      <4>2. CASE j # 1
        <5>1. j - 1 \in DOMAIN B /\ B[j - 1].out = Wire(<<2>>) /\ w = Wire(<<2>>)
          BY <1>b, <1>c, <3>5, <4>2
        <5>2. n1 + (j - 1) < p
          BY <2>3
        <5>3. QED
          BY <1>6, <3>3, <5>1, <5>2
      <4>3. QED
        BY <4>1, <4>2
    <3>6. QED
      BY <3>1, <3>4, <3>5
  <2>4. QED
    BY <1>4, <2>1, <2>2, <2>3
<1>11. IsTree(T, i + j)
  <2>1. T \in Seq(TreeLine) /\ Len(T) = i + j - 1
    BY <1>3
  <2>2. QED
    BY SMTT(40), <2>1, <1>7, <1>8, <1>9, <1>10 DEF IsTree
<1>12. QED
  BY <1>11 DEF T

\* The trees over k variables, from those over fewer.
TreesOver(f, k) ==
    IF k = 1 THEN {<<>>}
    ELSE UNION {{Over(a, b, i, k) : a \in f[i], b \in f[k - i]} : i \in 1 .. k - 1}

LEMMA TreesOverFewer ==
  ASSUME NEW f, NEW g, NEW k \in Nat \ {0}, \A i \in 1 .. k - 1 : f[i] = g[i]
  PROVE  TreesOver(f, k) = TreesOver(g, k)
<1>1. \A i \in 1 .. k - 1 : k - i \in 1 .. k - 1 /\ f[k - i] = g[k - i]
  OBVIOUS
<1> DEFINE P(h, i) == {Over(a, b, i, k) : a \in h[i], b \in h[k - i]}
<1>2. \A i \in 1 .. k - 1 : P(f, i) = P(g, i)
  BY <1>1
<1>3. /\ TreesOver(f, k) = IF k = 1 THEN {<<>>} ELSE UNION {P(f, i) : i \in 1 .. k - 1}
      /\ TreesOver(g, k) = IF k = 1 THEN {<<>>} ELSE UNION {P(g, i) : i \in 1 .. k - 1}
  BY DEF TreesOver
<1> HIDE DEF P
<1>4. {P(f, i) : i \in 1 .. k - 1} = {P(g, i) : i \in 1 .. k - 1}
  BY <1>2, Zenon
<1>5. QED
  BY <1>3, <1>4, Zenon

LEMMA TreesExist ==
  ASSUME NEW n \in Nat
  PROVE  \E f : f = [k \in 1 .. n |-> TreesOver(f, k)]
<1> DEFINE T == {m \in 0 .. n : \E f : f = [k \in 1 .. m |-> TreesOver(f, k)]}
<1>1. 0 \in T
  <2>1. <<>> = [k \in 1 .. 0 |-> TreesOver(<<>>, k)]
    <3>1. 1 .. 0 = {} /\ DOMAIN <<>> = {}
      OBVIOUS
    <3>2. <<>> = [k \in {} |-> TreesOver(<<>>, k)]
      OBVIOUS
    <3>3. QED
      BY <3>1, <3>2
  <2>2. 0 \in 0 .. n
    OBVIOUS
  <2>3. QED
    BY <2>1, <2>2
<1>2. ASSUME NEW m \in 0 .. n - 1, m \in T PROVE m + 1 \in T
  <2>1. PICK f : f = [k \in 1 .. m |-> TreesOver(f, k)]
    BY <1>2
  <2> DEFINE g == [k \in 1 .. m + 1 |-> IF k = m + 1 THEN TreesOver(f, k) ELSE f[k]]
  <2>2. \A k \in 1 .. m : g[k] = f[k]
    OBVIOUS
  <2>3. ASSUME NEW k \in 1 .. m + 1 PROVE g[k] = TreesOver(g, k)
    <3>1. \A i \in 1 .. k - 1 : f[i] = g[i]
      BY <2>2
    <3>2. k \in Nat \ {0}
      OBVIOUS
    <3> HIDE DEF g
    <3>3. TreesOver(f, k) = TreesOver(g, k)
      BY <3>1, <3>2, TreesOverFewer
    <3>4. g[k] = TreesOver(f, k)
      <4>1. CASE k = m + 1
        BY <4>1 DEF g
      <4>2. CASE k # m + 1
        <5>1. k \in 1 .. m
          BY <4>2
        <5>2. f[k] = TreesOver(f, k)
          BY <2>1, <5>1
        <5>3. QED
          BY <2>2, <5>1, <5>2
      <4>3. QED
        BY <4>1, <4>2
    <3>5. QED
      BY <3>3, <3>4
  <2>4. g = [k \in 1 .. m + 1 |-> g[k]]
    OBVIOUS
  <2> HIDE DEF g
  <2>5. g = [k \in 1 .. m + 1 |-> TreesOver(g, k)]
    BY <2>3, <2>4
  <2>6. m + 1 \in 0 .. n
    OBVIOUS
  <2>7. QED
    BY <2>5, <2>6
<1>3. T \in SUBSET (0 .. n)
  OBVIOUS
<1> HIDE DEF T
<1>4. T = 0 .. n
  BY <1>1, <1>2, <1>3, UpTo
<1>5. n \in 0 .. n
  OBVIOUS
<1>6. n \in T
  BY <1>4, <1>5, Zenon
<1>7. QED
  BY <1>6 DEF T

LEMMA TraceBackIs ==
  TraceBack = [k \in 1 .. num_input_max |-> TreesOver(TraceBack, k)]
<1> DEFINE trees == CHOOSE f : f = [k \in 1 .. num_input_max |-> TreesOver(f, k)]
<1>1. TraceBack = trees
  BY DEF TraceBack, TreesOver, Over, RootLine
<1>2. \E f : f = [k \in 1 .. num_input_max |-> TreesOver(f, k)]
  BY ConesHaveInputs, TreesExist
<1>3. trees = [k \in 1 .. num_input_max |-> TreesOver(trees, k)]
  BY <1>2
<1>4. QED
  BY <1>1, <1>3, Zenon

\* What traceBack_binaryTree prints for k variables is a tree over them.
LEMMA TracedTrees ==
  ASSUME NEW k \in 1 .. num_input_max, NEW t \in TraceBack[k]
  PROVE  IsTree(t, k)
<1> DEFINE N == num_input_max
           Good(j) == \A u \in TraceBack[j] : IsTree(u, j)
           T == {m \in 0 .. N : \A j \in 1 .. m : Good(j)}
<1>a. N \in Nat
  BY ConesHaveInputs
<1> HIDE DEF Good
<1>1. 0 \in T
  BY <1>a
<1>2. ASSUME NEW m \in 0 .. N - 1, m \in T PROVE m + 1 \in T
  <2>1. Good(m + 1)
    <3>1. PICK q \in 1 .. N : q = m + 1
      BY <1>a
    <3>2. TraceBack[q] = TreesOver(TraceBack, q)
      BY TraceBackIs
    <3> SUFFICES ASSUME NEW u \in TreesOver(TraceBack, q) PROVE IsTree(u, q)
      BY <3>1, <3>2 DEF Good
    <3>3. CASE q = 1
      <4>1. u = <<>>
        BY <3>3 DEF TreesOver
      <4>2. <<>> \in Seq(TreeLine) /\ Len(<<>>) = 0 /\ DOMAIN <<>> = {}
        OBVIOUS
      <4>3. QED
        BY <3>3, <4>1, <4>2 DEF IsTree
    <3>4. CASE q # 1
      <4>1. PICK i \in 1 .. q - 1 :
              u \in {Over(a, b, i, q) : a \in TraceBack[i], b \in TraceBack[q - i]}
        BY <3>4 DEF TreesOver
      <4>2. PICK a \in TraceBack[i], b \in TraceBack[q - i] : u = Over(a, b, i, q)
        BY <4>1
      <4>3. PICK j \in Nat \ {0} : j = q - i
        BY <3>4
      <4>4. i \in 1 .. m /\ j \in 1 .. m /\ i \in Nat \ {0} /\ i + j = q
        BY <3>1, <4>3
      <4>5. IsTree(a, i) /\ IsTree(b, j)
        BY <1>2, <4>2, <4>3, <4>4 DEF Good
      <4>6. IsTree(Over(a, b, i, i + j), i + j)
        BY <4>4, <4>5, OverIsTree
      <4>7. QED
        BY <4>2, <4>4, <4>6
    <3>5. QED
      BY <3>3, <3>4
  <2>2. 1 .. m + 1 = (1 .. m) \cup {m + 1} /\ m + 1 \in 0 .. N
    BY <1>a
  <2>3. QED
    BY <1>2, <2>1, <2>2
<1>3. T \in SUBSET (0 .. N)
  OBVIOUS
<1> HIDE DEF T
<1>4. T = 0 .. N
  BY <1>a, <1>1, <1>2, <1>3, UpTo
<1>5. N \in 0 .. N
  BY <1>a
<1>6. N \in T
  BY <1>4, <1>5, Zenon
<1>7. Good(k)
  BY <1>6 DEF T
<1>8. QED
  BY <1>7 DEF Good

-----------------------------------------------------------------------------
(***************************************************************************)
(* The arrays of the scripts.                                              *)
(***************************************************************************)
\* The elements of s at the positions in Keep.
Sieve(s, Keep) == FlattenSeq([i \in DOMAIN s |-> IF i \in Keep THEN <<s[i]>> ELSE <<>>])

\* What is at p of the sieve stood at from[p] in s.
LEMMA Sifted ==
  ASSUME NEW S, NEW s \in Seq(S), NEW Keep \in SUBSET DOMAIN s, NEW T,
         \A i \in Keep : s[i] \in T
  PROVE  LET t == Sieve(s, Keep)
         IN  /\ t \in Seq(T)
             /\ \E from \in [DOMAIN t -> Keep] :
                   /\ \A p \in DOMAIN t : t[p] = s[from[p]]
                   /\ \A p, q \in DOMAIN t : from[p] = from[q] => p = q
                   /\ \A i \in Keep : \E p \in DOMAIN t : from[p] = i
<1> DEFINE one(i) == IF i \in Keep THEN <<s[i]>> ELSE <<>>
           ss == [i \in DOMAIN s |-> one(i)]
           t == FlattenSeq(ss)
<1>1. DOMAIN s = 1 .. Len(s) /\ Len(s) \in Nat
  OBVIOUS
<1>2. \A i \in DOMAIN s : one(i) \in Seq(T)
  OBVIOUS
<1>3. \A i \in DOMAIN s : /\ i \in Keep => DOMAIN one(i) = {1} /\ one(i)[1] = s[i]
                          /\ i \notin Keep => DOMAIN one(i) = {}
  <2> SUFFICES ASSUME NEW i \in DOMAIN s
               PROVE  /\ i \in Keep => DOMAIN one(i) = {1} /\ one(i)[1] = s[i]
                      /\ i \notin Keep => DOMAIN one(i) = {}
    OBVIOUS
  <2>1. DOMAIN <<s[i]>> = {1} /\ <<s[i]>>[1] = s[i] /\ DOMAIN <<>> = {}
    OBVIOUS
  <2>2. QED
    BY <2>1, Zenon
<1> HIDE DEF one
<1>4. \A i \in DOMAIN s : ss[i] = one(i)
  OBVIOUS
<1>5. ss \in Seq(Seq(T)) /\ Len(ss) = Len(s)
  <2>1. ss \in [1 .. Len(s) -> Seq(T)]
    BY <1>1, <1>2
  <2>2. QED
    BY <1>1, <2>1
<1> HIDE DEF ss
<1>6. t \in Seq(T) /\ \E row, col : Origin(row, col, t, ss, Len(ss))
  BY <1>5, FlattenFacts
<1> PICK row, col : Origin(row, col, t, ss, Len(ss))
  BY <1>6
<1> HIDE DEF t
<1>7. \A p \in DOMAIN t : row[p] \in DOMAIN s /\ row[p] \in Keep /\ col[p] = 1 /\ t[p] = s[row[p]]
  BY <1>1, <1>3, <1>4, <1>5 DEF Origin
<1>8. \A p, q \in DOMAIN t : row[p] = row[q] => p = q
  BY <1>7 DEF Origin
<1>9. ASSUME NEW i \in Keep PROVE \E p \in DOMAIN t : row[p] = i
  <2>1. i \in 1 .. Len(ss) /\ 1 \in DOMAIN ss[i]
    BY <1>1, <1>3, <1>4, <1>5
  <2>2. QED
    BY <2>1 DEF Origin
<1>10. row \in [DOMAIN t -> Keep]
  BY <1>7 DEF Origin
<1>11. t \in Seq(T)
           /\ \E from \in [DOMAIN t -> Keep] :
                 /\ \A p \in DOMAIN t : t[p] = s[from[p]]
                 /\ \A p, q \in DOMAIN t : from[p] = from[q] => p = q
                 /\ \A i \in Keep : \E p \in DOMAIN t : from[p] = i
  BY <1>6, <1>7, <1>8, <1>9, <1>10
<1>12. QED
  BY <1>11 DEF t, ss, one, Sieve

\* Without the elements of X.
LEMMA WithoutFacts ==
  ASSUME NEW S, NEW s \in Seq(S), NEW X
  PROVE  LET t == Without(s, X)
         IN  /\ t \in Seq(S \ X)
             /\ Range(t) = Range(s) \ X
             /\ \E from \in [DOMAIN t -> DOMAIN s] :
                   /\ \A p \in DOMAIN t : t[p] = s[from[p]]
                   /\ \A p, q \in DOMAIN t : from[p] = from[q] => p = q
<1> DEFINE Keep == {i \in DOMAIN s : s[i] \notin X}
           t == Sieve(s, Keep)
<1>1. Without(s, X) = t
  <2>1. [i \in DOMAIN s |-> IF s[i] \in X THEN <<>> ELSE <<s[i]>>]
        = [i \in DOMAIN s |-> IF i \in Keep THEN <<s[i]>> ELSE <<>>]
    OBVIOUS
  <2>2. QED
    BY <2>1 DEF Without, Sieve
<1>2. Keep \in SUBSET DOMAIN s /\ \A i \in Keep : s[i] \in S \ X
  OBVIOUS
<1>3. \A i \in DOMAIN s : i \in Keep <=> s[i] \notin X
  OBVIOUS
<1> HIDE DEF Keep
<1>4. /\ t \in Seq(S \ X)
      /\ \E from \in [DOMAIN t -> Keep] :
            /\ \A p \in DOMAIN t : t[p] = s[from[p]]
            /\ \A p, q \in DOMAIN t : from[p] = from[q] => p = q
            /\ \A i \in Keep : \E p \in DOMAIN t : from[p] = i
  BY <1>2, Sifted
<1> HIDE DEF t
<1>5. PICK from \in [DOMAIN t -> Keep] :
            /\ \A p \in DOMAIN t : t[p] = s[from[p]]
            /\ \A p, q \in DOMAIN t : from[p] = from[q] => p = q
            /\ \A i \in Keep : \E p \in DOMAIN t : from[p] = i
  BY <1>4
<1>6. Range(t) = Range(s) \ X
  <2>1. \A p \in DOMAIN t : t[p] \in Range(s) \ X
    BY <1>2, <1>3, <1>5 DEF Range
  <2>2. ASSUME NEW i \in DOMAIN s, s[i] \notin X PROVE \E p \in DOMAIN t : t[p] = s[i]
    BY <1>3, <1>5, <2>2
  <2>3. QED
    BY <2>1, <2>2 DEF Range
<1>7. from \in [DOMAIN t -> DOMAIN s]
  BY <1>2, <1>5
<1>8. \E f \in [DOMAIN t -> DOMAIN s] :
         /\ \A p \in DOMAIN t : t[p] = s[f[p]]
         /\ \A p, q \in DOMAIN t : f[p] = f[q] => p = q
  BY <1>5, <1>7
<1>9. t \in Seq(S \ X)
  BY <1>4
<1>10. QED
  BY SMTT(40), <1>1, <1>6, <1>8, <1>9

\* Every element once.
LEMMA UniqueFacts ==
  ASSUME NEW S, NEW s \in Seq(S)
  PROVE  LET t == Unique(s)
         IN  /\ t \in Seq(S)
             /\ Range(t) = Range(s)
             /\ \A p, q \in DOMAIN t : t[p] = t[q] => p = q
<1> DEFINE Keep == {i \in DOMAIN s : ~\E j \in 1 .. i - 1 : s[j] = s[i]}
           t == Sieve(s, Keep)
<1>1. Unique(s) = t
  <2>1. [i \in DOMAIN s |-> IF \E j \in 1 .. i - 1 : s[j] = s[i] THEN <<>> ELSE <<s[i]>>]
        = [i \in DOMAIN s |-> IF i \in Keep THEN <<s[i]>> ELSE <<>>]
    OBVIOUS
  <2>2. QED
    BY <2>1 DEF Unique, Sieve
<1>2. Keep \in SUBSET DOMAIN s /\ \A i \in Keep : s[i] \in S
  OBVIOUS
<1> PICK n \in Nat : n = Len(s)
  OBVIOUS
<1>3. DOMAIN s = 1 .. n
  OBVIOUS
<1>4. \A i, j \in Keep : s[i] = s[j] => i = j
  BY <1>3
<1>5. ASSUME NEW x, \A i \in Keep : s[i] # x PROVE \A i \in DOMAIN s : s[i] # x
  <2> DEFINE T == {m \in 0 .. n : \A j \in 1 .. m : s[j] # x}
  <2>1. 0 \in T
    OBVIOUS
  <2>2. ASSUME NEW m \in 0 .. n - 1, m \in T PROVE m + 1 \in T
    <3>1. m + 1 \in 1 .. n /\ 1 .. m + 1 = (1 .. m) \cup {m + 1} /\ (m + 1) - 1 = m
      OBVIOUS
    <3>2. \A j \in 1 .. m : s[j] # x
      BY <2>2
    <3>3. s[m + 1] # x
      <4> SUFFICES ASSUME s[m + 1] = x PROVE FALSE
        OBVIOUS
      <4>1. m + 1 \in Keep
        BY <1>3, <3>1, <3>2
      <4>2. QED
        BY <1>5, <4>1
    <3>4. QED
      BY <3>1, <3>2, <3>3
  <2>3. T \in SUBSET (0 .. n)
    OBVIOUS
  <2> HIDE DEF T
  <2>4. T = 0 .. n
    BY <2>1, <2>2, <2>3, UpTo
  <2>5. n \in 0 .. n
    OBVIOUS
  <2>6. n \in T
    BY <2>4, <2>5, Zenon
  <2>7. QED
    BY <1>3, <2>6 DEF T
<1> HIDE DEF Keep
<1>6. /\ t \in Seq(S)
      /\ \E from \in [DOMAIN t -> Keep] :
            /\ \A p \in DOMAIN t : t[p] = s[from[p]]
            /\ \A p, q \in DOMAIN t : from[p] = from[q] => p = q
            /\ \A i \in Keep : \E p \in DOMAIN t : from[p] = i
  BY <1>2, Sifted
<1> HIDE DEF t
<1>7. PICK from \in [DOMAIN t -> Keep] :
            /\ \A p \in DOMAIN t : t[p] = s[from[p]]
            /\ \A p, q \in DOMAIN t : from[p] = from[q] => p = q
            /\ \A i \in Keep : \E p \in DOMAIN t : from[p] = i
  BY <1>6
<1>8. Range(t) = Range(s)
  <2>1. \A p \in DOMAIN t : t[p] \in Range(s)
    BY <1>2, <1>7 DEF Range
  <2>2. ASSUME NEW i \in DOMAIN s PROVE \E p \in DOMAIN t : t[p] = s[i]
    <3>1. PICK j \in Keep : s[j] = s[i]
      BY <1>5
    <3>2. QED
      BY <1>7, <3>1
  <2>3. QED
    BY <2>1, <2>2 DEF Range
<1>9. \A p, q \in DOMAIN t : t[p] = t[q] => p = q
  BY <1>4, <1>7
<1>10. QED
  BY <1>1, <1>6, <1>8, <1>9, Zenon

\* The elements of several sequences.
LEMMA FlattenRange ==
  ASSUME NEW S, NEW n \in Nat, NEW ss \in [1 .. n -> Seq(S)]
  PROVE  /\ FlattenSeq(ss) \in Seq(S)
         /\ Range(FlattenSeq(ss)) = UNION {Range(ss[i]) : i \in 1 .. n}
<1> DEFINE t == FlattenSeq(ss)
<1>1. ss \in Seq(Seq(S)) /\ Len(ss) = n
  OBVIOUS
<1>2. t \in Seq(S) /\ \E row, col : Origin(row, col, t, ss, n)
  BY <1>1, FlattenFacts
<1> PICK row, col : Origin(row, col, t, ss, n)
  BY <1>2
<1> HIDE DEF t
<1>3. \A p \in DOMAIN t : row[p] \in 1 .. n /\ t[p] \in Range(ss[row[p]])
  BY DEF Origin, Range
<1>4. ASSUME NEW i \in 1 .. n, NEW x \in Range(ss[i]) PROVE x \in Range(t)
  <2>1. PICK c \in DOMAIN ss[i] : x = ss[i][c]
    BY DEF Range
  <2>2. QED
    BY <2>1 DEF Origin, Range
<1>5. Range(t) = UNION {Range(ss[i]) : i \in 1 .. n}
  <2>1. Range(t) = {t[p] : p \in DOMAIN t}
    BY DEF Range
  <2> DEFINE R == Range(t)
  <2>2. \A x \in R : \E i \in 1 .. n : x \in Range(ss[i])
    BY <1>3, <2>1
  <2>3. \A i \in 1 .. n : \A x \in Range(ss[i]) : x \in R
    BY <1>4
  <2> HIDE DEF R
  <2>4. R = UNION {Range(ss[i]) : i \in 1 .. n}
    BY <2>2, <2>3
  <2>5. QED
    BY <2>4 DEF R
<1>6. QED
  BY <1>2, <1>5 DEF t

LEMMA NothingLeftOut ==
  ASSUME NEW S, NEW a \in S, NEW b \in S, NEW c \in S, NEW X, a \notin X, b \notin X, c \notin X
  PROVE  Without(<<a, b, c>>, X) = <<a, b, c>>
<1> DEFINE s == <<a, b, c>>
           ss == <<<<a>>, <<b>>, <<c>>>>
<1>1. [i \in DOMAIN s |-> IF s[i] \in X THEN <<>> ELSE <<s[i]>>] = ss
  <2>1. DOMAIN s = 1 .. 3 /\ s[1] = a /\ s[2] = b /\ s[3] = c
    OBVIOUS
  <2>2. DOMAIN ss = 1 .. 3 /\ ss[1] = <<a>> /\ ss[2] = <<b>> /\ ss[3] = <<c>> /\ ss = [i \in 1 .. 3 |-> ss[i]]
    OBVIOUS
  <2> HIDE DEF s, ss
  <2>3. \A i \in 1 .. 3 : (IF s[i] \in X THEN <<>> ELSE <<s[i]>>) = ss[i]
    BY <2>1, <2>2
  <2>4. QED
    BY <2>1, <2>2, <2>3
<1>2. Without(s, X) = FlattenSeq(ss)
  BY <1>1 DEF Without
<1>3. ss \in Seq(Seq(S)) /\ Len(ss) = 3 /\ ss[1] = <<a>> /\ ss[2] = <<b>> /\ ss[3] = <<c>>
  OBVIOUS
<1> HIDE DEF ss
<1> PICK n \in Nat : n = 3
  OBVIOUS
<1>a. n = Len(ss) /\ n # 0
  BY <1>3
<1>4. PICK f \in [1 .. n -> Seq(S)] : IsFlatten(f, ss, n) /\ FlattenSeq(ss) = f[n]
  BY <1>3, <1>a, FlattenIs, ZenonT(40)
<1>b. \A i \in 1 .. n : f[i] = IF i = 1 THEN ss[i] ELSE f[i - 1] \o ss[i]
  BY <1>4 DEF IsFlatten
<1>5. f[1] = <<a>> /\ f[2] = f[1] \o <<b>> /\ f[3] = f[2] \o <<c>>
  <2>1. 1 \in 1 .. n /\ 2 \in 1 .. n /\ 3 \in 1 .. n /\ 2 - 1 = 1 /\ 3 - 1 = 2 /\ 2 # 1 /\ 3 # 1
    OBVIOUS
  <2>2. f[1] = ss[1]
    BY <1>b, <2>1
  <2>3. f[2] = f[2 - 1] \o ss[2]
    BY <1>b, <2>1
  <2>4. f[3] = f[3 - 1] \o ss[3]
    BY <1>b, <2>1
  <2>5. QED
    BY <1>3, <2>1, <2>2, <2>3, <2>4, Zenon
<1>6. f[2] = <<a, b>>
  <2>1. <<a>> \o <<b>> = <<a, b>>
    <3> DEFINE u == <<a>> \o <<b>>
    <3>1. <<a>> \in Seq(S) /\ <<b>> \in Seq(S) /\ <<a, b>> \in Seq(S) /\ Len(<<a>>) = 1 /\ Len(<<b>>) = 1
      OBVIOUS
    <3>2. u \in Seq(S) /\ Len(u) = 1 + 1 /\ \A i \in 1 .. 1 + 1 : u[i] = IF i <= 1 THEN <<a>>[i] ELSE <<b>>[i - 1]
      BY <3>1, ConcatProperties
    <3>3. u[1] = a /\ u[2] = b
      BY <3>2
    <3> HIDE DEF u
    <3>4. Len(<<a, b>>) = 2 /\ <<a, b>>[1] = a /\ <<a, b>>[2] = b
      OBVIOUS
    <3>5. \A i \in 1 .. Len(u) : u[i] = <<a, b>>[i]
      BY <3>2, <3>3, <3>4
    <3>6. u = <<a, b>>
      BY <3>1, <3>2, <3>4, <3>5, SeqEqual
    <3>7. QED
      BY <3>6 DEF u
  <2>2. QED
    BY <1>5, <2>1
<1>7. f[n] = <<a, b, c>>
  <2>1. <<a, b>> \o <<c>> = <<a, b, c>>
    <3> DEFINE u == <<a, b>> \o <<c>>
    <3>1. /\ <<a, b>> \in Seq(S) /\ <<c>> \in Seq(S) /\ <<a, b, c>> \in Seq(S)
          /\ Len(<<a, b>>) = 2 /\ Len(<<c>>) = 1
      OBVIOUS
    <3>2. u \in Seq(S) /\ Len(u) = 2 + 1 /\ \A i \in 1 .. 2 + 1 : u[i] = IF i <= 2 THEN <<a, b>>[i] ELSE <<c>>[i - 2]
      BY <3>1, ConcatProperties
    <3>3. u[1] = a /\ u[2] = b /\ u[3] = c
      BY <3>2
    <3> HIDE DEF u
    <3>4. Len(<<a, b, c>>) = 3 /\ <<a, b, c>>[1] = a /\ <<a, b, c>>[2] = b /\ <<a, b, c>>[3] = c
      OBVIOUS
    <3>5. \A i \in 1 .. Len(u) : u[i] = <<a, b, c>>[i]
      BY <3>2, <3>3, <3>4
    <3>6. u = <<a, b, c>>
      BY <3>1, <3>2, <3>4, <3>5, SeqEqual
    <3>7. QED
      BY <3>6 DEF u
  <2>2. QED
    BY <1>5, <1>6, <2>1
<1>8. QED
  BY <1>2, <1>4, <1>7

LEMMA OnLinesFacts ==
  ASSUME NEW t \in Seq(TreeLine)
  PROVE  /\ OnLines(t) \in Seq(Signal)
         /\ \A w : w \in Range(OnLines(t)) <=>
                      w \in Signal /\ \E i \in DOMAIN t : Operand(t[i], w) \/ w = t[i].out
<1> DEFINE on(i) == <<t[i].left, t[i].right, t[i].out>>
           ss == [i \in DOMAIN t |-> on(i)]
<1> PICK n \in Nat : n = Len(t)
  OBVIOUS
<1>1. DOMAIN t = 1 .. n
  OBVIOUS
<1>2. \A i \in DOMAIN t : t[i].left \in Signal /\ t[i].right \in Signal /\ t[i].out \in Signal
  <2>1. \A i \in DOMAIN t : t[i] \in TreeLine
    OBVIOUS
  <2>2. QED
    BY <2>1 DEF TreeLine
<1>3. \A i \in DOMAIN t : on(i) \in Seq(Signal) /\ Range(on(i)) = {t[i].left, t[i].right, t[i].out}
  <2> SUFFICES ASSUME NEW i \in DOMAIN t
               PROVE  on(i) \in Seq(Signal) /\ Range(on(i)) = {t[i].left, t[i].right, t[i].out}
    OBVIOUS
  <2>1. on(i) \in Seq(Signal)
    BY <1>2
  <2>2. DOMAIN on(i) = {1, 2, 3} /\ on(i)[1] = t[i].left /\ on(i)[2] = t[i].right /\ on(i)[3] = t[i].out
    OBVIOUS
  <2> HIDE DEF on
  <2>3. Range(on(i)) = {on(i)[1], on(i)[2], on(i)[3]}
    BY <2>2 DEF Range
  <2>4. QED
    BY <2>1, <2>2, <2>3
<1>4. \A i \in DOMAIN t : ss[i] = on(i)
  OBVIOUS
<1> HIDE DEF on
<1>5. ss \in [1 .. n -> Seq(Signal)]
  BY <1>1, <1>3
<1>6. OnLines(t) = FlattenSeq(ss)
  BY DEF OnLines, on
<1> HIDE DEF ss
<1>7. FlattenSeq(ss) \in Seq(Signal) /\ Range(FlattenSeq(ss)) = UNION {Range(ss[i]) : i \in 1 .. n}
  BY <1>5, FlattenRange
<1>8. ASSUME NEW w
      PROVE  w \in Range(OnLines(t)) <=>
                w \in Signal /\ \E i \in DOMAIN t : Operand(t[i], w) \/ w = t[i].out
  <2>1. w \in Range(OnLines(t)) <=> \E i \in DOMAIN t : w \in Range(on(i))
    BY <1>1, <1>4, <1>6, <1>7
  <2>2. \A i \in DOMAIN t : w \in Range(on(i)) <=> Operand(t[i], w) \/ w = t[i].out
    BY <1>3 DEF Operand
  <2>3. \A i \in DOMAIN t : w \in Range(on(i)) => w \in Signal
    BY <1>2, <1>3
  <2>4. QED
    BY <2>1, <2>2, <2>3
<1>9. QED
  BY <1>6, <1>7, <1>8

\* The inner wires of a tree are the wires of its gates but the last.
LEMMA InnerWiresFacts ==
  ASSUME NEW k \in Nat \ {0}, NEW t, IsTree(t, k)
  PROVE  LET wires == InnerWires(t)
         IN  /\ wires \in Seq(Signal)
             /\ Range(wires) = {t[i].out : i \in 1 .. k - 2}
             /\ \A p, q \in DOMAIN wires : wires[p] = wires[q] => p = q
             /\ \A w \in Range(wires) : IsInner(w)
<1> DEFINE L == OnLines(t)
           X == {w \in Range(L) : ~IsInner(w)}
           I == Without(L, X)
           W == Unique(I)
<1>1. t \in Seq(TreeLine) /\ DOMAIN t = 1 .. k - 1
  BY DEF IsTree
<1>2. \A i \in DOMAIN t : t[i].out \in Signal
  <2>1. \A i \in DOMAIN t : t[i] \in TreeLine
    BY <1>1
  <2>2. QED
    BY <2>1 DEF TreeLine
<1>3. InnerWires(t) = W
  BY DEF InnerWires
<1>4. /\ L \in Seq(Signal)
      /\ \A w : w \in Range(L) <=> w \in Signal /\ \E i \in DOMAIN t : Operand(t[i], w) \/ w = t[i].out
  BY <1>1, OnLinesFacts
<1> HIDE DEF L
<1>5. X \subseteq Range(L) /\ \A w \in Range(L) : w \in X <=> ~IsInner(w)
  OBVIOUS
<1> HIDE DEF X
<1>6. I \in Seq(Signal \ X) /\ Range(I) = Range(L) \ X
  BY <1>4, WithoutFacts
<1> HIDE DEF I
<1>7. W \in Seq(Signal \ X) /\ Range(W) = Range(I) /\ \A p, q \in DOMAIN W : W[p] = W[q] => p = q
  BY <1>6, UniqueFacts
<1> HIDE DEF W
<1>8. W \in Seq(Signal)
  BY <1>7
<1>9. \A w : w \in Range(W) <=> w \in Range(L) /\ IsInner(w)
  BY <1>5, <1>6, <1>7
<1>10. \A i \in DOMAIN t : IsInner(t[i].out) <=> i # k - 1
  <2> SUFFICES ASSUME NEW i \in DOMAIN t PROVE IsInner(t[i].out) <=> i # k - 1
    OBVIOUS
  <2>1. k > 1 /\ k - 1 \in DOMAIN t /\ t[k - 1].out = Wire(<<>>)
    BY <1>1 DEF IsTree
  <2>2. t[i].out = Wire(<<>>) => i = k - 1
    BY <2>1 DEF IsTree
  <2>3. ~IsVar(t[i].out) /\ t[i].out = Wire(t[i].out.path)
    BY <1>2, SignalFacts DEF IsTree
  <2>4. IsInner(t[i].out) <=> t[i].out.path # <<>>
    BY <2>3 DEF IsInner
  <2>5. ~IsInner(Wire(<<>>))
    BY SignalFacts
  <2>6. QED
    BY <2>1, <2>2, <2>3, <2>4, <2>5
<1>11. \A w : w \in Range(W) <=> \E i \in 1 .. k - 2 : w = t[i].out
  <2>1. ASSUME NEW i \in 1 .. k - 2 PROVE t[i].out \in Range(W)
    <3>1. i \in DOMAIN t /\ i # k - 1
      BY <1>1
    <3>2. QED
      BY <1>2, <1>4, <1>9, <1>10, <3>1
  <2>2. ASSUME NEW w \in Range(W) PROVE \E i \in 1 .. k - 2 : w = t[i].out
    <3>1. w \in Signal /\ IsInner(w) /\ \E i \in DOMAIN t : Operand(t[i], w) \/ w = t[i].out
      BY <1>4, <1>9
    <3>2. \A v : ~IsInner(Var(v))
      BY SignalFacts DEF IsInner
    <3>3. \A i \in DOMAIN t : Operand(t[i], w) => \E j \in DOMAIN t : t[j].out = w
      BY <3>1, <3>2 DEF IsTree
    <3>4. PICK j \in DOMAIN t : w = t[j].out
      BY <3>1, <3>3
    <3>5. j \in 1 .. k - 2
      BY <1>1, <1>10, <3>1, <3>4
    <3>6. QED
      BY <3>4, <3>5
  <2>3. QED
    BY <2>1, <2>2
<1>12. Range(W) = {t[i].out : i \in 1 .. k - 2}
  BY <1>11
<1>13. QED
  BY <1>3, <1>7, <1>8, <1>9, <1>12

\* The internal names are the gates of the candidate but its output.
LEMMA InternalNamesFacts ==
  ASSUME net \in Circuits, candidate \in Candidates
  PROVE  LET names == InternalNames(candidate)
         IN  /\ names \in Seq(NodesOf(net))
             /\ Range(names) = Cone \ {candidate.output}
             /\ \A p, q \in DOMAIN names : names[p] = names[q] => p = q
<1> DEFINE gs == candidate.gates
           on(i) == Append(net.inputs[gs[i]], gs[i])
           ss == [i \in DOMAIN gs |-> on(i)]
           L == NamesOn(candidate)
           U == Unique(L)
           X == Range(candidate.inputs) \cup {candidate.output}
           names == Without(U, X)
<1>1. /\ candidate.output \in Cone /\ gs \in Seq(Cone)
      /\ Range(candidate.inputs) \cap Cone = {}
      /\ \A n \in Cone : Range(net.inputs[n]) \subseteq Cone \cup Range(candidate.inputs)
  BY ConeFacts
<1>2. WellFormed(net) /\ Cone \subseteq Gates
  BY CandidateFacts
<1>3. Cone \subseteq NodesOf(net)
  BY <1>2 DEF Gates
<1>4. Cone = Range(gs)
  BY DEF Cone
<1> PICK n \in Nat : n = Len(gs)
  BY <1>1
<1>5. DOMAIN gs = 1 .. n
  BY <1>1
<1>6. \A i \in DOMAIN gs : /\ on(i) \in Seq(NodesOf(net))
                           /\ Range(on(i)) = Range(net.inputs[gs[i]]) \cup {gs[i]}
  <2> SUFFICES ASSUME NEW i \in DOMAIN gs
               PROVE  /\ on(i) \in Seq(NodesOf(net))
                      /\ Range(on(i)) = Range(net.inputs[gs[i]]) \cup {gs[i]}
    OBVIOUS
  <2>1. gs[i] \in NodesOf(net)
    BY <1>1, <1>3
  <2>2. PICK s \in Seq(NodesOf(net)) : s = net.inputs[gs[i]]
    BY <1>2, <2>1 DEF WellFormed
  <2>3. PICK g \in NodesOf(net) : g = gs[i]
    BY <2>1
  <2> DEFINE a == Append(s, g)
  <2>4. a \in Seq(NodesOf(net)) /\ DOMAIN a = DOMAIN s \cup {Len(s) + 1}
    OBVIOUS
  <2>5. (\A j \in DOMAIN s : a[j] = s[j]) /\ a[Len(s) + 1] = g
    OBVIOUS
  <2> HIDE DEF a
  <2>6. Range(a) = Range(s) \cup {g}
    BY <2>4, <2>5 DEF Range
  <2>7. QED
    BY <2>2, <2>3, <2>4, <2>6 DEF a
<1>7. \A i \in DOMAIN gs : ss[i] = on(i)
  OBVIOUS
<1> HIDE DEF on
<1>8. ss \in [1 .. n -> Seq(NodesOf(net))]
  BY <1>5, <1>6
<1>9. L = FlattenSeq(ss)
  BY DEF NamesOn, on
<1> HIDE DEF ss, L
<1>10. L \in Seq(NodesOf(net)) /\ Range(L) = UNION {Range(ss[i]) : i \in 1 .. n}
  BY <1>8, <1>9, FlattenRange, SMTT(30)
<1>11. U \in Seq(NodesOf(net)) /\ Range(U) = Range(L) /\ \A p, q \in DOMAIN U : U[p] = U[q] => p = q
  BY <1>10, UniqueFacts
<1>12. InternalNames(candidate) = names
  BY DEF InternalNames, L
<1> HIDE DEF U, X
<1>13. /\ names \in Seq(NodesOf(net) \ X) /\ Range(names) = Range(U) \ X
       /\ \E from \in [DOMAIN names -> DOMAIN U] :
              /\ \A p \in DOMAIN names : names[p] = U[from[p]]
              /\ \A p, q \in DOMAIN names : from[p] = from[q] => p = q
  <2>1. U \in Seq(NodesOf(net))
    BY <1>11
  <2>2. QED
    BY <2>1, WithoutFacts, Zenon
<1> HIDE DEF names
<1>14. \A p, q \in DOMAIN names : names[p] = names[q] => p = q
  BY <1>11, <1>13
<1>15. names \in Seq(NodesOf(net))
  BY <1>13
<1>16. ASSUME NEW x PROVE x \in Range(L) \ X <=> x \in Cone \ {candidate.output}
  <2>1. x \in Range(L) <=> \E i \in DOMAIN gs : x \in Range(net.inputs[gs[i]]) \cup {gs[i]}
    BY <1>5, <1>6, <1>7, <1>10
  <2>2. x \in Range(L) <=> \E g \in Cone : x \in Range(net.inputs[g]) \cup {g}
    BY <1>4, <2>1 DEF Range
  <2>3. QED
    BY <1>1, <2>2 DEF X
<1>17. Range(names) = Cone \ {candidate.output}
  BY <1>11, <1>13, <1>16
<1>18. QED
  BY <1>12, <1>14, <1>15, <1>17, Zenon

\* No internal name stands for two wires.
LEMMA HashFacts ==
  ASSUME net \in Circuits, candidate \in Candidates,
         NEW k \in Nat \ {0}, NEW t, IsTree(t, k)
  PROVE  LET h == HashFor(t)
         IN  /\ DOMAIN h = {t[i].out : i \in 1 .. k - 2}
             /\ \A w \in DOMAIN h : h[w] = None \/ h[w] \in Cone \ {candidate.output}
             /\ \A w, u \in DOMAIN h : h[w] = h[u] /\ h[w] # None => w = u
<1> DEFINE wires == InnerWires(t)
           names == InternalNames(candidate)
           at(w) == CHOOSE i \in DOMAIN wires : wires[i] = w
           h == [w \in Range(wires) |-> IF at(w) \in DOMAIN names THEN names[at(w)] ELSE None]
<1>1. HashFor(t) = h
  BY DEF HashFor
<1>2. Range(wires) = {t[i].out : i \in 1 .. k - 2}
  BY InnerWiresFacts
<1>3. /\ names \in Seq(NodesOf(net)) /\ Range(names) = Cone \ {candidate.output}
      /\ \A p, q \in DOMAIN names : names[p] = names[q] => p = q
  BY InternalNamesFacts
<1>4. None \notin Range(names)
  <2>1. NodesOf(net) \subseteq Name
    BY CandidateFacts DEF WellFormed, NodesOf
  <2>2. QED
    BY <1>3, <2>1, NoneIsNoName DEF Range
<1> HIDE DEF wires, names
<1>5. \A w \in Range(wires) : at(w) \in DOMAIN wires /\ wires[at(w)] = w
  <2> SUFFICES ASSUME NEW w \in Range(wires) PROVE at(w) \in DOMAIN wires /\ wires[at(w)] = w
    OBVIOUS
  <2>1. \E i \in DOMAIN wires : wires[i] = w
    BY DEF Range
  <2>2. QED
    BY <2>1
<1> HIDE DEF at
<1>6. \A w \in Range(wires) : h[w] = IF at(w) \in DOMAIN names THEN names[at(w)] ELSE None
  OBVIOUS
<1>7. DOMAIN h = Range(wires)
  OBVIOUS
<1> HIDE DEF h
<1>8. \A w \in DOMAIN h : h[w] = None \/ h[w] \in Cone \ {candidate.output}
  BY <1>3, <1>6, <1>7 DEF Range
<1>9. ASSUME NEW w \in DOMAIN h, NEW u \in DOMAIN h, h[w] = h[u], h[w] # None PROVE w = u
  <2>1. /\ at(w) \in DOMAIN names /\ h[w] = names[at(w)]
        /\ at(u) \in DOMAIN names /\ h[u] = names[at(u)]
    BY <1>6, <1>7, <1>9
  <2>2. at(w) = at(u)
    BY <1>3, <1>9, <2>1
  <2>3. QED
    BY <1>5, <1>7, <2>2
<1>10. QED
  BY <1>1, <1>2, <1>7, <1>8, <1>9, Zenon

-----------------------------------------------------------------------------
(***************************************************************************)
(* Renaming and merging.                                                   *)
(***************************************************************************)
Vars == Len(candidate.inputs)

\* The cone is a tree over the candidate's inputs, and its lines are renamed in
\* their order.
ConeIsRenamed ==
    /\ apprx # <<>> =>
          RestDone /\ IsTree(apprx, Vars) /\ hash_internal_node_names = HashFor(apprx)
    /\ apprx \in Seq(TreeLine)
    /\ modified \in Seq({Renamed(l) : l \in Range(apprx)})
    /\ Len(modified) \in 0 .. Len(apprx)
    /\ \A i \in DOMAIN modified : modified[i] = Renamed(apprx[i])

MergedIsWhole ==
    merged # <<>> =>
        /\ apprx # <<>> /\ Len(modified) = Len(apprx)
        /\ merged = Without(rest, {EndLine}) \o modified \o <<EndLine>>

SynInv ==
    /\ RestInv
    /\ ConeIsRenamed
    /\ MergedIsWhole

LEMMA VarsFacts ==
  ASSUME RestInv
  PROVE  Vars \in Nat \ {0} /\ Vars \in 1 .. num_input_max
<1>1. Vars \in num_input_min .. num_input_max
  BY ConeFacts DEF RestInv, Vars
<1>2. QED
  BY <1>1, ConesHaveInputs

LEMMA SynStarts == SynInitAll => SynInv
<1> SUFFICES ASSUME SynInitAll PROVE SynInv
  OBVIOUS
<1>1. RestInv
  BY RestStarts DEF SynInitAll
<1>2. apprx = <<>> /\ modified = <<>> /\ merged = <<>>
  BY DEF SynInitAll, SynInit
<1>3. ConeIsRenamed
  <2>1. <<>> \in Seq(TreeLine) /\ <<>> \in Seq({Renamed(l) : l \in Range(apprx)}) /\ Len(<<>>) = 0 /\ DOMAIN <<>> = {}
    OBVIOUS
  <2>2. QED
    BY <1>2, <2>1 DEF ConeIsRenamed
<1>4. QED
  BY <1>1, <1>2, <1>3 DEF SynInv, MergedIsWhole

\* While lines are cut out, nothing is renamed.
LEMMA CuttingKeeps == SynInv /\ RestNext /\ UNCHANGED synVars => SynInv'
<1> SUFFICES ASSUME SynInv, RestNext, UNCHANGED synVars PROVE SynInv'
  OBVIOUS
<1>1. RestInv'
  BY RestMoves DEF SynInv
<1>2. ~RestDone
  BY DEF RestNext, PrintNames, PrintRow, PrintOther
<1>3. apprx = <<>> /\ modified \in Seq({Renamed(l) : l \in Range(apprx)}) /\ Len(modified) \in 0 .. Len(apprx)
  BY <1>2 DEF SynInv, ConeIsRenamed
<1>4. modified = <<>>
  <2>1. Len(modified) = 0
    BY <1>3
  <2>2. QED
    BY <1>3, <2>1, EmptySeq
<1>5. merged = <<>>
  BY <1>3 DEF SynInv, MergedIsWhole
<1>6. apprx' = <<>> /\ modified' = <<>> /\ merged' = <<>>
  BY <1>3, <1>4, <1>5 DEF synVars
<1>7. ConeIsRenamed'
  <2>1. <<>> \in Seq(TreeLine) /\ <<>> \in Seq({Renamed(l)' : l \in Range(apprx)'}) /\ Len(<<>>) = 0 /\ DOMAIN <<>> = {}
    OBVIOUS
  <2>2. QED
    BY <1>6, <2>1 DEF ConeIsRenamed
<1>8. QED
  BY <1>1, <1>6, <1>7 DEF SynInv, MergedIsWhole

LEMMA RenamedStays ==
  ASSUME UNCHANGED <<candidate, hash_internal_node_names>>
  PROVE  \A l : Renamed(l)' = Renamed(l)
  BY DEF Renamed, NameOf

LEMMA TreeStays ==
  ASSUME UNCHANGED <<net, candidate, file, line, apprx, hash_internal_node_names>>, ConeIsRenamed
  PROVE  apprx' # <<>> =>
            RestDone' /\ IsTree(apprx, Vars)' /\ hash_internal_node_names' = HashFor(apprx)'
<1>1. RestDone' = RestDone /\ Vars' = Vars
  BY DEF RestDone, Vars
<1>2. HashFor(apprx)' = HashFor(apprx)
  BY DEF HashFor, InternalNames, NamesOn
<1>3. IsTree(apprx, Vars)' = IsTree(apprx, Vars)
  BY <1>1 DEF IsTree
<1>4. apprx # <<>> => RestDone /\ IsTree(apprx, Vars) /\ hash_internal_node_names = HashFor(apprx)
  BY DEF ConeIsRenamed
<1>5. QED
  BY <1>1, <1>2, <1>3, <1>4

LEMMA SynMoves ==
  SynInv /\ (BuildHash \/ Rename \/ Merge) /\ UNCHANGED restVars => SynInv'
<1> SUFFICES ASSUME SynInv, BuildHash \/ Rename \/ Merge, UNCHANGED restVars PROVE SynInv'
  OBVIOUS
<1>1. RestInv /\ RestInv'
  BY RestStays DEF SynInv
<1>2. UNCHANGED <<net, candidate, file, line, rest>>
  BY DEF restVars
<1>3. RestDone' = RestDone /\ Vars' = Vars
  BY <1>2 DEF RestDone, Vars
<1>4. \A t : HashFor(t)' = HashFor(t) /\ IsTree(t, Vars)' = IsTree(t, Vars)
  BY <1>2, <1>3 DEF HashFor, InternalNames, NamesOn, IsTree
<1>5. CASE BuildHash
  <2>1. PICK tree \in TraceBack[Vars] : apprx' = tree /\ hash_internal_node_names' = HashFor(tree)
    BY <1>5 DEF BuildHash, Vars
  <2>2. RestDone /\ apprx = <<>> /\ modified' = modified /\ merged' = merged
    BY <1>5 DEF BuildHash
  <2>3. IsTree(tree, Vars)
    BY <1>1, VarsFacts, TracedTrees
  <2>4. tree \in Seq(TreeLine)
    BY <2>3 DEF IsTree
  <2>5. modified = <<>>
    <3>1. modified \in Seq({Renamed(l) : l \in Range(apprx)}) /\ Len(modified) \in 0 .. Len(apprx)
      BY DEF SynInv, ConeIsRenamed
    <3>2. Len(modified) = 0
      BY <2>2, <3>1
    <3>3. QED
      BY <3>1, <3>2, EmptySeq
  <2>6. merged' = <<>>
    BY <2>2 DEF SynInv, MergedIsWhole
  <2>7. ConeIsRenamed'
    <3>1. Len(apprx') \in Nat
      BY <2>1, <2>4
    <3>2. <<>> \in Seq({Renamed(l)' : l \in Range(apprx)'}) /\ Len(<<>>) = 0 /\ DOMAIN <<>> = {}
      OBVIOUS
    <3>3. modified' = <<>>
      BY <2>2, <2>5
    <3>4. RestDone' /\ IsTree(apprx, Vars)' /\ hash_internal_node_names' = HashFor(apprx)'
      BY <1>2, <1>3, <1>4, <2>1, <2>2, <2>3 DEF IsTree, HashFor, InternalNames, NamesOn
    <3>5. Len(modified') \in 0 .. Len(apprx')
      BY <3>1, <3>2, <3>3
    <3>6. QED
      BY <2>1, <2>4, <3>2, <3>3, <3>4, <3>5 DEF ConeIsRenamed
  <2>8. QED
    BY <1>1, <2>6, <2>7 DEF SynInv, MergedIsWhole
<1>6. CASE Rename
  <2>1. /\ UNCHANGED <<apprx, hash_internal_node_names, merged>> /\ merged = <<>>
        /\ apprx # <<>> /\ Len(modified) < Len(apprx)
        /\ modified' = Append(modified, Renamed(apprx[Len(modified) + 1]))
    BY <1>6 DEF Rename
  <2> DEFINE S == {Renamed(l) : l \in Range(apprx)}
  <2>2. /\ apprx \in Seq(TreeLine) /\ modified \in Seq(S) /\ Len(modified) \in 0 .. Len(apprx)
        /\ \A i \in DOMAIN modified : modified[i] = Renamed(apprx[i])
    BY DEF SynInv, ConeIsRenamed
  <2>3. PICK m \in Nat : m = Len(modified)
    BY <2>2
  <2>4. PICK n \in Nat : n = Len(apprx)
    BY <2>2
  <2>5. m + 1 \in DOMAIN apprx
    BY <2>1, <2>2, <2>3, <2>4
  <2>6. PICK x \in S : x = Renamed(apprx[m + 1])
    BY <2>5 DEF Range
  <2>7. /\ modified' \in Seq(S) /\ Len(modified') = m + 1
        /\ \A i \in 1 .. m : modified'[i] = modified[i]
        /\ modified'[m + 1] = x /\ DOMAIN modified' = 1 .. m + 1 /\ DOMAIN modified = 1 .. m
    BY <2>1, <2>2, <2>3, <2>6
  <2>8. \A i \in DOMAIN modified' : modified'[i] = Renamed(apprx[i])
    <3> SUFFICES ASSUME NEW i \in 1 .. m + 1 PROVE modified'[i] = Renamed(apprx[i])
      BY <2>7
    <3>1. i \in 1 .. m \/ i = m + 1
      OBVIOUS
    <3>2. QED
      BY <2>2, <2>6, <2>7, <3>1
  <2>9. \A l : Renamed(l)' = Renamed(l)
    BY <1>2, <2>1, RenamedStays
  <2>10. {Renamed(l) : l \in Range(apprx)}' = S
    BY <2>1, <2>9
  <2>11. m + 1 \in 0 .. n
    BY <2>1, <2>3, <2>4
  <2>12. apprx' # <<>> => RestDone' /\ IsTree(apprx, Vars)' /\ hash_internal_node_names' = HashFor(apprx)'
    BY <1>2, <2>1, TreeStays DEF SynInv
  <2> HIDE DEF S
  <2>13. (\A i \in DOMAIN modified : modified[i] = Renamed(apprx[i]))'
    BY <2>1, <2>8, <2>9
  <2>14. ConeIsRenamed'
    BY <2>1, <2>2, <2>4, <2>7, <2>10, <2>11, <2>12, <2>13 DEF ConeIsRenamed
  <2>15. QED
    BY <1>1, <2>1, <2>14 DEF SynInv, MergedIsWhole
<1>7. CASE Merge
  <2>1. /\ UNCHANGED <<apprx, hash_internal_node_names, modified>>
        /\ apprx # <<>> /\ Len(modified) = Len(apprx)
        /\ merged' = Without(rest, {EndLine}) \o modified \o <<EndLine>>
    BY <1>7 DEF Merge
  <2>2. \A l : Renamed(l)' = Renamed(l)
    BY <1>2, <2>1, RenamedStays
  <2>3. apprx' # <<>> => RestDone' /\ IsTree(apprx, Vars)' /\ hash_internal_node_names' = HashFor(apprx)'
    BY <1>2, <2>1, TreeStays DEF SynInv
  <2>4. {Renamed(l) : l \in Range(apprx)}' = {Renamed(l) : l \in Range(apprx)}
    BY <2>1, <2>2
  <2>5. ConeIsRenamed'
    BY <2>1, <2>2, <2>3, <2>4 DEF SynInv, ConeIsRenamed
  <2>6. MergedIsWhole'
    BY <1>2, <2>1 DEF MergedIsWhole
  <2>7. QED
    BY <1>1, <2>5, <2>6 DEF SynInv
<1>8. QED
  BY <1>5, <1>6, <1>7

LEMMA SynStays == SynInv /\ UNCHANGED synAllVars => SynInv'
<1> SUFFICES ASSUME SynInv, UNCHANGED synAllVars PROVE SynInv'
  OBVIOUS
<1>1. UNCHANGED restVars /\ UNCHANGED <<apprx, hash_internal_node_names, modified, merged>>
  BY DEF synAllVars, synVars
<1>2. UNCHANGED <<net, candidate, file, line, rest>>
  BY <1>1 DEF restVars
<1>3. RestInv'
  BY <1>1, RestStays DEF SynInv
<1>4. \A l : Renamed(l)' = Renamed(l)
  BY <1>1, <1>2, RenamedStays
<1>5. {Renamed(l) : l \in Range(apprx)}' = {Renamed(l) : l \in Range(apprx)}
  BY <1>1, <1>4
<1>6. apprx' # <<>> => RestDone' /\ IsTree(apprx, Vars)' /\ hash_internal_node_names' = HashFor(apprx)'
  BY <1>1, <1>2, TreeStays DEF SynInv
<1>7. ConeIsRenamed'
  BY <1>1, <1>4, <1>5, <1>6 DEF SynInv, ConeIsRenamed
<1>8. MergedIsWhole'
  BY <1>1, <1>2 DEF SynInv, MergedIsWhole
<1>9. QED
  BY <1>3, <1>7, <1>8 DEF SynInv

\* The approximate cone is a tree over the candidate's inputs, its lines are
\* renamed one by one, and the new circuit is the rest with the renamed cone
\* behind it.
THEOREM NewCircuit == SynSpec => []SynInv
<1>1. SynInitAll => SynInv
  BY SynStarts
<1>2. SynInv /\ [SynNext]_synAllVars => SynInv'
  BY CuttingKeeps, SynMoves, SynStays DEF SynNext
<1>3. QED
  BY <1>1, <1>2, PTL DEF SynSpec

-----------------------------------------------------------------------------
(***************************************************************************)
(* The new circuit.                                                        *)
(***************************************************************************)
IsNames(j) == j \in DOMAIN apprx /\ Renamed(apprx[j]).kind = "names"

LEMMA RenamedKind ==
  \A l : /\ Renamed(l).kind \in {"names", "bare"}
         /\ Renamed(l).kind = "names" <=> IsVar(l.left) \/ IsVar(l.right)
  BY DEF Renamed, NamesLine

\* The new circuit is a sequence A, the rest without .end, the lines of the
\* cone behind it, and .end.
LEMMA MergedFacts ==
  ASSUME SynInv, merged # <<>>
  PROVE  \E A \in Seq(FileLine) :
            /\ OneLineEach(A) /\ GatesOn(A) = GatesOn(rest)
            /\ \A i : i \in Read => AreNames(A, i) \/ IsNames(i - Len(A))
            /\ \A i : AreNames(A, i) => i \in Read /\ merged[i] = A[i]
            /\ \A j : IsNames(j) => Len(A) + j \in Read /\ merged[Len(A) + j] = Renamed(apprx[j])
            /\ \A i \in Read : i \in Nat
<1> DEFINE A == Without(rest, {EndLine})
           E == <<EndLine>>
           S == {Renamed(l) : l \in Range(apprx)}
           U == FileLine \cup S
<1>1. /\ merged = A \o modified \o E
      /\ apprx \in Seq(TreeLine) /\ modified \in Seq(S) /\ Len(modified) = Len(apprx)
      /\ \A j \in DOMAIN modified : modified[j] = Renamed(apprx[j])
  BY DEF SynInv, MergedIsWhole, ConeIsRenamed
<1>2. rest \in Seq(FileLine) /\ OneLineEach(rest)
  BY DEF SynInv, RestInv, RestIsLeft
<1>3. /\ A \in Seq(FileLine \ {EndLine}) /\ Range(A) = Range(rest) \ {EndLine}
      /\ \E from \in [DOMAIN A -> DOMAIN rest] :
            /\ \A p \in DOMAIN A : A[p] = rest[from[p]]
            /\ \A p, q \in DOMAIN A : from[p] = from[q] => p = q
  BY <1>2, WithoutFacts, ZenonT(40)
<1> HIDE DEF A
<1>4. PICK from \in [DOMAIN A -> DOMAIN rest] :
            /\ \A p \in DOMAIN A : A[p] = rest[from[p]]
            /\ \A p, q \in DOMAIN A : from[p] = from[q] => p = q
  BY <1>3
<1>5. OneLineEach(A)
  <2> SUFFICES ASSUME NEW p, NEW q, AreNames(A, p), AreNames(A, q), A[p].out = A[q].out PROVE p = q
    BY DEF OneLineEach
  <2>1. from[p] = from[q]
    BY <1>2, <1>4 DEF OneLineEach, AreNames
  <2>2. QED
    BY <1>4, <2>1 DEF AreNames
<1>6. GatesOn(A) = GatesOn(rest)
  <2>1. \A s : \A n : n \in GatesOn(s) <=> \E l \in Range(s) : l.kind = "names" /\ n = l.out
    BY DEF GatesOn, Range
  <2>2. \A l : l.kind = "names" => l # EndLine
    BY DEF EndLine
  <2>3. \A l : l.kind = "names" => (l \in Range(A) <=> l \in Range(rest))
    BY <1>3, <2>2
  <2>4. \A n : n \in GatesOn(A) <=> n \in GatesOn(rest)
    BY <2>1, <2>3
  <2>5. QED
    BY <2>4 DEF GatesOn
<1>7. A \in Seq(FileLine) /\ \A p \in DOMAIN A : A[p] # EndLine
  BY <1>3
<1>8. PICK a \in Nat : a = Len(A)
  BY <1>7
<1>9. PICK m \in Nat : m = Len(modified)
  BY <1>1
<1>10. DOMAIN A = 1 .. a /\ DOMAIN modified = 1 .. m /\ DOMAIN apprx = 1 .. m
  BY <1>1, <1>7, <1>8, <1>9
<1>11. A \in Seq(U) /\ modified \in Seq(U) /\ E \in Seq(U) /\ Len(E) = 1 /\ E[1] = EndLine
  BY <1>1, <1>7 DEF FileLine
<1> HIDE DEF U, S, E
<1>12. /\ A \o modified \in Seq(U) /\ Len(A \o modified) = a + m
       /\ \A i \in 1 .. a : (A \o modified)[i] = A[i]
       /\ \A j \in 1 .. m : (A \o modified)[a + j] = modified[j]
  BY <1>8, <1>9, <1>11, JoinedFacts
<1>13. /\ DOMAIN merged = 1 .. a + m + 1
       /\ \A i \in 1 .. a + m : merged[i] = (A \o modified)[i]
       /\ merged[a + m + 1] = EndLine
  <2> DEFINE C == A \o modified
  <2>1. C \in Seq(U) /\ Len(C) = a + m
    BY <1>12
  <2> HIDE DEF C
  <2>2. /\ DOMAIN (C \o E) = 1 .. Len(C) + Len(E)
        /\ \A i \in 1 .. Len(C) : (C \o E)[i] = C[i]
        /\ \A i \in 1 .. Len(E) : (C \o E)[Len(C) + i] = E[i]
    <3>1. E \in Seq(U) /\ C \in Seq(U)
      BY <1>11, <2>1
    <3>2. QED
      BY <3>1, JoinedFacts
  <2>3. 1 \in 1 .. 1
    OBVIOUS
  <2>4. merged = C \o E
    BY <1>1 DEF C
  <2>5. QED
    BY <1>11, <2>1, <2>2, <2>3, <2>4, Zenon DEF C
<1>14. \A i \in 1 .. a : i \in 1 .. a + m /\ merged[i] = A[i]
  BY SMTT(40), <1>12, <1>13
<1>15. \A j \in 1 .. m : a + j \in 1 .. a + m /\ merged[a + j] = Renamed(apprx[j])
  BY <1>1, <1>10, <1>12, <1>13
<1>16. \A i \in 1 .. a + m + 1 : i \in 1 .. a \/ (i - a \in 1 .. m /\ a + (i - a) = i) \/ i = a + m + 1
  OBVIOUS
<1>17. \A i \in 1 .. a + m : merged[i] # EndLine
  <2> SUFFICES ASSUME NEW i \in 1 .. a + m PROVE merged[i] # EndLine
    OBVIOUS
  <2>1. i \in 1 .. a \/ (i - a \in 1 .. m /\ a + (i - a) = i)
    OBVIOUS
  <2>2. \A l : Renamed(l) # EndLine
    <3>1. EndLine.kind = "end"
      BY DEF EndLine
    <3>2. QED
      BY <3>1, RenamedKind
  <2>3. QED
    BY <1>7, <1>10, <1>14, <1>15, <2>1, <2>2
<1>18. {i \in DOMAIN merged : merged[i] = EndLine} = {a + m + 1}
  <2>1. \A i \in DOMAIN merged : i \in 1 .. a + m \/ i = a + m + 1
    BY <1>13
  <2>2. a + m + 1 \in DOMAIN merged
    BY <1>13
  <2>3. QED
    BY <1>13, <1>17, <2>1, <2>2
<1>19. \A i : i \in Read <=> i \in 1 .. a + m /\ merged[i].kind = "names"
  <2>1. Read = {i \in DOMAIN merged : merged[i].kind = "names" /\ i < a + m + 1}
    BY <1>18 DEF Read
  <2>2. \A i : i \in DOMAIN merged /\ i < a + m + 1 <=> i \in 1 .. a + m
    BY <1>13
  <2>3. QED
    BY <2>1, <2>2
<1>20. \A i : i \in Read => AreNames(A, i) \/ IsNames(i - a)
  <2> SUFFICES ASSUME NEW i \in Read PROVE AreNames(A, i) \/ IsNames(i - a)
    OBVIOUS
  <2>1. i \in 1 .. a + m /\ merged[i].kind = "names"
    BY <1>19
  <2>2. i \in 1 .. a \/ (i - a \in 1 .. m /\ a + (i - a) = i)
    BY <2>1
  <2>3. QED
    BY <1>10, <1>14, <1>15, <2>1, <2>2 DEF AreNames, IsNames
<1>21. \A i : AreNames(A, i) => i \in Read /\ merged[i] = A[i]
  BY <1>10, <1>14, <1>19 DEF AreNames
<1>22. \A j : IsNames(j) => a + j \in Read /\ merged[a + j] = Renamed(apprx[j])
  BY <1>10, <1>15, <1>19 DEF IsNames
<1>23. \A i \in Read : i \in Nat
  BY <1>19
<1>24. QED
  BY <1>5, <1>6, <1>7, <1>8, <1>20, <1>21, <1>22, <1>23

\* The names that the lines of the cone get, when every inner wire has one.
LEMMA NamesGiven ==
  ASSUME SynInv, apprx # <<>>, EveryWireNamed
  PROVE  /\ DOMAIN apprx = 1 .. Vars - 1 /\ Vars - 1 \in DOMAIN apprx
         /\ NameOf(apprx[Vars - 1].out) = candidate.output
         /\ \A j \in DOMAIN apprx : NameOf(apprx[j].out) \in Cone
         /\ \A i, j \in DOMAIN apprx : NameOf(apprx[i].out) = NameOf(apprx[j].out) => i = j
         /\ \A j \in DOMAIN apprx : \A w \in Signal : Operand(apprx[j], w) =>
               \/ NameOf(w) \in Range(candidate.inputs)
               \/ \E i \in DOMAIN apprx : i < j /\ NameOf(w) = NameOf(apprx[i].out)
<1> DEFINE h == hash_internal_node_names
<1>1. IsTree(apprx, Vars) /\ h = HashFor(apprx) /\ net \in Circuits /\ candidate \in Candidates
  BY DEF SynInv, ConeIsRenamed, RestInv
<1>2. Vars \in Nat \ {0}
  BY VarsFacts DEF SynInv
<1>3. /\ DOMAIN h = {apprx[i].out : i \in 1 .. Vars - 2}
      /\ \A w \in DOMAIN h : h[w] = None \/ h[w] \in Cone \ {candidate.output}
      /\ \A w, u \in DOMAIN h : h[w] = h[u] /\ h[w] # None => w = u
  <2>1. LET g == HashFor(apprx)
        IN  /\ DOMAIN g = {apprx[i].out : i \in 1 .. Vars - 2}
            /\ \A w \in DOMAIN g : g[w] = None \/ g[w] \in Cone \ {candidate.output}
            /\ \A w, u \in DOMAIN g : g[w] = g[u] /\ g[w] # None => w = u
    BY <1>1, <1>2, HashFacts, Zenon
  <2>2. QED
    BY <1>1, <2>1, Zenon
<1>4. \A w \in DOMAIN h : h[w] # None
  BY DEF EveryWireNamed, Range
<1> HIDE DEF h
<1>5. apprx \in Seq(TreeLine) /\ DOMAIN apprx = 1 .. Vars - 1 /\ Len(apprx) = Vars - 1
  BY <1>1, <1>2 DEF IsTree
<1>6. Vars > 1 /\ Vars - 1 \in DOMAIN apprx
  <2>1. Len(apprx) # 0
    BY <1>5, EmptySeq
  <2>2. QED
    BY <1>2, <1>5, <2>1
<1>7. apprx[Vars - 1].out = Wire(<<>>) /\ \A i, j \in DOMAIN apprx : apprx[i].out = apprx[j].out => i = j
  BY <1>1, <1>6 DEF IsTree
<1>8. NameOf(Wire(<<>>)) = candidate.output
  BY SignalFacts DEF NameOf
<1>9. candidate.output \in Cone
  BY <1>1, ConeFacts
<1>10. \A j \in DOMAIN apprx : j # Vars - 1 => apprx[j].out \in DOMAIN h
  <2> SUFFICES ASSUME NEW j \in DOMAIN apprx, j # Vars - 1 PROVE apprx[j].out \in DOMAIN h
    OBVIOUS
  <2>1. j \in 1 .. Vars - 2
    BY <1>2, <1>5
  <2>2. QED
    BY <1>3, <2>1
<1>11. \A w \in DOMAIN h : IsInner(w)
  BY <1>1, <1>2, <1>3, InnerWiresFacts
<1>12. \A w \in DOMAIN h : NameOf(w) = h[w] /\ h[w] \in Cone \ {candidate.output}
  <2>1. \A w \in DOMAIN h : ~IsVar(w)
    BY <1>11 DEF IsInner
  <2>2. QED
    BY <1>3, <1>4, <1>11, <2>1 DEF NameOf, h
<1>13. \A j \in DOMAIN apprx :
          IF j = Vars - 1 THEN NameOf(apprx[j].out) = candidate.output
          ELSE /\ apprx[j].out \in DOMAIN h
               /\ NameOf(apprx[j].out) = h[apprx[j].out]
               /\ NameOf(apprx[j].out) \in Cone \ {candidate.output}
  BY <1>7, <1>8, <1>10, <1>12
<1>14. ASSUME NEW i \in DOMAIN apprx, NEW j \in DOMAIN apprx,
              NameOf(apprx[i].out) = NameOf(apprx[j].out)
       PROVE  i = j
  <2>1. CASE i = Vars - 1
    BY <1>13, <1>14, <2>1
  <2>2. CASE j = Vars - 1
    BY <1>13, <1>14, <2>2
  <2>3. CASE i # Vars - 1 /\ j # Vars - 1
    <3>1. apprx[i].out = apprx[j].out
      BY <1>3, <1>4, <1>13, <1>14, <2>3
    <3>2. QED
      BY <1>7, <3>1
  <2>4. QED
    BY <2>1, <2>2, <2>3
<1>15. ASSUME NEW j \in DOMAIN apprx, NEW w \in Signal, Operand(apprx[j], w)
       PROVE  \/ NameOf(w) \in Range(candidate.inputs)
              \/ \E i \in DOMAIN apprx : i < j /\ NameOf(w) = NameOf(apprx[i].out)
  <2>1. \/ \E v \in 1 .. Vars : w = Var(v)
        \/ \E i \in DOMAIN apprx : i < j /\ apprx[i].out = w
    BY <1>1, <1>15 DEF IsTree
  <2>2. CASE \E v \in 1 .. Vars : w = Var(v)
    <3>1. PICK v \in 1 .. Vars : w = Var(v)
      BY <2>2
    <3>2. NameOf(w) = candidate.inputs[v]
      BY <3>1, SignalFacts DEF NameOf
    <3>3. v \in DOMAIN candidate.inputs
      <4>1. candidate.inputs \in Seq(NodesOf(net))
        BY <1>1, ConeFacts
      <4>2. DOMAIN candidate.inputs = 1 .. Vars
        BY <4>1 DEF Vars
      <4>3. QED
        BY <4>2
    <3>4. QED
      BY <3>2, <3>3 DEF Range
  <2>3. QED
    BY <2>1, <2>2
<1>16. QED
  BY <1>5, <1>6, <1>7, <1>8, <1>9, <1>13, <1>14, <1>15

\* A line with a variable gets the three names of its signals.
LEMMA LineRenamed ==
  ASSUME SynInv, apprx # <<>>, EveryWireNamed, NEW j, IsNames(j)
  PROVE  /\ Renamed(apprx[j]).out = NameOf(apprx[j].out)
         /\ Range(Renamed(apprx[j]).pins) = {NameOf(apprx[j].left), NameOf(apprx[j].right)}
<1> DEFINE l == apprx[j]
           a == NameOf(l.left)
           b == NameOf(l.right)
           c == NameOf(l.out)
<1>1. /\ \A i \in DOMAIN apprx : NameOf(apprx[i].out) \in Cone
      /\ \A w \in Signal : Operand(l, w) =>
               \/ NameOf(w) \in Range(candidate.inputs)
               \/ \E i \in DOMAIN apprx : i < j /\ NameOf(w) = NameOf(apprx[i].out)
  BY NamesGiven DEF IsNames
<1>2. l.left \in Signal /\ l.right \in Signal
  <2>1. l \in TreeLine
    BY DEF IsNames, SynInv, ConeIsRenamed
  <2>2. QED
    BY <2>1 DEF TreeLine
<1>3. Range(candidate.inputs) \subseteq Name /\ Cone \subseteq Name
  <2>1. net \in Circuits /\ candidate \in Candidates
    BY DEF SynInv, RestInv
  <2>2. NodesOf(net) \subseteq Name
    BY <2>1, CandidateFacts DEF WellFormed, NodesOf
  <2>3. Range(candidate.inputs) \subseteq NodesOf(net)
    BY <2>1, ConeFacts DEF Range
  <2>4. Cone \subseteq NodesOf(net)
    BY <2>1, CandidateFacts DEF Gates
  <2>5. QED
    BY <2>2, <2>3, <2>4
<1>4. a \in Name /\ b \in Name /\ c \in Name
  BY <1>1, <1>2, <1>3 DEF IsNames, Operand
<1>5. IsVar(l.left) \/ IsVar(l.right)
  BY RenamedKind DEF IsNames
<1>6. Renamed(l) = NamesLine(Front(Without(<<a, b, c>>, {None})), Last(Without(<<a, b, c>>, {None})))
  BY <1>5 DEF Renamed
<1> HIDE DEF a, b, c
<1>7. Without(<<a, b, c>>, {None}) = <<a, b, c>>
  <2>1. a \notin {None} /\ b \notin {None} /\ c \notin {None}
    BY <1>4, NoneIsNoName
  <2>2. QED
    BY <1>4, <2>1, NothingLeftOut
<1>8. Renamed(l).out = Last(<<a, b, c>>) /\ Renamed(l).pins = Front(<<a, b, c>>)
  BY <1>6, <1>7 DEF NamesLine
<1>9. Last(<<a, b, c>>) = c
  BY DEF Last
<1>10. Range(Front(<<a, b, c>>)) = {a, b}
  <2> DEFINE s == <<a, b, c>>
             f == SubSeq(s, 1, 2)
  <2>1. Front(s) = f
    BY DEF Front
  <2>2. DOMAIN f = {1, 2} /\ f[1] = a /\ f[2] = b
    <3>1. s \in Seq({a, b, c}) /\ Len(s) = 3 /\ s[1] = a /\ s[2] = b
      OBVIOUS
    <3> HIDE DEF s
    <3>2. Len(f) = 2 /\ f[1] = s[1] /\ f[2] = s[2] /\ DOMAIN f = 1 .. 2
      BY <3>1
    <3>3. 1 .. 2 = {1, 2}
      OBVIOUS
    <3>4. QED
      BY <3>1, <3>2, <3>3
  <2> HIDE DEF f, s
  <2>3. Range(f) = {a, b}
    BY <2>2 DEF Range
  <2>4. QED
    BY <2>1, <2>3 DEF s
<1>11. QED
  BY <1>8, <1>9, <1>10 DEF a, b, c

\* The lines of the circuit in the rest, and those behind them.
LEMMA ReadFacts ==
  ASSUME SynInv, merged # <<>>, EveryWireNamed
  PROVE  /\ RestDone /\ apprx # <<>>
         /\ GatesOn(rest) \subseteq Driven
         /\ \A j : IsNames(j) => NameOf(apprx[j].out) \in Driven
         /\ \E a \in Nat : \E A \in Seq(FileLine) :
               /\ OneLineEach(A) /\ GatesOn(A) = GatesOn(rest)
               /\ \A i \in Read :
                     /\ i \in Nat
                     /\ \/ AreNames(A, i) /\ merged[i] = A[i]
                        \/ IsNames(i - a) /\ merged[i] = Renamed(apprx[i - a])
<1>1. RestDone /\ apprx # <<>>
  BY DEF SynInv, MergedIsWhole, ConeIsRenamed
<1>2. PICK A \in Seq(FileLine) :
            /\ OneLineEach(A) /\ GatesOn(A) = GatesOn(rest)
            /\ \A i : i \in Read => AreNames(A, i) \/ IsNames(i - Len(A))
            /\ \A i : AreNames(A, i) => i \in Read /\ merged[i] = A[i]
            /\ \A j : IsNames(j) => Len(A) + j \in Read /\ merged[Len(A) + j] = Renamed(apprx[j])
            /\ \A i \in Read : i \in Nat
  BY MergedFacts
<1>3. PICK a \in Nat : a = Len(A)
  BY <1>2
<1>4. GatesOn(rest) \subseteq Driven
  <2>1. \A n \in GatesOn(A) : \E i : AreNames(A, i) /\ n = A[i].out
    BY DEF GatesOn, AreNames
  <2>2. QED
    BY <1>2, <2>1 DEF Driven
<1>5. ASSUME NEW j, IsNames(j) PROVE NameOf(apprx[j].out) \in Driven
  <2>1. Renamed(apprx[j]).out = NameOf(apprx[j].out)
    BY <1>1, <1>5, LineRenamed
  <2>2. QED
    BY <1>2, <1>5, <2>1 DEF Driven
<1>6. ASSUME NEW i \in Read
      PROVE  /\ i \in Nat
             /\ \/ AreNames(A, i) /\ merged[i] = A[i]
                \/ IsNames(i - a) /\ merged[i] = Renamed(apprx[i - a])
  <2>1. i \in Nat /\ a + (i - a) = i
    BY <1>2
  <2>2. CASE AreNames(A, i)
    BY <1>2, <2>1, <2>2
  <2>3. CASE IsNames(i - a)
    <3>1. merged[a + (i - a)] = Renamed(apprx[i - a])
      BY <1>2, <1>3, <2>3, Zenon
    <3>2. QED
      BY <2>1, <2>3, <3>1
  <2>4. QED
    BY <1>2, <1>3, <2>2, <2>3
<1>7. QED
  BY <1>1, <1>2, <1>4, <1>5, <1>6

\* The names on the lines of the rest.
LEMMA RestLine ==
  ASSUME NEW A \in Seq(FileLine), NEW i, AreNames(A, i)
  PROVE  /\ A[i].out \in GatesOn(A) /\ A[i].out \in Gates
         /\ A[i].pins = net.inputs[A[i].out]
<1>1. A[i] \in FileLine /\ A[i].kind = "names" /\ i \in DOMAIN A
  BY DEF AreNames
<1>2. A[i].out \in Gates /\ A[i] = NamesLine(net.inputs[A[i].out], A[i].out)
  BY <1>1, NamesLineFacts
<1>3. A[i].pins = net.inputs[A[i].out]
  <2>1. \A p, n : NamesLine(p, n).pins = p
    BY DEF NamesLine
  <2>2. QED
    BY <1>2, <2>1
<1>4. A[i].out \in GatesOn(A)
  BY <1>1 DEF GatesOn
<1>5. QED
  BY <1>2, <1>3, <1>4

\* DrivenOnce: no signal of the new circuit is driven by two lines, and no
\* primary input is driven, whatever tree MATLAB prints, as long as no line has
\* brackets and no wire went without a name.
THEOREM NothingDrivenTwice == SynSpec => []DrivenOnce
<1>1. SynInv => DrivenOnce
  <2> SUFFICES ASSUME SynInv, merged # <<>>, AllLiteral, EveryWireNamed
               PROVE  /\ \A i, j \in Read : merged[i].out = merged[j].out => i = j
                      /\ Driven \cap PrimaryInputs = {}
    BY DEF DrivenOnce
  <2>1. PICK a \in Nat, A \in Seq(FileLine) :
               /\ OneLineEach(A) /\ GatesOn(A) = GatesOn(rest)
               /\ \A i \in Read :
                     /\ i \in Nat
                     /\ \/ AreNames(A, i) /\ merged[i] = A[i]
                        \/ IsNames(i - a) /\ merged[i] = Renamed(apprx[i - a])
    BY ReadFacts
  <2>2. RestDone /\ apprx # <<>> /\ RestInv
    BY ReadFacts DEF SynInv
  <2>3. Cone \subseteq Gates
    BY <2>2, CandidateFacts DEF RestInv
  <2>4. GatesOn(A) \cap Cone = {} /\ GatesOn(A) \cup Cone = Gates
    BY <2>1, <2>2, RestSplits DEF AllLiteral
  <2>5. \A i : AreNames(A, i) => A[i].out \in GatesOn(A)
    BY RestLine
  <2>6. \A j : IsNames(j) => /\ Renamed(apprx[j]).out = NameOf(apprx[j].out)
                             /\ Renamed(apprx[j]).out \in Cone
    BY <2>2, LineRenamed, NamesGiven DEF IsNames
  <2>7. \A i, j : IsNames(i) /\ IsNames(j) /\ Renamed(apprx[i]).out = Renamed(apprx[j]).out => i = j
    BY <2>2, <2>6, NamesGiven DEF IsNames
  <2>8. ASSUME NEW i \in Read, NEW j \in Read, merged[i].out = merged[j].out PROVE i = j
    <3>1. CASE AreNames(A, i) /\ merged[i] = A[i]
      <4>1. AreNames(A, j) /\ merged[j] = A[j]
        BY <2>1, <2>4, <2>5, <2>6, <2>8, <3>1
      <4>2. QED
        BY <2>1, <2>8, <3>1, <4>1 DEF OneLineEach, AreNames
    <3>2. CASE IsNames(i - a) /\ merged[i] = Renamed(apprx[i - a])
      <4>1. IsNames(j - a) /\ merged[j] = Renamed(apprx[j - a])
        BY <2>1, <2>4, <2>5, <2>6, <2>8, <3>2
      <4>2. i - a = j - a /\ i \in Nat /\ j \in Nat
        BY <2>1, <2>7, <2>8, <3>2, <4>1
      <4>3. QED
        BY <4>2
    <3>3. QED
      BY <2>1, <3>1, <3>2
  <2>9. Driven \subseteq Gates
    <3>1. \A i \in Read : merged[i].out \in Gates
      BY <2>1, <2>3, <2>4, <2>5, <2>6
    <3>2. QED
      BY <3>1 DEF Driven
  <2>10. QED
    BY <2>8, <2>9 DEF PrimaryInputs
<1>2. QED
  BY <1>1, NewCircuit, PTL

\* With a variable on every line, every line of the cone drives what it is
\* named for.
LEMMA ConeDriven ==
  ASSUME SynInv, merged # <<>>, EveryWireNamed, EveryLineReadsVar
  PROVE  /\ candidate.output \in Driven
         /\ \A j \in DOMAIN apprx : NameOf(apprx[j].out) \in Driven
<1>1. apprx # <<>> /\ \A j : IsNames(j) => NameOf(apprx[j].out) \in Driven
  BY ReadFacts
<1>2. \A j \in DOMAIN apprx : IsNames(j)
  <2>1. \A j \in DOMAIN apprx : apprx[j] \in Range(apprx)
    BY DEF Range
  <2>2. QED
    BY <2>1, RenamedKind DEF EveryLineReadsVar, IsNames
<1>3. Vars - 1 \in DOMAIN apprx /\ NameOf(apprx[Vars - 1].out) = candidate.output
  BY <1>1, NamesGiven
<1>4. QED
  BY <1>1, <1>2, <1>3

\* PinsDriven: nothing dangles, every pin of the new circuit is a primary input
\* or driven by some line: the cone was cut out at its output only, and the
\* tree reads its inputs and its own wires.
THEOREM NothingDangles == SynSpec => []PinsDriven
<1>1. SynInv => PinsDriven
  <2> SUFFICES ASSUME SynInv, merged # <<>>, AllLiteral, EveryWireNamed, EveryLineReadsVar,
                      NEW i \in Read, NEW x \in Range(merged[i].pins)
               PROVE  x \in Driven \cup PrimaryInputs
    BY DEF PinsDriven
  <2>1. PICK a \in Nat, A \in Seq(FileLine) :
               /\ OneLineEach(A) /\ GatesOn(A) = GatesOn(rest)
               /\ \A q \in Read :
                     /\ q \in Nat
                     /\ \/ AreNames(A, q) /\ merged[q] = A[q]
                        \/ IsNames(q - a) /\ merged[q] = Renamed(apprx[q - a])
    BY ReadFacts
  <2>2. RestDone /\ apprx # <<>> /\ RestInv /\ GatesOn(rest) \subseteq Driven
    BY ReadFacts DEF SynInv
  <2>3. net \in Circuits /\ candidate \in Candidates
    BY <2>2 DEF RestInv
  <2>4. GatesOn(A) \cap Cone = {} /\ GatesOn(A) \cup Cone = Gates
    BY <2>1, <2>2, RestSplits DEF AllLiteral
  <2>5. candidate.output \in Driven /\ \A j \in DOMAIN apprx : NameOf(apprx[j].out) \in Driven
    BY ConeDriven
  <2>6. \A n \in NodesOf(net) \ Cone : n \in Driven \cup PrimaryInputs
    BY <2>1, <2>2, <2>4 DEF PrimaryInputs
  <2>7. CASE AreNames(A, i) /\ merged[i] = A[i]
    <3>1. A[i].out \in GatesOn(A) /\ A[i].out \in Gates /\ A[i].pins = net.inputs[A[i].out]
      BY <2>7, RestLine
    <3>2. A[i].out \in NodesOf(net) \ Cone
      BY <2>4, <3>1 DEF Gates
    <3>3. Range(net.inputs[A[i].out]) \cap Cone \subseteq {candidate.output}
      BY <2>3, <3>2, ConeFacts
    <3>4. x \in NodesOf(net)
      <4>1. net.inputs[A[i].out] \in Seq(NodesOf(net))
        BY <2>3, <3>2, CandidateFacts DEF WellFormed
      <4>2. QED
        BY <2>7, <3>1, <4>1 DEF Range
    <3>5. QED
      BY <2>5, <2>6, <2>7, <3>1, <3>3, <3>4
  <2>8. CASE IsNames(i - a) /\ merged[i] = Renamed(apprx[i - a])
    <3>1. Range(merged[i].pins) = {NameOf(apprx[i - a].left), NameOf(apprx[i - a].right)}
      BY <2>2, <2>8, LineRenamed
    <3>2. i - a \in DOMAIN apprx /\ apprx[i - a] \in TreeLine
      BY <2>8 DEF IsNames, SynInv, ConeIsRenamed
    <3>3. \A w \in Signal : Operand(apprx[i - a], w) =>
               \/ NameOf(w) \in Range(candidate.inputs)
               \/ \E j \in DOMAIN apprx : NameOf(w) = NameOf(apprx[j].out)
      BY <2>2, <3>2, NamesGiven
    <3>4. apprx[i - a].left \in Signal /\ apprx[i - a].right \in Signal
      BY <3>2 DEF TreeLine
    <3>5. x \in Range(candidate.inputs) \/ \E j \in DOMAIN apprx : x = NameOf(apprx[j].out)
      BY <3>1, <3>3, <3>4 DEF Operand
    <3>6. Range(candidate.inputs) \subseteq NodesOf(net) \ Cone
      BY <2>3, ConeFacts DEF Range
    <3>7. QED
      BY <2>5, <2>6, <3>5, <3>6
  <2>9. QED
    BY <2>1, <2>7, <2>8
<1>2. QED
  BY <1>1, NewCircuit, PTL

\* OutputsSurvive: every gate but the inner ones of the candidate is still
\* driven, its output among them.
THEOREM OutputsAreDriven == SynSpec => []OutputsSurvive
<1>1. SynInv => OutputsSurvive
  <2> SUFFICES ASSUME SynInv, merged # <<>>, EveryWireNamed, EveryLineReadsVar,
                      NEW n \in Gates \ (Cone \ {candidate.output})
               PROVE  n \in Driven
    BY DEF OutputsSurvive
  <2>1. RestDone /\ RestInv /\ GatesOn(rest) \subseteq Driven
    BY ReadFacts DEF SynInv
  <2>2. GatesOn(rest) \cup Cone = Gates
    BY <2>1, RestSplits
  <2>3. candidate.output \in Driven
    BY ConeDriven
  <2>4. QED
    BY <2>1, <2>2, <2>3
<1>2. QED
  BY <1>1, NewCircuit, PTL

-----------------------------------------------------------------------------
-----------------------------------------------------------------------------
(***************************************************************************)
(* Two-pin gates leave enough names.  Each gate of the candidate but its   *)
(* output, and each input, is read at some pin of the candidate: at most   *)
(* two a gate.                                                             *)
(***************************************************************************)
LEMMA ConeReads ==
  ASSUME net \in Circuits, candidate \in Candidates,
         NEW m \in (Cone \ {candidate.output}) \cup Range(candidate.inputs)
  PROVE  \E n \in Cone : m \in Range(net.inputs[n])
<1> DEFINE r == candidate.output
           M == MFFC(r)
<1>1. WellFormed(net)
  BY CandidateFacts
<1>2. /\ r \in Gates /\ M \subseteq NodesOf(net) /\ M \subseteq TFI(r)
      /\ \A x \in M \ {r} : Range(net.fanouts[x]) \subseteq M
      /\ Cone = M \cap Gates
      /\ Range(candidate.inputs) = InSig(M)
  BY CandidateIs
<1>3. InSig(M) \subseteq UNION {Range(net.inputs[n]) : n \in M}
  BY DEF InSig
<1> HIDE DEF M
<1>4. ASSUME NEW n \in NodesOf(net), m \in Range(net.inputs[n]) PROVE n \in Gates
  <2>1. net.inputs[n] # <<>>
    BY <1>4 DEF Range
  <2>2. net.type[n] # "INPUT"
    BY <1>1, <2>1 DEF WellFormed, InputsReadNothing
  <2>3. QED
    BY <2>2 DEF Gates
<1>5. CASE m \in Range(candidate.inputs)
  <2>1. PICK n \in M : m \in Range(net.inputs[n])
    BY <1>2, <1>3, <1>5
  <2>2. QED
    BY <1>2, <1>4, <2>1
<1>6. CASE m \in Cone \ {r}
  <2>1. m \in NodesOf(net) /\ m \in M \ {r}
    BY <1>2, <1>6
  <2>2. r \in Downstream(net, m)
    BY <1>2, <2>1 DEF TFI
  <2>3. Readers(net, m) # {}
    <3> SUFFICES ASSUME Readers(net, m) = {} PROVE FALSE
      OBVIOUS
    <3>1. Len(net.nodes) \in Nat
      BY <1>1 DEF WellFormed
    <3>2. Readers(net, m) \subseteq {} /\ \A x \in {} : Readers(net, x) \subseteq {}
      OBVIOUS
    <3>3. Downstream(net, m) \subseteq {}
      BY <3>1, <3>2, DownstreamLeast
    <3>4. QED
      BY <2>2, <3>3
  <2>4. PICK n \in NodesOf(net) : Pins(net.inputs[n], m) # {}
    BY <2>3 DEF Readers
  <2>5. m \in Range(net.inputs[n])
    BY <2>4 DEF Pins, Range
  <2>6. n \in Range(net.fanouts[m])
    BY <1>1, <2>1, <2>5, ReadersAreFanouts
  <2>7. n \in M /\ n \in Gates
    BY <1>2, <1>4, <2>1, <2>5, <2>6
  <2>8. QED
    BY <1>2, <2>5, <2>7
<1>7. QED
  BY <1>5, <1>6

LEMMA EnoughNames ==
  ASSUME net \in Circuits, candidate \in Candidates, TwoPins
  PROVE  IsFiniteSet(Cone) /\ Vars - 1 <= Cardinality(Cone)
<1> DEFINE r == candidate.output
           I == Range(candidate.inputs)
           D == (Cone \ {r}) \cup I
           P == Cone \X (1 .. 2)
           pin(m) == CHOOSE p \in P : p[2] \in DOMAIN net.inputs[p[1]] /\ net.inputs[p[1]][p[2]] = m
           F == [m \in D |-> pin(m)]
<1>1. WellFormed(net) /\ Cone \subseteq NodesOf(net)
  BY CandidateFacts DEF Gates
<1>2. /\ IsFiniteSet(InSig(MFFC(r))) /\ IsFiniteSet(MFFC(r) \cap Gates)
      /\ Cone = MFFC(r) \cap Gates /\ I = InSig(MFFC(r))
      /\ Vars = Cardinality(InSig(MFFC(r)))
  BY CandidateIs DEF Vars
<1>3. IsFiniteSet(Cone) /\ IsFiniteSet(I) /\ Vars = Cardinality(I)
  BY <1>2
<1>4. r \in Cone /\ I \cap Cone = {}
  BY ConeFacts, SMTT(30)
<1>5. ASSUME NEW m \in D
      PROVE  /\ pin(m) \in P
             /\ net.inputs[pin(m)[1]][pin(m)[2]] = m
  <2>1. PICK n \in Cone : m \in Range(net.inputs[n])
    BY ConeReads
  <2>2. PICK q \in DOMAIN net.inputs[n] : net.inputs[n][q] = m
    BY <2>1 DEF Range
  <2>3. net.inputs[n] \in Seq(NodesOf(net)) /\ Len(net.inputs[n]) <= 2
    BY <1>1, <2>1 DEF WellFormed, TwoPins
  <2>4. q \in 1 .. 2
    BY <2>2, <2>3
  <2>5. <<n, q>> \in P /\ <<n, q>>[1] = n /\ <<n, q>>[2] = q
    BY <2>1, <2>4
  <2>6. \E p \in P : p[2] \in DOMAIN net.inputs[p[1]] /\ net.inputs[p[1]][p[2]] = m
    BY <2>2, <2>5
  <2>7. QED
    BY ZenonT(40), <2>6
<1> HIDE DEF pin, P
<1>6. F \in [D -> P] /\ \A x, y \in D : F[x] = F[y] => x = y
  <2>1. \A x \in D : F[x] = pin(x) /\ F[x] \in P
    BY <1>5
  <2>2. \A x, y \in D : F[x] = F[y] => x = y
    BY <1>5, <2>1
  <2>3. QED
    BY <2>1, <2>2
<1> HIDE DEF F
<1>7. F \in Injection(D, P)
  BY <1>6 DEF Injection, IsInjective
<1>8. IsFiniteSet(1 .. 2) /\ Cardinality(1 .. 2) = 2
  <2>1. 1 \in Int /\ 2 \in Int
    OBVIOUS
  <2>2. IsFiniteSet(1 .. 2) /\ Cardinality(1 .. 2) = IF 1 > 2 THEN 0 ELSE 2 - 1 + 1
    BY <2>1, FS_Interval
  <2>3. QED
    BY <2>2
<1>9. IsFiniteSet(P) /\ Cardinality(P) = Cardinality(Cone) * 2
  BY <1>3, <1>8, FS_Product DEF P
<1>10. Cardinality(D) <= Cardinality(P)
  BY <1>7, <1>9, FS_Injection
<1>11. IsFiniteSet(Cone \ {r}) /\ Cardinality(Cone \ {r}) = Cardinality(Cone) - 1
  BY <1>3, <1>4, FS_RemoveElement
<1>12. Cardinality(D) = Cardinality(Cone \ {r}) + Cardinality(I) - Cardinality((Cone \ {r}) \cap I)
  BY <1>3, <1>11, FS_Union
<1>13. (Cone \ {r}) \cap I = {}
  BY <1>4
<1>14. Cardinality((Cone \ {r}) \cap I) = 0
  BY <1>13, FS_EmptySet
<1>15. Cardinality(Cone) \in Nat /\ Cardinality(I) \in Nat
  BY <1>3, FS_CardinalityType
<1> HIDE DEF D, I
<1>16. Vars - 1 <= Cardinality(Cone)
  BY <1>3, <1>9, <1>10, <1>11, <1>12, <1>14, <1>15
<1>17. QED
  BY <1>3, <1>16

\* A sequence of different elements is as long as it has elements.
LEMMA DistinctLength ==
  ASSUME NEW S, NEW s \in Seq(S), \A p, q \in DOMAIN s : s[p] = s[q] => p = q
  PROVE  IsFiniteSet(Range(s)) /\ Cardinality(Range(s)) = Len(s)
<1>1. Len(s) \in Nat /\ DOMAIN s = 1 .. Len(s)
  OBVIOUS
<1>2. s \in Bijection(1 .. Len(s), Range(s))
  BY <1>1 DEF Bijection, Injection, IsInjective, Surjection, Range
<1>3. IsFiniteSet(1 .. Len(s)) /\ Cardinality(1 .. Len(s)) = Len(s)
  BY SMTT(40), <1>1, FS_Interval
<1>4. ExistsBijection(1 .. Len(s), Range(s))
  BY <1>2 DEF ExistsBijection
<1>5. QED
  BY <1>3, <1>4, FS_Bijection

LEMMA EveryWireFound ==
  ASSUME net \in Circuits, candidate \in Candidates, TwoPins,
         Vars \in Nat \ {0}, NEW t, IsTree(t, Vars)
  PROVE  None \notin Range(HashFor(t))
<1> DEFINE wires == InnerWires(t)
           names == InternalNames(candidate)
           at(w) == CHOOSE i \in DOMAIN wires : wires[i] = w
           h == [w \in Range(wires) |-> IF at(w) \in DOMAIN names THEN names[at(w)] ELSE None]
<1>1. HashFor(t) = h
  BY DEF HashFor
<1>2. /\ wires \in Seq(Signal) /\ Range(wires) = {t[i].out : i \in 1 .. Vars - 2}
      /\ \A p, q \in DOMAIN wires : wires[p] = wires[q] => p = q
  BY InnerWiresFacts
<1>3. /\ names \in Seq(NodesOf(net)) /\ Range(names) = Cone \ {candidate.output}
      /\ \A p, q \in DOMAIN names : names[p] = names[q] => p = q
  BY InternalNamesFacts
<1>4. NodesOf(net) \subseteq Name
  BY CandidateFacts DEF WellFormed, NodesOf
<1>5. IsFiniteSet(Cone) /\ Vars - 1 <= Cardinality(Cone) /\ candidate.output \in Cone
  BY EnoughNames, ConeFacts
<1> HIDE DEF wires, names
<1>6. Len(names) = Cardinality(Cone) - 1
  <2>1. Cardinality(Range(names)) = Len(names)
    BY <1>3, DistinctLength
  <2>2. Cardinality(Cone \ {candidate.output}) = Cardinality(Cone) - 1
    BY <1>5, FS_RemoveElement
  <2>3. QED
    BY <1>3, <2>1, <2>2
<1>7. CASE Vars = 1
  <2>1. Range(wires) = {}
    BY <1>2, <1>7
  <2>2. Range(h) = {}
    BY <2>1 DEF Range
  <2>3. QED
    BY <1>1, <2>2
<1>8. CASE Vars # 1
  <2>1. PICK k \in Nat : k = Vars - 2
    BY <1>8
  <2> DEFINE g == [i \in 1 .. k |-> t[i].out]
  <2>2. g \in Surjection(1 .. k, Range(wires))
    <3>1. Range(wires) = {t[i].out : i \in 1 .. k}
      BY <1>2, <2>1
    <3>2. QED
      BY <3>1 DEF Surjection
  <2>3. IsFiniteSet(1 .. k) /\ Cardinality(1 .. k) = k
    BY FS_Interval
  <2>4. Cardinality(Range(wires)) <= k
    BY <2>2, <2>3, FS_Surjection
  <2>5. Cardinality(Range(wires)) = Len(wires)
    BY <1>2, DistinctLength
  <2>6. Len(wires) \in Nat /\ DOMAIN wires = 1 .. Len(wires)
    BY <1>2
  <2>7. Len(names) \in Nat /\ DOMAIN names = 1 .. Len(names)
    BY <1>3
  <2>8. Cardinality(Cone) \in Nat
    BY <1>5, FS_CardinalityType
  <2>9. Len(wires) <= Len(names)
    BY <1>5, <1>6, <2>1, <2>4, <2>5, <2>6, <2>7, <2>8
  <2>10. DOMAIN wires \subseteq DOMAIN names
    BY <2>6, <2>7, <2>9
  <2>11. ASSUME NEW w \in Range(wires) PROVE h[w] # None
    <3>1. \E i \in DOMAIN wires : wires[i] = w
      BY DEF Range
    <3>2. at(w) \in DOMAIN names
      BY <2>10, <3>1
    <3>3. h[w] = names[at(w)]
      BY <3>2
    <3> HIDE DEF at, h
    <3>4. names[at(w)] \in NodesOf(net)
      BY <1>3, <3>2
    <3>5. QED
      BY <1>4, <3>3, <3>4, NoneIsNoName
  <2>12. DOMAIN h = Range(wires)
    OBVIOUS
  <2>13. None \notin Range(h)
    <3> HIDE DEF h
    <3>1. QED
      BY <2>11, <2>12 DEF Range
  <2>14. QED
    BY <1>1, <2>13
<1>9. QED
  BY <1>7, <1>8

\* A cone of a single variable has no gates and no wires.
NoWiresYet == apprx = <<>> => DOMAIN hash_internal_node_names = {}

LEMMA WiresOfTheTree == SynSpec => []NoWiresYet
<1>1. SynInitAll => NoWiresYet
  BY DEF SynInitAll, SynInit, NoWiresYet
<1>2. SynInv /\ NoWiresYet /\ [SynNext]_synAllVars => NoWiresYet'
  <2> SUFFICES ASSUME SynInv, NoWiresYet, [SynNext]_synAllVars PROVE NoWiresYet'
    OBVIOUS
  <2>1. CASE BuildHash
    <3>1. PICK tree \in TraceBack[Vars] : apprx' = tree /\ hash_internal_node_names' = HashFor(tree)
      BY <2>1 DEF BuildHash, Vars
    <3>2. Vars \in Nat \ {0} /\ IsTree(tree, Vars) /\ net \in Circuits /\ candidate \in Candidates
      BY VarsFacts, TracedTrees DEF SynInv, RestInv
    <3>3. DOMAIN HashFor(tree) = {tree[i].out : i \in 1 .. Vars - 2}
      BY <3>2, HashFacts, Zenon
    <3>4. tree = <<>> => Vars = 1
      BY <3>2 DEF IsTree
    <3>5. QED
      BY <3>1, <3>3, <3>4 DEF NoWiresYet
  <2>2. CASE ~BuildHash
    <3>1. UNCHANGED <<apprx, hash_internal_node_names>>
      BY <2>2 DEF SynNext, Rename, Merge, synAllVars, synVars
    <3>2. QED
      BY <3>1 DEF NoWiresYet
  <2>3. QED
    BY <2>1, <2>2
<1>3. QED
  BY <1>1, <1>2, NewCircuit, PTL DEF SynSpec

\* TwoPinsNameEveryWire: a candidate of two-pin gates has an internal name for
\* every inner wire of any tree over its inputs.
THEOREM EveryWireIsNamed == SynSpec => []TwoPinsNameEveryWire
<1>1. SynInv /\ NoWiresYet => TwoPinsNameEveryWire
  <2> SUFFICES ASSUME SynInv, NoWiresYet, TwoPins PROVE EveryWireNamed
    BY DEF TwoPinsNameEveryWire
  <2>1. Vars \in Nat \ {0} /\ net \in Circuits /\ candidate \in Candidates
    BY VarsFacts DEF SynInv, RestInv
  <2>2. CASE apprx = <<>>
    BY <2>2 DEF NoWiresYet, EveryWireNamed, Range
  <2>3. CASE apprx # <<>>
    <3>1. IsTree(apprx, Vars) /\ hash_internal_node_names = HashFor(apprx)
      BY <2>3 DEF SynInv, ConeIsRenamed
    <3>2. None \notin Range(HashFor(apprx))
      BY <2>1, <3>1, EveryWireFound
    <3>3. QED
      BY <3>1, <3>2 DEF EveryWireNamed
  <2>4. QED
    BY <2>2, <2>3
<1>2. QED
  BY <1>1, NewCircuit, WiresOfTheTree, PTL

-----------------------------------------------------------------------------
(***************************************************************************)
(* The new circuit has no cycle.  What is above a node grows along the     *)
(* pins of the old circuit; all gates of the new cone count as the output  *)
(* of the candidate, and among them the order of the lines decides.        *)
(***************************************************************************)
Above(n) == {u \in NodesOf(net) : n \in Downstream(net, u)}

LEMMA AboveGrows ==
  ASSUME WellFormed(net), NEW m \in NodesOf(net), NEW x \in Range(net.inputs[m])
  PROVE  x \in Above(m) /\ Above(x) \subseteq Above(m)
<1>1. x \in NodesOf(net)
  BY DEF WellFormed, Range
<1>2. m \in Readers(net, x)
  BY DEF Readers, Pins, Range
<1>3. m \in Downstream(net, x)
  BY <1>2, Downstreams
<1>4. ASSUME NEW u \in Above(x) PROVE u \in Above(m)
  <2>1. u \in NodesOf(net) /\ x \in Downstream(net, u)
    BY <1>4 DEF Above
  <2>2. Readers(net, x) \subseteq Downstream(net, u)
    BY <2>1, Downstreams
  <2>3. QED
    BY <1>2, <2>1, <2>2 DEF Above
<1>5. QED
  BY <1>1, <1>3, <1>4 DEF Above

LEMMA AboveIsTransitive ==
  ASSUME WellFormed(net), NEW z, NEW y \in Above(z)
  PROVE  Above(y) \subseteq Above(z)
<1> SUFFICES ASSUME NEW u \in Above(y) PROVE u \in Above(z)
  OBVIOUS
<1>1. u \in NodesOf(net) /\ y \in Downstream(net, u) /\ z \in Downstream(net, y)
  BY DEF Above
<1>2. /\ Readers(net, y) \subseteq Downstream(net, u)
      /\ \A m \in Downstream(net, u) : Readers(net, m) \subseteq Downstream(net, u)
  BY <1>1, Downstreams
<1>3. Len(net.nodes) \in Nat
  BY DEF WellFormed
<1>4. Downstream(net, y) \subseteq Downstream(net, u)
  BY <1>2, <1>3, DownstreamLeast
<1>5. QED
  BY <1>1, <1>4 DEF Above

\* The inputs of the candidate are above its output.
LEMMA InputsAbove ==
  ASSUME net \in Circuits, candidate \in Candidates, NEW x \in Range(candidate.inputs)
  PROVE  x \in Above(candidate.output) /\ Above(x) \subseteq Above(candidate.output)
<1> DEFINE r == candidate.output
           M == MFFC(r)
<1>1. WellFormed(net)
  BY CandidateFacts
<1>2. r \in M /\ M \subseteq NodesOf(net) /\ M \subseteq TFI(r) /\ Cone = M \cap Gates
  BY CandidateIs
<1> HIDE DEF M
<1>3. PICK n \in Cone : x \in Range(net.inputs[n])
  BY ConeReads
<1>4. n \in NodesOf(net) /\ n \in TFI(r)
  BY <1>2
<1>5. x \in Above(n) /\ Above(x) \subseteq Above(n)
  BY <1>1, <1>3, <1>4, AboveGrows
<1>6. CASE n = r
  BY <1>5, <1>6
<1>7. CASE n # r
  <2>1. n \in Above(r)
    BY <1>4, <1>7 DEF TFI, Above
  <2>2. Above(n) \subseteq Above(r)
    BY <1>1, <2>1, AboveIsTransitive
  <2>3. QED
    BY <1>5, <2>2
<1>8. QED
  BY <1>6, <1>7

\* Where a node of the new circuit stands.
Place(n) == IF n \in Cone THEN Above(candidate.output) ELSE Above(n)
OnLaterLine(x, m) ==
    \E i, j \in DOMAIN apprx :
        i < j /\ x = NameOf(apprx[i].out) /\ m = NameOf(apprx[j].out)
Follows(x, m) ==
    \/ Place(x) # Place(m) /\ Place(x) \subseteq Place(m)
    \/ Place(x) = Place(m) /\ OnLaterLine(x, m)

LEMMA FollowsIsAnOrder ==
  ASSUME SynInv, apprx # <<>>, EveryWireNamed
  PROVE  /\ \A x : ~Follows(x, x)
         /\ \A x, y, z : Follows(x, y) /\ Follows(y, z) => Follows(x, z)
<1>1. /\ DOMAIN apprx = 1 .. Vars - 1
      /\ \A i, j \in DOMAIN apprx : NameOf(apprx[i].out) = NameOf(apprx[j].out) => i = j
  BY NamesGiven
<1>2. Vars \in Nat
  BY VarsFacts DEF SynInv
<1>3. \A x : ~OnLaterLine(x, x)
  BY <1>1, <1>2 DEF OnLaterLine
<1>4. ASSUME NEW x, NEW y, NEW z, OnLaterLine(x, y), OnLaterLine(y, z)
      PROVE  OnLaterLine(x, z)
  <2>1. PICK i \in DOMAIN apprx, j \in DOMAIN apprx :
          i < j /\ x = NameOf(apprx[i].out) /\ y = NameOf(apprx[j].out)
    BY <1>4 DEF OnLaterLine
  <2>2. PICK k \in DOMAIN apprx, l \in DOMAIN apprx :
          k < l /\ y = NameOf(apprx[k].out) /\ z = NameOf(apprx[l].out)
    BY <1>4 DEF OnLaterLine
  <2>3. j = k
    BY <1>1, <2>1, <2>2
  <2>4. i < l
    BY <1>1, <1>2, <2>1, <2>2, <2>3
  <2>5. QED
    BY <2>1, <2>2, <2>4 DEF OnLaterLine
<1>5. QED
  BY <1>3, <1>4 DEF Follows

\* Every pin of the new circuit goes upwards.
LEMMA PinsFollow ==
  ASSUME SynInv, merged # <<>>, OnCycle(net) = {}, AllLiteral, EveryWireNamed,
         NEW i \in Read, NEW x \in Range(merged[i].pins)
  PROVE  Follows(x, merged[i].out)
<1> DEFINE r == candidate.output
<1>1. PICK a \in Nat, A \in Seq(FileLine) :
             /\ OneLineEach(A) /\ GatesOn(A) = GatesOn(rest)
             /\ \A q \in Read :
                   /\ q \in Nat
                   /\ \/ AreNames(A, q) /\ merged[q] = A[q]
                      \/ IsNames(q - a) /\ merged[q] = Renamed(apprx[q - a])
  BY ReadFacts
<1>2. RestDone /\ apprx # <<>> /\ RestInv
  BY ReadFacts DEF SynInv
<1>3. net \in Circuits /\ candidate \in Candidates
  BY <1>2 DEF RestInv
<1>4. WellFormed(net) /\ r \in Cone
  BY <1>3, CandidateFacts, ConeFacts
<1>5. GatesOn(A) \cap Cone = {}
  BY <1>1, <1>2, RestSplits DEF AllLiteral
<1>6. \A n \in NodesOf(net) : n \notin Above(n)
  BY DEF OnCycle, Above
<1>7. CASE AreNames(A, i) /\ merged[i] = A[i]
  <2> DEFINE m == merged[i].out
  <2>1. m \in GatesOn(A) /\ m \in Gates /\ merged[i].pins = net.inputs[m]
    BY <1>7, RestLine
  <2>2. m \in NodesOf(net) \ Cone /\ x \in Range(net.inputs[m])
    BY <1>5, <2>1 DEF Gates
  <2>3. x \in NodesOf(net)
    BY <1>4, <2>2 DEF WellFormed, Range
  <2>4. x \in Cone => x = r
    BY <1>3, <2>2, ConeFacts
  <2>5. x \in Above(m) /\ Above(x) \subseteq Above(m)
    BY <1>4, <2>2, AboveGrows
  <2>6. x \notin Above(x)
    BY <1>6, <2>3
  <2>7. Place(x) = Above(x) /\ Place(m) = Above(m)
    BY <2>2, <2>4 DEF Place
  <2>8. QED
    BY <2>5, <2>6, <2>7 DEF Follows
<1>8. CASE IsNames(i - a) /\ merged[i] = Renamed(apprx[i - a])
  <2> DEFINE j == i - a
             m == merged[i].out
  <2>1. /\ Range(merged[i].pins) = {NameOf(apprx[j].left), NameOf(apprx[j].right)}
        /\ m = NameOf(apprx[j].out)
    BY <1>2, <1>8, LineRenamed
  <2>2. j \in DOMAIN apprx /\ apprx[j] \in TreeLine
    BY <1>8 DEF IsNames, SynInv, ConeIsRenamed
  <2>3. /\ \A w \in Signal : Operand(apprx[j], w) =>
             \/ NameOf(w) \in Range(candidate.inputs)
             \/ \E k \in DOMAIN apprx : k < j /\ NameOf(w) = NameOf(apprx[k].out)
        /\ \A k \in DOMAIN apprx : NameOf(apprx[k].out) \in Cone
    BY <1>2, <2>2, NamesGiven
  <2>4. apprx[j].left \in Signal /\ apprx[j].right \in Signal
    BY <2>2 DEF TreeLine
  <2>5. \/ x \in Range(candidate.inputs)
        \/ \E k \in DOMAIN apprx : k < j /\ x = NameOf(apprx[k].out)
    BY <2>1, <2>3, <2>4 DEF Operand
  <2>6. Place(m) = Above(r)
    BY <2>1, <2>2, <2>3 DEF Place
  <2>7. CASE x \in Range(candidate.inputs)
    <3>1. x \in NodesOf(net) \ Cone
      BY <1>3, <2>7, ConeFacts DEF Range
    <3>2. x \in Above(r) /\ Above(x) \subseteq Above(r)
      BY <1>3, <2>7, InputsAbove
    <3>3. x \notin Above(x) /\ Place(x) = Above(x)
      BY <1>6, <3>1 DEF Place
    <3>4. QED
      BY <2>6, <3>2, <3>3 DEF Follows
  <2>8. CASE \E k \in DOMAIN apprx : k < j /\ x = NameOf(apprx[k].out)
    <3>1. OnLaterLine(x, m) /\ x \in Cone
      BY <2>1, <2>2, <2>3, <2>8 DEF OnLaterLine
    <3>2. Place(x) = Above(r)
      BY <3>1 DEF Place
    <3>3. QED
      BY <2>6, <3>1, <3>2 DEF Follows
  <2>9. QED
    BY <2>5, <2>7, <2>8
<1>9. QED
  BY <1>1, <1>7, <1>8

\* NoCycle: an acyclic circuit stays acyclic, whatever tree replaces the cone
\* and in whatever order the names are given.
THEOREM NoNewCycle == SynSpec => []NoCycle
<1>1. SynInv => NoCycle
  <2> SUFFICES ASSUME SynInv, merged # <<>>, OnCycle(net) = {}, AllLiteral, EveryWireNamed
               PROVE  OnCycle(NewNet) = {}
    BY DEF NoCycle
  <2>1. NewNet.nodes = net.nodes /\ NodesOf(NewNet) = NodesOf(net)
    BY DEF NewNet, NodesOf
  <2>2. Len(NewNet.nodes) \in Nat
    <3>1. WellFormed(net)
      BY CandidateFacts DEF SynInv, RestInv
    <3>2. QED
      BY <2>1, <3>1 DEF WellFormed
  <2>3. apprx # <<>>
    BY ReadFacts
  <2>4. /\ \A x : ~Follows(x, x)
        /\ \A x, y, z : Follows(x, y) /\ Follows(y, z) => Follows(x, z)
    BY <2>3, FollowsIsAnOrder
  <2>5. ASSUME NEW x, NEW m \in Readers(NewNet, x) PROVE Follows(x, m)
    <3>1. m \in NodesOf(net) /\ Pins(NewNet.inputs[m], x) # {}
      BY <2>1 DEF Readers
    <3>2. NewNet.inputs[m] = IF m \in Driven
                             THEN merged[CHOOSE i \in Read : merged[i].out = m].pins ELSE <<>>
      BY <3>1 DEF NewNet
    <3>3. m \in Driven
      BY <3>1, <3>2 DEF Pins
    <3>4. \E i \in Read : merged[i].out = m
      BY <3>3 DEF Driven
    <3>5. PICK i \in Read : merged[i].out = m /\ NewNet.inputs[m] = merged[i].pins
      BY <3>2, <3>3, <3>4
    <3>6. x \in Range(merged[i].pins)
      BY <3>1, <3>5 DEF Pins, Range
    <3>7. QED
      BY <3>5, <3>6, PinsFollow
  <2>6. ASSUME NEW x \in OnCycle(NewNet) PROVE FALSE
    <3> DEFINE X == {m \in NodesOf(net) : Follows(x, m)}
    <3>1. \A m : Readers(NewNet, m) \subseteq NodesOf(net)
      BY <2>1 DEF Readers
    <3>2. Readers(NewNet, x) \subseteq X
      BY <2>5, <3>1
    <3>3. \A m \in X : Readers(NewNet, m) \subseteq X
      BY <2>4, <2>5, <3>1
    <3>4. Downstream(NewNet, x) \subseteq X
      <4> HIDE DEF X
      <4>1. QED
        BY <2>2, <3>2, <3>3, DownstreamLeast
    <3>5. x \in X
      BY <3>4 DEF OnCycle
    <3>6. QED
      BY <2>4, <3>5
  <2>7. QED
    BY <2>6
<1>2. QED
  BY <1>1, NewCircuit, PTL
=============================================================================
