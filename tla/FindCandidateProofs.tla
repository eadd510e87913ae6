------------------------- MODULE FindCandidateProofs -------------------------
(***************************************************************************)
(* The passes of the C++ program are correct on every well-formed network: *)
(* topSort(), get_MFFC(), and the choice of the candidate.                 *)
(*                                                                         *)
(* For topSort() the inductive invariant adds to the properties what makes *)
(* them inductive: the count behind indegree_list, and that nothing is     *)
(* sorted before the first loop has entered every node.                    *)
(*                                                                         *)
(* get_MFFC() never exits, because topSort() puts fanins first; and when   *)
(* topSort() has sorted every node (there is no cycle), each MFFC is       *)
(* fanout-free and contains every other fanout-free cone of its root.  Its *)
(* invariant has four parts: nothing is entered before topSort() is done   *)
(* (Idle), what TFI_set contains (ConesOK), how far the walk from a root   *)
(* has come (WalkOK) and what the finished MFFCs are (FinalOK).            *)
(*                                                                         *)
(* find_print_candidate_MFFC() runs get_MFFC() to its end, and then uses   *)
(* what that computed: the MFFCs are the largest fanout-free cones.  From  *)
(* this follows what the rest of the flow needs of the file it writes:     *)
(* the cone is a circuit of its own and can be cut out at its root, and it *)
(* is one of the candidates that module RestPart starts from.              *)
(***************************************************************************)
EXTENDS FindCandidate, BnetProofs, SequenceTheorems

(***************************************************************************)
(* topSort().                                                              *)
(***************************************************************************)
SeedsFirst == Seeding => sort_list = <<>> /\ fo = 1

TopInv ==
    /\ TopTypeOK
    /\ IndegreeCounts
    /\ ReadyNodes
    /\ FaninsFirst
    /\ NoDuplicates
    /\ SeedsFirst

-----------------------------------------------------------------------------
\* The pins at which a name stands in a sequence are finitely many.
LEMMA PinsFinite ==
    ASSUME NEW S, NEW s \in Seq(S), NEW T \in SUBSET DOMAIN s
    PROVE  IsFiniteSet(T) /\ Cardinality(T) \in Nat
<1>1. DOMAIN s = 1 .. Len(s) /\ Len(s) \in Nat
  OBVIOUS
<1>2. IsFiniteSet(1 .. Len(s))
  BY <1>1, FS_Interval
<1>3. QED
  BY <1>1, <1>2, FS_Subset, FS_CardinalityType

\* Appending a name to a sequence adds it to the names of the sequence.
LEMMA AppendNames ==
    ASSUME NEW S, NEW s \in Seq(S), NEW x \in S
    PROVE  LET t == Append(s, x)
           IN  /\ t \in Seq(S)
               /\ Len(t) = Len(s) + 1
               /\ DOMAIN t = DOMAIN s \cup {Len(s) + 1}
               /\ \A i \in DOMAIN s : t[i] = s[i]
               /\ t[Len(s) + 1] = x
               /\ {t[i] : i \in DOMAIN t} = {s[i] : i \in DOMAIN s} \cup {x}
<1> DEFINE t == Append(s, x)
<1>1. /\ t \in Seq(S) /\ Len(t) = Len(s) + 1
      /\ DOMAIN t = DOMAIN s \cup {Len(s) + 1}
      /\ \A i \in DOMAIN s : t[i] = s[i]
      /\ t[Len(s) + 1] = x
  OBVIOUS
<1>2. {t[i] : i \in DOMAIN t} = {s[i] : i \in DOMAIN s} \cup {x}
  BY <1>1 DEF t
<1>3. QED
  BY <1>1, <1>2

\* Taking the head off a sequence without repetitions removes just that name.
LEMMA TailNames ==
    ASSUME NEW S, NEW s \in Seq(S), s # <<>>,
           \A i, j \in DOMAIN s : s[i] = s[j] => i = j
    PROVE  LET t == Tail(s)
           IN  /\ Head(s) \in S /\ Head(s) = s[1] /\ 1 \in DOMAIN s
               /\ t \in Seq(S)
               /\ \A i, j \in DOMAIN t : t[i] = t[j] => i = j
               /\ {t[i] : i \in DOMAIN t} = {s[i] : i \in DOMAIN s} \ {Head(s)}
<1> DEFINE t == Tail(s)
<1>1. /\ Head(s) = s[1] /\ s[1] \in S /\ 1 \in DOMAIN s
      /\ t \in Seq(S)
      /\ Len(t) = Len(s) - 1 /\ Len(s) \in Nat \ {0}
      /\ DOMAIN t = 1 .. Len(s) - 1 /\ DOMAIN s = 1 .. Len(s)
      /\ \A i \in DOMAIN t : t[i] = s[i + 1]
  OBVIOUS
<1>2. \A i, j \in DOMAIN t : t[i] = t[j] => i = j
  BY <1>1
<1>3. \A i \in DOMAIN t : t[i] \in {s[k] : k \in DOMAIN s} \ {Head(s)}
  BY <1>1
<1>4. ASSUME NEW i \in DOMAIN s, s[i] # Head(s)
      PROVE  s[i] \in {t[k] : k \in DOMAIN t}
  <2>1. i - 1 \in DOMAIN t /\ t[i - 1] = s[i]
    BY <1>1, <1>4
  <2>2. QED
    BY <2>1
<1>5. QED
  BY <1>1, <1>2, <1>3, <1>4

-----------------------------------------------------------------------------
LEMMA TopInvInit == TopInit => TopInv
<1> SUFFICES ASSUME TopInit PROVE TopInv
  OBVIOUS
<1>1. WellFormed(net)
  BY NetworksWellFormed DEF TopInit
<1>2. /\ Len(net.nodes) \in Nat /\ Sorted = {} /\ Queued = {}
      /\ DOMAIN indegree_list = {} /\ sort_list = <<>> /\ sort_queue = <<>>
      /\ seeded = 0 /\ fo = 1
  BY <1>1 DEF TopInit, WellFormed, Sorted, Queued
<1>3. TopTypeOK
  BY <1>1, <1>2 DEF TopTypeOK, TopInit
<1>4. QED
  BY <1>2, <1>3 DEF TopInv, IndegreeCounts, ReadyNodes, FaninsFirst,
                    NoDuplicates, SeedsFirst

-----------------------------------------------------------------------------
(***************************************************************************)
(* What TypeOK gives every step: the two sequences and the wiring of the   *)
(* network are well typed, and after the first loop indegree_list is       *)
(* defined on every node.                                                  *)
(***************************************************************************)
LEMMA TopFacts ==
    ASSUME TopTypeOK
    PROVE  /\ net.nodes \in Seq(Name) /\ Len(net.nodes) \in Nat
           /\ \A n \in NodesOf(net) : /\ net.inputs[n] \in Seq(NodesOf(net))
                                      /\ net.fanouts[n] \in Seq(NodesOf(net))
           /\ Sorted \subseteq NodesOf(net) /\ Queued \subseteq NodesOf(net)
           /\ CurFanouts \in Seq(NodesOf(net))
           /\ DOMAIN indegree_list \subseteq NodesOf(net)
           /\ ~Seeding => DOMAIN indegree_list = NodesOf(net)
<1>1. /\ net.nodes \in Seq(Name) /\ Len(net.nodes) \in Nat
      /\ \A n \in NodesOf(net) : /\ net.inputs[n] \in Seq(NodesOf(net))
                                 /\ net.fanouts[n] \in Seq(NodesOf(net))
  BY DEF TopTypeOK, WellFormed
<1>2. Sorted \subseteq NodesOf(net) /\ Queued \subseteq NodesOf(net)
  BY DEF TopTypeOK, Sorted, Queued
<1>3. CurFanouts \in Seq(NodesOf(net))
  <2>1. CASE sort_list = <<>>
    BY <2>1 DEF CurFanouts
  <2>2. CASE sort_list # <<>>
    <3>1. sort_list[Len(sort_list)] \in NodesOf(net)
      BY <2>2 DEF TopTypeOK
    <3>2. QED
      BY <2>2, <3>1, <1>1 DEF CurFanouts
  <2>3. QED
    BY <2>1, <2>2
<1>4. DOMAIN indegree_list \subseteq NodesOf(net)
  BY <1>1 DEF TopTypeOK, NodesOf
<1>5. ~Seeding => DOMAIN indegree_list = NodesOf(net)
  <2>1. DOMAIN net.nodes = 1 .. Len(net.nodes)
    BY <1>1
  <2>2. ~Seeding => seeded = Len(net.nodes)
    BY <1>1 DEF TopTypeOK, Seeding
  <2>3. QED
    BY <2>1, <2>2 DEF TopTypeOK, NodesOf
<1>6. QED
  BY <1>1, <1>2, <1>3, <1>4, <1>5

-----------------------------------------------------------------------------
LEMMA TopInvSeed == TopInv /\ Seed => TopInv'
<1> SUFFICES ASSUME TopInv, Seed PROVE TopInv'
  OBVIOUS
<1> USE DEF TopInv
<1> DEFINE nd == net.nodes[seeded + 1]
           ninp == Len(net.inputs[nd])
<1>1. /\ sort_list = <<>> /\ fo = 1 /\ net' = net /\ sort_list' = sort_list
      /\ fo' = fo /\ seeded' = seeded + 1 /\ seeded + 1 \in DOMAIN net.nodes
      /\ seeded \in Nat
  BY DEF Seed, SeedsFirst, TopTypeOK, Seeding, WellFormed
<1>2. nd \in NodesOf(net) /\ ninp \in Nat /\ DOMAIN net.inputs[nd] = 1 .. ninp
  BY <1>1, TopFacts DEF NodesOf
<1>3. nd \notin DOMAIN indegree_list
  BY <1>1 DEF TopTypeOK, WellFormed, DistinctNodes
<1>4. /\ DOMAIN indegree_list' = DOMAIN indegree_list \cup {nd}
      /\ \A n \in DOMAIN indegree_list : indegree_list'[n] = indegree_list[n]
      /\ indegree_list'[nd] = ninp
  BY <1>1, <1>3 DEF Seed
<1>5. Sorted = {} /\ Sorted' = {} /\ CurFanouts = <<>> /\ CurFanouts' = <<>>
  BY <1>1 DEF Sorted, CurFanouts
<1>6. IndegreeCounts'
  <2>1. Cardinality(1 .. ninp) = ninp
    BY <1>2, FS_Interval
  <2>2. Cardinality({}) = 0
    BY FS_EmptySet
  <2>3. SUFFICES ASSUME NEW n \in DOMAIN indegree_list'
                 PROVE  indegree_list'[n] = Cardinality(OpenPins(n)')
                                            + Cardinality(AheadPins(n)')
    BY DEF IndegreeCounts
  <2>4. AheadPins(n) = {} /\ AheadPins(n)' = {}
    BY <1>5 DEF AheadPins
  <2>5. CASE n = nd
    <3>1. OpenPins(n)' = 1 .. ninp
      BY <1>1, <1>2, <1>5, <2>5 DEF OpenPins
    <3>2. QED
      BY <1>2, <1>4, <2>1, <2>2, <2>4, <2>5, <3>1
  <2>6. CASE n # nd
    <3>1. OpenPins(n)' = OpenPins(n)
      BY <1>1, <1>5 DEF OpenPins
    <3>2. QED
      BY <1>4, <2>4, <2>6, <3>1 DEF IndegreeCounts
  <2>7. QED
    BY <2>5, <2>6
<1>7. nd \notin Queued
  BY <1>3 DEF ReadyNodes
<1>8. /\ sort_queue' \in Seq(NodesOf(net))
      /\ Queued' = IF ninp = 0 THEN Queued \cup {nd} ELSE Queued
      /\ \A i, j \in DOMAIN sort_queue' : sort_queue'[i] = sort_queue'[j] => i = j
  <2>1. CASE ninp = 0
    <3>1. sort_queue' = Append(sort_queue, nd) /\ sort_queue \in Seq(NodesOf(net))
      BY <2>1 DEF Seed, TopTypeOK
    <3>2. /\ sort_queue' \in Seq(NodesOf(net))
          /\ Queued' = Queued \cup {nd}
          /\ DOMAIN sort_queue' = DOMAIN sort_queue \cup {Len(sort_queue) + 1}
          /\ \A i \in DOMAIN sort_queue : sort_queue'[i] = sort_queue[i]
          /\ sort_queue'[Len(sort_queue) + 1] = nd
      BY <1>2, <3>1, AppendNames DEF Queued
    <3>3. QED
      BY <2>1, <1>7, <3>2 DEF NoDuplicates, Queued
  <2>2. CASE ninp # 0
    BY <2>2 DEF Seed, Queued, NoDuplicates, TopTypeOK
  <2>3. QED
    BY <2>1, <2>2
<1>9. TopTypeOK'
  <2>1. /\ seeded' \in 0 .. Len(net.nodes)
        /\ DOMAIN indegree_list' = {net.nodes[i] : i \in 1 .. seeded'}
    BY <1>1, <1>4, TopFacts DEF TopTypeOK
  <2>2. indegree_list' \in [DOMAIN indegree_list' -> Nat]
    BY <1>2, <1>4 DEF TopTypeOK, Seed
  <2>3. QED
    BY <1>1, <1>8, <2>1, <2>2 DEF TopTypeOK
<1>10. ReadyNodes'
  BY <1>3, <1>4, <1>5, <1>8 DEF ReadyNodes
<1>11. FaninsFirst' /\ NoDuplicates' /\ SeedsFirst'
  BY <1>1, <1>5, <1>8 DEF FaninsFirst, NoDuplicates, SeedsFirst
<1>12. QED
  BY <1>6, <1>9, <1>10, <1>11

-----------------------------------------------------------------------------
LEMMA TopInvVisit == TopInv /\ Visit => TopInv'
<1> SUFFICES ASSUME TopInv, Visit PROVE TopInv'
  OBVIOUS
<1> USE DEF TopInv
<1> DEFINE auxnd == CurFanouts[fo]
<1>1. /\ ~Seeding /\ net' = net /\ seeded' = seeded /\ sort_list' = sort_list
      /\ fo' = fo + 1 /\ fo \in Nat \ {0} /\ fo \in DOMAIN CurFanouts
      /\ Sorted' = Sorted /\ CurFanouts' = CurFanouts
  BY SMTT(40), TopFacts DEF Visit, Visiting, TopTypeOK, Sorted, CurFanouts
<1>2. /\ auxnd \in NodesOf(net) /\ DOMAIN indegree_list = NodesOf(net)
      /\ DOMAIN indegree_list' = NodesOf(net)
      /\ \A n \in NodesOf(net) : indegree_list'[n] =
             IF n = auxnd THEN indegree_list[n] - 1 ELSE indegree_list[n]
      /\ indegree_list \in [NodesOf(net) -> Nat]
  <2>1. auxnd \in NodesOf(net) /\ DOMAIN indegree_list = NodesOf(net)
    BY <1>1, TopFacts, ElementOfSeq, LenProperties
  <2>2. indegree_list \in [NodesOf(net) -> Nat]
    BY <2>1 DEF TopTypeOK
  <2>3. indegree_list' = [indegree_list EXCEPT ![auxnd] = @ - 1]
    BY DEF Visit
  <2>4. QED
    BY <2>1, <2>2, <2>3
<1>3. \A n \in NodesOf(net) : OpenPins(n)' = OpenPins(n)
  BY <1>1 DEF OpenPins
<1>4. \A n \in NodesOf(net) : /\ AheadPins(n)' = AheadPins(n) \ {fo}
                              /\ fo \in AheadPins(n) <=> n = auxnd
  BY <1>1, TopFacts DEF AheadPins
<1>5. \A n \in NodesOf(net) :
          /\ IsFiniteSet(AheadPins(n)) /\ Cardinality(AheadPins(n)) \in Nat
          /\ Cardinality(OpenPins(n)) \in Nat
  BY TopFacts, PinsFinite DEF AheadPins, OpenPins
<1>6. \A n \in NodesOf(net) :
          Cardinality(AheadPins(n)') = IF n = auxnd THEN Cardinality(AheadPins(n)) - 1
                                       ELSE Cardinality(AheadPins(n))
  BY <1>4, <1>5, FS_RemoveElement
<1>7. AheadPins(auxnd) # {} /\ indegree_list[auxnd] \in Nat \ {0}
  <2>1. Cardinality(AheadPins(auxnd)) # 0
    BY <1>2, <1>4, <1>5, FS_EmptySet
  <2>2. QED
    BY <1>2, <1>4, <1>5, <2>1 DEF IndegreeCounts
<1>8. IndegreeCounts'
  BY <1>2, <1>3, <1>5, <1>6 DEF IndegreeCounts
<1>9. auxnd \notin Sorted \cup Queued
  BY <1>2, <1>7 DEF ReadyNodes
<1>10. /\ sort_queue' \in Seq(NodesOf(net))
       /\ Queued' = IF indegree_list[auxnd] = 1 THEN Queued \cup {auxnd} ELSE Queued
       /\ \A i, j \in DOMAIN sort_queue' : sort_queue'[i] = sort_queue'[j] => i = j
  <2>1. CASE indegree_list[auxnd] = 1
    <3>1. sort_queue' = Append(sort_queue, auxnd) /\ sort_queue \in Seq(NodesOf(net))
      BY <2>1 DEF Visit, TopTypeOK
    <3>2. /\ sort_queue' \in Seq(NodesOf(net))
          /\ Queued' = Queued \cup {auxnd}
          /\ DOMAIN sort_queue' = DOMAIN sort_queue \cup {Len(sort_queue) + 1}
          /\ \A i \in DOMAIN sort_queue : sort_queue'[i] = sort_queue[i]
          /\ sort_queue'[Len(sort_queue) + 1] = auxnd
      BY <1>2, <3>1, AppendNames DEF Queued
    <3>3. QED
      BY <2>1, <1>9, <3>2 DEF NoDuplicates, Queued
  <2>2. CASE indegree_list[auxnd] # 1
    BY <2>2 DEF Visit, Queued, NoDuplicates, TopTypeOK
  <2>3. QED
    BY <2>1, <2>2
<1>11. TopTypeOK'
  <2>1. indegree_list' \in [NodesOf(net) -> Nat]
    BY <1>2, <1>7 DEF Visit
  <2>2. QED
    BY <1>1, <1>2, <1>10, <2>1 DEF TopTypeOK
<1>12. ReadyNodes'
  BY <1>1, <1>2, <1>7, <1>9, <1>10 DEF ReadyNodes
<1>13. FaninsFirst' /\ SeedsFirst'
  BY <1>1 DEF FaninsFirst, SeedsFirst, Seeding
<1>14. NoDuplicates'
  BY <1>1, <1>9, <1>10 DEF NoDuplicates
<1>15. QED
  BY <1>8, <1>11, <1>12, <1>13, <1>14

-----------------------------------------------------------------------------
LEMMA TopInvPop == TopInv /\ Pop => TopInv'
<1> SUFFICES ASSUME TopInv, Pop PROVE TopInv'
  OBVIOUS
<1> USE DEF TopInv
<1> DEFINE n == Head(sort_queue)
           L == Len(sort_list)
<1>1. /\ ~Seeding /\ ~Visiting /\ sort_queue # <<>> /\ net' = net
      /\ seeded' = seeded /\ indegree_list' = indegree_list
      /\ sort_list' = Append(sort_list, n) /\ sort_queue' = Tail(sort_queue)
      /\ fo' = 1 /\ fo \in Nat \ {0}
      /\ sort_queue \in Seq(NodesOf(net)) /\ sort_list \in Seq(NodesOf(net))
      /\ L \in Nat
  BY DEF Pop, TopTypeOK
<1>2. DOMAIN indegree_list = NodesOf(net)
  BY <1>1, TopFacts
<1>3. /\ n \in NodesOf(net) /\ n \in Queued
      /\ sort_queue' \in Seq(NodesOf(net))
      /\ \A i, j \in DOMAIN sort_queue' : sort_queue'[i] = sort_queue'[j] => i = j
      /\ Queued' = Queued \ {n}
  <2>1. \A i, j \in DOMAIN sort_queue : sort_queue[i] = sort_queue[j] => i = j
    BY DEF NoDuplicates
  <2>2. /\ n \in NodesOf(net) /\ n = sort_queue[1] /\ 1 \in DOMAIN sort_queue
        /\ Tail(sort_queue) \in Seq(NodesOf(net))
        /\ \A i, j \in DOMAIN Tail(sort_queue) :
               Tail(sort_queue)[i] = Tail(sort_queue)[j] => i = j
        /\ {Tail(sort_queue)[i] : i \in DOMAIN Tail(sort_queue)} =
               {sort_queue[i] : i \in DOMAIN sort_queue} \ {n}
    BY <1>1, <2>1, TailNames
  <2>3. QED
    BY <1>1, <2>2 DEF Queued
<1>4. n \notin Sorted /\ indegree_list[n] = 0
  BY <1>3 DEF NoDuplicates, ReadyNodes
<1>5. /\ sort_list' \in Seq(NodesOf(net))
      /\ DOMAIN sort_list' = DOMAIN sort_list \cup {L + 1} /\ L + 1 \notin DOMAIN sort_list
      /\ DOMAIN sort_list = 1 .. L
      /\ \A i \in DOMAIN sort_list : sort_list'[i] = sort_list[i]
      /\ sort_list'[L + 1] = n /\ Len(sort_list') = L + 1 /\ sort_list' # <<>>
      /\ Sorted' = Sorted \cup {n}
  BY <1>1, <1>3, AppendNames DEF Sorted
<1>6. CurFanouts' = net.fanouts[n]
  BY <1>1, <1>5 DEF CurFanouts
<1>7. /\ \A m \in NodesOf(net) : net.inputs[m] \in Seq(NodesOf(net))
      /\ net.fanouts[n] \in Seq(NodesOf(net))
      /\ CurFanouts \in Seq(NodesOf(net))
  BY <1>3, TopFacts
<1>8. IndegreeCounts'
  <2> SUFFICES ASSUME NEW m \in NodesOf(net)
               PROVE  indegree_list[m] = Cardinality(OpenPins(m)')
                                         + Cardinality(AheadPins(m)')
    BY <1>1, <1>2 DEF IndegreeCounts
  <2>1. AheadPins(m) = {}
    BY <1>1, <1>7 DEF AheadPins, Visiting
  <2>2. AheadPins(m)' = Pins(net.fanouts[n], m)
    BY <1>1, <1>6, <1>7 DEF AheadPins, Pins
  <2>3. OpenPins(m)' = OpenPins(m) \ Pins(net.inputs[m], n)
    BY <1>1, <1>5, <1>7 DEF OpenPins, Pins
  <2>4. Pins(net.inputs[m], n) \subseteq OpenPins(m)
    BY <1>4 DEF OpenPins, Pins
  <2>5. /\ IsFiniteSet(OpenPins(m)) /\ Cardinality(OpenPins(m)) \in Nat
        /\ IsFiniteSet(Pins(net.inputs[m], n))
        /\ Cardinality(Pins(net.inputs[m], n)) \in Nat
    BY <1>7, PinsFinite DEF OpenPins, Pins
  <2>6. Cardinality(OpenPins(m)') =
            Cardinality(OpenPins(m)) - Cardinality(Pins(net.inputs[m], n))
    <3>1. OpenPins(m) \cap Pins(net.inputs[m], n) = Pins(net.inputs[m], n)
      BY <2>4
    <3>2. QED
      BY <2>3, <2>5, <3>1, FS_Difference
  <2>7. Cardinality(Pins(net.fanouts[n], m)) = Cardinality(Pins(net.inputs[m], n))
    BY <1>3 DEF TopTypeOK, WellFormed, FanoutsMatchInputs
  <2>8. indegree_list[m] = Cardinality(OpenPins(m)) + 0
    BY <1>2, <2>1, FS_EmptySet DEF IndegreeCounts
  <2>9. QED
    BY <2>2, <2>5, <2>6, <2>7, <2>8
<1>9. ReadyNodes'
  BY ZenonT(40), <1>1, <1>3, <1>5 DEF ReadyNodes
<1>10. FaninsFirst'
  <2> SUFFICES ASSUME NEW k \in DOMAIN sort_list',
                      NEW p \in DOMAIN net.inputs[sort_list'[k]]
               PROVE  \E i \in 1 .. k - 1 :
                          sort_list'[i] = net.inputs[sort_list'[k]][p]
    BY ZenonT(40), <1>1 DEF FaninsFirst
  <2>1. CASE k \in DOMAIN sort_list
    <3>1. PICK i \in 1 .. k - 1 : sort_list[i] = net.inputs[sort_list[k]][p]
      BY <1>5, <2>1 DEF FaninsFirst
    <3>2. i \in DOMAIN sort_list
      BY <1>1, <1>5, <2>1
    <3>3. QED
      BY <1>5, <2>1, <3>1, <3>2
  <2>2. CASE k = L + 1
    <3>1. Cardinality(OpenPins(n)) = 0
      <4>1. Cardinality(OpenPins(n)) \in Nat /\ Cardinality(AheadPins(n)) \in Nat
        BY <1>3, <1>7, PinsFinite DEF OpenPins, AheadPins
      <4>2. QED
        BY <1>2, <1>3, <1>4, <4>1 DEF IndegreeCounts
    <3>2. OpenPins(n) = {}
      BY <1>3, <1>7, <3>1, PinsFinite, FS_EmptySet DEF OpenPins
    <3>3. net.inputs[n][p] \in Sorted
      BY <1>5, <2>2, <3>2 DEF OpenPins
    <3>4. PICK i \in DOMAIN sort_list : sort_list[i] = net.inputs[n][p]
      BY <3>3 DEF Sorted
    <3>5. i \in 1 .. k - 1
      BY <1>1, <1>5, <2>2
    <3>6. QED
      BY <1>5, <2>2, <3>4, <3>5
  <2>3. QED
    BY <1>5, <2>1, <2>2
<1>11. NoDuplicates'
  <2>1. \A i \in DOMAIN sort_list : sort_list[i] # n
    BY <1>4 DEF Sorted
  <2>2. \A i, j \in DOMAIN sort_list' : sort_list'[i] = sort_list'[j] => i = j
    BY <1>5, <2>1 DEF NoDuplicates
  <2>3. QED
    BY <1>3, <1>5, <2>2 DEF NoDuplicates
<1>12. TopTypeOK' /\ SeedsFirst'
  BY <1>1, <1>3, <1>5 DEF TopTypeOK, SeedsFirst, Seeding
<1>13. QED
  BY <1>8, <1>9, <1>10, <1>11, <1>12

-----------------------------------------------------------------------------
LEMMA TopInvStep == TopInv /\ [TopNext]_topVars => TopInv'
<1> SUFFICES ASSUME TopInv, [TopNext]_topVars PROVE TopInv'
  OBVIOUS
<1>1. CASE UNCHANGED topVars
  <2>1. /\ net' = net /\ seeded' = seeded /\ indegree_list' = indegree_list
        /\ sort_queue' = sort_queue /\ sort_list' = sort_list /\ fo' = fo
    BY <1>1 DEF topVars
  <2>2. TopTypeOK' /\ SeedsFirst' /\ FaninsFirst'
    BY <2>1 DEF TopInv, TopTypeOK, SeedsFirst, Seeding, FaninsFirst
  <2>3. NoDuplicates' /\ ReadyNodes'
    BY <2>1 DEF TopInv, NoDuplicates, ReadyNodes, Sorted, Queued
  <2>4. IndegreeCounts'
    <3>1. \A n : OpenPins(n)' = OpenPins(n) /\ AheadPins(n)' = AheadPins(n)
      BY <2>1 DEF OpenPins, AheadPins, CurFanouts, Sorted
    <3>2. QED
      BY <2>1, <3>1 DEF TopInv, IndegreeCounts
  <2>5. QED
    BY <2>2, <2>3, <2>4 DEF TopInv
<1>2. QED
  BY <1>1, TopInvSeed, TopInvPop, TopInvVisit DEF TopNext

\* The invariant of topSort(), for every set of well-formed networks.
THEOREM TopInvariant == TopSpec => []TopInv
<1>1. QED
  BY TopInvInit, TopInvStep, PTL DEF TopSpec

\* The locals of topSort() are well typed on every network.
THEOREM TopTypeCorrect == TopSpec => []TopTypeOK
<1>1. TopInv => TopTypeOK
  BY DEF TopInv
<1>2. QED
  BY TopInvariant, <1>1, PTL

\* On every network, cyclic or not, every fanin of a node stands before it in
\* sort_list: what get_MFFC relies on when it looks a fanin up in TFI_set.
THEOREM TopOrderCorrect == TopSpec => []FaninsFirst
<1>1. TopInv => FaninsFirst
  BY DEF TopInv
<1>2. QED
  BY TopInvariant, <1>1, PTL

\* No node is queued or sorted twice, on every network.
THEOREM TopSortsOnce == TopSpec => []NoDuplicates
<1>1. TopInv => NoDuplicates
  BY DEF TopInv
<1>2. QED
  BY TopInvariant, <1>1, PTL

\* When topSort() ends, every node it left out reads a node it left out: no
\* node is lost but those a cycle holds back.
THEOREM TopLosesOnlyStuck == TopSpec => []LeftoverIsStuck
<1>1. TopInv => LeftoverIsStuck
  <2> SUFFICES ASSUME TopInv, TopDone, NEW n \in NodesOf(net) \ Sorted
               PROVE  \E p \in DOMAIN net.inputs[n] : net.inputs[n][p] \notin Sorted
    BY DEF LeftoverIsStuck
  <2> USE DEF TopInv
  <2>1. DOMAIN indegree_list = NodesOf(net) /\ CurFanouts \in Seq(NodesOf(net))
    BY TopFacts DEF TopDone
  <2>2. Queued = {}
    BY DEF TopDone, Queued
  <2>3. indegree_list[n] # 0
    BY <2>1, <2>2 DEF ReadyNodes
  <2>4. AheadPins(n) = {}
    BY <2>1 DEF TopDone, Visiting, AheadPins, TopTypeOK
  <2>5. Cardinality({}) = 0
    BY FS_EmptySet
  <2>6. OpenPins(n) # {}
    <3>1. indegree_list[n] = Cardinality(OpenPins(n)) + Cardinality(AheadPins(n))
      BY <2>1 DEF IndegreeCounts
    <3>2. ASSUME OpenPins(n) = {} PROVE FALSE
      <4>1. indegree_list[n] = Cardinality({}) + Cardinality({})
        BY <2>4, <3>1, <3>2, Zenon
      <4>2. QED
        BY <2>3, <2>5, <4>1
    <3>3. QED
      BY <3>2
  <2>7. QED
    BY <2>6 DEF OpenPins
<1>2. QED
  BY TopInvariant, <1>1, PTL

-----------------------------------------------------------------------------
(* get_MFFC().                                                             *)

\* The state of get_MFFC() before its first loop.
Fresh ==
    /\ TFI_set = <<>> /\ MFFC_set = <<>> /\ exited = FALSE
    /\ root = 0 /\ cursor = 0 /\ delete_list = {}

Idle == ~TopDone => Fresh

\* There is an edge from the i-th to the j-th node.
Edge(i, j) == sort_list[j] \in Fanouts(i)

\* S contains, up to the index k, what its members feed.
UpClosed(S, k) == \A i \in S : \A j \in 1 .. k : Edge(i, j) => j \in S

\* The TFI of k holds k, nothing above it, the TFIs of its members, every node
\* that feeds one of them, and only nodes with a path to k.
ConesOK ==
    /\ TFI_set \in Seq(SUBSET Indices)
    /\ Len(TFI_set) <= Len(sort_list)
    /\ \A k \in DOMAIN TFI_set :
        /\ k \in TFI_set[k]
        /\ \A i \in TFI_set[k] : i <= k /\ TFI_set[i] \subseteq TFI_set[k]
        /\ \A i \in Indices : Edge(i, k) => i \in TFI_set[k]
        /\ \A S \in SUBSET Indices :
              UpClosed(S, k) /\ S \cap TFI_set[k] # {} => k \in S

WalkOK ==
    /\ MFFC_set \in Seq(SUBSET Indices)
    /\ Len(MFFC_set) = Len(TFI_set)
    /\ root \in 0 .. Len(sort_list)
    /\ root = 0 => cursor = 0 /\ delete_list = {}
    /\ root # 0 => /\ TFIsDone
                   /\ cursor \in TFI_set[root] \cup {0}
                   /\ \A i \in delete_list : i \in Indices /\ i < root /\ TFI_set[i] \subseteq delete_list
    /\ \A k \in DOMAIN MFFC_set :
          k > root \/ (k = root /\ Walking) => MFFC_set[k] = TFI_set[k]
    /\ WalkSettled
    /\ (Walking /\ AllSorted) =>
          \A S \in SUBSET TFI_set[root] : FanoutFree(S, root) => S \cap delete_list = {}

FinalOK ==
    AllSorted =>
        \A r \in FinalRoots :
            /\ r \in MFFC_set[r] /\ FanoutFree(MFFC_set[r], r)
            /\ \A S \in SUBSET TFI_set[r] : FanoutFree(S, r) => S \subseteq MFFC_set[r]

MffcInv == TopInv /\ Idle /\ exited = FALSE /\ ConesOK /\ WalkOK /\ FinalOK

-----------------------------------------------------------------------------
\* A set of indices that is not empty has a least element: the sets of the
\* indices up to each of its elements have a minimal one.
LEMMA MinExists ==
    ASSUME NEW n \in Nat, NEW S \in SUBSET (0 .. n), S # {}
    PROVE  \E i \in S : \A j \in S : i <= j
<1> DEFINE upTo(i) == {j \in 0 .. n : j <= i}
           T == {upTo(i) : i \in S}
<1>1. T \subseteq FiniteSubsetsOf(0 .. n) /\ T # {}
  <2>1. IsFiniteSet(0 .. n)
    BY FS_Interval
  <2>2. FiniteSubsetsOf(0 .. n) = SUBSET (0 .. n)
    BY <2>1, FS_FiniteSubsetsOfFinite
  <2>3. \A i \in S : upTo(i) \in SUBSET (0 .. n)
    OBVIOUS
  <2>4. T \subseteq SUBSET (0 .. n)
    BY <2>3
  <2>5. PICK i \in S : TRUE
    OBVIOUS
  <2>6. upTo(i) \in T
    BY <2>5
  <2>7. QED
    BY <2>2, <2>4, <2>6
<1>2. PICK t \in T : \A u \in T : ~(<<u, t>> \in StrictSubsetOrdering(0 .. n))
  BY <1>1, FS_StrictSubsetOrderingWellFounded, WFMin, Zenon
<1>3. PICK i \in S : t = upTo(i)
  BY <1>2
<1>4. ASSUME NEW j \in S, j < i PROVE FALSE
  <2>1. upTo(j) \in T /\ upTo(j) \subseteq upTo(i) /\ i \in upTo(i) /\ i \notin upTo(j)
    BY <1>4
  <2>2. <<upTo(j), upTo(i)>> \in StrictSubsetOrdering(0 .. n)
    BY <2>1 DEF StrictSubsetOrdering
  <2>3. QED
    BY <2>1, <2>2, <1>2, <1>3
<1>5. QED
  BY <1>4

\* And a greatest one.
LEMMA MaxExists ==
    ASSUME NEW n \in Nat, NEW S \in SUBSET (0 .. n), S # {}
    PROVE  \E i \in S : \A j \in S : j <= i
<1> DEFINE T == {n - i : i \in S}
<1>1. T \in SUBSET (0 .. n) /\ T # {}
  <2>1. \A i \in S : n - i \in 0 .. n
    OBVIOUS
  <2>2. PICK i \in S : TRUE
    OBVIOUS
  <2>3. n - i \in T
    BY <2>2
  <2>4. QED
    BY <2>1, <2>3
<1>2. PICK t \in T : \A u \in T : t <= u
  BY <1>1, MinExists
<1>3. PICK i \in S : t = n - i
  BY <1>2
<1>4. \A j \in S : n - i <= n - j
  BY <1>2, <1>3
<1>5. QED
  BY <1>4

-----------------------------------------------------------------------------
(***************************************************************************)
(* What topSort() leaves, in terms of indices: every node has one index,   *)
(* an edge is seen alike from both its ends, and edges lead upwards.       *)
(***************************************************************************)
LEMMA SortFacts ==
    ASSUME TopInv
    PROVE  /\ Len(sort_list) \in Nat /\ Indices = 1 .. Len(sort_list)
           /\ \A i \in Indices : sort_list[i] \in NodesOf(net) /\ sort_ind(sort_list[i]) = i
           /\ \A k \in Indices : \A m \in Fanins(k) : \E i \in 1 .. k - 1 : sort_list[i] = m
<1>1. Len(sort_list) \in Nat /\ Indices = 1 .. Len(sort_list)
      /\ \A i \in Indices : sort_list[i] \in NodesOf(net)
  BY DEF TopInv, TopTypeOK, Indices
<1>2. \A i \in Indices : sort_ind(sort_list[i]) = i
  BY DEF TopInv, NoDuplicates, Indices, sort_ind
<1>3. ASSUME NEW k \in Indices, NEW m \in Fanins(k)
      PROVE  \E i \in 1 .. k - 1 : sort_list[i] = m
  <2>1. PICK p \in DOMAIN net.inputs[sort_list[k]] : m = net.inputs[sort_list[k]][p]
    BY DEF Fanins
  <2>2. QED
    BY <2>1 DEF TopInv, FaninsFirst, Indices
<1>4. QED
  BY <1>1, <1>2, <1>3

LEMMA EdgeFacts ==
    ASSUME TopInv, NEW i \in Indices, NEW j \in Indices
    PROVE  /\ Edge(i, j) <=> sort_list[i] \in Fanins(j)
           /\ Edge(i, j) => i < j
<1> DEFINE n == sort_list[i]
           m == sort_list[j]
           out == Pins(net.fanouts[n], m)
           in == Pins(net.inputs[m], n)
<1>1. n \in NodesOf(net) /\ m \in NodesOf(net)
  BY SortFacts
<1>2. /\ net.fanouts[n] \in Seq(NodesOf(net)) /\ net.inputs[m] \in Seq(NodesOf(net))
      /\ Cardinality(out) = Cardinality(in)
  BY <1>1 DEF TopInv, TopTypeOK, WellFormed, FanoutsMatchInputs
<1>3. IsFiniteSet(out) /\ IsFiniteSet(in)
  BY <1>2, PinsFinite DEF Pins
<1>4. out = {} <=> in = {}
  BY <1>2, <1>3, FS_EmptySet
<1>5. Edge(i, j) <=> out # {}
  BY DEF Edge, Fanouts, Pins
<1>6. n \in Fanins(j) <=> in # {}
  BY DEF Fanins, Pins
<1>7. ASSUME n \in Fanins(j) PROVE i < j
  <2>1. PICK h \in 1 .. j - 1 : sort_list[h] = n
    BY <1>7, SortFacts
  <2>2. h \in Indices /\ h < j /\ sort_ind(sort_list[h]) = h /\ sort_ind(n) = i
    BY <2>1, SortFacts
  <2>3. QED
    BY <2>1, <2>2
<1>8. QED
  BY <1>4, <1>5, <1>6, <1>7

-----------------------------------------------------------------------------
\* Before the first loop the invariant is that of topSort().
LEMMA FreshIsFine == TopInv /\ Fresh => MffcInv
<1> SUFFICES ASSUME TopInv, Fresh PROVE MffcInv
  OBVIOUS
<1>1. Len(sort_list) \in Nat /\ ~Walking /\ FinalRoots = {} /\ root = 0
      /\ DOMAIN TFI_set = {} /\ DOMAIN MFFC_set = {} /\ Len(TFI_set) = 0 /\ Len(MFFC_set) = 0
      /\ TFI_set \in Seq(SUBSET Indices) /\ MFFC_set \in Seq(SUBSET Indices)
  BY SortFacts DEF Fresh, Walking, FinalRoots
<1>2. ConesOK
  BY <1>1 DEF ConesOK
<1>3. WalkOK
  BY <1>1 DEF WalkOK, Fresh, WalkSettled
<1>4. FinalOK
  BY <1>1 DEF FinalOK
<1>5. QED
  BY <1>2, <1>3, <1>4 DEF MffcInv, Idle, Fresh

LEMMA MffcInvInit == MffcInitAll => MffcInv
<1> SUFFICES ASSUME MffcInitAll PROVE MffcInv
  OBVIOUS
<1>1. TopInv /\ Fresh
  BY TopInvInit DEF MffcInitAll, MffcInit, Fresh
<1>2. QED
  BY <1>1, FreshIsFine

\* topSort() takes no step when it is done.
LEMMA MffcInvTop == MffcInv /\ TopNext /\ UNCHANGED mffcVars => MffcInv'
<1> SUFFICES ASSUME MffcInv, TopNext, UNCHANGED mffcVars PROVE MffcInv'
  OBVIOUS
<1>1. ~TopDone
  BY DEF TopNext, Seed, Pop, Visit, TopDone
<1>2. Fresh'
  BY <1>1 DEF MffcInv, Idle, Fresh, mffcVars
<1>3. TopInv'
  BY TopInvStep DEF MffcInv
<1>4. (TopInv /\ Fresh => MffcInv)'
  BY FreshIsFine, PTL
<1>5. QED
  BY <1>2, <1>3, <1>4

\* get_MFFC() does not touch what it reads.
LEMMA TopSame ==
    ASSUME MffcInv, TopDone, UNCHANGED topVars
    PROVE  /\ TopInv' /\ Idle'
           /\ Indices' = Indices /\ Sorted' = Sorted /\ (AllSorted' <=> AllSorted)
           /\ sort_list' = sort_list /\ net' = net
           /\ \A i : Fanouts(i)' = Fanouts(i) /\ Fanins(i)' = Fanins(i)
           /\ \A i, j : Edge(i, j)' <=> Edge(i, j)
           /\ \A n : sort_ind(n)' = sort_ind(n)
           /\ \A S, k : UpClosed(S, k)' <=> UpClosed(S, k)
           /\ \A S, k : FanoutFree(S, k)' <=> FanoutFree(S, k)
<1>1. sort_list' = sort_list /\ net' = net /\ Indices' = Indices /\ Sorted' = Sorted
  BY DEF topVars, Indices, Sorted
<1>2. TopInv'
  BY TopInvStep DEF MffcInv
<1>3. Idle'
  BY DEF TopDone, Idle, Seeding, Visiting, CurFanouts, topVars
<1>4. \A i : Fanouts(i)' = Fanouts(i) /\ Fanins(i)' = Fanins(i)
  BY <1>1 DEF Fanouts, Fanins
<1>5. \A i, j : Edge(i, j)' <=> Edge(i, j)
  BY <1>1, <1>4 DEF Edge
<1>6. \A n : sort_ind(n)' = sort_ind(n)
  BY <1>1 DEF sort_ind
<1>7. \A S, k : UpClosed(S, k)' <=> UpClosed(S, k)
  BY <1>5 DEF UpClosed
<1>8. \A S, k : FanoutFree(S, k)' <=> FanoutFree(S, k)
  BY <1>1, <1>4 DEF FanoutFree
<1>9. AllSorted' <=> AllSorted
  BY <1>1 DEF AllSorted
<1>10. QED
  BY <1>1, <1>2, <1>3, <1>4, <1>5, <1>6, <1>7, <1>8, <1>9

-----------------------------------------------------------------------------
(***************************************************************************)
(* The first loop.  topSort() has put the fanins of the next node before   *)
(* it, so they are entered, and its TFI is theirs and itself.              *)
(***************************************************************************)
LEMMA NextCone ==
    ASSUME TopInv, ConesOK, ~TFIsDone
    PROVE  LET cind == Len(TFI_set) + 1
               T == this_TFI(cind)
           IN  /\ cind \in Indices /\ cind \in T
               /\ DOMAIN TFI_set = 1 .. cind - 1 /\ Len(TFI_set) \in Nat
               /\ Fanins(cind) \subseteq Entered
               /\ \A f \in Indices : sort_list[f] \in Fanins(cind) =>
                      f \in 1 .. cind - 1 /\ TFI_set[f] \subseteq T
               /\ \A i \in T : i = cind \/ \E f \in 1 .. cind - 1 :
                      sort_list[f] \in Fanins(cind) /\ i \in TFI_set[f]
<1> DEFINE cind == Len(TFI_set) + 1
           T == this_TFI(cind)
<1>1. /\ Len(TFI_set) \in Nat /\ DOMAIN TFI_set = 1 .. cind - 1
      /\ cind \in Indices
  BY SortFacts DEF ConesOK, TFIsDone
<1>2. ASSUME NEW m \in Fanins(cind)
      PROVE  \E f \in 1 .. cind - 1 : sort_list[f] = m /\ sort_ind(m) = f
  <2>1. PICK f \in 1 .. cind - 1 : sort_list[f] = m
    BY <1>1, SortFacts
  <2>2. f \in Indices
    BY <1>1, <2>1, SortFacts
  <2>3. QED
    BY <2>1, <2>2, SortFacts
<1>3. Fanins(cind) \subseteq Entered
  BY <1>1, <1>2 DEF Entered
<1>4. ASSUME NEW f \in Indices, sort_list[f] \in Fanins(cind)
      PROVE  f \in 1 .. cind - 1 /\ TFI_set[f] \subseteq T
  <2>1. sort_ind(sort_list[f]) = f
    BY SortFacts
  <2>2. f \in 1 .. cind - 1
    BY <1>2, <1>4, <2>1
  <2>3. QED
    BY <2>1, <2>2, <1>4 DEF this_TFI
<1>5. ASSUME NEW i \in T, i # cind
      PROVE  \E f \in 1 .. cind - 1 : sort_list[f] \in Fanins(cind) /\ i \in TFI_set[f]
  <2>1. PICK m \in Fanins(cind) : i \in TFI_set[sort_ind(m)]
    BY <1>5 DEF this_TFI
  <2>2. QED
    BY <2>1, <1>2
<1>6. cind \in T
  BY DEF this_TFI
<1>7. QED
  BY <1>1, <1>3, <1>4, <1>5, <1>6

LEMMA MffcInvBuildTFI ==
    MffcInv /\ TopDone /\ BuildTFI /\ UNCHANGED topVars => MffcInv'
<1> SUFFICES ASSUME MffcInv, TopDone, BuildTFI, UNCHANGED topVars PROVE MffcInv'
  OBVIOUS
<1> DEFINE cind == Len(TFI_set) + 1
           T == this_TFI(cind)
<1>1. TopInv /\ ConesOK /\ ~TFIsDone
  BY DEF MffcInv, BuildTFI
<1>2. /\ cind \in Indices /\ cind \in T
      /\ DOMAIN TFI_set = 1 .. cind - 1 /\ Len(TFI_set) \in Nat
      /\ Fanins(cind) \subseteq Entered
      /\ \A f \in Indices : sort_list[f] \in Fanins(cind) =>
             f \in 1 .. cind - 1 /\ TFI_set[f] \subseteq T
      /\ \A i \in T : i = cind \/ \E f \in 1 .. cind - 1 :
             sort_list[f] \in Fanins(cind) /\ i \in TFI_set[f]
  BY <1>1, NextCone
<1>3. /\ TFI_set' = Append(TFI_set, T) /\ MFFC_set' = Append(MFFC_set, T)
      /\ exited' = FALSE /\ root' = root /\ cursor' = cursor /\ delete_list' = delete_list
  BY <1>2 DEF BuildTFI, MffcInv
<1>4. T \in SUBSET Indices
  <2>1. \A f \in 1 .. cind - 1 : TFI_set[f] \in SUBSET Indices
    BY <1>1, <1>2 DEF ConesOK
  <2>2. QED
    BY <1>2, <2>1
<1>5. /\ TFI_set' \in Seq(SUBSET Indices)
      /\ Len(TFI_set') = cind /\ DOMAIN TFI_set' = 1 .. cind
      /\ TFI_set'[cind] = T
      /\ \A k \in 1 .. cind - 1 : TFI_set'[k] = TFI_set[k]
  BY <1>1, <1>2, <1>3, <1>4 DEF ConesOK
<1>6. ConesOK'
  <2>1. ASSUME NEW k \in 1 .. cind
        PROVE  /\ k \in TFI_set'[k]
               /\ \A i \in TFI_set'[k] : i <= k /\ TFI_set'[i] \subseteq TFI_set'[k]
               /\ \A i \in Indices : Edge(i, k) => i \in TFI_set'[k]
               /\ \A S \in SUBSET Indices :
                     UpClosed(S, k) /\ S \cap TFI_set'[k] # {} => k \in S
    <3>1. CASE k < cind
      <4>1. k \in DOMAIN TFI_set /\ TFI_set'[k] = TFI_set[k]
        BY <3>1, <1>2, <1>5
      <4>2. \A i \in TFI_set[k] : i \in 1 .. cind - 1
        BY <4>1, <3>1, <1>1, <1>2, SortFacts DEF ConesOK
      <4>3. QED
        BY <4>1, <4>2, <1>1, <1>5 DEF ConesOK
    <3>2. CASE k = cind
      <4>1. TFI_set'[k] = T
        BY <3>2, <1>5
      <4>2. ASSUME NEW i \in T PROVE i <= k /\ TFI_set'[i] \subseteq T
        <5>1. CASE i = cind
          BY <5>1, <3>2, <1>5
        <5>2. CASE i # cind
          <6>1. PICK f \in 1 .. cind - 1 : sort_list[f] \in Fanins(cind) /\ i \in TFI_set[f]
            BY <5>2, <1>2
          <6>2. f \in Indices /\ f \in DOMAIN TFI_set /\ i \in Indices
            BY <1>1, <1>2, <1>4, <6>1, SortFacts
          <6>3. i <= f /\ TFI_set[i] \subseteq TFI_set[f] /\ TFI_set[f] \subseteq T
            BY <6>1, <6>2, <1>1, <1>2 DEF ConesOK
          <6>4. i \in 1 .. cind - 1
            BY <1>1, <1>2, <6>1, <6>2, <6>3, SortFacts
          <6>5. QED
            BY <6>3, <6>4, <3>2, <1>5
        <5>3. QED
          BY <5>1, <5>2
      <4>3. ASSUME NEW i \in Indices, Edge(i, k) PROVE i \in T
        <5>1. sort_list[i] \in Fanins(cind)
          BY <4>3, <3>2, <1>1, <1>2, EdgeFacts
        <5>2. i \in DOMAIN TFI_set /\ TFI_set[i] \subseteq T
          BY <5>1, <1>2
        <5>3. QED
          BY <5>2, <1>1 DEF ConesOK
      <4>4. ASSUME NEW S \in SUBSET Indices, UpClosed(S, k), NEW x \in S \cap T
            PROVE  k \in S
        <5>1. CASE x = cind
          BY <5>1, <3>2
        <5>2. CASE x # cind
          <6>1. PICK f \in 1 .. cind - 1 : sort_list[f] \in Fanins(cind) /\ x \in TFI_set[f]
            BY <5>2, <1>2
          <6>2. f \in Indices /\ f \in DOMAIN TFI_set
            BY <1>1, <1>2, <6>1, SortFacts
          <6>3. UpClosed(S, f)
            BY <4>4, <3>2, <6>1, <1>2 DEF UpClosed
          <6>4. f \in S
            BY <6>1, <6>2, <6>3, <1>1 DEF ConesOK
          <6>5. Edge(f, cind)
            BY <6>1, <6>2, <1>1, <1>2, EdgeFacts
          <6>6. QED
            BY <6>4, <6>5, <4>4, <3>2, <1>2 DEF UpClosed
        <5>3. QED
          BY <5>1, <5>2
      <4>5. QED
        BY <4>1, <4>2, <4>3, <4>4, <3>2, <1>2
    <3>3. QED
      BY <3>1, <3>2, <1>2
  <2>2. Len(TFI_set') <= Len(sort_list)
    BY <1>5, <1>2, <1>1, SortFacts
  <2>3. QED
    BY <2>1, <2>2, <1>5, TopSame DEF ConesOK
<1>7. root = 0 /\ cursor = 0 /\ delete_list = {}
  BY <1>1 DEF MffcInv, WalkOK
<1>8. WalkOK'
  <2>1. MFFC_set = TFI_set
    <3>1. \A k \in DOMAIN MFFC_set : MFFC_set[k] = TFI_set[k]
      BY <1>7 DEF MffcInv, WalkOK
    <3>2. QED
      BY <3>1, <1>1 DEF MffcInv, WalkOK, ConesOK
  <2>2. MFFC_set' = TFI_set' /\ ~Walking'
    BY <2>1, <1>3, <1>7 DEF Walking
  <2>3. QED
    BY <2>2, <1>3, <1>5, <1>7, TopSame, SortFacts DEF WalkOK, WalkSettled
<1>9. FinalOK'
  BY <1>3, <1>7 DEF FinalOK, FinalRoots, Walking
<1>10. QED
  BY <1>3, <1>6, <1>8, <1>9, TopSame DEF MffcInv

-----------------------------------------------------------------------------
(***************************************************************************)
(* The second loop.                                                        *)
(***************************************************************************)
\* What the invariant says of a root and of the walk from it.
LEMMA RootFacts ==
    ASSUME TopInv, ConesOK, TFIsDone, NEW r \in Indices
    PROVE  /\ DOMAIN TFI_set = Indices
           /\ TFI_set[r] \in SUBSET Indices /\ r \in TFI_set[r]
           /\ \A i \in TFI_set[r] : i <= r /\ i \in Nat \ {0}
           /\ r \in Nat \ {0} /\ r <= Len(sort_list)
<1>1. DOMAIN TFI_set = Indices
  BY SortFacts DEF ConesOK, TFIsDone
<1>2. TFI_set[r] \in SUBSET Indices
  BY <1>1 DEF ConesOK
<1>3. QED
  BY <1>1, <1>2, SortFacts DEF ConesOK

LEMMA LargestFacts ==
    ASSUME TopInv, NEW S \in SUBSET Indices, S # {}
    PROVE  /\ Largest(S) \in S /\ \A j \in S : j <= Largest(S)
           /\ Smallest(S) \in S /\ \A j \in S : Smallest(S) <= j
<1>1. Len(sort_list) \in Nat /\ S \in SUBSET (0 .. Len(sort_list))
  BY SortFacts
<1>2. \E i \in S : \A j \in S : j <= i
  BY <1>1, MaxExists
<1>3. \E i \in S : \A j \in S : i <= j
  BY <1>1, MinExists
<1>4. QED
  BY <1>2, <1>3 DEF Largest, Smallest

\* Moving the iterator: nothing lies between Before(cursor) and the cursor.
LEMMA BeforeFacts ==
    ASSUME MffcInv, Walking, cursor # First
    PROVE  /\ Before(cursor) \in TFI_set[root] /\ Before(cursor) # 0
           /\ \A i \in TFI_set[root] : i > Before(cursor) => i >= cursor
<1>1. TopInv /\ ConesOK /\ root \in Indices /\ TFIsDone /\ cursor \in TFI_set[root]
  BY SortFacts DEF MffcInv, WalkOK, Walking
<1>2. /\ TFI_set[root] \in SUBSET Indices /\ root \in TFI_set[root]
      /\ \A i \in TFI_set[root] : i \in Nat \ {0}
  BY <1>1, RootFacts
<1>3. First \in TFI_set[root] /\ First <= cursor
  BY <1>1, <1>2, LargestFacts DEF First
<1>4. First \in {i \in TFI_set[root] : i < cursor}
  BY <1>1, <1>2, <1>3
<1>5. /\ Before(cursor) \in {i \in TFI_set[root] : i < cursor}
      /\ \A j \in {i \in TFI_set[root] : i < cursor} : j <= Before(cursor)
  BY <1>1, <1>2, <1>4, LargestFacts DEF Before
<1>6. QED
  BY <1>1, <1>2, <1>5

LEMMA MffcInvStartRoot ==
    MffcInv /\ TopDone /\ StartRoot /\ UNCHANGED topVars => MffcInv'
<1> SUFFICES ASSUME MffcInv, TopDone, StartRoot, UNCHANGED topVars PROVE MffcInv'
  OBVIOUS
<1>1. /\ TopInv /\ ConesOK /\ WalkOK /\ FinalOK /\ exited = FALSE
      /\ TFIsDone /\ ~Walking /\ root' = root + 1 /\ delete_list' = {}
      /\ TFI_set' = TFI_set /\ MFFC_set' = MFFC_set /\ exited' = FALSE
      /\ root \in Nat /\ root < Len(sort_list)
      /\ cursor' = Largest(TFI_set[root'])
  BY DEF MffcInv, StartRoot, WalkOK
<1>2. root' \in Indices
  BY <1>1, SortFacts
<1>3. /\ DOMAIN TFI_set = Indices /\ DOMAIN MFFC_set = Indices
      /\ TFI_set[root'] \in SUBSET Indices /\ root' \in TFI_set[root']
      /\ \A i \in TFI_set[root'] : i <= root' /\ i \in Nat \ {0}
  BY <1>1, <1>2, RootFacts DEF WalkOK, ConesOK
<1>4. /\ cursor' \in TFI_set[root'] /\ cursor' # 0
      /\ \A i \in TFI_set[root'] : ~(i > cursor')
  BY <1>1, <1>3, LargestFacts
<1>5. ConesOK'
  BY <1>1, TopSame DEF ConesOK
<1>6. WalkOK'
  <2>1. MFFC_set' \in Seq(SUBSET Indices') /\ Len(MFFC_set') = Len(TFI_set')
        /\ root' \in 0 .. Len(sort_list') /\ root' # 0 /\ TFIsDone'
    BY <1>1, <1>2, TopSame, SortFacts DEF WalkOK, TFIsDone
  <2>2. \A k \in DOMAIN MFFC_set : k > root => MFFC_set[k] = TFI_set[k]
    BY <1>1 DEF WalkOK
  <2>3. \A k \in DOMAIN MFFC_set' :
          k > root' \/ (k = root' /\ Walking') => MFFC_set'[k] = TFI_set'[k]
    BY <2>2, <1>1, <1>3, SortFacts
  <2>4. WalkSettled'
    BY <1>1, <1>4 DEF WalkSettled
  <2>5. QED
    BY <2>1, <2>3, <2>4, <1>1, <1>4 DEF WalkOK
<1>7. FinalOK'
  <2>1. FinalRoots' = FinalRoots
    BY <1>1, <1>4 DEF FinalRoots, Walking
  <2>2. QED
    BY <2>1, <1>1, TopSame DEF FinalOK
<1>8. QED
  BY <1>1, <1>5, <1>6, <1>7, TopSame DEF MffcInv

LEMMA MffcInvSkipRoot ==
    MffcInv /\ TopDone /\ SkipRoot /\ UNCHANGED topVars => MffcInv'
<1> SUFFICES ASSUME MffcInv, TopDone, SkipRoot, UNCHANGED topVars PROVE MffcInv'
  OBVIOUS
<1>1. /\ TopInv /\ ConesOK /\ WalkOK /\ FinalOK /\ exited = FALSE
      /\ Walking /\ cursor # First /\ cursor = root /\ cursor' = Before(cursor)
      /\ TFI_set' = TFI_set /\ MFFC_set' = MFFC_set /\ exited' = FALSE
      /\ root' = root /\ delete_list' = delete_list
  BY DEF MffcInv, SkipRoot
<1>2. /\ root \in Indices /\ TFIsDone
      /\ \A i \in TFI_set[root] : i <= root /\ i \in Nat /\ root \in Nat
  BY <1>1, SortFacts, RootFacts DEF WalkOK, Walking
<1>3. /\ cursor' \in TFI_set[root] /\ cursor' # 0
      /\ \A i \in TFI_set[root] : i > cursor' => i = root
  BY <1>1, <1>2, BeforeFacts
<1>4. ConesOK'
  BY <1>1, TopSame DEF ConesOK
<1>5. WalkOK'
  <2>1. WalkSettled'
    BY <1>1, <1>3 DEF WalkSettled
  <2>2. TFIsDone' /\ Walking'
    BY <1>1, <1>2, <1>3, TopSame DEF TFIsDone, Walking
  <2>3. (Walking /\ AllSorted)' =>
           \A S \in SUBSET TFI_set[root] : FanoutFree(S, root)' => S \cap delete_list = {}
    BY <1>1, TopSame DEF WalkOK
  <2>4. \A k \in DOMAIN MFFC_set :
           k > root \/ k = root => MFFC_set[k] = TFI_set[k]
    BY <1>1 DEF WalkOK
  <2>5. QED
    BY <1>1, <1>2, <1>3, <2>1, <2>2, <2>3, <2>4, TopSame DEF WalkOK
<1>6. FinalOK'
  <2>1. FinalRoots' = FinalRoots
    BY <1>1, <1>3 DEF FinalRoots, Walking
  <2>2. QED
    BY <2>1, <1>1, TopSame DEF FinalOK
<1>7. QED
  BY <1>1, <1>4, <1>5, <1>6, TopSame DEF MffcInv

-----------------------------------------------------------------------------
(***************************************************************************)
(* Checking the node under the cursor, whichever way the test goes.        *)
(***************************************************************************)
\* If every node is sorted the test is what LeadsOut says.
LEMMA OutcomeFacts ==
    ASSUME TopInv, AllSorted, NEW c \in Indices
    PROVE  /\ Fanouts(c) \subseteq Sorted
           /\ DeleteOutcomes(c) = {LeadsOut(c)}
<1>1. sort_list[c] \in NodesOf(net)
  BY SortFacts
<1>2. net.fanouts[sort_list[c]] \in Seq(NodesOf(net))
  BY <1>1 DEF TopInv, TopTypeOK, WellFormed
<1>3. Fanouts(c) \subseteq Sorted
  BY <1>2 DEF Fanouts, AllSorted
<1>4. LeadsOut(c) \in BOOLEAN
  BY DEF LeadsOut
<1>5. QED
  BY <1>3, <1>4 DEF DeleteOutcomes

\* A node that does not lead out has its fanouts in what is left of the cone.
LEMMA StaysInside ==
    ASSUME TopInv, AllSorted, NEW c \in Indices, ~LeadsOut(c)
    PROVE  Fanouts(c) \subseteq {sort_list[j] : j \in TFI_set[root] \ delete_list}
<1> SUFFICES ASSUME NEW m \in Fanouts(c)
             PROVE  \E j \in TFI_set[root] \ delete_list : m = sort_list[j]
  OBVIOUS
<1>1. m \in Sorted
  BY OutcomeFacts
<1>2. PICK j \in Indices : m = sort_list[j]
  BY <1>1 DEF Sorted, Indices
<1>3. sort_ind(m) = j
  BY <1>2, SortFacts
<1>4. j \in TFI_set[root] /\ j \notin delete_list
  BY <1>1, <1>3 DEF LeadsOut
<1>5. QED
  BY <1>2, <1>4

\* A fanout-free cone that holds nothing deleted so far holds nothing of the
\* TFI of a node that leads out.
LEMMA LeadsOutLoses ==
    ASSUME MffcInv, Walking, AllSorted,
           NEW c \in TFI_set[root], c # root, LeadsOut(c),
           NEW S \in SUBSET TFI_set[root], FanoutFree(S, root), S \cap delete_list = {}
    PROVE  S \cap TFI_set[c] = {}
<1>1. TopInv /\ ConesOK /\ root \in Indices /\ TFIsDone
  BY SortFacts DEF MffcInv, WalkOK, Walking
<1>2. /\ TFI_set[root] \in SUBSET Indices /\ c \in Indices /\ c < root
      /\ DOMAIN TFI_set = Indices
  BY <1>1, RootFacts
<1>3. ASSUME NEW i \in S, i # root, NEW j \in Indices, Edge(i, j) PROVE j \in S
  <2>1. PICK h \in S : sort_list[j] = sort_list[h]
    BY <1>3 DEF Edge, FanoutFree
  <2>2. h \in Indices /\ sort_ind(sort_list[h]) = h /\ sort_ind(sort_list[j]) = j
    BY <1>1, <1>2, SortFacts
  <2>3. QED
    BY <2>1, <2>2
<1>4. UpClosed(S, c)
  <2>1. ASSUME NEW i \in S, NEW j \in 1 .. c, Edge(i, j) PROVE j \in S
    <3>1. j \in Indices /\ j < root /\ i \in Indices
      BY <1>1, <1>2, SortFacts
    <3>2. i < j
      BY <3>1, <2>1, <1>1, EdgeFacts
    <3>3. i # root
      BY <3>1, <3>2, <1>1, SortFacts
    <3>4. QED
      BY <1>3, <2>1, <3>1, <3>3
  <2>2. QED
    BY <2>1 DEF UpClosed
<1>5. c \notin S
  <2> SUFFICES ASSUME c \in S PROVE FALSE
    OBVIOUS
  <2>1. PICK m \in Fanouts(c) \cap Sorted :
            sort_ind(m) \notin TFI_set[root] \/ sort_ind(m) \in delete_list
    BY DEF LeadsOut
  <2>2. PICK j \in Indices : m = sort_list[j]
    BY DEF Sorted, Indices
  <2>3. sort_ind(m) = j
    BY <1>1, <2>2, SortFacts
  <2>4. j \in S
    BY <1>3, <2>2 DEF Edge
  <2>5. QED
    BY <2>1, <2>3, <2>4
<1>6. QED
  BY <1>1, <1>2, <1>4, <1>5 DEF ConesOK

\* One check, at any node of the cone but the root.
LEMMA CheckFacts ==
    ASSUME MffcInv, Walking, cursor # root, NEW deletes \in DeleteOutcomes(cursor)
    PROVE  LET D == Checked(cursor, deletes)
           IN  /\ delete_list \subseteq D
               /\ \A i \in D : i \in Indices /\ i < root /\ TFI_set[i] \subseteq D
               /\ AllSorted =>
                     /\ \A i \in TFI_set[root] \ (D \cup {root}) : i >= cursor =>
                           Fanouts(i) \subseteq {sort_list[j] : j \in TFI_set[root] \ D}
                     /\ \A S \in SUBSET TFI_set[root] :
                           FanoutFree(S, root) => S \cap D = {}
<1> DEFINE D == Checked(cursor, deletes)
<1>1. /\ TopInv /\ ConesOK /\ root \in Indices /\ TFIsDone /\ cursor \in TFI_set[root]
      /\ WalkSettled
      /\ \A i \in delete_list : i \in Indices /\ i < root /\ TFI_set[i] \subseteq delete_list
      /\ AllSorted => \A S \in SUBSET TFI_set[root] :
                          FanoutFree(S, root) => S \cap delete_list = {}
  BY SortFacts DEF MffcInv, WalkOK, Walking
<1>2. /\ TFI_set[root] \in SUBSET Indices /\ cursor \in Indices /\ cursor < root
      /\ DOMAIN TFI_set = Indices /\ Indices \subseteq Nat
      /\ TFI_set[cursor] \in SUBSET Indices /\ cursor \in TFI_set[cursor]
      /\ \A i \in TFI_set[cursor] : i < root
  <2>1. /\ TFI_set[root] \in SUBSET Indices /\ cursor \in Indices
        /\ DOMAIN TFI_set = Indices /\ cursor < root /\ Indices \subseteq Nat
    BY <1>1, RootFacts, SortFacts
  <2>2. /\ TFI_set[cursor] \in SUBSET Indices /\ cursor \in TFI_set[cursor]
        /\ \A i \in TFI_set[cursor] : i <= cursor
    BY <1>1, <2>1, RootFacts
  <2>3. ASSUME NEW i \in TFI_set[cursor] PROVE i < root
    <3>1. i \in Nat /\ cursor \in Nat /\ root \in Nat /\ i <= cursor /\ cursor < root
      BY <1>1, <2>1, <2>2
    <3>2. QED
      BY <3>1
  <2>4. QED
    BY <2>1, <2>2, <2>3
<1>3. AllSorted => (deletes <=> LeadsOut(cursor))
  <2> SUFFICES ASSUME AllSorted PROVE deletes <=> LeadsOut(cursor)
    OBVIOUS
  <2>1. DeleteOutcomes(cursor) = {LeadsOut(cursor)}
    BY <1>1, <1>2, OutcomeFacts
  <2>2. deletes = LeadsOut(cursor)
    BY <2>1, Zenon
  <2>3. QED
    BY <2>2, Zenon
<1>4. CASE deletes
  <2>1. D = delete_list \cup TFI_set[cursor]
    BY <1>4 DEF Checked
  <2>2. ASSUME NEW i \in D PROVE i \in Indices /\ i < root /\ TFI_set[i] \subseteq D
    <3>1. CASE i \in delete_list
      BY <3>1, <2>1, <1>1
    <3>2. CASE i \in TFI_set[cursor]
      BY <3>2, <2>1, <1>1, <1>2 DEF ConesOK
    <3>3. QED
      BY <3>1, <3>2, <2>1
  <2>3. ASSUME AllSorted, NEW i \in TFI_set[root] \ (D \cup {root}), i >= cursor
        PROVE  Fanouts(i) \subseteq {sort_list[j] : j \in TFI_set[root] \ D}
    <3> SUFFICES ASSUME NEW m \in Fanouts(i)
                 PROVE  \E j \in TFI_set[root] \ D : m = sort_list[j]
      OBVIOUS
    <3>1. i # cursor /\ i \notin delete_list /\ i \in Indices
      BY <2>1, <1>2
    <3>2. i > cursor
      BY <3>1, <2>3, <1>2
    <3>3. PICK j \in TFI_set[root] \ delete_list : m = sort_list[j]
      BY <3>1, <3>2, <2>3, <1>1 DEF WalkSettled
    <3>4. Edge(i, j) /\ j \in Indices
      BY <3>3, <1>2 DEF Edge
    <3>5. i \in TFI_set[j]
      BY <3>1, <3>4, <1>1, <1>2 DEF ConesOK
    <3>6. j \notin D
      BY <3>5, <2>2
    <3>7. QED
      BY <3>3, <3>6
  <2>4. ASSUME AllSorted, NEW S \in SUBSET TFI_set[root], FanoutFree(S, root)
        PROVE  S \cap D = {}
    <3>1. LeadsOut(cursor)
      BY <1>4, <1>3, <2>4
    <3>2. S \cap delete_list = {}
      BY <1>1, <2>4
    <3>3. S \cap TFI_set[cursor] = {}
      BY <3>1, <3>2, <2>4, <1>1, LeadsOutLoses
    <3>4. QED
      BY <3>2, <3>3, <2>1
  <2>5. QED
    BY <2>1, <2>2, <2>3, <2>4
<1>5. CASE ~deletes
  <2>1. D = delete_list
    BY <1>5 DEF Checked
  <2>2. ASSUME AllSorted, NEW i \in TFI_set[root] \ (D \cup {root}), i >= cursor
        PROVE  Fanouts(i) \subseteq {sort_list[j] : j \in TFI_set[root] \ D}
    <3>1. CASE i = cursor
      <4>1. ~LeadsOut(cursor)
        BY <1>5, <1>3, <2>2
      <4>2. QED
        BY <3>1, <4>1, <2>1, <2>2, <1>1, <1>2, StaysInside
    <3>2. CASE i # cursor
      <4>1. i \in Nat /\ cursor \in Nat
        BY <2>2, <1>2
      <4>2. i >= cursor
        BY <2>2
      <4>3. i > cursor
        BY <4>1, <4>2, <3>2
      <4>4. QED
        BY <4>3, <2>1, <2>2, <1>1 DEF WalkSettled
    <3>3. QED
      BY <3>1, <3>2
  <2>3. QED
    BY <2>1, <2>2, <1>1
<1>6. QED
  BY <1>4, <1>5

LEMMA MffcInvCheckNode ==
    MffcInv /\ TopDone /\ CheckNode /\ UNCHANGED topVars => MffcInv'
<1> SUFFICES ASSUME MffcInv, TopDone, CheckNode, UNCHANGED topVars PROVE MffcInv'
  OBVIOUS
<1>1. /\ TopInv /\ ConesOK /\ WalkOK /\ FinalOK /\ exited = FALSE
      /\ Walking /\ cursor # First /\ cursor # root /\ cursor' = Before(cursor)
      /\ TFI_set' = TFI_set /\ MFFC_set' = MFFC_set /\ exited' = FALSE /\ root' = root
  BY DEF MffcInv, CheckNode
<1>2. PICK deletes \in DeleteOutcomes(cursor) : delete_list' = Checked(cursor, deletes)
  BY DEF CheckNode
<1>3. /\ \A i \in delete_list' : i \in Indices /\ i < root /\ TFI_set[i] \subseteq delete_list'
      /\ AllSorted =>
            /\ \A i \in TFI_set[root] \ (delete_list' \cup {root}) : i >= cursor =>
                  Fanouts(i) \subseteq {sort_list[j] : j \in TFI_set[root] \ delete_list'}
            /\ \A S \in SUBSET TFI_set[root] :
                  FanoutFree(S, root) => S \cap delete_list' = {}
  BY <1>1, <1>2, CheckFacts
<1>4. /\ cursor' \in TFI_set[root] /\ cursor' # 0
      /\ \A i \in TFI_set[root] : i > cursor' => i >= cursor
  BY <1>1, BeforeFacts
<1>5. root # 0 /\ TFIsDone
  BY <1>1 DEF WalkOK, Walking
<1>6. ConesOK'
  BY <1>1, TopSame DEF ConesOK
<1>7. WalkOK'
  <2>1. WalkSettled'
    BY <1>1, <1>3, <1>4, TopSame DEF WalkSettled
  <2>2. TFIsDone' /\ Walking'
    BY <1>1, <1>4, <1>5, TopSame DEF TFIsDone, Walking
  <2>3. AllSorted' =>
           \A S \in SUBSET TFI_set[root] : FanoutFree(S, root)' => S \cap delete_list' = {}
    BY <1>1, <1>3, TopSame
  <2>4. \A k \in DOMAIN MFFC_set :
           k > root \/ k = root => MFFC_set[k] = TFI_set[k]
    BY <1>1 DEF WalkOK
  <2>5. QED
    BY <1>1, <1>3, <1>4, <1>5, <2>1, <2>2, <2>3, <2>4, TopSame DEF WalkOK
<1>8. FinalOK'
  <2>1. FinalRoots' = FinalRoots
    BY <1>1, <1>4 DEF FinalRoots, Walking
  <2>2. QED
    BY <2>1, <1>1, TopSame DEF FinalOK
<1>9. QED
  BY <1>1, <1>6, <1>7, <1>8, TopSame DEF MffcInv

-----------------------------------------------------------------------------
(***************************************************************************)
(* The last check and the deletion.                                        *)
(***************************************************************************)
\* What delete_list leaves of the TFI is the maximum fanout-free cone.
LEMMA CutFacts ==
    ASSUME MffcInv, Walking, cursor = First, AllSorted,
           NEW deletes \in (IF cursor = root THEN {FALSE} ELSE DeleteOutcomes(cursor))
    PROVE  LET M == TFI_set[root] \ Checked(cursor, deletes)
           IN  /\ root \in M /\ FanoutFree(M, root)
               /\ \A S \in SUBSET TFI_set[root] : FanoutFree(S, root) => S \subseteq M
<1> DEFINE D == Checked(cursor, deletes)
           M == TFI_set[root] \ D
<1>1. /\ TopInv /\ ConesOK /\ root \in Indices /\ TFIsDone
      /\ \A i \in delete_list : i < root
      /\ \A S \in SUBSET TFI_set[root] : FanoutFree(S, root) => S \cap delete_list = {}
  BY SortFacts DEF MffcInv, WalkOK, Walking
<1>2. /\ TFI_set[root] \in SUBSET Indices /\ root \in TFI_set[root]
      /\ \A i \in TFI_set[root] : i <= root /\ i \in Nat /\ root \in Nat
  BY <1>1, RootFacts
<1>3. \A i \in TFI_set[root] : cursor <= i
  BY <1>1, <1>2, LargestFacts DEF First
<1>4. CASE cursor = root
  <2>1. TFI_set[root] = {root}
    <3>1. \A i \in TFI_set[root] : i = root
      BY <1>2, <1>3, <1>4
    <3>2. QED
      BY <1>2, <3>1
  <2>2. D = delete_list
    BY <1>4 DEF Checked
  <2>3. root \notin delete_list
    BY <1>1, <1>2
  <2>4. M = {root}
    BY <2>1, <2>2, <2>3
  <2>5. QED
    BY <2>1, <2>4 DEF FanoutFree
<1>5. CASE cursor # root
  <2>1. deletes \in DeleteOutcomes(cursor)
    BY <1>5
  <2>2. /\ \A i \in D : i < root
        /\ \A i \in TFI_set[root] \ (D \cup {root}) : i >= cursor =>
               Fanouts(i) \subseteq {sort_list[j] : j \in TFI_set[root] \ D}
        /\ \A S \in SUBSET TFI_set[root] : FanoutFree(S, root) => S \cap D = {}
    BY <2>1, <1>5, CheckFacts
  <2>3. root \in M
    BY <1>2, <2>2
  <2>4. FanoutFree(M, root)
    BY <1>2, <1>3, <2>2 DEF FanoutFree
  <2>5. QED
    BY <2>2, <2>3, <2>4
<1>6. QED
  BY <1>4, <1>5

LEMMA MffcInvCheckFirst ==
    MffcInv /\ TopDone /\ CheckFirst /\ UNCHANGED topVars => MffcInv'
<1> SUFFICES ASSUME MffcInv, TopDone, CheckFirst, UNCHANGED topVars PROVE MffcInv'
  OBVIOUS
<1>1. /\ TopInv /\ ConesOK /\ WalkOK /\ FinalOK /\ exited = FALSE
      /\ Walking /\ cursor = First /\ cursor' = 0
      /\ TFI_set' = TFI_set /\ exited' = FALSE /\ root' = root
  BY DEF MffcInv, CheckFirst
<1>2. PICK deletes \in (IF cursor = root THEN {FALSE} ELSE DeleteOutcomes(cursor)) :
          /\ delete_list' = Checked(cursor, deletes)
          /\ MFFC_set' = [MFFC_set EXCEPT ![root] = @ \ Checked(cursor, deletes)]
  BY DEF CheckFirst
<1>3. /\ root # 0 /\ root \in Indices /\ TFIsDone /\ root \in 1 .. Len(sort_list)
      /\ DOMAIN TFI_set = Indices /\ DOMAIN MFFC_set = Indices
      /\ MFFC_set[root] = TFI_set[root]
  BY SMTT(40), <1>1, SortFacts, RootFacts DEF WalkOK, Walking, ConesOK
<1>4. /\ MFFC_set' \in Seq(SUBSET Indices) /\ Len(MFFC_set') = Len(MFFC_set)
      /\ DOMAIN MFFC_set' = Indices
      /\ MFFC_set'[root] = TFI_set[root] \ delete_list'
      /\ \A k \in Indices : k # root => MFFC_set'[k] = MFFC_set[k]
  BY <1>1, <1>2, <1>3 DEF WalkOK
<1>5. \A i \in delete_list' : i \in Indices /\ i < root /\ TFI_set[i] \subseteq delete_list'
  <2>1. CASE cursor = root
    <3>1. delete_list' = delete_list
      BY <1>2, <2>1 DEF Checked
    <3>2. QED
      BY <1>1, <1>3, <3>1 DEF WalkOK
  <2>2. CASE cursor # root
    BY <1>1, <1>2, <2>2, CheckFacts
  <2>3. QED
    BY <2>1, <2>2
<1>6. ConesOK'
  BY <1>1, TopSame DEF ConesOK
<1>7. ~Walking'
  BY <1>1 DEF Walking
<1>8. WalkOK'
  <2>1. TFIsDone'
    BY <1>1, <1>3, TopSame DEF TFIsDone
  <2>2. \A k \in Indices : k > root => MFFC_set'[k] = TFI_set[k]
    BY <1>1, <1>3, <1>4, SortFacts DEF WalkOK
  <2>3. QED
    BY <1>1, <1>3, <1>4, <1>5, <1>7, <2>1, <2>2, TopSame DEF WalkOK, WalkSettled
<1>9. FinalOK'
  <2> SUFFICES ASSUME AllSorted, NEW r \in FinalRoots'
               PROVE  /\ r \in MFFC_set'[r] /\ FanoutFree(MFFC_set'[r], r)
                      /\ \A S \in SUBSET TFI_set[r] : FanoutFree(S, r) => S \subseteq MFFC_set'[r]
    BY <1>1, TopSame DEF FinalOK
  <2>1. r \in 1 .. root
    BY <1>1, <1>7 DEF FinalRoots
  <2>2. CASE r = root
    BY <2>2, <1>1, <1>2, <1>4, CutFacts
  <2>3. CASE r # root
    <3>1. r \in FinalRoots /\ r \in Indices
      BY <2>1, <2>3, <1>1, <1>3, SortFacts DEF FinalRoots
    <3>2. QED
      BY <3>1, <2>3, <1>1, <1>4 DEF FinalOK
  <2>4. QED
    BY <2>2, <2>3
<1>10. QED
  BY <1>1, <1>6, <1>8, <1>9, TopSame DEF MffcInv

-----------------------------------------------------------------------------
LEMMA MffcInvStep == MffcInv /\ [MffcNext]_mffcAllVars => MffcInv'
<1> SUFFICES ASSUME MffcInv, [MffcNext]_mffcAllVars PROVE MffcInv'
  OBVIOUS
<1>1. CASE TopNext /\ UNCHANGED mffcVars
  BY <1>1, MffcInvTop
<1>2. CASE TopDone /\ MffcStep /\ UNCHANGED topVars
  BY <1>2, MffcInvBuildTFI, MffcInvStartRoot, MffcInvSkipRoot, MffcInvCheckNode,
     MffcInvCheckFirst DEF MffcStep
<1>3. CASE UNCHANGED mffcAllVars
  <2>1. UNCHANGED topVars /\ UNCHANGED mffcVars
    BY <1>3 DEF mffcAllVars
  <2>2. CASE TopDone
    <3>1. /\ TFI_set' = TFI_set /\ MFFC_set' = MFFC_set /\ exited' = exited
          /\ root' = root /\ cursor' = cursor /\ delete_list' = delete_list
      BY <2>1 DEF mffcVars
    <3>2. (Walking' <=> Walking) /\ (TFIsDone' <=> TFIsDone) /\ FinalRoots' = FinalRoots
      BY <3>1, <2>1, <2>2, TopSame DEF Walking, TFIsDone, FinalRoots
    <3>3. ConesOK'
      BY <3>1, <2>1, <2>2, TopSame DEF MffcInv, ConesOK
    <3>4. WalkSettled'
      <4>1. WalkSettled
        BY DEF MffcInv, WalkOK
      <4>2. (AllSorted' <=> AllSorted) /\ sort_list' = sort_list
            /\ \A i : Fanouts(i)' = Fanouts(i)
        BY <2>1, <2>2, TopSame
      <4>3. QED
        BY <3>1, <3>2, <4>1, <4>2 DEF WalkSettled
    <3>5. WalkOK'
      BY <3>1, <3>2, <3>4, <2>1, <2>2, TopSame DEF MffcInv, WalkOK
    <3>6. FinalOK'
      BY <3>1, <3>2, <2>1, <2>2, TopSame DEF MffcInv, FinalOK
    <3>7. QED
      BY <3>1, <3>3, <3>5, <3>6, <2>1, <2>2, TopSame DEF MffcInv
  <2>3. CASE ~TopDone
    <3>1. TopInv'
      BY <2>1, TopInvStep DEF MffcInv
    <3>2. Fresh'
      BY <2>1, <2>3 DEF MffcInv, Idle, Fresh, mffcVars
    <3>3. (TopInv /\ Fresh => MffcInv)'
      BY FreshIsFine, PTL
    <3>4. QED
      BY <3>1, <3>2, <3>3
  <2>4. QED
    BY <2>2, <2>3
<1>4. QED
  BY <1>1, <1>2, <1>3 DEF MffcNext

\* The invariant of get_MFFC(), for every set of well-formed networks.
THEOREM MffcInvariant == MffcSpec => []MffcInv
<1>1. MffcInitAll => MffcInv
  BY MffcInvInit
<1>2. MffcInv /\ [MffcNext]_mffcAllVars => MffcInv'
  BY MffcInvStep
<1>3. QED
  BY <1>1, <1>2, PTL DEF MffcSpec

\* get_MFFC() keeps its maps over the indices of sort_list.
THEOREM MffcTypeCorrect == MffcSpec => []MffcTypeOK
<1>1. MffcInv => MffcTypeOK
  BY DEF MffcInv, MffcTypeOK, ConesOK, WalkOK
<1>2. QED
  BY <1>1, MffcInvariant, PTL

\* On no well-formed network does the program exit because a fanin has no TFI
\* yet: the order of topSort() rules it out.
THEOREM MffcNeverExits == MffcSpec => []NeverExits
<1>1. MffcInv => NeverExits
  BY DEF MffcInv, NeverExits
<1>2. QED
  BY <1>1, MffcInvariant, PTL

\* Behind the cursor the walk leaves nothing to come back to.
THEOREM MffcWalkSettles == MffcSpec => []WalkSettled
<1>1. MffcInv => WalkSettled
  BY DEF MffcInv, WalkOK
<1>2. QED
  BY <1>1, MffcInvariant, PTL

\* Every MFFC of an acyclic well-formed network is fanout-free.
THEOREM MffcConesFanoutFree == MffcSpec => []MffcFanoutFree
<1>1. MffcInv => MffcFanoutFree
  BY DEF MffcInv, FinalOK, MffcFanoutFree
<1>2. QED
  BY <1>1, MffcInvariant, PTL

\* And none of its nodes has a larger fanout-free cone: one walk down the TFI
\* is enough.
THEOREM MffcConesMaximal == MffcSpec => []MffcMaximal
<1>1. MffcInv => MffcMaximal
  BY DEF MffcInv, FinalOK, MffcMaximal
<1>2. QED
  BY <1>1, MffcInvariant, PTL

-----------------------------------------------------------------------------
(***************************************************************************)
(* find_print_candidate_MFFC().                                            *)
(***************************************************************************)
\* No MFFC has more than the TFI it started from.
ConesInTFI ==
    \A k \in DOMAIN MFFC_set : MFFC_set[k] \subseteq TFI_set[k]

\* The choice starts when the MFFCs are there.
Untouched ==
    /\ scanned = 0 /\ insig_MFFC = [n \in {} |-> {}] /\ considered = {}
    /\ LUTs_saved_number_max = 0 /\ candidate_MFFC = None
    /\ file.state = "unopened"

WaitsForMffc == Untouched \/ MffcDone

\* What insig_MFFC says of a sorted node.
InsigOK ==
    \A n \in DOMAIN insig_MFFC \cap Sorted :
        insig_MFFC[n] = InSig(MFFC(n)) /\ Cardinality(MFFC(n)) # 1

ChoiceOK ==
    /\ considered \subseteq Sorted
    /\ candidate_MFFC \in considered \cup {None}
    /\ LUTs_saved_number_max \in Int
    /\ ~ InsigDone => considered = {}

FileOK ==
    file.state = "written" =>
        /\ candidate_MFFC \in Sorted
        /\ file.outputs = {candidate_MFFC}
        /\ file.names = {n \in MFFC(candidate_MFFC) : net.type[n] # "INPUT"}
        /\ candidate_MFFC \in DOMAIN insig_MFFC => file.inputs = insig_MFFC[candidate_MFFC]

CandInv ==
    /\ MffcInv /\ ConesInTFI /\ WaitsForMffc
    /\ InsigOK /\ ChoiceOK /\ BestCandidate /\ FileOK

-----------------------------------------------------------------------------
(***************************************************************************)
(* The program is get_MFFC() as far as the variables of the latter go.     *)
(***************************************************************************)
LEMMA CandStepsMffc == [CandNext]_candAllVars => [MffcNext]_mffcAllVars
  BY DEF CandNext, candAllVars, mffcAllVars

THEOREM CandImplementsMffc == CandSpec => MffcSpec
<1>1. CandInitAll => MffcInitAll
  BY DEF CandInitAll
<1>2. QED
  BY <1>1, CandStepsMffc, PTL DEF CandSpec, MffcSpec

-----------------------------------------------------------------------------
(***************************************************************************)
(* What get_MFFC() leaves.                                                 *)
(***************************************************************************)
LEMMA ConesInTFIStep ==
    ASSUME MffcInv, ConesInTFI, [MffcNext]_mffcAllVars
    PROVE  ConesInTFI'
<1>1. /\ MFFC_set \in Seq(SUBSET Indices) /\ TFI_set \in Seq(SUBSET Indices)
      /\ Len(MFFC_set) = Len(TFI_set)
  BY DEF MffcInv, ConesOK, WalkOK
<1>2. CASE BuildTFI
  <2>1. CASE UNCHANGED <<TFI_set, MFFC_set>>
    BY <2>1 DEF ConesInTFI
  <2>2. CASE /\ TFI_set' = Append(TFI_set, this_TFI(Len(TFI_set) + 1))
             /\ MFFC_set' = Append(MFFC_set, this_TFI(Len(TFI_set) + 1))
    BY <1>1, <2>2 DEF ConesInTFI
  <2>3. QED
    BY <1>2, <2>1, <2>2 DEF BuildTFI
<1>3. CASE CheckFirst
  <2>1. PICK S : MFFC_set' = [MFFC_set EXCEPT ![root] = @ \ S]
    BY <1>3 DEF CheckFirst
  <2>2. TFI_set' = TFI_set
    BY <1>3 DEF CheckFirst
  <2>3. QED
    BY <1>1, <2>1, <2>2 DEF ConesInTFI
<1>4. CASE UNCHANGED <<TFI_set, MFFC_set>>
  BY <1>4 DEF ConesInTFI
<1>5. QED
  BY <1>2, <1>3, <1>4
     DEF MffcNext, MffcStep, mffcAllVars, mffcVars, StartRoot, SkipRoot, CheckNode

\* Names and indices of a sorted node.
LEMMA RootOf ==
    ASSUME MffcInv, NEW n \in Sorted
    PROVE  /\ sort_ind(n) \in Indices /\ sort_list[sort_ind(n)] = n
           /\ n \in NodesOf(net)
<1>1. PICK i \in Indices : sort_list[i] = n
  BY DEF Sorted, Indices
<1>2. QED
  BY <1>1, SortFacts DEF MffcInv

LEMMA DoneFacts ==
    ASSUME MffcInv, MffcDone
    PROVE  /\ DOMAIN MFFC_set = Indices /\ DOMAIN TFI_set = Indices
           /\ FinalRoots = Indices
           /\ \A k \in Indices : TFI_set[k] \subseteq Indices /\ MFFC_set[k] \subseteq Indices
<1>1. Len(sort_list) \in Nat /\ Indices = 1 .. Len(sort_list)
  BY SortFacts DEF MffcInv
<1>2. QED
  BY <1>1 DEF MffcInv, ConesOK, WalkOK, MffcDone, FinalRoots, TFIsDone

\* The MFFC of a sorted node consists of nodes; when all are sorted it holds
\* the node itself, and the readers of its other nodes.
LEMMA ConeFacts ==
    ASSUME MffcInv, MffcDone, NEW r \in Sorted
    PROVE  /\ MFFC(r) \subseteq NodesOf(net)
           /\ AllSorted => /\ r \in MFFC(r)
                           /\ \A m \in MFFC(r) \ {r} : \A n \in NodesOf(net) :
                                 m \in InputsOf(n) => n \in MFFC(r)
<1> DEFINE k == sort_ind(r)
<1>1. k \in Indices /\ sort_list[k] = r
  BY RootOf
<1>2. MFFC_set[k] \subseteq Indices
  BY <1>1, DoneFacts
<1>3. MFFC(r) \subseteq NodesOf(net)
  BY <1>2, SortFacts DEF MFFC, MffcInv
<1>4. ASSUME AllSorted
      PROVE  k \in MFFC_set[k] /\ FanoutFree(MFFC_set[k], k)
  BY <1>1, <1>4, DoneFacts DEF MffcInv, FinalOK
<1>5. ASSUME AllSorted, NEW m \in MFFC(r) \ {r}, NEW n \in NodesOf(net), m \in InputsOf(n)
      PROVE  n \in MFFC(r)
  <2>1. PICK i \in MFFC_set[k] : m = sort_list[i]
    BY DEF MFFC
  <2>2. i \in Indices /\ i # k
    BY <1>1, <1>2, <2>1
  <2>3. PICK j \in Indices : sort_list[j] = n
    BY <1>5 DEF AllSorted, Sorted, Indices
  <2>4. sort_list[i] \in Fanins(j)
    BY <1>5, <2>1, <2>3 DEF Fanins, InputsOf
  <2>5. n \in Fanouts(i)
    BY <2>2, <2>3, <2>4, EdgeFacts DEF MffcInv, Edge
  <2>6. QED
    BY <1>4, <1>5, <2>1, <2>2, <2>5 DEF FanoutFree, MFFC
<1>6. QED
  BY <1>1, <1>3, <1>4, <1>5 DEF MFFC

\* Sets of nodes are finite.
LEMMA NodesFinite ==
    ASSUME MffcInv, NEW S \in SUBSET NodesOf(net)
    PROVE  IsFiniteSet(S) /\ Cardinality(S) \in Nat
<1>1. net.nodes \in Seq(Name)
  BY DEF MffcInv, TopInv, TopTypeOK, WellFormed
<1>2. IsFiniteSet(1 .. Len(net.nodes))
  BY <1>1, FS_Interval
<1>3. net.nodes \in Surjection(1 .. Len(net.nodes), NodesOf(net))
  BY <1>1 DEF NodesOf, Surjection
<1>4. IsFiniteSet(NodesOf(net))
  BY <1>2, <1>3, FS_Surjection
<1>5. QED
  BY <1>4, FS_Subset, FS_CardinalityType

\* Its input signals are nodes, too.
LEMMA InSigFacts ==
    ASSUME MffcInv, NEW S \in SUBSET NodesOf(net)
    PROVE  InSig(S) \subseteq NodesOf(net)
<1>1. \A n \in S : InputsOf(n) \subseteq NodesOf(net)
  <2> SUFFICES ASSUME NEW n \in S PROVE InputsOf(n) \subseteq NodesOf(net)
    OBVIOUS
  <2>1. net.inputs[n] \in Seq(NodesOf(net))
    BY DEF MffcInv, TopInv, TopTypeOK, WellFormed
  <2>2. QED
    BY <2>1 DEF InputsOf
<1>2. QED
  BY <1>1 DEF InSig

\* The cone of a primary input is the input alone.
LEMMA InputAlone ==
    ASSUME MffcInv, ConesInTFI, MffcDone, AllSorted, NEW r \in Sorted, net.type[r] = "INPUT"
    PROVE  Cardinality(MFFC(r)) = 1
<1> DEFINE k == sort_ind(r)
           S == 1 .. k - 1
<1>1. k \in Indices /\ sort_list[k] = r /\ r \in NodesOf(net)
  BY RootOf
<1>2. Fanins(k) = {}
  <2>1. net.inputs[r] = <<>>
    BY <1>1 DEF MffcInv, TopInv, TopTypeOK, WellFormed, InputsReadNothing
  <2>2. QED
    BY <1>1, <2>1 DEF Fanins
<1>3. Len(sort_list) \in Nat /\ Indices = 1 .. Len(sort_list)
  BY SortFacts DEF MffcInv
<1>4. UpClosed(S, k)
  <2> SUFFICES ASSUME NEW i \in S, NEW j \in 1 .. k, Edge(i, j) PROVE j \in S
    BY DEF UpClosed
  <2>1. j # k
    <3>1. i \in Indices
      BY <1>1, <1>3
    <3>2. QED
      BY <1>1, <1>2, <3>1, EdgeFacts DEF MffcInv
  <2>2. QED
    BY <1>1, <1>3, <2>1
<1>5. TFI_set[k] \subseteq {k}
  <2>1. S \in SUBSET Indices /\ k \notin S
    BY <1>1, <1>3
  <2>2. S \cap TFI_set[k] = {}
    BY <1>1, <1>4, <2>1, DoneFacts DEF MffcInv, ConesOK
  <2>3. \A i \in TFI_set[k] : i \in Indices /\ i <= k
    BY <1>1, DoneFacts DEF MffcInv, ConesOK
  <2>4. QED
    BY <1>1, <1>3, <2>2, <2>3
<1>6. MFFC_set[k] = {k}
  BY <1>1, <1>5, DoneFacts DEF ConesInTFI, MffcInv, FinalOK
<1>7. MFFC(r) = {r}
  BY <1>1, <1>6 DEF MFFC
<1>8. QED
  BY <1>7, FS_Singleton

\* The root that stands for none is none.
LEMMA NoneIsUnsorted == MffcInv => None \notin Sorted
  BY NoneIsNoName, SortFacts DEF MffcInv, TopInv, TopTypeOK, WellFormed, NodesOf, Sorted

-----------------------------------------------------------------------------
(***************************************************************************)
(* The invariant is inductive.                                             *)
(***************************************************************************)
LEMMA CandInvInit == CandInitAll => CandInv
<1> SUFFICES ASSUME CandInitAll PROVE CandInv
  OBVIOUS
<1>1. MffcInv
  BY MffcInvInit DEF CandInitAll
<1>2. MFFC_set = <<>>
  BY DEF CandInitAll, MffcInitAll, MffcInit
<1>3. ConesInTFI
  BY <1>2 DEF ConesInTFI
<1>4. Untouched
  BY DEF CandInitAll, CandInit, Untouched
<1>5. QED
  BY <1>1, <1>3, <1>4
     DEF CandInv, WaitsForMffc, Untouched, InsigOK, ChoiceOK, BestCandidate, FileOK

\* get_MFFC() does not run on when it is done.
LEMMA DoneStops ==
    ASSUME MffcInv, MffcNext, MffcDone
    PROVE  FALSE
<1>1. ~ TopNext
  BY DEF MffcDone, TopDone, TopNext, Seed, Pop, Visit
<1>2. ~ MffcStep
  <2>1. TFIsDone /\ ~Walking /\ root = Len(sort_list) /\ Len(sort_list) \in Nat
    BY SortFacts DEF MffcInv, MffcDone
  <2>2. ~BuildTFI
    BY <2>1 DEF BuildTFI
  <2>3. ~StartRoot
    BY <2>1 DEF StartRoot
  <2>4. ~SkipRoot /\ ~CheckNode /\ ~CheckFirst
    BY <2>1 DEF SkipRoot, CheckNode, CheckFirst
  <2>5. QED
    BY <2>2, <2>3, <2>4 DEF MffcStep
<1>3. QED
  BY <1>1, <1>2 DEF MffcNext

\* While get_MFFC() runs nothing has been chosen, and it does not run on.
LEMMA CandInvMffc ==
    ASSUME CandInv, MffcNext, UNCHANGED candVars
    PROVE  CandInv'
<1>1. MffcInv' /\ ConesInTFI'
  BY MffcInvStep, ConesInTFIStep DEF CandInv
<1>2. ~ MffcDone
  BY DoneStops DEF CandInv
<1>3. Untouched /\ Untouched'
  BY <1>2 DEF CandInv, WaitsForMffc, Untouched, candVars
<1>4. QED
  BY <1>1, <1>3
     DEF CandInv, WaitsForMffc, Untouched, InsigOK, ChoiceOK, BestCandidate, FileOK

\* The choice does not touch what it reads.
LEMMA MffcSame ==
    ASSUME CandInv, UNCHANGED mffcAllVars
    PROVE  /\ MffcInv' /\ ConesInTFI' /\ (MffcDone' <=> MffcDone)
           /\ net' = net /\ Sorted' = Sorted /\ (AllSorted' <=> AllSorted)
           /\ \A n : MFFC(n)' = MFFC(n) /\ InputsOf(n)' = InputsOf(n)
           /\ \A S : InSig(S)' = InSig(S)
<1>1. MffcInv' /\ ConesInTFI'
  BY MffcInvStep, ConesInTFIStep DEF CandInv
<1>2. /\ net' = net /\ sort_list' = sort_list /\ MFFC_set' = MFFC_set /\ TFI_set' = TFI_set
      /\ seeded' = seeded /\ sort_queue' = sort_queue /\ fo' = fo /\ cursor' = cursor
      /\ root' = root
  BY DEF mffcAllVars, mffcVars, topVars
<1>3. Sorted' = Sorted /\ (AllSorted' <=> AllSorted)
  BY <1>2 DEF Sorted, AllSorted
<1>4. MffcDone' <=> MffcDone
  BY <1>2 DEF MffcDone, TopDone, Seeding, Visiting, CurFanouts, TFIsDone, Walking
<1>5. \A n : MFFC(n)' = MFFC(n) /\ InputsOf(n)' = InputsOf(n)
  BY <1>2 DEF MFFC, sort_ind, Indices, InputsOf
<1>6. \A S : InSig(S)' = InSig(S)
  BY <1>2, <1>5 DEF InSig
<1>7. QED
  BY <1>1, <1>2, <1>3, <1>4, <1>5, <1>6

(***************************************************************************)
(* The input signals of a cone of one node are not entered, so that no     *)
(* entry is for such a node.                                               *)
(***************************************************************************)
LEMMA CandInvFindInsig ==
    ASSUME CandInv, MffcDone, FindInsig, UNCHANGED mffcAllVars
    PROVE  CandInv'
<1> DEFINE nd == net.nodes[scanned + 1]
<1>1. /\ MffcInv' /\ ConesInTFI' /\ MffcDone' /\ Sorted' = Sorted /\ net' = net
      /\ \A n : MFFC(n)' = MFFC(n)
      /\ \A S : InSig(S)' = InSig(S)
  BY MffcSame
<1>2. /\ considered' = considered /\ LUTs_saved_number_max' = LUTs_saved_number_max
      /\ candidate_MFFC' = candidate_MFFC /\ file' = file /\ ~InsigDone
  BY DEF FindInsig
<1>3. considered = {}
  BY <1>2 DEF CandInv, ChoiceOK
<1>4. InsigOK'
  <2>1. CASE UNCHANGED insig_MFFC
    BY <1>1, <2>1 DEF CandInv, InsigOK
  <2>2. CASE \E cMFFC \in IF nd \in Sorted THEN {MFFC(nd)} ELSE SUBSET NodesOf(net) :
                /\ Cardinality(cMFFC) # 1
                /\ insig_MFFC' = [n \in DOMAIN insig_MFFC \cup {nd} |->
                                     IF n = nd THEN InSig(cMFFC) ELSE insig_MFFC[n]]
    <3>1. PICK cMFFC \in IF nd \in Sorted THEN {MFFC(nd)} ELSE SUBSET NodesOf(net) :
                /\ Cardinality(cMFFC) # 1
                /\ insig_MFFC' = [n \in DOMAIN insig_MFFC \cup {nd} |->
                                     IF n = nd THEN InSig(cMFFC) ELSE insig_MFFC[n]]
      BY <2>2
    <3>2. nd \in Sorted => cMFFC = MFFC(nd)
      BY <3>1
    <3>3. ASSUME NEW n \in DOMAIN insig_MFFC' \cap Sorted
          PROVE  insig_MFFC'[n] = InSig(MFFC(n)) /\ Cardinality(MFFC(n)) # 1
      <4>1. CASE n = nd
        BY <3>1, <3>2, <3>3, <4>1
      <4>2. CASE n # nd
        BY <3>1, <3>3, <4>2 DEF CandInv, InsigOK
      <4>3. QED
        BY <4>1, <4>2
    <3>4. QED
      BY <1>1, <3>3 DEF InsigOK
  <2>3. QED
    BY <2>1, <2>2 DEF FindInsig
<1>5. ChoiceOK'
  BY <1>1, <1>2, <1>3 DEF CandInv, ChoiceOK
<1>6. BestCandidate'
  BY <1>2, <1>3 DEF BestCandidate
<1>7. file.state # "written"
  <2>1. candidate_MFFC = None
    BY <1>3 DEF CandInv, ChoiceOK
  <2>2. None \notin Sorted
    BY NoneIsUnsorted DEF CandInv
  <2>3. QED
    BY <2>1, <2>2 DEF CandInv, FileOK
<1>8. QED
  BY <1>1, <1>2, <1>4, <1>5, <1>6, <1>7 DEF CandInv, WaitsForMffc, FileOK

\* What a root saves, as a number.
LEMMA SavedFacts ==
    ASSUME CandInv, MffcDone, NEW n \in Sorted
    PROVE  /\ Cardinality(MFFC(n)) \in Nat
           /\ \A k \in InsigSizes(n) : k \in Nat /\ Saved(n, k) \in Int
           /\ n \in DOMAIN insig_MFFC => InsigSizes(n) = {Cardinality(insig_MFFC[n])}
<1>1. Cardinality(MFFC(n)) \in Nat
  BY ConeFacts, NodesFinite DEF CandInv
<1>2. ASSUME n \in DOMAIN insig_MFFC PROVE Cardinality(insig_MFFC[n]) \in Nat
  <2>1. insig_MFFC[n] = InSig(MFFC(n))
    BY <1>2 DEF CandInv, InsigOK
  <2>2. QED
    BY <2>1, ConeFacts, InSigFacts, NodesFinite DEF CandInv
<1>3. \A k \in InsigSizes(n) : k \in Nat
  BY <1>2 DEF InsigSizes
<1>4. QED
  BY <1>1, <1>3 DEF Saved, InsigSizes

LEMMA CandInvConsider ==
    ASSUME CandInv, MffcDone, Consider, UNCHANGED mffcAllVars
    PROVE  CandInv'
<1>1. /\ MffcInv' /\ ConesInTFI' /\ MffcDone' /\ Sorted' = Sorted /\ net' = net
      /\ \A n : MFFC(n)' = MFFC(n)
      /\ \A S : InSig(S)' = InSig(S)
  BY MffcSame
<1>2. /\ scanned' = scanned /\ insig_MFFC' = insig_MFFC /\ file' = file
      /\ InsigDone /\ file.state = "unopened"
  BY DEF Consider
<1>3. PICK r \in Sorted \ considered :
         /\ considered' = considered \cup {r}
         /\ IF Cardinality(MFFC(r)) = 1
            THEN UNCHANGED <<LUTs_saved_number_max, candidate_MFFC>>
            ELSE \E k \in InsigSizes(r) :
                    IF Admissible(k) /\ Saved(r, k) > LUTs_saved_number_max
                    THEN LUTs_saved_number_max' = Saved(r, k) /\ candidate_MFFC' = r
                    ELSE UNCHANGED <<LUTs_saved_number_max, candidate_MFFC>>
  BY DEF Consider
<1>4. InsigDone'
  BY <1>1, <1>2 DEF InsigDone
<1>5. InsigOK'
  BY <1>1, <1>2 DEF CandInv, InsigOK
<1>6. \A n : \A k : Saved(n, k)' = Saved(n, k)
  BY <1>1 DEF Saved
<1>7. \A n \in DOMAIN insig_MFFC \cap Sorted :
         LET k == Cardinality(insig_MFFC[n]) IN
         k \in Nat /\ Saved(n, k) \in Int /\ Cardinality(MFFC(n)) # 1
  BY SavedFacts DEF CandInv, InsigOK
<1>8. considered \subseteq Sorted /\ LUTs_saved_number_max \in Int
      /\ candidate_MFFC \in considered \cup {None} /\ BestCandidate
  BY DEF CandInv, ChoiceOK
<1>9. CASE UNCHANGED <<LUTs_saved_number_max, candidate_MFFC>>
  <2>1. ChoiceOK'
    BY <1>1, <1>3, <1>4, <1>8, <1>9 DEF ChoiceOK
  <2>2. r # candidate_MFFC
    BY <1>3, <1>8, NoneIsUnsorted DEF CandInv
  <2>3. ASSUME r \in DOMAIN insig_MFFC, Admissible(Cardinality(insig_MFFC[r]))
        PROVE  Saved(r, Cardinality(insig_MFFC[r])) <= LUTs_saved_number_max
    <3>1. InsigSizes(r) = {Cardinality(insig_MFFC[r])} /\ Cardinality(MFFC(r)) # 1
          /\ Saved(r, Cardinality(insig_MFFC[r])) \in Int
      BY <1>3, <1>7, <2>3, SavedFacts
    <3>2. CASE Saved(r, Cardinality(insig_MFFC[r])) > LUTs_saved_number_max
      BY <1>3, <1>9, <2>2, <2>3, <3>1, <3>2
    <3>3. QED
      BY <1>8, <3>1, <3>2
  <2>4. BestCandidate'
    BY <1>2, <1>3, <1>6, <1>8, <1>9, <2>2, <2>3 DEF BestCandidate, Admissible
  <2>5. QED
    BY <1>1, <1>2, <1>5, <2>1, <2>4 DEF CandInv, WaitsForMffc, FileOK
<1>10. CASE \E k \in InsigSizes(r) :
              /\ Saved(r, k) > LUTs_saved_number_max
              /\ LUTs_saved_number_max' = Saved(r, k) /\ candidate_MFFC' = r
  <2>1. PICK k \in InsigSizes(r) :
              /\ Saved(r, k) > LUTs_saved_number_max
              /\ LUTs_saved_number_max' = Saved(r, k) /\ candidate_MFFC' = r
    BY <1>10
  <2>2. Saved(r, k) \in Int /\ (r \in DOMAIN insig_MFFC => k = Cardinality(insig_MFFC[r]))
    BY <1>3, <2>1, SavedFacts
  <2>3. ChoiceOK'
    BY <1>1, <1>3, <1>4, <1>8, <2>1, <2>2 DEF ChoiceOK
  <2>4. BestCandidate'
    <3> SUFFICES ASSUME NEW n \in (considered \cup {r}) \cap DOMAIN insig_MFFC
                 PROVE  LET s == Saved(n, Cardinality(insig_MFFC[n])) IN
                        /\ Admissible(Cardinality(insig_MFFC[n])) => s <= Saved(r, k)
                        /\ n = r => s = Saved(r, k)
      BY <1>2, <1>3, <1>6, <2>1 DEF BestCandidate, Admissible
    <3>1. CASE n = r
      BY <2>2, <3>1
    <3>2. CASE n # r
      <4>1. Saved(n, Cardinality(insig_MFFC[n])) \in Int
        BY <1>3, <1>7, <1>8, <3>2
      <4>2. Admissible(Cardinality(insig_MFFC[n])) =>
               Saved(n, Cardinality(insig_MFFC[n])) <= LUTs_saved_number_max
        BY <1>8, <3>2 DEF BestCandidate
      <4>3. QED
        BY <1>8, <2>1, <2>2, <3>2, <4>1, <4>2
    <3>3. QED
      BY <3>1, <3>2
  <2>5. QED
    BY <1>1, <1>2, <1>5, <2>3, <2>4 DEF CandInv, WaitsForMffc, FileOK
<1>11. QED
  BY <1>3, <1>9, <1>10

LEMMA CandInvWrite ==
    ASSUME CandInv, MffcDone, Write, UNCHANGED mffcAllVars
    PROVE  CandInv'
<1>1. /\ MffcInv' /\ ConesInTFI' /\ MffcDone' /\ Sorted' = Sorted /\ net' = net
      /\ \A n : MFFC(n)' = MFFC(n)
      /\ \A S : InSig(S)' = InSig(S)
  BY MffcSame
<1>2. /\ scanned' = scanned /\ insig_MFFC' = insig_MFFC /\ considered' = considered
      /\ LUTs_saved_number_max' = LUTs_saved_number_max /\ candidate_MFFC' = candidate_MFFC
  BY DEF Write
<1>3. InsigOK'
  BY <1>1, <1>2 DEF CandInv, InsigOK
<1>4. ChoiceOK'
  BY <1>1, <1>2 DEF CandInv, ChoiceOK, InsigDone
<1>5. BestCandidate'
  BY <1>1, <1>2 DEF CandInv, BestCandidate, Admissible, Saved
<1>6. FileOK'
  <2>1. CASE candidate_MFFC = None
    BY <2>1 DEF Write, FileOK
  <2>2. CASE candidate_MFFC # None
    <3>1. candidate_MFFC \in Sorted
      BY <2>2 DEF CandInv, ChoiceOK
    <3>2. PICK in_sig \in IF candidate_MFFC \in DOMAIN insig_MFFC
                          THEN {insig_MFFC[candidate_MFFC]} ELSE SUBSET NodesOf(net) :
             file' = [state   |-> "written",
                      inputs  |-> in_sig,
                      outputs |-> {candidate_MFFC},
                      names   |-> {n \in MFFC(candidate_MFFC) : net.type[n] # "INPUT"}]
      BY <2>2 DEF Write
    <3>3. QED
      BY <1>1, <1>2, <3>1, <3>2 DEF FileOK
  <2>3. QED
    BY <2>1, <2>2
<1>7. QED
  BY <1>1, <1>3, <1>4, <1>5, <1>6 DEF CandInv, WaitsForMffc

LEMMA CandInvStep == CandInv /\ [CandNext]_candAllVars => CandInv'
<1> SUFFICES ASSUME CandInv, [CandNext]_candAllVars PROVE CandInv'
  OBVIOUS
<1>1. CASE MffcNext /\ UNCHANGED candVars
  BY <1>1, CandInvMffc
<1>2. CASE MffcDone /\ (FindInsig \/ Consider \/ Write) /\ UNCHANGED mffcAllVars
  BY <1>2, CandInvFindInsig, CandInvConsider, CandInvWrite
<1>3. CASE UNCHANGED candAllVars
  <2>1. /\ UNCHANGED mffcAllVars
        /\ scanned' = scanned /\ insig_MFFC' = insig_MFFC /\ considered' = considered
        /\ LUTs_saved_number_max' = LUTs_saved_number_max
        /\ candidate_MFFC' = candidate_MFFC /\ file' = file
    BY <1>3 DEF candAllVars, candVars
  <2>2. /\ MffcInv' /\ ConesInTFI' /\ (MffcDone' <=> MffcDone) /\ Sorted' = Sorted
        /\ net' = net /\ \A n : MFFC(n)' = MFFC(n)
        /\ \A S : InSig(S)' = InSig(S)
    BY <2>1, MffcSame
  <2>3. WaitsForMffc' /\ InsigOK' /\ ChoiceOK' /\ FileOK'
    BY <2>1, <2>2 DEF CandInv, WaitsForMffc, Untouched, InsigOK, ChoiceOK, InsigDone, FileOK
  <2>4. BestCandidate'
    BY <2>1, <2>2 DEF CandInv, BestCandidate, Admissible, Saved
  <2>5. QED
    BY <2>2, <2>3, <2>4 DEF CandInv
<1>4. QED
  BY <1>1, <1>2, <1>3 DEF CandNext

THEOREM CandInvariant == CandSpec => []CandInv
<1>1. QED
  BY CandInvInit, CandInvStep, PTL DEF CandSpec

-----------------------------------------------------------------------------
(***************************************************************************)
(* What the program promises.                                              *)
(***************************************************************************)
\* No root with known input signals saves more than the candidate, in
\* whatever order the roots were considered.
THEOREM ChoiceIsBest == CandSpec => []BestCandidate
<1>1. CandInv => BestCandidate
  BY DEF CandInv
<1>2. QED
  BY <1>1, CandInvariant, PTL

\* When something is written, the MFFCs are done.
LEMMA WrittenFacts ==
    ASSUME CandInv, file.state = "written"
    PROVE  /\ MffcDone /\ MffcInv /\ ConesInTFI /\ candidate_MFFC \in Sorted
           /\ file.outputs = {candidate_MFFC}
           /\ file.names = {n \in MFFC(candidate_MFFC) : net.type[n] # "INPUT"}
           /\ candidate_MFFC \in DOMAIN insig_MFFC =>
                 /\ file.inputs = InSig(MFFC(candidate_MFFC))
                 /\ Cardinality(MFFC(candidate_MFFC)) # 1
  BY DEF CandInv, FileOK, WaitsForMffc, Untouched, InsigOK

\* The cone that is written for a root that is no output is a circuit of its
\* own, on every acyclic network.
THEOREM WrittenIsClosed == CandSpec => []WrittenCircuitClosed
<1>1. ASSUME CandInv PROVE WrittenCircuitClosed
  <2> SUFFICES ASSUME file.state = "written", AllSorted, candidate_MFFC \in DOMAIN insig_MFFC
               PROVE  /\ \A n \in file.names : InputsOf(n) \subseteq file.inputs \cup file.names
                      /\ file.inputs \cap file.names = {}
                      /\ file.outputs \subseteq file.names
    BY DEF WrittenCircuitClosed
  <2> DEFINE cone == MFFC(candidate_MFFC)
  <2>1. /\ file.inputs = InSig(cone) /\ file.outputs = {candidate_MFFC}
        /\ file.names = {n \in cone : net.type[n] # "INPUT"}
    BY <1>1, WrittenFacts
  <2>2. \A n \in file.names : InputsOf(n) \subseteq file.inputs \cup file.names
    BY <2>1 DEF InSig
  <2>3. file.inputs \cap file.names = {}
    BY <2>1 DEF InSig
  <2>4. candidate_MFFC \in cone
    BY <1>1, WrittenFacts, ConeFacts
  <2>5. net.type[candidate_MFFC] # "INPUT"
    BY <1>1, WrittenFacts, InputAlone
  <2>6. QED
    BY <2>1, <2>2, <2>3, <2>4, <2>5
<1>2. QED
  BY <1>1, CandInvariant, PTL

\* It can be cut out at its root, on every acyclic network: nothing that stays
\* reads one of its inner nodes.
THEOREM WrittenSevers == CandSpec => []WrittenCircuitSevers
<1>1. ASSUME CandInv PROVE WrittenCircuitSevers
  <2> SUFFICES ASSUME file.state = "written", AllSorted, NEW n \in NodesOf(net) \ file.names,
                      NEW m \in InputsOf(n) \cap file.names, m # candidate_MFFC
               PROVE  FALSE
    BY <1>1, WrittenFacts DEF WrittenCircuitSevers
  <2>1. n \in MFFC(candidate_MFFC)
    BY <1>1, WrittenFacts, ConeFacts
  <2>2. net.type[n] = "INPUT"
    BY <1>1, <2>1, WrittenFacts
  <2>3. net.inputs[n] = <<>>
    BY <1>1, <2>2 DEF CandInv, MffcInv, TopInv, TopTypeOK, WellFormed, InputsReadNothing
  <2>4. QED
    BY <2>3 DEF InputsOf
<1>2. QED
  BY <1>1, CandInvariant, PTL

\* No input signal could have been part of the cone: by maximality one that is
\* no primary input also feeds a node outside.
THEOREM NoInputForNothing == CandSpec => []InputsFeedElsewhere
<1>1. ASSUME CandInv PROVE InputsFeedElsewhere
  <2> DEFINE r == candidate_MFFC
             k == sort_ind(r)
             cone == MFFC(r)
  <2> SUFFICES ASSUME file.state = "written", AllSorted, r \in DOMAIN insig_MFFC,
                      NEW m \in file.inputs, net.type[m] # "INPUT", Readers(net, m) \subseteq cone
               PROVE  FALSE
    BY DEF InputsFeedElsewhere
  <2>1. /\ MffcInv /\ TopInv /\ MffcDone /\ ConesInTFI /\ r \in Sorted
        /\ m \in InSig(cone) /\ cone \subseteq NodesOf(net)
    BY <1>1, WrittenFacts, ConeFacts DEF MffcInv
  <2>2. /\ k \in Indices /\ k \in FinalRoots /\ MFFC_set[k] \subseteq Indices
        /\ TFI_set[k] \subseteq Indices /\ MFFC_set[k] \subseteq TFI_set[k]
        /\ DOMAIN TFI_set = Indices
    BY <2>1, RootOf, DoneFacts DEF ConesInTFI
  <2>3. /\ FanoutFree(MFFC_set[k], k)
        /\ \A S \in SUBSET TFI_set[k] : FanoutFree(S, k) => S \subseteq MFFC_set[k]
    BY <2>1, <2>2 DEF MffcInv, FinalOK
  <2>4. m \notin cone /\ m \in NodesOf(net)
    BY <2>1, InSigFacts DEF InSig
  <2>5. PICK i \in Indices : sort_list[i] = m
    BY <2>4 DEF AllSorted, Sorted, Indices
  <2>6. i \notin MFFC_set[k]
    BY <2>4, <2>5 DEF MFFC
  <2>7. Fanouts(i) \subseteq cone
    <3> SUFFICES ASSUME NEW n \in Fanouts(i) PROVE n \in cone
      OBVIOUS
    <3>1. PICK j \in Indices : sort_list[j] = n
      <4>1. net.fanouts[m] \in Seq(NodesOf(net))
        BY <2>1, <2>4 DEF TopInv, TopTypeOK, WellFormed
      <4>2. n \in NodesOf(net)
        BY <2>5, <4>1 DEF Fanouts
      <4>3. QED
        BY <4>2 DEF AllSorted, Sorted, Indices
    <3>2. m \in Fanins(j)
      BY <2>1, <2>5, <3>1, EdgeFacts DEF Edge
    <3>3. n \in Readers(net, m)
      BY <2>1, <3>1, <3>2, SortFacts DEF Readers, Pins, Fanins
    <3>4. QED
      BY <3>3
  <2>8. i \in TFI_set[k]
    <3>1. PICK n \in cone : m \in InputsOf(n)
      BY <2>1 DEF InSig
    <3>2. PICK j \in MFFC_set[k] : n = sort_list[j]
      BY <3>1 DEF MFFC
    <3>3. m \in Fanins(j) /\ j \in Indices
      BY <2>2, <3>1, <3>2 DEF Fanins, InputsOf
    <3>4. i \in TFI_set[j]
      BY <2>1, <2>2, <2>5, <3>3, EdgeFacts DEF MffcInv, ConesOK
    <3>5. QED
      BY <2>1, <2>2, <3>2, <3>4 DEF MffcInv, ConesOK
  <2>9. FanoutFree(MFFC_set[k] \cup {i}, k)
    BY <2>3, <2>7 DEF FanoutFree, MFFC
  <2>10. QED
    BY <2>2, <2>3, <2>6, <2>8, <2>9
<1>2. QED
  BY <1>1, CandInvariant, PTL

-----------------------------------------------------------------------------
(***************************************************************************)
(* What is written is a candidate of module RestPart.  That module speaks  *)
(* of paths and of all sets of nodes, get_MFFC() of indices and one walk.  *)
(***************************************************************************)
\* The operators of the instance are those of this module.
LEMMA SameNetwork ==
    /\ R!NodesOf(net) = NodesOf(net)
    /\ \A n : R!Downstream(net, n) = Downstream(net, n)
    /\ \A s : R!Range(s) = {s[p] : p \in DOMAIN s}
    /\ \A S : R!Cardinality(S) = Cardinality(S)
<1>1. R!NodesOf(net) = NodesOf(net)
  BY DEF R!NodesOf, NodesOf
<1>2. \A n : R!Downstream(net, n) = Downstream(net, n)
  BY DEF R!Downstream, Downstream, R!Readers, Readers, R!NodesOf, NodesOf, R!Pins, Pins
<1>3. \A s : R!Range(s) = {s[p] : p \in DOMAIN s}
  BY DEF R!Range
<1>4. \A S : R!Cardinality(S) = Cardinality(S)
  BY DEF R!Cardinality, Cardinality
<1>5. QED
  BY <1>1, <1>2, <1>3, <1>4

\* The sets of indices are those of the nodes from which a path leads to r.
LEMMA ConesArePaths ==
    ASSUME MffcInv, MffcDone, AllSorted, NEW r \in Sorted
    PROVE  R!TFI(r) = {sort_list[i] : i \in TFI_set[sort_ind(r)]}
<1> DEFINE k == sort_ind(r)
           T == {sort_list[i] : i \in TFI_set[k]}
<1>1. /\ k \in Indices /\ sort_list[k] = r /\ r \in NodesOf(net)
      /\ DOMAIN TFI_set = Indices /\ TFI_set[k] \subseteq Indices /\ TopInv
  BY RootOf, DoneFacts DEF MffcInv
<1>2. WellFormed(net) /\ Len(net.nodes) \in Nat
  BY DEF MffcInv, TopInv, TopTypeOK, WellFormed
<1>3. Len(sort_list) \in Nat /\ Indices = 1 .. Len(sort_list)
  BY <1>1, SortFacts
<1>4. \A i, j \in Indices : sort_list[j] \in Readers(net, sort_list[i]) <=> Edge(i, j)
  <2> SUFFICES ASSUME NEW i \in Indices, NEW j \in Indices
               PROVE  sort_list[j] \in Readers(net, sort_list[i]) <=> Edge(i, j)
    OBVIOUS
  <2>1. Edge(i, j) <=> sort_list[i] \in Fanins(j)
    BY <1>1, EdgeFacts
  <2>2. sort_list[j] \in NodesOf(net)
    BY <1>1, SortFacts
  <2>3. QED
    BY <2>1, <2>2 DEF Readers, Pins, Fanins
<1>5. /\ k \in TFI_set[k]
      /\ \A i \in TFI_set[k] : TFI_set[i] \subseteq TFI_set[k]
      /\ \A S \in SUBSET Indices : UpClosed(S, k) /\ S \cap TFI_set[k] # {} => k \in S
      /\ \A i, j \in Indices : Edge(i, j) => i \in TFI_set[j]
  BY <1>1 DEF MffcInv, ConesOK
<1>6. ASSUME NEW i \in TFI_set[k], sort_list[i] # r
      PROVE  r \in Downstream(net, sort_list[i])
  <2> DEFINE n == sort_list[i]
             S == {j \in Indices : sort_list[j] \in {n} \cup Downstream(net, n)}
  <2>1. /\ Readers(net, n) \subseteq Downstream(net, n)
        /\ \A m \in Downstream(net, n) : Readers(net, m) \subseteq Downstream(net, n)
    BY <1>2, Downstreams
  <2>2. UpClosed(S, k)
    <3> SUFFICES ASSUME NEW a \in S, NEW b \in 1 .. k, Edge(a, b) PROVE b \in S
      BY DEF UpClosed
    <3>1. b \in Indices
      BY <1>1, <1>3
    <3>2. sort_list[b] \in Readers(net, sort_list[a])
      BY <1>4, <3>1
    <3>3. QED
      BY <2>1, <3>1, <3>2
  <2>3. i \in S /\ S \in SUBSET Indices
    BY <1>1
  <2> HIDE DEF S
  <2>4. k \in S
    BY <1>5, <1>6, <2>2, <2>3
  <2>5. QED
    BY <1>1, <1>6, <2>4 DEF S
<1>7. ASSUME NEW n \in NodesOf(net), r \in Downstream(net, n) PROVE n \in T
  <2> DEFINE X == NodesOf(net) \ T
  <2> SUFFICES ASSUME n \in X PROVE FALSE
    OBVIOUS
  <2>1. \A m \in X : Readers(net, m) \subseteq X
    <3> SUFFICES ASSUME NEW m \in X, NEW q \in Readers(net, m), q \in T PROVE FALSE
      BY DEF Readers
    <3>1. PICK j \in TFI_set[k] : q = sort_list[j]
      OBVIOUS
    <3>2. PICK i \in Indices : sort_list[i] = m
      BY DEF AllSorted, Sorted, Indices
    <3>3. j \in Indices
      BY <1>1
    <3>4. Edge(i, j)
      BY <1>4, <3>1, <3>2, <3>3
    <3>5. i \in TFI_set[k]
      BY <1>5, <3>1, <3>3, <3>4
    <3>6. QED
      BY <3>2, <3>5
  <2>2. Readers(net, n) \subseteq X
    BY <2>1
  <2> HIDE DEF X
  <2>3. Downstream(net, n) \subseteq X
    BY <1>2, <2>1, <2>2, DownstreamLeast
  <2>4. r \in T
    BY <1>1, <1>5
  <2>5. QED
    BY <1>7, <2>3, <2>4 DEF X
<1>8. R!TFI(r) = {r} \cup {n \in NodesOf(net) : r \in Downstream(net, n)}
  BY SameNetwork DEF R!TFI
<1>9. T \subseteq NodesOf(net)
  BY <1>1, SortFacts
<1>10. r \in T
  BY <1>1, <1>5
<1>11. QED
  BY <1>6, <1>7, <1>8, <1>9, <1>10

\* The walk leaves the union of all fanout-free cones of r.
LEMMA ConesAreUnions ==
    ASSUME MffcInv, ConesInTFI, MffcDone, AllSorted, NEW r \in Sorted
    PROVE  R!MFFC(r) = MFFC(r)
<1> DEFINE k == sort_ind(r)
           T == {sort_list[i] : i \in TFI_set[k]}
           Alone(S) == r \in S /\ \A n \in S \ {r} :
                          {net.fanouts[n][p] : p \in DOMAIN net.fanouts[n]} \subseteq S
<1>1. /\ k \in Indices /\ sort_list[k] = r /\ TopInv /\ FinalRoots = Indices
      /\ DOMAIN MFFC_set = Indices
      /\ TFI_set[k] \subseteq Indices /\ MFFC_set[k] \subseteq Indices
  BY RootOf, DoneFacts DEF MffcInv
<1>2. /\ k \in MFFC_set[k] /\ FanoutFree(MFFC_set[k], k)
      /\ \A S \in SUBSET TFI_set[k] : FanoutFree(S, k) => S \subseteq MFFC_set[k]
      /\ MFFC_set[k] \subseteq TFI_set[k]
  BY <1>1 DEF MffcInv, FinalOK, ConesInTFI
<1>3. \A i, j \in Indices : sort_list[i] = sort_list[j] => i = j
  BY <1>1, SortFacts
<1>4. MFFC(r) \in SUBSET T /\ Alone(MFFC(r))
  <2>1. MFFC(r) \in SUBSET T
    BY <1>2 DEF MFFC
  <2>2. r \in MFFC(r)
    BY <1>1, <1>2 DEF MFFC
  <2>3. ASSUME NEW n \in MFFC(r) \ {r}
        PROVE  {net.fanouts[n][p] : p \in DOMAIN net.fanouts[n]} \subseteq MFFC(r)
    <3>1. PICK i \in MFFC_set[k] : n = sort_list[i]
      BY DEF MFFC
    <3>2. i # k
      BY <1>1, <2>3, <3>1
    <3>3. Fanouts(i) \subseteq MFFC(r)
      BY <1>2, <3>1, <3>2 DEF FanoutFree, MFFC
    <3>4. QED
      BY <3>1, <3>3 DEF Fanouts
  <2>4. QED
    BY <2>1, <2>2, <2>3
<1>5. ASSUME NEW S \in SUBSET T, Alone(S) PROVE S \subseteq MFFC(r)
  <2> DEFINE I == {i \in TFI_set[k] : sort_list[i] \in S}
  <2>1. FanoutFree(I, k)
    <3> SUFFICES ASSUME NEW i \in I \ {k}
                 PROVE  Fanouts(i) \subseteq {sort_list[j] : j \in I}
      BY DEF FanoutFree
    <3>1. sort_list[i] \in S \ {r}
      BY <1>1, <1>3
    <3>2. Fanouts(i) \subseteq S
      BY <1>5, <3>1 DEF Fanouts
    <3>3. S \subseteq {sort_list[j] : j \in I}
      OBVIOUS
    <3>4. QED
      BY <3>2, <3>3
  <2>2. I \in SUBSET TFI_set[k]
    OBVIOUS
  <2>3. I \subseteq MFFC_set[k]
    BY <1>2, <2>1, <2>2
  <2>4. QED
    BY <2>3 DEF MFFC
<1>6. R!MFFC(r) = UNION {S \in SUBSET T : Alone(S)}
  BY ConesArePaths, SameNetwork DEF R!MFFC
<1> HIDE DEF T, Alone
<1>7. QED
  BY <1>4, <1>5, <1>6

\* The choice: the maximum starts at zero and grows with every new candidate,
\* whose number of input signals is admissible.
EntriesOK == \A n \in DOMAIN insig_MFFC : net.type[n] # "OUTPUT"

ChosenOK ==
    /\ LUTs_saved_number_max >= 0
    /\ candidate_MFFC # None => LUTs_saved_number_max > 0
    /\ candidate_MFFC \in considered \cap DOMAIN insig_MFFC =>
          Admissible(Cardinality(insig_MFFC[candidate_MFFC]))

PickInv == CandInv /\ EntriesOK /\ ChosenOK

LEMMA PickInvInit == CandInitAll => PickInv
<1> SUFFICES ASSUME CandInitAll PROVE PickInv
  OBVIOUS
<1>1. CandInv
  BY CandInvInit
<1>2. QED
  BY <1>1 DEF CandInitAll, CandInit, PickInv, EntriesOK, ChosenOK

LEMMA PickInvConsider ==
    ASSUME PickInv, MffcDone, Consider, UNCHANGED mffcAllVars
    PROVE  ChosenOK'
<1>1. PICK r \in Sorted \ considered :
         /\ considered' = considered \cup {r}
         /\ IF Cardinality(MFFC(r)) = 1
            THEN UNCHANGED <<LUTs_saved_number_max, candidate_MFFC>>
            ELSE \E k \in InsigSizes(r) :
                    IF Admissible(k) /\ Saved(r, k) > LUTs_saved_number_max
                    THEN LUTs_saved_number_max' = Saved(r, k) /\ candidate_MFFC' = r
                    ELSE UNCHANGED <<LUTs_saved_number_max, candidate_MFFC>>
  BY DEF Consider
<1>2. insig_MFFC' = insig_MFFC
  BY DEF Consider
<1>3. /\ candidate_MFFC \in considered \cup {None} /\ LUTs_saved_number_max \in Int
      /\ LUTs_saved_number_max >= 0 /\ r \notin considered /\ r # None
  BY NoneIsUnsorted DEF PickInv, CandInv, ChoiceOK, ChosenOK
<1>4. CASE UNCHANGED <<LUTs_saved_number_max, candidate_MFFC>>
  <2>1. candidate_MFFC \in considered' => candidate_MFFC \in considered
    BY <1>1, <1>3
  <2>2. QED
    BY <1>2, <1>4, <2>1 DEF PickInv, ChosenOK, Admissible
<1>5. CASE \E k \in InsigSizes(r) :
              /\ Admissible(k) /\ Saved(r, k) > LUTs_saved_number_max
              /\ LUTs_saved_number_max' = Saved(r, k) /\ candidate_MFFC' = r
  <2>1. PICK k \in InsigSizes(r) :
              /\ Admissible(k) /\ Saved(r, k) > LUTs_saved_number_max
              /\ LUTs_saved_number_max' = Saved(r, k) /\ candidate_MFFC' = r
    BY <1>5
  <2>2. Saved(r, k) \in Int /\ (r \in DOMAIN insig_MFFC => k = Cardinality(insig_MFFC[r]))
    BY <2>1, SavedFacts DEF PickInv
  <2>3. LUTs_saved_number_max' > 0
    BY <1>3, <2>1, <2>2
  <2>4. QED
    BY <1>2, <2>1, <2>2, <2>3 DEF ChosenOK, Admissible
<1>6. QED
  BY <1>1, <1>4, <1>5

LEMMA PickInvStep == PickInv /\ [CandNext]_candAllVars => PickInv'
<1> SUFFICES ASSUME PickInv, [CandNext]_candAllVars PROVE PickInv'
  OBVIOUS
<1>1. CandInv /\ CandInv'
  BY CandInvStep DEF PickInv
<1>2. CASE Untouched'
  BY <1>1, <1>2 DEF Untouched, PickInv, EntriesOK, ChosenOK
<1>3. CASE MffcDone /\ FindInsig /\ UNCHANGED mffcAllVars
  <2>1. net' = net
    BY <1>1, <1>3, MffcSame
  <2>2. EntriesOK'
    BY <1>3, <2>1 DEF FindInsig, PickInv, EntriesOK
  <2>3. considered' = {} /\ LUTs_saved_number_max' = LUTs_saved_number_max
        /\ candidate_MFFC' = candidate_MFFC
    BY <1>1, <1>3 DEF FindInsig, CandInv, ChoiceOK
  <2>4. QED
    BY <1>1, <2>2, <2>3 DEF PickInv, ChosenOK
<1>4. CASE MffcDone /\ Consider /\ UNCHANGED mffcAllVars
  <2>1. net' = net /\ insig_MFFC' = insig_MFFC
    BY <1>1, <1>4, MffcSame DEF Consider
  <2>2. QED
    BY <1>1, <1>4, <2>1, PickInvConsider DEF PickInv, EntriesOK
<1>5. CASE UNCHANGED <<insig_MFFC, considered, LUTs_saved_number_max, candidate_MFFC>>
           /\ UNCHANGED mffcAllVars
  <2>1. net' = net
    BY <1>1, <1>5, MffcSame
  <2>2. QED
    BY <1>1, <1>5, <2>1 DEF PickInv, EntriesOK, ChosenOK, Admissible
<1>6. CASE MffcNext /\ UNCHANGED candVars
  <2>1. CASE Untouched
    BY <1>2, <1>6, <2>1 DEF Untouched, candVars
  <2>2. CASE MffcDone
    <3>1. FALSE
      BY <1>1, <1>6, <2>2, DoneStops DEF CandInv
    <3>2. QED
      BY <3>1
  <2>3. QED
    BY <1>1, <2>1, <2>2 DEF CandInv, WaitsForMffc
<1>7. CASE MffcDone /\ Write /\ UNCHANGED mffcAllVars
  BY <1>5, <1>7 DEF Write
<1>8. CASE UNCHANGED candAllVars
  BY <1>5, <1>8 DEF candAllVars, candVars
<1>9. QED
  BY <1>3, <1>4, <1>6, <1>7, <1>8 DEF CandNext

\* Every entry of insig_MFFC is for a node that is no output, and a candidate
\* saves something with an admissible number of inputs.
THEOREM PickInvariant == CandSpec => []PickInv
<1>1. QED
  BY PickInvInit, PickInvStep, PTL DEF CandSpec

\* A cone with the inputs and gates of the file is a candidate: they may be put
\* in some order.
LEMMA SomeOrder ==
    ASSUME NEW S, IsFiniteSet(S)
    PROVE  /\ \E gs \in R!SetToSeqs(S) : R!Range(gs) = S
           /\ R!Range(R!SetToSeq(S)) = S
<1> DEFINE n == Cardinality(S)
           f == SetToSeq(S)
<1>1. /\ f \in Seq(S) /\ Len(f) = n /\ Range(f) = S
      /\ \A i, j \in DOMAIN f : f[i] = f[j] => i = j
  BY SetToSeqFacts
<1>2. R!SetToSeq(S) = f
  BY SameNetwork DEF R!SetToSeq, SetToSeq, R!IsInjective, IsInjective
<1> HIDE DEF f
<1>3. n \in Nat
  BY FS_CardinalityType
<1>4. f \in [1 .. n -> S] /\ DOMAIN f = 1 .. n
  BY <1>1, <1>3
<1>5. f \in R!SetToSeqs(S)
  BY <1>1, <1>4, SameNetwork DEF R!SetToSeqs
<1>6. R!Range(f) = S
  BY <1>1, SameNetwork DEF Range
<1>7. QED
  BY <1>2, <1>5, <1>6

\* WrittenIsCandidate: on every acyclic network what main writes for a root
\* that is no output is one of the candidates that RestPart starts from.
THEOREM CandidatesAreFound == CandSpec => []WrittenIsCandidate
<1>1. ASSUME PickInv PROVE WrittenIsCandidate
  <2> DEFINE r == candidate_MFFC
             M == MFFC(r)
             sig == InSig(M)
  <2> SUFFICES ASSUME file.state = "written", AllSorted, r \in DOMAIN insig_MFFC
               PROVE  \E c \in R!Candidates :
                         /\ R!Range(c.inputs) = file.inputs /\ {c.output} = file.outputs
                         /\ R!Range(c.gates) = file.names
    BY DEF WrittenIsCandidate
  <2>1. /\ CandInv /\ MffcInv /\ MffcDone /\ ConesInTFI /\ r \in Sorted
        /\ file.outputs = {r} /\ file.names = {n \in M : net.type[n] # "INPUT"}
        /\ file.inputs = sig /\ Cardinality(M) # 1 /\ insig_MFFC[r] = sig
    BY <1>1, WrittenFacts DEF PickInv, CandInv, InsigOK
  <2>2. M \subseteq NodesOf(net) /\ r \in M /\ sig \subseteq NodesOf(net)
    BY <2>1, ConeFacts, InSigFacts
  <2>3. IsFiniteSet(M) /\ Cardinality(M) \in Nat /\ IsFiniteSet(sig) /\ Cardinality(sig) \in Nat
    BY <2>1, <2>2, NodesFinite
  <2>4. Cardinality(M) > 1
    <3>1. M # {}
      BY <2>2
    <3>2. Cardinality(M) # 0
      BY <2>3, <3>1, FS_EmptySet
    <3>3. QED
      BY <2>1, <2>3, <3>2
  <2>5. r \in considered /\ r # None
    BY <2>1, NoneIsUnsorted DEF CandInv, ChoiceOK
  <2>6. Admissible(Cardinality(sig)) /\ LUTs_saved_number_max > 0
    BY <1>1, <2>1, <2>5 DEF PickInv, ChosenOK
  <2>7. Saved(r, Cardinality(sig)) = LUTs_saved_number_max
    BY <2>1, <2>5 DEF CandInv, BestCandidate
  <2>8. Cardinality(M) > Cardinality(sig) - 1
    BY <2>3, <2>6, <2>7 DEF Saved
  <2>9. net.type[r] # "INPUT" /\ net.type[r] # "OUTPUT"
    BY <1>1, <2>1, InputAlone DEF PickInv, EntriesOK
  <2>10. R!MFFC(r) = M
    BY <2>1, ConesAreUnions
  <2>11. R!InSig(M) = sig
    BY SameNetwork DEF R!InSig, InSig, InputsOf
  <2>12. R!Gates = {n \in NodesOf(net) : net.type[n] # "INPUT"}
    BY SameNetwork DEF R!Gates
  <2> HIDE DEF M, sig
  <2>13. R!Chosen(r)
    BY <2>3, <2>4, <2>6, <2>8, <2>9, <2>10, <2>11, SameNetwork, InputBounds
       DEF R!Chosen, Admissible
  <2>14. r \in R!Gates /\ M \cap R!Gates = file.names
    BY <2>1, <2>2, <2>9, <2>12
  <2>15. IsFiniteSet(M \cap R!Gates)
    BY <2>3, FS_Subset
  <2>16. PICK gs \in R!SetToSeqs(M \cap R!Gates) : R!Range(gs) = M \cap R!Gates
    BY <2>15, SomeOrder, Zenon
  <2> DEFINE c == [inputs |-> R!SetToSeq(sig), output |-> r, gates |-> gs]
  <2>17. c \in R!Candidates
    <3>1. c \in {[inputs |-> R!SetToSeq(R!InSig(R!MFFC(r))), output |-> r, gates |-> g] :
                    g \in R!SetToSeqs(R!MFFC(r) \cap R!Gates)}
      BY <2>10, <2>11, <2>16
    <3>2. r \in {n \in R!Gates : R!Chosen(n)}
      BY <2>13, <2>14
    <3>3. QED
      BY <3>1, <3>2, Zenon DEF R!Candidates
  <2>18. R!Range(c.inputs) = file.inputs
    BY <2>1, <2>3, SomeOrder
  <2>19. {c.output} = file.outputs /\ R!Range(c.gates) = file.names
    BY <2>1, <2>14, <2>16
  <2>20. QED
    BY <2>17, <2>18, <2>19
<1>2. QED
  BY <1>1, PickInvariant, PTL
=============================================================================
