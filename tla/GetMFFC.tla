------------------------------ MODULE GetMFFC ------------------------------
(***************************************************************************)
(* get_MFFC() of basics.cc, which runs on the sort_list of topSort().  The *)
(* maximum fanout-free cone of a node is the part of its transitive fanin  *)
(* (TFI) that feeds nothing but the node.                                  *)
(*                                                                         *)
(* As in the code, nodes are handled by their index in sort_list (the maps *)
(* ind_sort and sort_ind): TFI_set[k] is the set of indices in the TFI of  *)
(* the k-th node, itself included, and MFFC_set[k] starts as a copy of it. *)
(* The second loop takes each node as the root and walks its TFI from the  *)
(* largest index down (cursor is the map iterator itrm_ic); a node with a  *)
(* fanout outside the TFI, or in delete_list, puts its own TFI there.      *)
(***************************************************************************)
EXTENDS TopSort

VARIABLES
    TFI_set, MFFC_set,  \* index -> set of indices, for the indices done so far
    exited,             \* exit(1) was called: "this innode is not in TFI_set"
    root,               \* index of cnode, 0 before the second loop
    cursor,             \* index under the iterator, 0 when the walk has ended
    delete_list         \* indices to be taken out of the root's MFFC

mffcVars == <<TFI_set, MFFC_set, exited, root, cursor, delete_list>>

-----------------------------------------------------------------------------
Indices == DOMAIN sort_list

\* sort_ind: the position of a sorted node.
sort_ind(n) == CHOOSE i \in Indices : sort_list[i] = n

\* The names at the fanins and fanouts of the k-th node.
Fanins(k) == {net.inputs[sort_list[k]][p] : p \in DOMAIN net.inputs[sort_list[k]]}
Fanouts(k) == {net.fanouts[sort_list[k]][p] : p \in DOMAIN net.fanouts[sort_list[k]]}

Largest(S) == CHOOSE i \in S : \A j \in S : j <= i
Smallest(S) == CHOOSE i \in S : \A j \in S : i <= j

MffcInit ==
    /\ TFI_set = <<>>
    /\ MFFC_set = <<>>
    /\ exited = FALSE
    /\ root = 0
    /\ cursor = 0
    /\ delete_list = {}

-----------------------------------------------------------------------------
\* First loop: the TFI of a node is itself and the TFIs of its fanins, which
\* must have been entered before it.
TFIsDone == Len(TFI_set) = Len(sort_list)

\* Mutant of Entered: the entry of the last node is not in the map yet.
EnteredLate == {sort_list[i] : i \in 1 .. Len(TFI_set) - 1}

Entered == {sort_list[i] : i \in DOMAIN TFI_set}

this_TFI(cind) == {cind} \cup UNION {TFI_set[sort_ind(m)] : m \in Fanins(cind)}

BuildTFI ==
    /\ ~exited /\ ~TFIsDone
    /\ LET cind == Len(TFI_set) + 1
       IN  IF Fanins(cind) \subseteq Entered
           THEN /\ TFI_set' = Append(TFI_set, this_TFI(cind))
                /\ MFFC_set' = Append(MFFC_set, this_TFI(cind))
                /\ UNCHANGED exited
           ELSE exited' = TRUE /\ UNCHANGED <<TFI_set, MFFC_set>>
    /\ UNCHANGED <<root, cursor, delete_list>>

-----------------------------------------------------------------------------
\* Second loop.
Walking == cursor # 0

\* Mutants of StartRoot: the list of the last root is not cleared, or the walk
\* starts at the end of sort_list and not of the TFI.
StartRootKeepsList ==
    /\ ~exited /\ TFIsDone /\ ~Walking
    /\ root < Len(sort_list)
    /\ root' = root + 1
    /\ cursor' = Largest(TFI_set[root + 1])
    /\ UNCHANGED <<TFI_set, MFFC_set, exited, delete_list>>

StartRootAtEnd ==
    /\ ~exited /\ TFIsDone /\ ~Walking
    /\ root < Len(sort_list)
    /\ root' = root + 1
    /\ cursor' = Len(sort_list)
    /\ delete_list' = {}
    /\ UNCHANGED <<TFI_set, MFFC_set, exited>>

StartRoot ==
    /\ ~exited /\ TFIsDone /\ ~Walking
    /\ root < Len(sort_list)
    /\ root' = root + 1
    /\ cursor' = Largest(TFI_set[root + 1])
    /\ delete_list' = {}
    /\ UNCHANGED <<TFI_set, MFFC_set, exited>>

First == Smallest(TFI_set[root])
Before(c) == Largest({i \in TFI_set[root] : i < c})

\* Mutant of LeadsOut: only the first fanout is looked at.
FirstLeadsOut(c) ==
    LET m == net.fanouts[sort_list[c]][1]
    IN  /\ m \in Fanouts(c) \cap Sorted
        /\ sort_ind(m) \notin TFI_set[root] \/ sort_ind(m) \in delete_list

\* A fanout leads out of what is left of the cone.
LeadsOut(c) ==
    \E m \in Fanouts(c) \cap Sorted :
        sort_ind(m) \notin TFI_set[root] \/ sort_ind(m) \in delete_list

\* A fanout that topSort left out (it is on a cycle, or behind one) is not in
\* sort_ind, and the code reads the index out of end(): any value.  Unless
\* another fanout leads out, the test may then go either way.
DeleteOutcomes(c) ==
    IF LeadsOut(c) THEN {TRUE}
    ELSE IF Fanouts(c) \subseteq Sorted THEN {FALSE} ELSE BOOLEAN

Checked(c, deletes) == IF deletes THEN delete_list \cup TFI_set[c] ELSE delete_list

\* Mutant of SkipRoot: the iterator is not moved.
SkipRootStays ==
    /\ Walking /\ cursor # First /\ cursor = root
    /\ UNCHANGED mffcVars

\* The walk skips the root.
SkipRoot ==
    /\ Walking /\ cursor # First /\ cursor = root
    /\ cursor' = Before(cursor)
    /\ UNCHANGED <<TFI_set, MFFC_set, exited, root, delete_list>>

CheckNode ==
    /\ Walking /\ cursor # First /\ cursor # root
    /\ \E deletes \in DeleteOutcomes(cursor) : delete_list' = Checked(cursor, deletes)
    /\ cursor' = Before(cursor)
    /\ UNCHANGED <<TFI_set, MFFC_set, exited, root>>

\* Mutant of CheckFirst: the walk ends without a look at the first element.
CheckFirstNot ==
    /\ Walking /\ cursor = First
    /\ MFFC_set' = [MFFC_set EXCEPT ![root] = @ \ delete_list]
    /\ cursor' = 0
    /\ UNCHANGED <<TFI_set, exited, root, delete_list>>

\* The walk stops at the first element, which is checked after it (unless it
\* is the root: a node without fanins); then delete_list is erased from the MFFC.
CheckFirst ==
    /\ Walking /\ cursor = First
    /\ \E deletes \in (IF cursor = root THEN {FALSE} ELSE DeleteOutcomes(cursor)) :
           /\ delete_list' = Checked(cursor, deletes)
           /\ MFFC_set' = [MFFC_set EXCEPT ![root] = @ \ Checked(cursor, deletes)]
    /\ cursor' = 0
    /\ UNCHANGED <<TFI_set, exited, root>>

MffcStep == BuildTFI \/ StartRoot \/ SkipRoot \/ CheckNode \/ CheckFirst

-----------------------------------------------------------------------------
(***************************************************************************)
(* topSort() and then get_MFFC().                                          *)
(***************************************************************************)
MffcInitAll == TopInit /\ MffcInit

MffcNext ==
    \/ TopNext /\ UNCHANGED mffcVars
    \/ TopDone /\ MffcStep /\ UNCHANGED topVars

mffcAllVars == <<topVars, mffcVars>>

MffcSpec == MffcInitAll /\ [][MffcNext]_mffcAllVars /\ WF_mffcAllVars(MffcNext)

MffcDone == TopDone /\ TFIsDone /\ ~Walking /\ root = Len(sort_list)

\* The roots whose MFFC is final.
FinalRoots == IF Walking THEN 1 .. root - 1 ELSE 1 .. root

-----------------------------------------------------------------------------
(***************************************************************************)
(* Properties.                                                             *)
(***************************************************************************)
\* Types: the maps hold indices of sort_list.
MffcTypeOK ==
    /\ TFI_set \in Seq(SUBSET Indices) /\ MFFC_set \in Seq(SUBSET Indices)
    /\ Len(MFFC_set) = Len(TFI_set) /\ Len(TFI_set) <= Len(sort_list)
    /\ exited \in BOOLEAN
    /\ root \in 0 .. Len(sort_list)
    /\ cursor \in IF root = 0 THEN {0} ELSE {0} \cup TFI_set[root]
    /\ delete_list \subseteq Indices

\* The program never stops with "this innode is not in TFI_set": the order
\* topSort leaves is always one in which the fanins come first.
NeverExits == ~exited

\* S is a fanout-free cone of the k-th node: every fanout of another member is
\* a member.
FanoutFree(S, k) ==
    \A i \in S \ {k} : Fanouts(i) \subseteq {sort_list[j] : j \in S}

\* topSort sorted every node, which it does unless the network has a cycle
\* (LeftoverIsStuck of module TopSort).
AllSorted == Sorted = NodesOf(net)

\* A finished MFFC is fanout-free: apart from the root no member feeds a node
\* outside, so the cone can be cut out of the circuit at its root.
MffcFanoutFree ==
    AllSorted => \A r \in FinalRoots : r \in MFFC_set[r] /\ FanoutFree(MFFC_set[r], r)

\* It is the largest one: every fanout-free cone in the TFI of the root is
\* part of it.  The single downward walk misses nothing.
MffcMaximal ==
    AllSorted =>
        \A r \in FinalRoots : \A S \in SUBSET TFI_set[r] :
            FanoutFree(S, r) => S \subseteq MFFC_set[r]

\* While a root is walked, nothing ahead of the cursor that delete_list holds
\* can come back, and what is behind it and not in the list is settled: all
\* its fanouts are in the cone and stay out of the list.
WalkSettled ==
    (Walking /\ AllSorted) =>
        \A i \in TFI_set[root] \ (delete_list \cup {root}) :
            i > cursor => Fanouts(i) \subseteq
                              {sort_list[j] : j \in TFI_set[root] \ delete_list}

\* The two passes end, whatever the network.
MffcTerminates == <>(MffcDone \/ exited)
=============================================================================
