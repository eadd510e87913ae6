---------------------------- MODULE Resynthesis ----------------------------
(***************************************************************************)
(* new_apprx_ckt_synthesizer.pl and reprint_helper.pl, which run after     *)
(* get_restPart_of_a_ckt.pl: the approximate cone that MATLAB printed gets *)
(* the names of the candidate's signals, and is put behind the rest of the *)
(* circuit.                                                                *)
(*                                                                         *)
(* MATLAB prints a tree of two-input gates over x1, .., xk.  The wires are *)
(* called f, f_1, f_2, f_1_1, ..: the path of the gate in the tree.  Its   *)
(* rows pass through both scripts as they are and are left out.  No name   *)
(* of the circuit has f_, x1, model, inputs, outputs or end in it, which   *)
(* the scripts would take for their own.                                   *)
(***************************************************************************)
EXTENDS RestPart

CONSTANT None       \* no entry in hash_internal_node_names: an empty string

ASSUME NoneIsNoName == None \notin Name

\* approximation_main.pl gives 4 and 6: an approximate cone has variables.
ASSUME ConesHaveInputs == num_input_min \in Nat \ {0} /\ num_input_max \in Nat

VARIABLES
    apprx,                      \* the lines of apprx_circuit_matlab.blif
    hash_internal_node_names,   \* inner wire -> name of an inner signal
    modified,                   \* lines of the renamed cone
    merged                      \* lines of the new circuit

synVars == <<apprx, hash_internal_node_names, modified, merged>>

-----------------------------------------------------------------------------
Var(i) == [var |-> i]
Wire(path) == [path |-> path]
IsVar(w) == "var" \in DOMAIN w
IsInner(w) == ~IsVar(w) /\ w.path # <<>>        \* its name has f_ in it

\* The lines of a subtree: the side goes in front of its paths, and its
\* variables come behind those of the trees on its left.
Moved(lines, side, shift) ==
    LET at(w) == IF IsVar(w) THEN Var(w.var + shift) ELSE Wire(<<side>> \o w.path)
    IN  [i \in DOMAIN lines |-> [left  |-> at(lines[i].left),
                                 right |-> at(lines[i].right),
                                 out   |-> at(lines[i].out)]]

\* What traceBack_binaryTree may print for k variables: each gate after those
\* of its subtrees.  A single variable is no gate.  Which variables go left is
\* up to the search before it; that they are numbered from left to right here
\* leaves out only their order.
TraceBack ==
    LET Root(i, k) == [left  |-> IF i = 1 THEN Var(1) ELSE Wire(<<1>>),
                       right |-> IF i = k - 1 THEN Var(k) ELSE Wire(<<2>>),
                       out   |-> Wire(<<>>)]
        trees[k \in 1 .. num_input_max] ==
            IF k = 1 THEN {<<>>}
            ELSE UNION {{Moved(a, 1, 0) \o Moved(b, 2, i) \o <<Root(i, k)>> :
                            a \in trees[i], b \in trees[k - i]} : i \in 1 .. k - 1}
    IN  trees

-----------------------------------------------------------------------------
\* The elements of s that are not in the set S, in their order: what grep and
\* the loops of the scripts leave of an array.
Without(s, S) == FlattenSeq([i \in DOMAIN s |-> IF s[i] \in S THEN <<>> ELSE <<s[i]>>])

\* get_array_with_unique_elements: the first occurrence of each element.
Unique(s) ==
    FlattenSeq([i \in DOMAIN s |-> IF \E j \in 1 .. i - 1 : s[j] = s[i] THEN <<>> ELSE <<s[i]>>])

\* The f_ names, line by line from left to right.
OnLines(lines) ==
    FlattenSeq([i \in DOMAIN lines |-> <<lines[i].left, lines[i].right, lines[i].out>>])
InnerWires(lines) ==
    Unique(Without(OnLines(lines), {w \in Range(OnLines(lines)) : ~IsInner(w)}))

\* The names on the .names lines of the candidate.
NamesOn(c) == FlattenSeq([i \in DOMAIN c.gates |-> Append(net.inputs[c.gates[i]], c.gates[i])])

\* Mutant of InternalNames: the inputs and the output are not taken out.
AllNames(c) == Unique(NamesOn(c))

\* They without the candidate's inputs and output.
InternalNames(c) == Without(Unique(NamesOn(c)), Range(c.inputs) \cup {c.output})

\* Mutant of HashFor: the first internal name is passed over.
HashForNext(lines) ==
    LET wires == InnerWires(lines)
        names == InternalNames(candidate)
        at(w) == 1 + CHOOSE i \in DOMAIN wires : wires[i] = w
    IN  [w \in Range(wires) |-> IF at(w) \in DOMAIN names THEN names[at(w)] ELSE None]

\* The i-th f_ name stands for the i-th internal name, if there are so many.
HashFor(lines) ==
    LET wires == InnerWires(lines)
        names == InternalNames(candidate)
        at(w) == CHOOSE i \in DOMAIN wires : wires[i] = w
    IN  [w \in Range(wires) |-> IF at(w) \in DOMAIN names THEN names[at(w)] ELSE None]

SynInit ==
    /\ apprx = <<>>
    /\ hash_internal_node_names = [w \in {} |-> None]
    /\ modified = <<>>
    /\ merged = <<>>

\* MATLAB has run.
BuildHash ==
    /\ RestDone /\ apprx = <<>>
    /\ \E tree \in TraceBack[Len(candidate.inputs)] :
          /\ apprx' = tree
          /\ hash_internal_node_names' = HashFor(tree)
    /\ UNCHANGED <<modified, merged>>

NameOf(w) ==
    IF IsVar(w) THEN candidate.inputs[w.var]
    ELSE IF IsInner(w) THEN hash_internal_node_names[w] ELSE candidate.output

\* A line with a variable becomes a .names line; an absent name leaves nothing
\* on it.  A line without one is printed as it is, without the word .names.
Renamed(l) ==
    LET names == Without(<<NameOf(l.left), NameOf(l.right), NameOf(l.out)>>, {None})
    IN  IF IsVar(l.left) \/ IsVar(l.right)
        THEN NamesLine(Front(names), Last(names)) ELSE [kind |-> "bare"]

\* Mutant of Rename: the loop drops the last line.
RenameButLast ==
    /\ RestDone /\ apprx # <<>> /\ merged = <<>> /\ Len(modified) < Len(apprx)
    /\ modified' = Append(modified, IF Len(modified) + 1 = Len(apprx) THEN [kind |-> "bare"]
                                    ELSE Renamed(apprx[Len(modified) + 1]))
    /\ UNCHANGED <<apprx, hash_internal_node_names, merged>>

Rename ==
    /\ RestDone /\ apprx # <<>> /\ merged = <<>> /\ Len(modified) < Len(apprx)
    /\ modified' = Append(modified, Renamed(apprx[Len(modified) + 1]))
    /\ UNCHANGED <<apprx, hash_internal_node_names, merged>>

\* Mutant of Merge: the .end of the rest stays.
MergeAfterEnd ==
    /\ RestDone /\ apprx # <<>> /\ merged = <<>> /\ Len(modified) = Len(apprx)
    /\ merged' = rest \o modified \o <<EndLine>>
    /\ UNCHANGED <<apprx, hash_internal_node_names, modified>>

\* reprint_helper.pl: both files without .end, the rest first, then .end.
Merge ==
    /\ RestDone /\ apprx # <<>> /\ merged = <<>> /\ Len(modified) = Len(apprx)
    /\ merged' = Without(rest, {EndLine}) \o modified \o <<EndLine>>
    /\ UNCHANGED <<apprx, hash_internal_node_names, modified>>

\* The scripts one after the other.
SynInitAll == RestInit /\ SynInit

SynNext ==
    \/ RestNext /\ UNCHANGED synVars
    \/ (BuildHash \/ Rename \/ Merge) /\ UNCHANGED restVars

synAllVars == <<restVars, synVars>>

SynSpec == SynInitAll /\ [][SynNext]_synAllVars

-----------------------------------------------------------------------------
(***************************************************************************)
(* Properties.                                                             *)
(***************************************************************************)
\* The gates Bnet_ReadNetwork finds in the new circuit: those before .end.
Read == LET ends == {i \in DOMAIN merged : merged[i] = EndLine}
        IN  {i \in DOMAIN merged : merged[i].kind = "names" /\ \A e \in ends : i < e}

Driven == {merged[i].out : i \in Read}
PrimaryInputs == NodesOf(net) \ Gates

\* The candidate has no gate of more than two pins.
TwoPins == \A n \in Cone : Len(net.inputs[n]) <= 2

EveryWireNamed == None \notin Range(hash_internal_node_names)

\* No line of the candidate has brackets on it.
AllLiteral == \A n \in Cone : Range(net.inputs[n]) \cup {n} \subseteq Literal

\* Every line of the approximate cone reads a variable.
EveryLineReadsVar == \A l \in Range(apprx) : IsVar(l.left) \/ IsVar(l.right)

\* A candidate of two-pin gates always has an internal name for every f_ name:
\* no name comes out empty, which would turn an input of the gate into its
\* output.
TwoPinsNameEveryWire == TwoPins => EveryWireNamed

\* The new circuit drives no signal twice, and no primary input.
DrivenOnce ==
    (merged # <<>> /\ AllLiteral /\ EveryWireNamed) =>
        /\ \A i, j \in Read : merged[i].out = merged[j].out => i = j
        /\ Driven \cap PrimaryInputs = {}

\* It drives every signal it reads.  A gate with brackets on its line stays and
\* may read one that was taken out.
PinsDriven ==
    (merged # <<>> /\ AllLiteral /\ EveryWireNamed /\ EveryLineReadsVar) =>
        \A i \in Read : Range(merged[i].pins) \subseteq Driven \cup PrimaryInputs

\* And every primary output, but those that are inner nodes of the candidate:
\* such an output is lost, or drives what the inner wire that took its name
\* computes.
OutputsSurvive ==
    (merged # <<>> /\ EveryWireNamed /\ EveryLineReadsVar) =>
        \A n \in Gates \ (Cone \ {candidate.output}) : n \in Driven

\* The new circuit, as Bnet_ReadNetwork finds it.
NewNet ==
    [nodes  |-> net.nodes,
     inputs |-> [n \in NodesOf(net) |->
                    IF n \in Driven THEN merged[CHOOSE i \in Read : merged[i].out = n].pins
                    ELSE <<>>]]

\* It has no cycle if the circuit had none, although inner wires take the names
\* of gates of the candidate in any order.
NoCycle ==
    (merged # <<>> /\ OnCycle(net) = {} /\ AllLiteral /\ EveryWireNamed) =>
        OnCycle(NewNet) = {}
=============================================================================
