--------------------------- MODULE BranchAndBound ---------------------------
(***************************************************************************)
(* The approximation program main1: it searches the ways to split the      *)
(* inputs of the truth table into a left part (columns) and a right part   *)
(* (rows), recursively for the tables of the two parts, keeps at each node *)
(* the split that changes the fewest entries, and writes the chosen tree   *)
(* as a circuit of two-input tables, results/apprx_circuit.blif.           *)
(*                                                                         *)
(* MATLAB passes objects by value, so a node of the tree is a record, and  *)
(* the recursions of traverse_tree_branch_and_bound and of                 *)
(* traceBack_binaryTree are stacks of frames.                              *)
(***************************************************************************)
EXTENDS Kmap

CONSTANTS Tables   \* the truth tables the program may be given, [vars, on]

\* A table of two variables would be no more than a leaf.
ASSUME TablesAssumption ==
    \A t \in Tables :
       /\ IsFiniteSet(t.vars) /\ t.vars \subseteq Int /\ Cardinality(t.vars) > 2
       /\ t.on \subseteq SUBSET t.vars
       /\ \A a \in SUBSET t.vars : a # NoAssignment

VARIABLES
    input,    \* the truth table
    stack,    \* the activations of traverse_tree_branch_and_bound
    pc,       \* "search", "write", "done", or the step that failed
    tree,     \* the node the search returned for the root
    calls,    \* the activations of traceBack_binaryTree
    gates,    \* the gates written to apprx_circuit.blif, in order
    traced    \* the unit of the root, once all is written

vars == <<input, stack, pc, tree, calls, gates, traced>>
written == <<calls, gates, traced>>

\* The start value of error_bound, above any error over the variables V.
Infinity(V) == 2 ^ Cardinality(V) + 1

(***************************************************************************)
(* A node, as it is before it is visited: its chosen branch is empty.  It  *)
(* is a leaf if it has two variables at most, or by its parent's unit.     *)
(***************************************************************************)
Unchosen == [unit |-> NoUnit]

Node(V, table, parentLeaf) ==
    [vars |-> V, table |-> table, isLeaf |-> parentLeaf \/ Cardinality(V) <= 2,
     chosen |-> Unchosen]

\* build_tree_helper: the left parts by size, those of one size in the order
\* of nchoosek.
LeftParts(V) == (SUBSET V) \ {{}, V}

\* Mutant of Before: the larger parts first.
BeforeLargest(A, B) ==
    \/ Cardinality(A) > Cardinality(B)
    \/ Cardinality(A) = Cardinality(B) /\ Precedes(B, A)

Before(A, B) ==
    \/ Cardinality(A) < Cardinality(B)
    \/ Cardinality(A) = Cardinality(B) /\ Precedes(B, A)

NextPart(parts) == CHOOSE A \in parts : \A B \in parts \ {A} : Before(A, B)

Frame(node) ==
    [node |-> node, bound |-> Infinity(node.vars),
     todo |-> IF node.isLeaf THEN {} ELSE LeftParts(node.vars),
     at |-> "branch", unit |-> NoUnit, right |-> Unchosen, left |-> Unchosen]

Top == stack[Len(stack)]
Below == SubSeq(stack, 1, Len(stack) - 1)
Searching(at) == pc = "search" /\ stack # <<>> /\ Top.at = at

Init ==
    /\ input \in Tables
    /\ stack = <<Frame(Node(input.vars, input.on, FALSE))>>
    /\ pc = "search"
    /\ tree = Unchosen
    /\ calls = <<>>
    /\ gates = <<>>
    /\ traced = NoUnit

-----------------------------------------------------------------------------
(* traverse_tree_branch_and_bound: the loop over the branches.             *)

\* The next branch gets its unit.
Approximate ==
    /\ Searching("branch")
    /\ Top.todo # {}
    /\ LET left == NextPart(Top.todo)
       IN  stack' = Append(Below,
               [Top EXCEPT !.todo = @ \ {left}, !.at = "bound",
                           !.unit = Unit(Top.node.table, Top.node.vars \ left, left)])
    /\ UNCHANGED <<input, pc, tree, written>>

\* appx_error > error_bound: on to the branch after it.
Prune ==
    /\ Searching("bound")
    /\ Top.unit.error > Top.bound
    /\ stack' = Append(Below, [Top EXCEPT !.at = "branch"])
    /\ UNCHANGED <<input, pc, tree, written>>

\* The right child is visited first, with the table of the columns.
VisitRight ==
    /\ Searching("bound")
    /\ Top.unit.error <= Top.bound
    /\ stack' = Append(Append(Below, [Top EXCEPT !.at = "right"]),
                       Frame(Node(Top.unit.rows, Top.unit.right, Top.unit.isLeaf)))
    /\ UNCHANGED <<input, pc, tree, written>>

VisitLeft ==
    /\ Searching("left")
    /\ stack' = Append(stack, Frame(Node(Top.unit.cols, Top.unit.left, Top.unit.isLeaf)))
    /\ UNCHANGED <<input, pc, tree, written>>

\* The call for the top node returns it to the one below; the writing starts
\* with a call for the root, whose wire is the output.
Output == <<"f">>

Call(node, out) ==
    [node |-> node, out |-> out, at |-> "left", left |-> NoUnit, right |-> NoUnit]

Return ==
    /\ Searching("branch")
    /\ Top.todo = {}
    /\ IF Below = <<>>
       THEN /\ stack' = <<>>
            /\ tree' = Top.node
            /\ pc' = "write"
            /\ calls' = << Call(Top.node, Output) >>
       ELSE LET caller == Below[Len(Below)]
            IN  /\ stack' = [Below EXCEPT ![Len(Below)] =
                                IF caller.at = "right"
                                THEN [caller EXCEPT !.right = Top.node, !.at = "left"]
                                ELSE [caller EXCEPT !.left = Top.node, !.at = "trace"]]
                /\ UNCHANGED <<tree, pc, calls>>
    /\ UNCHANGED <<input, gates, traced>>

(***************************************************************************)
(* Both children are back: the vectors of their chosen units, as these are *)
(* before any tracing below them, go into the map, and the branch becomes  *)
(* the chosen one if the map then differs from the exact one in fewer      *)
(* entries than any before.  A unit without a map stops the program, as    *)
(* does one whose vectors make no two-input table.                         *)
(***************************************************************************)
TracedHere == Traced(Top.unit, Top.left.chosen.unit, Top.right.chosen.unit)
TracingFails == ~ Top.unit.hasMap \/ TraceFails(TracedHere)

\* Mutant of Trace: the last branch that is traced is chosen.
TraceChoosesLast ==
    /\ Searching("trace")
    /\ ~ TracingFails
    /\ stack' = Append(Below,
           [Top EXCEPT !.at = "branch", !.bound = Error(TracedHere.appx, Top.unit.kmap),
                       !.node.chosen = [unit |-> Top.unit, left |-> Top.left, right |-> Top.right]])
    /\ UNCHANGED <<input, pc, tree, written>>

Trace ==
    /\ Searching("trace")
    /\ ~ TracingFails
    /\ LET error == Error(TracedHere.appx, Top.unit.kmap)
           next == [Top EXCEPT !.at = "branch"]
           branch == [unit |-> Top.unit, left |-> Top.left, right |-> Top.right]
       IN  stack' = Append(Below,
                        IF error < Top.bound
                        THEN [next EXCEPT !.bound = error, !.node.chosen = branch]
                        ELSE next)
    /\ UNCHANGED <<input, pc, tree, written>>

TraceError ==
    /\ Searching("trace")
    /\ TracingFails
    /\ pc' = "search failed"
    /\ UNCHANGED <<input, stack, tree, written>>

-----------------------------------------------------------------------------
(* traceBack_binaryTree writes the chosen tree.  A name is f followed by   *)
(* the 1s (left) and 2s (right) that lead to its node, or an input xi.     *)

InputName(v) == <<"x", v>>

\* A part of one variable is fed by the input, any other by a wire.
PinName(V, wire) == IF Cardinality(V) = 1 THEN InputName(CHOOSE v \in V : TRUE) ELSE wire

Gate(unit, out, on) ==
    [left |-> PinName(unit.cols, Append(out, 1)), right |-> PinName(unit.rows, Append(out, 2)),
     out |-> out, on |-> on]

\* The entry of a vector that stands for a value: its first one, but for the
\* vector of one variable the assignment itself.
Representative(V, vec, bit) ==
    IF Cardinality(V) = 1 THEN IF bit = 1 THEN V ELSE {}
    ELSE First({a \in SUBSET V : a \in vec <=> bit = 1})

\* Mutant of TwoByTwo: the two middle rows of the table are swapped.
TwoByTwoSwapped(unit) ==
    IF unit.majCol = NoVec THEN {<<1, 0>>, <<1, 1>>}
    ELSE IF unit.majRow = NoVec THEN {<<0, 1>>, <<1, 1>>}
    ELSE {p \in (0 .. 1) \X (0 .. 1) :
             Representative(unit.cols, unit.majRow, p[2])
             \in unit.appx[Representative(unit.rows, unit.majCol, p[1])]}

\* set_boolean_expression_for_appx_kmap_2x2, the rows <<left, right>> with
\* output 1; with one vector only it copies the pin of the other.
TwoByTwo(unit) ==
    IF unit.majCol = NoVec THEN {<<1, 0>>, <<1, 1>>}
    ELSE IF unit.majRow = NoVec THEN {<<0, 1>>, <<1, 1>>}
    ELSE {p \in (0 .. 1) \X (0 .. 1) :
             Representative(unit.cols, unit.majRow, p[1])
             \in unit.appx[Representative(unit.rows, unit.majCol, p[2])]}

\* Mutant of LeafGate: the columns belong to the first variable.
LeafGateTransposed(node, out) ==
    LET unit == EmptyUnit({Min(node.vars)}, {Max(node.vars)})
        bits(l, r) == (IF l = 1 THEN unit.rows ELSE {}) \cup (IF r = 1 THEN unit.cols ELSE {})
    IN  Gate(unit, out, {p \in (0 .. 1) \X (0 .. 1) : bits(p[1], p[2]) \in node.table})

\* A leaf of two variables: the columns belong to the second one.
LeafGate(node, out) ==
    LET unit == EmptyUnit({Min(node.vars)}, {Max(node.vars)})
        bits(l, r) == (IF r = 1 THEN unit.rows ELSE {}) \cup (IF l = 1 THEN unit.cols ELSE {})
    IN  Gate(unit, out, {p \in (0 .. 1) \X (0 .. 1) : bits(p[1], p[2]) \in node.table})

Here == calls[Len(calls)]
Callers == SubSeq(calls, 1, Len(calls) - 1)
Writing(at) == pc = "write" /\ Here.at = at

\* A call returns the unit its caller is to trace with, that of the root is
\* kept.
ReturnUnit(unit) ==
    IF Callers = <<>>
    THEN /\ calls' = <<>>
         /\ traced' = unit
         /\ pc' = "done"
    ELSE LET caller == Callers[Len(Callers)]
         IN  /\ calls' = [Callers EXCEPT ![Len(Callers)] =
                             IF caller.at = "left"
                             THEN [caller EXCEPT !.left = unit, !.at = "right"]
                             ELSE [caller EXCEPT !.right = unit, !.at = "trace"]]
             /\ UNCHANGED <<traced, pc>>

\* A leaf of one variable is an input, one of two variables a gate.
WriteLeaf ==
    /\ Writing("left")
    /\ Here.node.isLeaf
    /\ \/ /\ Cardinality(Here.node.vars) # 2
          /\ ReturnUnit(NoUnit)
          /\ UNCHANGED gates
       \/ /\ Cardinality(Here.node.vars) = 2
          /\ Here.node.table # NoVec
          /\ ReturnUnit(NoUnit)
          /\ gates' = Append(gates, LeafGate(Here.node, Here.out))
    /\ UNCHANGED <<input, stack, tree>>

WriteLeft ==
    /\ Writing("left")
    /\ ~ Here.node.isLeaf
    /\ calls' = Append(calls, Call(Here.node.chosen.left, Append(Here.out, 1)))
    /\ UNCHANGED <<input, stack, pc, tree, gates, traced>>

WriteRight ==
    /\ Writing("right")
    /\ calls' = Append(calls, Call(Here.node.chosen.right, Append(Here.out, 2)))
    /\ UNCHANGED <<input, stack, pc, tree, gates, traced>>

\* Here, unlike in the search, the children are traced before their parent.
TracedUnit == Traced(Here.node.chosen.unit, Here.left, Here.right)

WriteGate ==
    /\ Writing("trace")
    /\ ~ TraceFails(TracedUnit)
    /\ ReturnUnit(TracedUnit)
    /\ gates' = Append(gates, Gate(TracedUnit, Here.out, TwoByTwo(TracedUnit)))
    /\ UNCHANGED <<input, stack, tree>>

\* A leaf without a table, or vectors that make no two-input table.
WriteError ==
    /\ \/ /\ Writing("left")
          /\ Here.node.isLeaf /\ Cardinality(Here.node.vars) = 2 /\ Here.node.table = NoVec
       \/ Writing("trace") /\ TraceFails(TracedUnit)
    /\ pc' = "write failed"
    /\ UNCHANGED <<input, stack, tree, written>>

Next ==
    \/ Approximate \/ Prune \/ VisitRight \/ VisitLeft \/ Return \/ Trace \/ TraceError
    \/ WriteLeaf \/ WriteLeft \/ WriteRight \/ WriteGate \/ WriteError

Spec == Init /\ [][Next]_vars

-----------------------------------------------------------------------------
(* Properties.                                                             *)

\* The variables the table depends on.
Support(table) ==
    {v \in table.vars : \E a \in SUBSET table.vars : (a \in table.on) # (SymDiff(a, {v}) \in table.on)}

(***************************************************************************)
(* For up to four inputs the search is stopped by an error only for a      *)
(* constant function and for a single literal, though at every node many   *)
(* splits would stop it: the branches tried before them leave a bound that *)
(* prunes them.                                                            *)
(***************************************************************************)
SearchFailsOnlyOnTrivialTables ==
    (pc = "search failed" /\ Cardinality(input.vars) <= 4) => Cardinality(Support(input)) <= 1

(***************************************************************************)
(* The circuit that is written drives every wire once, reads only inputs   *)
(* of the table and wires driven before, and computes the function the     *)
(* traced map of the root stands for, so that the error the program        *)
(* reports is that of the circuit: for all splits, one-variable parts,     *)
(* vectors in complemented form and gates that need only one of their      *)
(* pins.                                                                   *)
(***************************************************************************)
Wires == {gates[i].out : i \in DOMAIN gates}

PinValue(pin, wire, a) ==
    IF pin[1] = "x" THEN IF pin[2] \in a THEN 1 ELSE 0 ELSE wire[pin]

\* The values of the wires at which no gate changes its output.
Settled(a) ==
    {wire \in [Wires -> 0 .. 1] :
        \A i \in DOMAIN gates :
           wire[gates[i].out] = 1 <=>
               <<PinValue(gates[i].left, wire, a), PinValue(gates[i].right, wire, a)>> \in gates[i].on}

CircuitFunction ==
    {a \in SUBSET input.vars : \E wire \in Settled(a) : wire[Output] = 1}

CircuitComputesTable ==
    pc = "done" =>
        /\ Output \in Wires
        /\ \A i \in DOMAIN gates :
              /\ \A j \in DOMAIN gates \ {i} : gates[j].out # gates[i].out
              /\ \A pin \in {gates[i].left, gates[i].right} :
                    IF pin[1] = "x" THEN pin[2] \in input.vars
                    ELSE \E j \in 1 .. i - 1 : gates[j].out = pin
        /\ CircuitFunction = TableOf(traced.appx, traced.rows, traced.cols)

(***************************************************************************)
(* exact_error_bit_count, by which the search chooses, is the number of    *)
(* assignments at which the circuit it writes differs from the table,      *)
(* whenever the tree is flat: no child has a child that is split again.    *)
(* In deeper trees, which need five inputs, it may not be, because the     *)
(* search traces the children's maps as they are before anything is traced *)
(* into them.                                                              *)
(***************************************************************************)
Flat(node) ==
    \A child \in {node.chosen.left, node.chosen.right} :
        child.isLeaf \/ (child.chosen.left.isLeaf /\ child.chosen.right.isLeaf)

ChosenError ==
    Error(Traced(tree.chosen.unit, tree.chosen.left.chosen.unit,
                 tree.chosen.right.chosen.unit).appx, tree.chosen.unit.kmap)

ExactErrorIsExact ==
    (pc = "done" /\ Flat(tree)) => Distance(CircuitFunction, input.on) = ChosenError

(***************************************************************************)
(* A map that one kind of candidate can reproduce is not changed: its rows *)
(* are copies of one vector and of 0, of 1 or, if one of the two occurs    *)
(* more often, of its complement.  (If both occur equally often all the    *)
(* columns are tied, and the fast mode does not find the vector.)          *)
(***************************************************************************)
Decomposable(map, V) ==
    \E v \in {map[r] : r \in DOMAIN map} :
       \E other \in {Zeros, Ones(V), Complement(V, v)} :
          /\ \A r \in DOMAIN map : map[r] \in {v, other}
          /\ other = Complement(V, v) =>
                Cardinality({r \in DOMAIN map : map[r] = v}) # Cardinality({r \in DOMAIN map : map[r] = other})

KeepsDecomposableMaps ==
    \A i \in DOMAIN stack :
       LET unit == stack[i].unit
       IN  (unit.hasMap /\ Decomposable(unit.kmap, unit.cols)) => unit.appx = unit.kmap
=============================================================================
