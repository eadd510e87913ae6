-------------------------- MODULE ExhaustiveSearch --------------------------
(***************************************************************************)
(* What the branch and bound of module BranchAndBound is measured against: *)
(* every split tried at every node.                                        *)
(***************************************************************************)
EXTENDS BranchAndBound

(***************************************************************************)
(* Pruning loses nothing on up to four inputs: the tree that was chosen    *)
(* has the error of the tree that trying every split at every node would   *)
(* choose.  Tried are all the splits that do not stop the program.         *)
(***************************************************************************)
Judged(branch, unit) ==
    [branch EXCEPT
        !.fails = ~ branch.unit.hasMap \/ TraceFails(unit),
        !.error = Error(unit.appx, branch.unit.kmap)]

TracedBranch(branch) == Traced(branch.unit, branch.left.chosen.unit, branch.right.chosen.unit)

\* Of the branches that do not fail, the first of those with the least error.
Chosen(node, branches) ==
    IF branches = {} THEN node
    ELSE [node EXCEPT !.chosen =
             CHOOSE b \in branches : \A c \in branches \ {b} :
                 b.error < c.error \/ (b.error = c.error /\ Before(b.unit.cols, c.unit.cols))]

RECURSIVE BestNode(_), Tried(_)
Tried(unit) ==
    LET branch == [unit |-> unit, fails |-> FALSE, error |-> 0,
                   left |-> BestNode(Node(unit.cols, unit.left, unit.isLeaf)),
                   right |-> BestNode(Node(unit.rows, unit.right, unit.isLeaf))]
    IN  Judged(branch, TracedBranch(branch))

BestNode(node) ==
    IF node.isLeaf THEN node
    ELSE Chosen(node, {b \in {Tried(Unit(node.table, node.vars \ left, left)) : left \in LeftParts(node.vars)} :
                          ~ b.fails})

PruningLosesNothing ==
    (pc \in {"done", "write failed"} /\ Cardinality(input.vars) <= 4) =>
        ChosenError = BestNode(Node(input.vars, input.on, FALSE)).chosen.error
=============================================================================
