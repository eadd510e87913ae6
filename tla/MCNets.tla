------------------------------- MODULE MCNets -------------------------------
(***************************************************************************)
(* Families of small networks for the model-checking modules.  A network   *)
(* is built from a node order and the inputs of each node; the fanout      *)
(* lists are filled as Bnet_ReadNetwork fills them, one entry per input    *)
(* pin in the order of the .names directives.                              *)
(***************************************************************************)
EXTENDS Naturals, Sequences, FiniteSets
LOCAL INSTANCE SequencesExt

Positions(s, x) == {i \in DOMAIN s : s[i] = x}

FanoutList(order, inputs, n) ==
    FlattenSeq([i \in DOMAIN order |->
                   [p \in 1 .. Cardinality(Positions(inputs[order[i]], n)) |-> order[i]]])

MkNet(order, inputs, type) ==
    [nodes   |-> order,
     type    |-> type,
     inputs  |-> inputs,
     fanouts |-> [n \in DOMAIN inputs |-> FanoutList(order, inputs, n)]]

\* The type a node gets when it is no primary output: .inputs or .names.
PlainType(inputs) ==
    [n \in DOMAIN inputs |-> IF inputs[n] = <<>> THEN "INPUT" ELSE "INTERNAL"]

Orders(S) == {o \in [1 .. Cardinality(S) -> S] : \A n \in S : \E i \in DOMAIN o : o[i] = n}

\* Every way to give each node of S up to k input pins: cycles, self-loops and
\* repeated pins included.  One node order is enough: the wirings are closed
\* under renaming of the nodes.
AnyWiring(S, k) == [S -> UNION {[1 .. i -> S] : i \in 0 .. k}]

AnyNets(S, k) ==
    LET order == CHOOSE o \in Orders(S) : TRUE
    IN  {MkNet(order, w, PlainType(w)) : w \in AnyWiring(S, k)}

\* The acyclic wirings of 1..n in which a node reads a set of smaller nodes.
DagWiring(n) ==
    {w \in [1 .. n -> {SetToSortSeq(T, LAMBDA x, y : x < y) : T \in SUBSET (1 .. n - 1)}] :
        \A m \in 1 .. n : \A i \in DOMAIN w[m] : w[m][i] < m}

\* Those networks, with the node list in each of the given orders.
DagNets(n, orders) == {MkNet(o, w, PlainType(w)) : o \in orders, w \in DagWiring(n)}

\* The type a .names node gets when the .outputs line lists the set out.
WithOutputs(n, out) ==
    [n EXCEPT !.type = [m \in DOMAIN n.type |->
        IF n.type[m] = "INTERNAL" /\ m \in out THEN "OUTPUT" ELSE n.type[m]]]

Sinks(n) == {m \in DOMAIN n.inputs : n.fanouts[m] = <<>>}
=============================================================================
