-------------------------------- MODULE Bnet --------------------------------
(***************************************************************************)
(* The Boolean network of head/bnet.h, as the passes over it see it: the   *)
(* linked list of nodes (nodes), and for each node its type, the names of  *)
(* its fanins (inputs, one entry per input pin, so a name may repeat) and  *)
(* the names of its fanouts (fanouts, one entry per pin driven).  A node   *)
(* is identified with its name: the symbol table net->hash, through which  *)
(* the code goes from a name to the one node that drives it, is the        *)
(* identity here.                                                          *)
(***************************************************************************)
EXTENDS Naturals, Sequences, FiniteSets

CONSTANT Name       \* the signal names that may occur in a BLIF file

NodeType == {"INPUT", "OUTPUT", "INTERNAL", "CONSTANT"}

\* The nodes of the list net->nodes.
NodesOf(net) == {net.nodes[i] : i \in DOMAIN net.nodes}

\* The positions of the sequence s at which x stands.
Pins(s, x) == {i \in DOMAIN s : s[i] = x}

(***************************************************************************)
(* What Bnet_ReadNetwork returns (module BnetRead checks that it does):    *)
(* no node occurs twice in the list, every fanin is driven, m is listed    *)
(* among the fanouts of n once for each pin of m that reads n, and a       *)
(* primary input reads nothing.                                            *)
(***************************************************************************)
DistinctNodes(net) ==
    \A i, j \in DOMAIN net.nodes : net.nodes[i] = net.nodes[j] => i = j

FanoutsMatchInputs(net) ==
    \A m, n \in NodesOf(net) :
        Cardinality(Pins(net.fanouts[n], m)) = Cardinality(Pins(net.inputs[m], n))

InputsReadNothing(net) ==
    \A n \in NodesOf(net) : net.type[n] = "INPUT" => net.inputs[n] = <<>>

WellFormed(net) ==
    /\ net.nodes \in Seq(Name)
    /\ net.type \in [NodesOf(net) -> NodeType]
    /\ net.inputs \in [NodesOf(net) -> Seq(NodesOf(net))]
    /\ net.fanouts \in [NodesOf(net) -> Seq(NodesOf(net))]
    /\ DistinctNodes(net)
    /\ FanoutsMatchInputs(net)
    /\ InputsReadNothing(net)

(***************************************************************************)
(* The nodes downstream of n: its readers, their readers, and so on, a     *)
(* recursive function of the number of steps.  Only properties use it.     *)
(***************************************************************************)
Readers(net, n) == {m \in NodesOf(net) : Pins(net.inputs[m], n) # {}}

Downstream(net, n) ==
    LET within[k \in Nat] ==
            IF k = 0 THEN Readers(net, n)
            ELSE LET near == within[k - 1]
                 IN  near \cup UNION {Readers(net, m) : m \in near}
    IN  within[Len(net.nodes)]

OnCycle(net) == {n \in NodesOf(net) : n \in Downstream(net, n)}
=============================================================================
