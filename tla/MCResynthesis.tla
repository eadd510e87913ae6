--------------------------- MODULE MCResynthesis ---------------------------
(***************************************************************************)
(* Cutting and replacing the cone in all acyclic circuits of five nodes    *)
(* with outputs at the sinks and possibly at node 3 or 4, and in four of   *)
(* two-pin gates: a chain of three whose inputs nothing else reads and an  *)
(* exclusive-or of four whose inputs are read elsewhere too, each with and *)
(* without an output inside.  Node 3 stands for a name with brackets.      *)
(***************************************************************************)
EXTENDS Resynthesis, MCNets

MCName == 1 .. 10
MCLiteral == MCName \ {3}
MCTables == {<<"digits">>, <<"digits", "other">>}

MCDags ==
    UNION {{WithOutputs(n, out \cup Sinks(n)) : out \in SUBSET {3, 4}} :
              n \in DagNets(5, {<<1, 2, 3, 4, 5>>})}

\* A circuit of k nodes from the inputs of its gates, outputs at the sinks and
\* at the nodes of the set out.
Small(k, w, out) ==
    LET inputs == [n \in 1 .. k |-> IF n \in DOMAIN w THEN w[n] ELSE <<>>]
        n == MkNet([i \in 1 .. k |-> i], inputs, PlainType(inputs))
    IN  WithOutputs(n, out \cup Sinks(n))

\* The root of the cone is node 4 and node 10 reads it.
MCLarge ==
    {Small(10, 1 :> <<5, 6>> @@ 2 :> <<1, 7>> @@ 4 :> <<2, 8>> @@ 10 :> <<4, 9>>, out) :
        out \in {{}, {2}}}
    \cup
    {Small(10, 1 :> <<5, 6>> @@ 2 :> <<1, 5>> @@ 7 :> <<1, 6>> @@ 4 :> <<2, 7>> @@ 10 :> <<4, 5, 6>>, out) :
        out \in {{}, {2}}}

MCCircuits == MCDags \cup MCLarge
=============================================================================
