-------------------------- MODULE MCFindCandidate --------------------------
(***************************************************************************)
(* The whole program find_candidate_MFFC:                                  *)
(*   - on every network of three nodes with up to two input pins, cycles,  *)
(*     self-loops and repeated pins included;                              *)
(*   - on every acyclic network of four nodes in every list order;         *)
(*   - on every acyclic network of five nodes in the reverse list order,   *)
(*     so that the queue has to reorder the list;                          *)
(*   - on the acyclic networks of four nodes whose sinks are primary       *)
(*     outputs and whose other gates may be;                               *)
(*   - on outputs with a cycle, and on two of the repository's benchmarks, *)
(*     c17 and the single-output rfile4.                                   *)
(* One to two input signals are admissible, the counterpart of 4 to 6 at   *)
(* this size.                                                              *)
(***************************************************************************)
EXTENDS FindCandidate, MCNets

MCName == 1 .. 11

MCDags(k) ==
    UNION {{WithOutputs(n, out \cup Sinks(n)) : out \in SUBSET (2 .. k)} :
              n \in DagNets(k, {[i \in 1 .. k |-> k + 1 - i]})}

\* 2 and 3 feed each other; 1 feeds them, or 4 behind them, or nothing else.
MCCyclic ==
    {WithOutputs(MkNet(<<1, 2, 3>>, w, PlainType(w)), {3}) :
        w \in {<< <<>>, <<1, 3>>, <<2>> >>, << <<>>, <<3>>, <<2>> >>}}

\* benchmarks/iscas85_bench/c17.bench: inputs 1, 2, 3, 6, 7 are 1 to 5 here and
\* gates 10, 11, 16, 19, 22, 23 are 6 to 11.
MCC17 ==
    LET w == [n \in 1 .. 11 |-> CASE n = 6 -> <<1, 3>> [] n = 7 -> <<3, 4>>
                                  [] n = 8 -> <<2, 7>> [] n = 9 -> <<7, 5>>
                                  [] n = 10 -> <<6, 8>> [] n = 11 -> <<8, 9>>
                                  [] OTHER -> <<>>]
    IN  WithOutputs(MkNet([i \in 1 .. 11 |-> i], w, PlainType(w)), {10, 11})

\* benchmarks/rfile4.blif: i0 to i3 are 1 to 4, n6, n7, n8 and f are 5 to 8.
MCRfile4 ==
    LET w == [n \in 1 .. 8 |-> CASE n = 5 -> <<3, 4>> [] n = 6 -> <<3, 5>>
                                 [] n = 7 -> <<2, 6>> [] n = 8 -> <<1, 7>>
                                 [] OTHER -> <<>>]
    IN  WithOutputs(MkNet([i \in 1 .. 8 |-> i], w, PlainType(w)), {8})

MCNetworks ==
    AnyNets(1 .. 3, 2)
    \cup DagNets(4, Orders(1 .. 4)) \cup DagNets(5, {<<5, 4, 3, 2, 1>>})
    \cup MCDags(4) \cup MCCyclic \cup {MCC17, MCRfile4}
=============================================================================
