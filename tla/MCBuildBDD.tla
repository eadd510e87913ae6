---------------------------- MODULE MCBuildBDD ------------------------------
(***************************************************************************)
(* BuildBDD on networks of two inputs, a constant and three gates of two   *)
(* pins.  The tables are AND, XOR, a line that leaves one pin or both open *)
(* and the empty table; o may be reached again through a pin of g.         *)
(***************************************************************************)
EXTENDS BuildBDD

MCName == {"a", "b", "k", "g", "h", "o"}

Tables == { << <<"1", "1">> >>,
            << <<"1", "0">>, <<"0", "1">> >>,
            << <<"1", "-">>, <<"-", "0">> >>,
            << <<"-", "1">> >>,
            << <<"-", "-">> >>,
            << >> }

FewTables == { << <<"1", "0">>, <<"0", "1">> >>, << <<"1", "-">>, <<"-", "0">> >>,
               << <<"-", "1">> >> }

MkBdd(second, tg, th, to, tk, polarity, pis, outputs) ==
    LET type == [m \in MCName |-> CASE m \in {"a", "b"} -> "INPUT"
                                    [] m = "k" -> "CONSTANT"
                                    [] m = "g" -> "INTERNAL"
                                    [] m = "h" -> IF Len(outputs) = 2 THEN "OUTPUT" ELSE "INTERNAL"
                                    [] m = "o" -> "OUTPUT"]
        inputs == [m \in MCName |-> CASE m = "g" -> <<"a", second>>
                                      [] m = "h" -> <<"g", "b">>
                                      [] m = "o" -> <<"h", "g">>
                                      [] OTHER -> <<>>]
        table == [m \in MCName |-> CASE m = "g" -> tg [] m = "h" -> th
                                     [] m = "o" -> to [] m = "k" -> tk
                                     [] OTHER -> <<>>]
    IN  [nodes |-> <<"a", "b", "k", "g", "h", "o">>, type |-> type, inputs |-> inputs,
         table |-> table, polarity |-> polarity, pis |-> pis, outputs |-> outputs]

Polarities == {[m \in MCName |-> IF m \in S THEN 1 ELSE 0] :
                  S \in {{}, {"g", "o"}, {"h", "k"}}}

MCNetsBDD ==
    {MkBdd(s, tg, th, to, << <<>> >>, p, <<"b", "a">>, out) :
        s \in {"k", "o"}, tg \in Tables, th \in FewTables, to \in FewTables,
        p \in Polarities, out \in {<<"o">>, <<"o", "h">>, <<"b", "o">>}}
=============================================================================
