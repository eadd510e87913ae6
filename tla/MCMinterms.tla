----------------------------- MODULE MCMinterms -----------------------------
(***************************************************************************)
(* Minterms on the covers of up to two disjoint cubes over three inputs,   *)
(* below the line Cudd's caller prints first, with or without an empty     *)
(* line in between or at the end.                                          *)
(***************************************************************************)
EXTENDS Minterms

Cubes(n) == [1 .. n -> Bits \cup {"-"}]

Disjoint(c, d) == \E i \in DOMAIN c : {c[i], d[i]} = {"0", "1"}

MCFiles ==
    {<<Other>>}
    \cup {<<Other, c>> : c \in Cubes(2)}
    \cup {<<Other>> \o blank \o <<p[1], p[2]>> :
             p \in {q \in Cubes(3) \X Cubes(3) : Disjoint(q[1], q[2])},
             blank \in {<<>>, <<Other>>}}
    \cup {<<Other, p[1], Other, p[2], Other>> :
             p \in {q \in Cubes(2) \X Cubes(2) : Disjoint(q[1], q[2])}}
=============================================================================
