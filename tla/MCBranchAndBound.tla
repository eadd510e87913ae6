-------------------------- MODULE MCBranchAndBound --------------------------
(***************************************************************************)
(* BranchAndBound on every truth table of three inputs, on tables of four, *)
(* and on one of five.  A table is given by its f_vec, read as a binary    *)
(* number.                                                                 *)
(***************************************************************************)
EXTENDS ExhaustiveSearch

TableFrom(n, number) ==
    LET V == 1 .. n
        position(a) == MapThenSumSet(LAMBDA v : 2 ^ (n - v), a)
        bit(a) == (number \div 2 ^ (2 ^ n - 1 - position(a))) % 2
    IN  [vars |-> V, on |-> {a \in SUBSET V : bit(a) = 1}]

AllOfThree == {TableFrom(3, k) : k \in 0 .. 255}

\* The lower half of the table, for x1 = 0, is the parity of the rest.
HalfParity == {TableFrom(4, 150 * 256 + k) : k \in 0 .. 255}

\* Constants, literals, parities, products of parts, and others.
Selected ==
    {TableFrom(4, k) : k \in {0, 65535, 255, 3855, 13107, 21845, 43690, 27030, 38505, 60,
                              4680, 5911, 32767, 59624, 51966, 47806, 6699, 33153, 1911}}

\* Over x1 to x5, one number for x5 = 0 and one for x5 = 1.
OneOfFive == {[vars |-> 1 .. 5,
               on |-> TableFrom(4, 51261).on \cup {a \cup {5} : a \in TableFrom(4, 3420).on}]}

MCTables == AllOfThree \cup HalfParity \cup Selected \cup OneOfFive
=============================================================================
