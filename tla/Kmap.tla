-------------------------------- MODULE Kmap --------------------------------
(***************************************************************************)
(* One step of the approximation: a truth table is laid out as a map whose *)
(* rows belong to the assignments of one part of its variables and whose   *)
(* columns to those of the other part, and the map is replaced by a near   *)
(* one whose rows are copies of two vectors (kmap_class,                   *)
(* approximate_unit_class, approximation_core).                            *)
(*                                                                         *)
(* Variables are numbers.  An assignment is the set of the variables that  *)
(* are 1, a vector over some variables is the set of the assignments at    *)
(* which it is 1; neither depends on the order in which the code lists     *)
(* variables.  Assignments are ordered by the binary number they spell     *)
(* with the lowest variable first, as dec2bin enumerates them.             *)
(***************************************************************************)
EXTENDS Integers, FiniteSets, Sequences, FiniteSetsExt

CONSTANT NoAssignment   \* no assignment of any variables

\* The vector that is not set, and the table that is missing.
NoVec == {NoAssignment}

Zeros == {}
Ones(V) == SUBSET V
Complement(V, vec) == Ones(V) \ vec
Constant(V, vec) == vec \in {Zeros, Ones(V)}
Distance(v, w) == Cardinality(SymDiff(v, w))

Precedes(a, b) == a # b /\ Min(SymDiff(a, b)) \in b
First(S) == CHOOSE a \in S : \A b \in S \ {a} : Precedes(a, b)
LastOf(S) == CHOOSE a \in S : \A b \in S \ {a} : Precedes(b, a)

-----------------------------------------------------------------------------
(* Maps: a vector over the column variables for each assignment of the row *)
(* variables.                                                              *)

MapOf(table, rows, cols) ==
    [r \in SUBSET rows |-> {c \in SUBSET cols : r \cup c \in table}]

TableOf(map, rows, cols) ==
    {a \in SUBSET (rows \cup cols) : a \cap cols \in map[a \cap rows]}

Column(map, c) == {r \in DOMAIN map : c \in map[r]}

\* The number of entries in which two maps differ.
Differing(map1, map2) == UNION {{r} \X SymDiff(map1[r], map2[r]) : r \in DOMAIN map1}
Error(map1, map2) == Cardinality(Differing(map1, map2))

-----------------------------------------------------------------------------
(* find_best_approximate_kmap1 to 4 in the fast mode that main1 selects.   *)

(***************************************************************************)
(* The majority vector of some rows.  Of the tied columns all are taken as *)
(* 0, or all but the last: in fast mode dont_care_upper_bound is 1.  If no *)
(* row is left, these are not the code's vectors, but then all rows are 0  *)
(* or all are 1, and candidate 4 is exact and wins.                        *)
(***************************************************************************)
Majorities(map, rows, cols) ==
    LET ones(c) == Cardinality({r \in rows : c \in map[r]})
        maj == {c \in SUBSET cols : 2 * ones(c) > Cardinality(rows)}
        tied == {c \in SUBSET cols : 2 * ones(c) = Cardinality(rows)}
    IN  IF tied = {} THEN <<maj>> ELSE <<maj, maj \cup {LastOf(tied)}>>

RowsOtherThan(map, vec) == {r \in DOMAIN map : map[r] # vec}

\* Mutant of Candidates: the majority is that of all the rows, the constant
\* ones included.
CandidatesOfAllRows(map, cols) ==
    LET pair(v, w, maj) == [first |-> v, second |-> w, majRow |-> maj]
        all == Majorities(map, DOMAIN map, cols)
    IN  <<pair(Ones(cols), Zeros, NoVec)>>
        \o [i \in DOMAIN all |-> pair(Zeros, all[i], all[i])]
        \o [i \in DOMAIN all |-> pair(Ones(cols), all[i], all[i])]
        \o [i \in DOMAIN all |-> pair(all[i], Complement(cols, all[i]), all[i])]

\* The pairs of vectors to make a map of, and the majority vector each sets:
\* find_best_approximate_kmap4 comes first, since ties go to 4, 1, 2, 3.
Candidates(map, cols) ==
    LET pair(v, w, maj) == [first |-> v, second |-> w, majRow |-> maj]
        zero == Majorities(map, RowsOtherThan(map, Zeros), cols)
        one == Majorities(map, RowsOtherThan(map, Ones(cols)), cols)
        all == Majorities(map, DOMAIN map, cols)
    IN  <<pair(Ones(cols), Zeros, NoVec)>>
        \o [i \in DOMAIN zero |-> pair(Zeros, zero[i], zero[i])]
        \o [i \in DOMAIN one |-> pair(Ones(cols), one[i], one[i])]
        \o [i \in DOMAIN all |-> pair(all[i], Complement(cols, all[i]), all[i])]

\* The second vector takes the row unless the first is strictly nearer.
Nearer(row, first, second) ==
    IF Distance(row, first) < Distance(row, second) THEN first ELSE second

Applied(map, pair) == [r \in DOMAIN map |-> Nearer(map[r], pair.first, pair.second)]

\* approximation_core: the first candidate with the least error.
Best(map, cols) ==
    LET pairs == Candidates(map, cols)
        errors == [i \in DOMAIN pairs |-> Error(map, Applied(map, pairs[i]))]
        least == Min({errors[i] : i \in DOMAIN errors})
    IN  pairs[Min({i \in DOMAIN errors : errors[i] = least})]

-----------------------------------------------------------------------------
(* approximate_unit_class.                                                 *)

ConstantMap(map, cols) ==
    \/ \A r \in DOMAIN map : map[r] = Zeros
    \/ \A r \in DOMAIN map : map[r] = Ones(cols)

\* set_truthTable_by_oneRow_of_kmap and its twin for columns: the first that
\* is not constant becomes the table of the left (right) child.
UnevenRows(map, cols) == {r \in DOMAIN map : ~ Constant(cols, map[r])}
UnevenCols(map, rows, cols) == {c \in SUBSET cols : ~ Constant(rows, Column(map, c))}

(***************************************************************************)
(* set_approximate_unit.  Without a table (input_var_number = 0), and when *)
(* the approximated map is constant, the unit is a leaf; in the first case *)
(* it never gets a map.                                                    *)
(***************************************************************************)
EmptyUnit(rows, cols) ==
    [rows |-> rows, cols |-> cols, isLeaf |-> TRUE, hasMap |-> FALSE,
     kmap |-> <<>>, appx |-> <<>>, majRow |-> NoVec, majCol |-> NoVec,
     left |-> NoVec, right |-> NoVec, error |-> 0]

Unit(table, rows, cols) ==
    IF table = NoVec THEN EmptyUnit(rows, cols)
    ELSE LET kmap == MapOf(table, rows, cols)
             best == Best(kmap, cols)
             appx == Applied(kmap, best)
             row == IF UnevenRows(appx, cols) = {} THEN NoVec
                    ELSE appx[First(UnevenRows(appx, cols))]
             col == IF UnevenCols(appx, rows, cols) = {} THEN NoVec
                    ELSE Column(appx, First(UnevenCols(appx, rows, cols)))
         IN  [EmptyUnit(rows, cols) EXCEPT
                 !.isLeaf = ConstantMap(appx, cols), !.hasMap = TRUE,
                 !.kmap = kmap, !.appx = appx, !.error = Error(kmap, appx),
                 !.majRow = IF row = NoVec THEN best.majRow ELSE row,
                 !.majCol = col,
                 !.left = row,
                 !.right = col]

-----------------------------------------------------------------------------
(* traceBack_unit_class: what the children made of the two vectors is put  *)
(* back into the map, first into its rows, then into its columns.          *)

NoUnit == EmptyUnit({}, {})

Substituted(vec, old, new, V) ==
    IF vec = old THEN new
    ELSE IF old # NoVec /\ vec = Complement(V, old) THEN Complement(V, new) ELSE vec

WithLeft(unit, sub) ==
    IF sub.isLeaf THEN unit
    ELSE LET new == TableOf(sub.appx, sub.rows, sub.cols)
         IN  [unit EXCEPT
                 !.appx = [r \in DOMAIN @ |-> Substituted(@[r], unit.majRow, new, unit.cols)],
                 !.majRow = new]

WithRight(unit, sub) ==
    IF sub.isLeaf THEN unit
    ELSE LET new == TableOf(sub.appx, sub.rows, sub.cols)
             column(c) == Substituted(Column(unit.appx, c), unit.majCol, new, unit.rows)
         IN  [unit EXCEPT
                 !.appx = [r \in DOMAIN @ |-> {c \in SUBSET unit.cols : r \in column(c)}],
                 !.majCol = new]

Traced(unit, left, right) == WithRight(WithLeft(unit, left), right)

(***************************************************************************)
(* set_appx_kmap_2x2 stops with an error when neither vector was set, and  *)
(* when it indexes the first 0 or the first 1 of a vector without one: the *)
(* vectors of one variable are not searched if both are set.               *)
(***************************************************************************)
Searched(V, other) == other = NoVec \/ Cardinality(V) > 1

TraceFails(unit) ==
    \/ unit.majRow = NoVec /\ unit.majCol = NoVec
    \/ unit.majRow # NoVec /\ Searched(unit.cols, unit.majCol) /\ Constant(unit.cols, unit.majRow)
    \/ unit.majCol # NoVec /\ Searched(unit.rows, unit.majRow) /\ Constant(unit.rows, unit.majCol)
=============================================================================
