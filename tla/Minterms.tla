------------------------------ MODULE Minterms ------------------------------
(***************************************************************************)
(* The two scripts that read the cover Cudd_PrintMinterm printed:          *)
(*   - minterms2truthTable_parser.pl writes the truth table f_vec that the *)
(*     MATLAB program reads;                                               *)
(*   - count_minterms.pl counts the minterms of the cover.                 *)
(* A cube is the sequence of its columns; any other line of the file, the  *)
(* leading "total time" line first of all, is the model value Other.       *)
(***************************************************************************)
EXTENDS Naturals, Sequences, FiniteSets, SequencesExt

CONSTANTS CoverFiles,   \* the files the scripts may be given
          Other         \* a line that is no cube

Bits == {"0", "1"}
CubeLines(lines) == {i \in DOMAIN lines : lines[i] # Other}

\* Cudd prints every variable of the manager in every cube; above the cubes
\* its caller prints the time.
ASSUME CoverFilesAssumption ==
    \A lines \in CoverFiles :
       /\ lines \in Seq({Other} \cup Seq(Bits \cup {"-"})) /\ lines # <<>>
       /\ \A i, j \in CubeLines(lines) : lines[i] # <<>> /\ Len(lines[i]) = Len(lines[j])

VARIABLES
    script,     \* the script that runs, "table" or "count"
    file,       \* the lines of the file
    unread,     \* the lines not read yet
    minterm,    \* $minterm, the empty sequence while undefined
    at,         \* "line", "call" and "call all" within subroutine, or "done"
    pending,    \* the arguments of the calls of subroutine still to be made
    returned,   \* what the calls made so far returned
    results,    \* @results
    written     \* what the script has written

mtVars == <<script, file, unread, minterm, at, pending, returned, results, written>>

MTInit ==
    /\ script \in {"table", "count"}
    /\ file \in CoverFiles
    /\ unread = file
    /\ minterm = <<>>
    /\ at = "line"
    /\ pending = <<>>
    /\ returned = <<>>
    /\ results = <<>>
    /\ written = <<>>

(***************************************************************************)
(* sub subroutine.  Its first array takes every argument, so that args is  *)
(* the columns of a cube followed by whatever results were passed; each is *)
(* a string, here a sequence of characters.  The first argument with a '-' *)
(* in it becomes "0" for one call and "1" for another, and what the two    *)
(* return is returned; without a '-' the arguments are joined.             *)
(***************************************************************************)
Dashed(args) == {i \in DOMAIN args : Contains(args[i], "-")}
FirstDashed(args) == CHOOSE i \in Dashed(args) : \A j \in Dashed(args) : i <= j
Becomes(args, bit) == [args EXCEPT ![FirstDashed(args)] = <<bit>>]

Called(args) ==
    /\ pending' = <<args>>
    /\ returned' = <<>>

CallTwice ==
    /\ pending # <<>>
    /\ Dashed(Head(pending)) # {}
    /\ pending' = << Becomes(Head(pending), "0"), Becomes(Head(pending), "1") >> \o Tail(pending)
    /\ UNCHANGED <<script, file, unread, minterm, at, returned, results, written>>

ReturnJoined ==
    /\ pending # <<>>
    /\ Dashed(Head(pending)) = {}
    /\ pending' = Tail(pending)
    /\ returned' = Append(returned, FlattenSeq(Head(pending)))
    /\ UNCHANGED <<script, file, unread, minterm, at, results, written>>

-----------------------------------------------------------------------------
(* The lines of the file.                                                  *)

\* split(//, $minterm)
Split(cube) == [i \in DOMAIN cube |-> <<cube[i]>>]

\* A line that is no cube leaves $minterm as it was.
Current == IF Head(unread) = Other THEN minterm ELSE Head(unread)

\* count_minterms.pl passes the results so far along with the cube.
Line ==
    /\ at = "line" /\ unread # <<>>
    /\ minterm' = Current
    /\ unread' = Tail(unread)
    /\ Called(IF script = "table" THEN Split(Current) ELSE Split(Current) \o results)
    /\ at' = "call"
    /\ UNCHANGED <<script, file, results, written>>

\* Mutant of LineResults: the results of all lines are collected.
AllResults == results \o returned

\* Only the parser for the table adds to the results of the lines before.
LineResults == IF script = "table" THEN results \o returned ELSE returned

LineDone ==
    /\ at = "call" /\ pending = <<>>
    /\ results' = LineResults
    /\ at' = "line"
    /\ UNCHANGED <<script, file, unread, minterm, pending, returned, written>>

-----------------------------------------------------------------------------
(* The ends of the scripts.                                                *)

\* Every minterm of the width of the last cube.
CallAll ==
    /\ at = "line" /\ unread = <<>> /\ script = "table"
    /\ Called([i \in DOMAIN minterm |-> <<"-">>])
    /\ at' = "call all"
    /\ UNCHANGED <<script, file, unread, minterm, results, written>>

Write(output) ==
    /\ written' = output
    /\ at' = "done"
    /\ UNCHANGED <<script, file, unread, minterm, pending, returned, results>>

\* Mutant of WriteTable: the minterms are listed from the first to the last.
WriteTableForward ==
    /\ at = "call all" /\ pending = <<>>
    /\ Write([k \in DOMAIN returned |-> IF Contains(results, returned[k]) THEN 1 ELSE 0])

\* The minterms are listed from the last to the first.
WriteTable ==
    /\ at = "call all" /\ pending = <<>>
    /\ Write([k \in DOMAIN returned |-> IF Contains(results, Reverse(returned)[k]) THEN 1 ELSE 0])

WriteCount ==
    /\ at = "line" /\ unread = <<>> /\ script = "count"
    /\ Write(<<2 ^ Len(minterm), Len(results)>>)

MTNext == Line \/ CallTwice \/ ReturnJoined \/ LineDone \/ CallAll \/ WriteTable \/ WriteCount

MTSpec == MTInit /\ [][MTNext]_mtVars

-----------------------------------------------------------------------------
(* How the MATLAB program reads f_vec (init_truthTable): with n inputs,    *)
(* entry k belongs to the assignment that is k - 1 in binary, x1 first.    *)

\* The bit of x_i in row k of x_matrix.
RowBit(n, k, i) == ((k - 1) \div 2 ^ (n - i)) % 2
Row(n, k) == [i \in 1 .. n |-> IF RowBit(n, k, i) = 1 THEN "1" ELSE "0"]

-----------------------------------------------------------------------------
(* Properties.                                                             *)

LastCube == file[CHOOSE i \in CubeLines(file) : \A j \in CubeLines(file) : j <= i]

Rows(n) == [1 .. n -> Bits]
Covers(cube, row) == \A i \in DOMAIN cube : cube[i] \in {"-", row[i]}
OnSet(row) == \E i \in CubeLines(file) : Covers(file[i], row)

\* A row that is a smaller binary number than another.
Smaller(row, other) ==
    \E i \in DOMAIN row :
       row[i] = "0" /\ other[i] = "1" /\ \A j \in 1 .. i - 1 : row[j] = other[j]

(***************************************************************************)
(* The table the parser writes has an entry for each assignment of the     *)
(* inputs, in the order from all ones down to all zeros, and it is 1       *)
(* exactly where the printed cover is: also though every line that is no   *)
(* cube expands the cube before it once more.  A cover without cubes gives *)
(* the table <<1>>.                                                        *)
(***************************************************************************)
TableListsCover ==
    (script = "table" /\ at = "done") =>
        IF CubeLines(file) = {} THEN written = <<1>>
        ELSE LET rows == Rows(Len(LastCube))
                 Place(row) == Cardinality({other \in rows : ~ Smaller(other, row)})
             IN  /\ Len(written) = Cardinality(rows)
                 /\ \A row \in rows : written[Place(row)] = IF OnSet(row) THEN 1 ELSE 0

(***************************************************************************)
(* The function the MATLAB program reads is the function whose cover was   *)
(* printed: entry k, counted from the left, is the value at row k of       *)
(* x_matrix, whose first row is all zeros.                                 *)
(***************************************************************************)
ReaderSeesFunction ==
    (script = "table" /\ at = "done" /\ CubeLines(file) # {}) =>
        \A k \in DOMAIN written : written[k] = 1 <=> OnSet(Row(Len(minterm), k))

(***************************************************************************)
(* What count_minterms.pl prints as "minterm count" is the number of       *)
(* minterms of the last cube, however many cubes and other lines there     *)
(* were: the results of the lines before it are expanded as part of the    *)
(* cube and so make no result of their own.  The count is right for a      *)
(* cover of one cube and too small for any other.                          *)
(***************************************************************************)
CountsLastCube ==
    (script = "count" /\ at = "done" /\ CubeLines(file) # {}) =>
        LET rows == Rows(Len(LastCube))
        IN  written = <<Cardinality(rows), Cardinality({row \in rows : Covers(LastCube, row)})>>
=============================================================================
