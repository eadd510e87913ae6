------------------------------ MODULE RestPart ------------------------------
(***************************************************************************)
(* get_restPart_of_a_ckt.pl: the circuit without the candidate.  Both are  *)
(* BLIF files and the script works on lines of text: it prints each .names *)
(* line that is no line of the candidate file, with the rows behind it,    *)
(* and every other line.                                                   *)
(*                                                                         *)
(* A file is a sequence of lines: .names lines with the names on them      *)
(* (the gate last), rows, which carry the gate they were written for, and  *)
(* .end; .model, .inputs and .outputs pass through and are left out.  Both *)
(* files write .names lines alike, with single blanks, and no two names    *)
(* differ in case only, so a line is found by the names on it.             *)
(***************************************************************************)
EXTENDS Bnet, SequencesExt

CONSTANTS
    Circuits,           \* the circuits main may read
    Tables,             \* the tables a gate may have: sequences of row shapes
    Literal,            \* the names that, as a pattern, match themselves
    num_input_min, num_input_max

ASSUME CircuitsWellFormed == \A c \in Circuits : WellFormed(c)
ASSUME TableShapes == \A t \in Tables : t \in Seq({"digits", "other"})
ASSUME LiteralNames == Literal \subseteq Name

VARIABLES
    net,                \* the circuit
    candidate,          \* the candidate file: inputs, output, gates as written
    file,               \* the lines of the circuit
    line,               \* those passed
    enable_print_cover,
    rest                \* lines printed

restVars == <<net, candidate, file, line, enable_print_cover, rest>>

-----------------------------------------------------------------------------
(***************************************************************************)
(* What main leaves in the candidate file, by what modules GetMFFC and     *)
(* FindCandidate show of it: the maximum fanout-free cone of a node that   *)
(* is no output, with an admissible number of inputs and a saving.  The    *)
(* gates stand in the order of the addresses of their names; so do the     *)
(* inputs, where the order makes no difference here.                       *)
(***************************************************************************)
Gates == {n \in NodesOf(net) : net.type[n] # "INPUT"}

TFI(r) == {r} \cup {n \in NodesOf(net) : r \in Downstream(net, n)}

MFFC(r) ==
    UNION {S \in SUBSET TFI(r) :
              r \in S /\ \A n \in S \ {r} : Range(net.fanouts[n]) \subseteq S}

InSig(cone) ==
    {m \in UNION {Range(net.inputs[n]) : n \in cone} :
        net.type[m] = "INPUT" \/ m \notin cone}

Chosen(r) ==
    LET k == Cardinality(InSig(MFFC(r)))
    IN  /\ net.type[r] # "OUTPUT"
        /\ Cardinality(MFFC(r)) > 1
        /\ k \in num_input_min .. num_input_max
        /\ Cardinality(MFFC(r)) > k - 1

Candidates ==
    UNION {{[inputs |-> SetToSeq(InSig(MFFC(r))), output |-> r, gates |-> gs] :
               gs \in SetToSeqs(MFFC(r) \cap Gates)} : r \in {n \in Gates : Chosen(n)}}

Cone == Range(candidate.gates)

-----------------------------------------------------------------------------
\* The files, line by line.
NamesLine(pins, out) == [kind |-> "names", pins |-> pins, out |-> out]
EndLine == [kind |-> "end"]

GateLines(n, table) ==
    <<NamesLine(net.inputs[n], n)>> \o
        [i \in DOMAIN table |-> [kind |-> "row", gate |-> n, shape |-> table[i]]]

LinesOf(n, table) == IF n \in Gates THEN GateLines(n, table[n]) ELSE <<>>

CircuitFiles ==
    {FlattenSeq([i \in DOMAIN net.nodes |-> LinesOf(net.nodes[i], table)]) \o <<EndLine>> :
        table \in [Gates -> Tables]}

\* Mutant of Found: a gate is found by its own name.
FoundByGate(l) == l.out \in Cone /\ l.out \in Literal

\* /^$line$/i, over the lines of the candidate: the line is a pattern, and a
\* name with brackets in it does not match itself.
Found(l) ==
    /\ \E n \in Cone : net.inputs[n] = l.pins /\ n = l.out
    /\ Range(l.pins) \cup {l.out} \subseteq Literal

RestInit ==
    /\ net \in Circuits
    /\ candidate \in Candidates
    /\ file \in CircuitFiles
    /\ line = 0
    /\ enable_print_cover = FALSE
    /\ rest = <<>>

RestDone == line = Len(file)

Current == file[line + 1]

\* Not printed if it is found in the candidate.
PrintNames ==
    /\ ~RestDone /\ Current.kind = "names"
    /\ enable_print_cover' = ~Found(Current)
    /\ rest' = IF Found(Current) THEN rest ELSE Append(rest, Current)

\* A row of digits only follows its .names line.  One with a dash in it, or
\* of a constant, is no such row to the script and is printed in any case.
PrintRow ==
    /\ ~RestDone /\ Current.kind = "row"
    /\ rest' = IF Current.shape = "digits" /\ ~enable_print_cover
               THEN rest ELSE Append(rest, Current)
    /\ UNCHANGED enable_print_cover

PrintOther ==
    /\ ~RestDone /\ Current.kind = "end"
    /\ rest' = Append(rest, Current)
    /\ UNCHANGED enable_print_cover

RestNext ==
    /\ PrintNames \/ PrintRow \/ PrintOther
    /\ line' = line + 1
    /\ UNCHANGED <<net, candidate, file>>

-----------------------------------------------------------------------------
(***************************************************************************)
(* Properties.                                                             *)
(***************************************************************************)
GatesOn(lines) == {lines[i].out : i \in {j \in DOMAIN lines : lines[j].kind = "names"}}

\* The rest and the candidate share the gates among them: each stays in exactly
\* one, except that the lines with brackets stay in both.
GatesAreSplit ==
    RestDone =>
        /\ GatesOn(rest) \cup Cone = Gates
        /\ GatesOn(rest) \cap Cone =
               {n \in Cone : ~(Range(net.inputs[n]) \cup {n} \subseteq Literal)}

\* "not print this line, and the following covers"
\* (get_restPart_of_a_ckt.pl:48): no row of a gate that is taken out is printed.
FollowingCoversNotPrinted ==
    \A i \in {j \in DOMAIN rest : rest[j].kind = "row"} :
        rest[i].gate \in GatesOn(rest)
=============================================================================
