------------------------------ MODULE BnetRead ------------------------------
(***************************************************************************)
(* Bnet_ReadNetwork() of bnet.cc: it parses the directives of a BLIF file  *)
(* one by one, entering nodes in net->nodes and, for each input pin of a   *)
(* .names directive, the name of the gate in name_fanouts; then three      *)
(* passes over the list enter the nodes in the symbol table, count the     *)
(* fanouts and copy the fanout lists out of name_fanouts.  It returns the  *)
(* network, or NULL at the first failure.  main() (main.cc) follows.       *)
(*                                                                         *)
(* A directive is a record: its kind, the names that follow it and, for    *)
(* .names, the output values of its table lines.  The kind "other" is any  *)
(* word that is none of the five recognised, such as .exdc.  The file is   *)
(* chosen as it is read; "file" is what has been read of it.               *)
(***************************************************************************)
EXTENDS Bnet

CONSTANTS Directives,       \* the directives a file may consist of
          MaxDirectives     \* bound on the length of a file

ASSUME BoundAssumption == MaxDirectives \in Nat
ASSUME DirectivesAssumption ==
    \A d \in Directives :
        /\ d.kind \in {"model", "inputs", "outputs", "names", "end", "other"}
        /\ d.names \in Seq(Name)
        /\ d.lines \in Seq({"0", "1"})

VARIABLES
    file,           \* the directives read
    phase,          \* where Bnet_ReadNetwork stands
    nodes,          \* net->nodes: records of name, type, inputs and polarity
    outputs,        \* net->outputs
    name_fanouts,   \* name -> names of the gates that read it, per pin
    nfo,            \* fanout counts, per position in nodes
    fanouts,        \* fanout lists, per position in nodes
    process         \* what has become of the process

vars == <<file, phase, nodes, outputs, name_fanouts, nfo, fanouts, process>>

-----------------------------------------------------------------------------
Init ==
    /\ file = <<>>
    /\ phase = "parse"
    /\ nodes = <<>>
    /\ outputs = <<>>
    /\ name_fanouts = [n \in {} |-> <<>>]
    /\ nfo = <<>>
    /\ fanouts = <<>>
    /\ process = "running"

Names(s) == {s[i] : i \in DOMAIN s}

Read(d) == phase = "parse" /\ Len(file) < MaxDirectives /\ file' = Append(file, d)

Fail == phase' = "failed" /\ UNCHANGED <<nodes, outputs, name_fanouts>>

\* .model keeps the name that follows it, which nothing below looks at.
ReadModel ==
    \E d \in Directives :
        /\ d.kind = "model"
        /\ Read(d)
        /\ UNCHANGED <<phase, nodes, outputs, name_fanouts, nfo, fanouts, process>>

\* .inputs enters one node for each name; an empty list is a failure.
ReadInputs ==
    \E d \in Directives :
        /\ d.kind = "inputs"
        /\ Read(d)
        /\ IF d.names = <<>> THEN Fail
           ELSE /\ nodes' = nodes \o [i \in DOMAIN d.names |->
                                [name |-> d.names[i], type |-> "INPUT",
                                 inputs |-> <<>>, polarity |-> 0]]
                /\ UNCHANGED <<phase, outputs, name_fanouts>>
        /\ UNCHANGED <<nfo, fanouts, process>>

\* .outputs keeps the names; their nodes come with the gates that drive them.
ReadOutputs ==
    \E d \in Directives :
        /\ d.kind = "outputs"
        /\ Read(d)
        /\ IF d.names = <<>> THEN Fail
           ELSE outputs' = outputs \o d.names /\ UNCHANGED <<phase, nodes, name_fanouts>>
        /\ UNCHANGED <<nfo, fanouts, process>>

\* The type of a gate depends on the outputs read so far.
GateType(out, ninp) ==
    IF ninp = 0 THEN "CONSTANT" ELSE IF out \in Names(outputs) THEN "OUTPUT" ELSE "INTERNAL"

\* Mutant of Polarity: it counts the lines with output 0.
PolarityCount(lines) == Cardinality(Pins(lines, "0"))

\* One line of the table with output 0 makes the whole table the offset.
Polarity(lines) == IF "0" \in Names(lines) THEN 1 ELSE 0

\* Mutant of WithFanout: a gate is listed once, however many pins it has.
WithFanoutOnce(ins, out) ==
    [n \in DOMAIN name_fanouts \cup Names(ins) |->
        (IF n \in DOMAIN name_fanouts THEN name_fanouts[n] ELSE <<>>) \o
        (IF n \in Names(ins) THEN <<out>> ELSE <<>>)]

\* name_fanouts once every pin in ins has listed the gate out.
WithFanout(ins, out) ==
    [n \in DOMAIN name_fanouts \cup Names(ins) |->
        (IF n \in DOMAIN name_fanouts THEN name_fanouts[n] ELSE <<>>) \o
        [p \in 1 .. Cardinality(Pins(ins, n)) |-> out]]

\* .names: the last name is the gate, the others its input pins.
ReadNames ==
    \E d \in Directives :
        /\ d.kind = "names"
        /\ Read(d)
        /\ IF d.names = <<>> THEN Fail
           ELSE LET ninp == Len(d.names) - 1
                    out == d.names[ninp + 1]
                    ins == SubSeq(d.names, 1, ninp)
                IN  /\ nodes' = Append(nodes,
                           [name |-> out, type |-> GateType(out, ninp), inputs |-> ins,
                            polarity |-> Polarity(d.lines)])
                    /\ name_fanouts' = WithFanout(ins, out)
                    /\ UNCHANGED <<phase, outputs>>
        /\ UNCHANGED <<nfo, fanouts, process>>

\* .end stops the reading, and so does a directive that is not recognised:
\* what follows it is ignored without a word.
ReadStop ==
    \E d \in Directives :
        /\ d.kind \in {"end", "other"}
        /\ Read(d)
        /\ phase' = "hash"
        /\ UNCHANGED <<nodes, outputs, name_fanouts, nfo, fanouts, process>>

\* The file ends before .end: readString returns NULL.
ReadEOF ==
    /\ phase = "parse"
    /\ Fail
    /\ UNCHANGED <<file, nfo, fanouts, process>>

-----------------------------------------------------------------------------
\* st_insert of every node: a name inserted twice has two drivers.
Driven == {nodes[i].name : i \in DOMAIN nodes}

\* Mutant of EnterHash: the second of two drivers replaces the first.
EnterHashReplaces ==
    /\ phase = "hash"
    /\ phase' = "count"
    /\ UNCHANGED <<file, nodes, outputs, name_fanouts, nfo, fanouts, process>>

EnterHash ==
    /\ phase = "hash"
    /\ phase' = IF \E i, j \in DOMAIN nodes : i # j /\ nodes[i].name = nodes[j].name
                THEN "failed" ELSE "count"
    /\ UNCHANGED <<file, nodes, outputs, name_fanouts, nfo, fanouts, process>>

\* nfo of a node is the number of input pins that name it; a pin that names no
\* node is not driven.
PinsReading(n) ==
    {x \in UNION {{i} \X DOMAIN nodes[i].inputs : i \in DOMAIN nodes} :
        nodes[x[1]].inputs[x[2]] = n}

CountFanouts ==
    /\ phase = "count"
    /\ IF \E i \in DOMAIN nodes : ~(Names(nodes[i].inputs) \subseteq Driven)
       THEN phase' = "failed" /\ UNCHANGED nfo
       ELSE /\ phase' = "fanouts"
            /\ nfo' = [i \in DOMAIN nodes |-> Cardinality(PinsReading(nodes[i].name))]
    /\ UNCHANGED <<file, nodes, outputs, name_fanouts, fanouts, process>>

FillFanouts ==
    /\ phase = "fanouts"
    /\ phase' = "returned"
    /\ fanouts' = [i \in DOMAIN nodes |->
                      IF nodes[i].name \in DOMAIN name_fanouts
                      THEN name_fanouts[nodes[i].name] ELSE <<>>]
    /\ UNCHANGED <<file, nodes, outputs, name_fanouts, nfo, process>>

\* main() reads net->npis before it looks whether net is NULL.
Main ==
    /\ phase \in {"returned", "failed"}
    /\ process = "running"
    /\ process' = IF phase = "failed" THEN "crashed" ELSE "searching"
    /\ UNCHANGED <<file, phase, nodes, outputs, name_fanouts, nfo, fanouts>>

Next ==
    \/ ReadModel \/ ReadInputs \/ ReadOutputs \/ ReadNames \/ ReadStop \/ ReadEOF
    \/ EnterHash \/ CountFanouts \/ FillFanouts
    \/ Main

Spec == Init /\ [][Next]_vars

-----------------------------------------------------------------------------
\* The network returned, in the form the passes over it use (module Bnet).
At(n) == CHOOSE i \in DOMAIN nodes : nodes[i].name = n

Network ==
    [nodes   |-> [i \in DOMAIN nodes |-> nodes[i].name],
     type    |-> [n \in Driven |-> nodes[At(n)].type],
     inputs  |-> [n \in Driven |-> nodes[At(n)].inputs],
     fanouts |-> [n \in Driven |-> fanouts[At(n)]]]

(***************************************************************************)
(* Properties.                                                             *)
(***************************************************************************)
\* Types.
TypeOK ==
    /\ file \in Seq(Directives) /\ Len(file) <= MaxDirectives
    /\ phase \in {"parse", "hash", "count", "fanouts", "returned", "failed"}
    /\ nodes \in Seq([name : Name, type : NodeType, inputs : Seq(Name), polarity : {0, 1}])
    /\ outputs \in Seq(Name)
    /\ \A n \in DOMAIN name_fanouts : n \in Name /\ name_fanouts[n] \in Seq(Name)
    /\ nfo \in Seq(Nat) /\ fanouts \in Seq(Seq(Name))
    /\ process \in {"running", "crashed", "searching"}

\* A network that is returned is what topSort and get_MFFC assume: its lists
\* agree, although fanouts come from the text and nfo and the drivers from the
\* symbol table.
ReturnsWellFormed ==
    phase = "returned" =>
        /\ WellFormed(Network)
        /\ \A i \in DOMAIN nodes : nfo[i] = Len(fanouts[i])

\* What a file says, read as a whole: the directives before the first one that
\* is .end or not recognised.
Stops == {i \in DOMAIN file : file[i].kind \in {"end", "other"}}
Said(kind) == {i \in DOMAIN file : file[i].kind = kind}
Drivers(n) == (UNION {{i} \X Pins(file[i].names, n) : i \in Said("inputs")})
              \cup {<<i, 0>> : i \in {k \in Said("names") :
                        file[k].names # <<>> /\ file[k].names[Len(file[k].names)] = n}}
Legal ==
    /\ Stops # {}
    /\ \A i \in DOMAIN file : file[i].kind \in {"inputs", "outputs", "names"} =>
                                  file[i].names # <<>>
    /\ \A n \in Name : Cardinality(Drivers(n)) <= 1
    /\ \A i \in Said("names") : \A p \in 1 .. Len(file[i].names) - 1 :
           Drivers(file[i].names[p]) # {}

\* The reader returns a network exactly when every list of the file has a name,
\* every signal has one driver at most and every pin one at least.
ReturnsIffLegal ==
    /\ phase = "returned" => Legal
    /\ phase = "failed" => ~Legal

\* "if (net == NULL) ... Syntax error in" (main.cc:47): a file that cannot be
\* read is reported, the program does not crash on it.
FailureIsReported == process # "crashed"
=============================================================================
