--------------------------- MODULE FindCandidate ---------------------------
(***************************************************************************)
(* find_print_candidate_MFFC(): topSort and get_MFFC, then                 *)
(* find_insig_MFFC, which computes the input signals of the MFFC of each   *)
(* node that is not of type OUTPUT, then the choice of the candidate (the  *)
(* MFFC with an admissible number of input signals that saves most LUTs)   *)
(* and write_MFFC, which writes it as a BLIF file.                         *)
(*                                                                         *)
(* MFFC_set is a map keyed by char*, so the choice goes through it in the  *)
(* order of the addresses: Consider takes any root next.  Looking a key up *)
(* that is absent and reading ->second of end() reads the object that      *)
(* happens to lie behind the map; for insig_MFFC that is another map, and  *)
(* any number of input signals may come out (log.txt shows one of the size *)
(* of the network for every MFFC of an output).                            *)
(***************************************************************************)
EXTENDS GetMFFC

CONSTANTS num_input_min, num_input_max,     \* argv[3] and argv[4]
          None                              \* no candidate yet

ASSUME InputBounds == num_input_min \in Nat /\ num_input_max \in Nat
ASSUME NoneIsNoName == None \notin Name

VARIABLES
    scanned,                \* nodes of the list find_insig_MFFC has passed
    insig_MFFC,             \* root -> names of its input signals
    considered,             \* roots the choice has passed
    LUTs_saved_number_max,
    candidate_MFFC,         \* the root chosen so far (an uninitialised iterator at first)
    file                    \* the output file, or why there is none

candVars == <<scanned, insig_MFFC, considered, LUTs_saved_number_max,
              candidate_MFFC, file>>

-----------------------------------------------------------------------------
\* The MFFC of a sorted node, as names.
MFFC(n) == {sort_list[i] : i \in MFFC_set[sort_ind(n)]}

InputsOf(n) == {net.inputs[n][p] : p \in DOMAIN net.inputs[n]}

\* Mutants of InSig: the primary inputs in the cone are missed, or every fanin
\* is taken.
OutsideSig(cone) == {m \in UNION {InputsOf(n) : n \in cone} : m \notin cone}
AnyInSig(cone) == UNION {InputsOf(n) : n \in cone}

\* Fanins of the cone that are primary inputs or lie outside it.
InSig(cone) ==
    {m \in UNION {InputsOf(n) : n \in cone} : net.type[m] = "INPUT" \/ m \notin cone}

CandInit ==
    /\ scanned = 0
    /\ insig_MFFC = [n \in {} |-> {}]
    /\ considered = {}
    /\ LUTs_saved_number_max = 0
    /\ candidate_MFFC = None
    /\ file = [state |-> "unopened"]

InsigDone == scanned = Len(net.nodes)

\* find_insig_MFFC, one node of the list.  For a node topSort left out the
\* code copies the set behind the end of MFFC_set: any set of names.
FindInsig ==
    /\ ~InsigDone
    /\ LET nd == net.nodes[scanned + 1]
       IN  IF net.type[nd] = "OUTPUT" THEN UNCHANGED insig_MFFC
           ELSE \E cMFFC \in IF nd \in Sorted THEN {MFFC(nd)} ELSE SUBSET NodesOf(net) :
                    insig_MFFC' =
                        IF Cardinality(cMFFC) = 1 THEN insig_MFFC
                        ELSE [n \in DOMAIN insig_MFFC \cup {nd} |->
                                 IF n = nd THEN InSig(cMFFC) ELSE insig_MFFC[n]]
    /\ scanned' = scanned + 1
    /\ UNCHANGED <<considered, LUTs_saved_number_max, candidate_MFFC, file>>

-----------------------------------------------------------------------------
\* The LUTs the choice expects to save on a cone with k input signals: each of
\* its nodes counts as one, and k - 1 are spent on the approximation.
Saved(n, k) == Cardinality(MFFC(n)) - (k - 1)

\* Mutant of Admissible: the upper bound is not looked at.
AdmissibleNoMax(k) == num_input_min <= k

Admissible(k) == num_input_min <= k /\ k <= num_input_max

InsigSizes(n) == IF n \in DOMAIN insig_MFFC THEN {Cardinality(insig_MFFC[n])}
                 ELSE 0 .. Cardinality(NodesOf(net))

\* Mutant of Consider: the maximum is not updated.
ConsiderKeepsMax ==
    /\ InsigDone /\ file.state = "unopened"
    /\ \E n \in Sorted \ considered :
        /\ considered' = considered \cup {n}
        /\ \E k \in InsigSizes(n) :
              candidate_MFFC' = IF /\ Cardinality(MFFC(n)) > 1
                                   /\ Admissible(k)
                                   /\ Saved(n, k) > LUTs_saved_number_max
                                THEN n ELSE candidate_MFFC
    /\ UNCHANGED <<scanned, insig_MFFC, LUTs_saved_number_max, file>>

\* A root of its own (size 1), or one without an admissible number of inputs,
\* or without a larger saving than the best so far, is passed over.
Consider ==
    /\ InsigDone /\ file.state = "unopened"
    /\ \E n \in Sorted \ considered :
        /\ considered' = considered \cup {n}
        /\ IF Cardinality(MFFC(n)) = 1
           THEN UNCHANGED <<LUTs_saved_number_max, candidate_MFFC>>
           ELSE \E k \in InsigSizes(n) :
                    IF Admissible(k) /\ Saved(n, k) > LUTs_saved_number_max
                    THEN LUTs_saved_number_max' = Saved(n, k) /\ candidate_MFFC' = n
                    ELSE UNCHANGED <<LUTs_saved_number_max, candidate_MFFC>>
    /\ UNCHANGED <<scanned, insig_MFFC, file>>

\* fout is open and empty.  Without a candidate the code dereferences the null
\* iterator and crashes there.  Otherwise write_MFFC writes the cone, primary
\* inputs left out; the inputs of an output's cone are read out of end() again.
Write ==
    /\ InsigDone /\ file.state = "unopened" /\ considered = Sorted
    /\ IF candidate_MFFC = None
       THEN file' = [state |-> "crashed"]
       ELSE \E in_sig \in IF candidate_MFFC \in DOMAIN insig_MFFC
                          THEN {insig_MFFC[candidate_MFFC]} ELSE SUBSET NodesOf(net) :
                file' = [state   |-> "written",
                         inputs  |-> in_sig,
                         outputs |-> {candidate_MFFC},
                         names   |-> {n \in MFFC(candidate_MFFC) : net.type[n] # "INPUT"}]
    /\ UNCHANGED <<scanned, insig_MFFC, considered, LUTs_saved_number_max, candidate_MFFC>>

-----------------------------------------------------------------------------
CandInitAll == MffcInitAll /\ CandInit

CandNext ==
    \/ MffcNext /\ UNCHANGED candVars
    \/ MffcDone /\ ~exited /\ (FindInsig \/ Consider \/ Write) /\ UNCHANGED mffcAllVars

candAllVars == <<mffcAllVars, candVars>>

\* The program is one thread, which runs until the MFFCs are there.
CandSpec == CandInitAll /\ [][CandNext]_candAllVars /\ WF_mffcAllVars(MffcNext)

-----------------------------------------------------------------------------
(***************************************************************************)
(* Properties.                                                             *)
(***************************************************************************)
\* The choice does not depend on the order of the addresses: once every root
\* is considered, no root with known input signals saves more than the
\* candidate, and the candidate saves what the maximum says.
BestCandidate ==
    \A n \in considered \cap DOMAIN insig_MFFC :
        /\ Admissible(Cardinality(insig_MFFC[n])) =>
               Saved(n, Cardinality(insig_MFFC[n])) <= LUTs_saved_number_max
        /\ n = candidate_MFFC =>
               Saved(n, Cardinality(insig_MFFC[n])) = LUTs_saved_number_max

\* What is written for a root that is no output is a circuit of its own: every
\* signal a node reads is an input or another node of it, no node drives an
\* input, and the root is among the nodes.
WrittenCircuitClosed ==
    (file.state = "written" /\ AllSorted /\ candidate_MFFC \in DOMAIN insig_MFFC) =>
        /\ \A n \in file.names : InputsOf(n) \subseteq file.inputs \cup file.names
        /\ file.inputs \cap file.names = {}
        /\ file.outputs \subseteq file.names

\* And it can be cut out: no node that stays reads a node that is written,
\* except the root.
WrittenCircuitSevers ==
    (file.state = "written" /\ AllSorted) =>
        \A n \in NodesOf(net) \ file.names :
            InputsOf(n) \cap file.names \subseteq file.outputs

\* No input signal is there for nothing: one that is no primary input also feeds
\* a node outside the cone, so no larger cone could have absorbed it.
InputsFeedElsewhere ==
    (file.state = "written" /\ AllSorted /\ candidate_MFFC \in DOMAIN insig_MFFC) =>
        \A m \in file.inputs :
            net.type[m] = "INPUT" \/ Readers(net, m) \ MFFC(candidate_MFFC) # {}

\* The next program, which cuts the cone out of the circuit, is modelled to start
\* from a maximum fanout-free cone, defined by paths through the network, with
\* an admissible number of inputs and a saving.  That is what the single walk
\* and the choice leave in the file.
R == INSTANCE RestPart WITH
         Circuits <- Networks, Tables <- {}, Literal <- {}, candidate <- <<>>,
         file <- <<>>, line <- 0, enable_print_cover <- FALSE, rest <- <<>>

WrittenIsCandidate ==
    (file.state = "written" /\ AllSorted /\ candidate_MFFC \in DOMAIN insig_MFFC) =>
        \E c \in R!Candidates :
            /\ R!Range(c.inputs) = file.inputs /\ {c.output} = file.outputs
            /\ R!Range(c.gates) = file.names

\* "Get MFFC for each node and find input signals for each MFFC"
\* (find_print_candidate_MFFC.cc:52): when the choice looks the input signals
\* of an MFFC of more than one node up, they are there.
InsigForEachMFFC ==
    (MffcDone /\ InsigDone) =>
        \A n \in Sorted : Cardinality(MFFC(n)) > 1 => n \in DOMAIN insig_MFFC
=============================================================================
