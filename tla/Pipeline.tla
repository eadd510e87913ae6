------------------------------ MODULE Pipeline ------------------------------
(***************************************************************************)
(* approximation_main.pl: the driver that runs the programs one after the  *)
(* other, MaxIter times, each iteration on the circuit the one before it   *)
(* published.  The programs meet in files of fixed names.  Some of their   *)
(* directories are emptied at each iteration and some never, and the       *)
(* driver looks at no exit code.                                           *)
(*                                                                         *)
(* The content of a file is the set of the iterations whose input circuit  *)
(* it was made from: {i} in a file all made in iteration i, {} for a file  *)
(* that does not exist.  0 stands for what no iteration made: files left   *)
(* by an earlier run of the driver and the output of a program that        *)
(* failed half-way.                                                        *)
(***************************************************************************)
EXTENDS Integers, Sequences, FiniteSets

CONSTANTS
    MaxIter,       \* $iteration_num_max
    MaxFailures    \* a bound: no program fails of its own accord after so many failures

ASSUME MaxIterAssumption == MaxIter \in Nat \ {0}
ASSUME MaxFailuresAssumption == MaxFailures \in Nat

VARIABLES
    iter,       \* $iter
    step,       \* the step of the iteration that is next
    files,      \* the content of each file
    published,  \* the content of <ckt>_approximated_<i>.blif for each i
    failed,     \* history: the steps that failed, <<iteration, step>>
    pc          \* "run", "hung" at the MATLAB prompt, or "finished"

vars == <<iter, step, files, published, failed, pc>>

Absent == {}
Broken == {0}
Iterations == 1 .. MaxIter

-----------------------------------------------------------------------------
(* The steps of an iteration, in order.  A step removes files, copies one, *)
(* or runs a program that reads some files and writes one.  The input      *)
(* circuit and the published result are files with a number.               *)

Rm(set) == [op |-> "rm", from |-> {}, to |-> set]
Cp(from, to) == [op |-> "cp", from |-> {from}, to |-> {to}]
Run(from, to) == [op |-> "run", from |-> from, to |-> {to}]

\* Mutant of Script: f_vec is copied before it is made.
ScriptCopiesEarly ==
    << (*  1 *) Rm({"candidate", "rest"}),
       (*  2 *) [op |-> "input", from |-> {}, to |-> {"input"}],
       (*  3 *) Run({"input"}, "candidate"),
       (*  4 *) Cp("candidate", "perl_candidate"),
       (*  5 *) Cp("input", "perl_input"),
       (*  6 *) Rm({"perl_rest"}),
       (*  7 *) Run({"perl_input", "perl_candidate"}, "perl_rest"),
       (*  8 *) Cp("perl_rest", "rest"),
       (*  9 *) Rm({"covers_input"}),
       (* 10 *) Cp("candidate", "covers_input"),
       (* 11 *) Rm({"cover"}),
       (* 12 *) Run({"covers_input"}, "cover"),
       (* 13 *) Cp("cover", "minterms_input"),
       (* 14 *) Cp("f_vec", "matlab_input"),
       (* 15 *) Run({"minterms_input"}, "f_vec"),
       (* 16 *) Run({"matlab_input"}, "apprx"),
       (* 17 *) Cp("apprx", "syn_apprx"),
       (* 18 *) Cp("rest", "syn_rest"),
       (* 19 *) Cp("candidate", "syn_candidate"),
       (* 20 *) Run({"syn_apprx", "syn_candidate"}, "modified"),
       (* 21 *) Run({"modified", "syn_rest"}, "approximated"),
       (* 22 *) [op |-> "publish", from |-> {"approximated"}, to |-> {}] >>

Script ==
    << (*  1 *) Rm({"candidate", "rest"}),
       (*  2 *) [op |-> "input", from |-> {}, to |-> {"input"}],
       (*  3 *) Run({"input"}, "candidate"),
       (*  4 *) Cp("candidate", "perl_candidate"),
       (*  5 *) Cp("input", "perl_input"),
       (*  6 *) Rm({"perl_rest"}),
       (*  7 *) Run({"perl_input", "perl_candidate"}, "perl_rest"),
       (*  8 *) Cp("perl_rest", "rest"),
       (*  9 *) Rm({"covers_input"}),
       (* 10 *) Cp("candidate", "covers_input"),
       (* 11 *) Rm({"cover"}),
       (* 12 *) Run({"covers_input"}, "cover"),
       (* 13 *) Cp("cover", "minterms_input"),
       (* 14 *) Run({"minterms_input"}, "f_vec"),
       (* 15 *) Cp("f_vec", "matlab_input"),
       (* 16 *) Run({"matlab_input"}, "apprx"),
       (* 17 *) Cp("apprx", "syn_apprx"),
       (* 18 *) Cp("rest", "syn_rest"),
       (* 19 *) Cp("candidate", "syn_candidate"),
       (* 20 *) Run({"syn_apprx", "syn_candidate"}, "modified"),
       (* 21 *) Run({"modified", "syn_rest"}, "approximated"),
       (* 22 *) [op |-> "publish", from |-> {"approximated"}, to |-> {}] >>

Matlab == 16
Steps == DOMAIN Script
Files == UNION {Script[s].to : s \in Steps}
This == Script[step]
At(op) == pc = "run" /\ step \in Steps /\ This.op = op

\* The directory of the results has just been emptied; the others hold what
\* an earlier run left there.
Init ==
    /\ iter = 1
    /\ step = 1
    /\ files \in {[f \in Files |-> Absent], [f \in Files |-> {0}]}
    /\ published = [i \in Iterations |-> Absent]
    /\ failed = {}
    /\ pc = "run"

Goto(s) == step' = s /\ UNCHANGED <<iter, pc>>
Fails == failed' = failed \cup {<<iter, step>>}

RemoveFiles ==
    /\ At("rm")
    /\ files' = [f \in Files |-> IF f \in This.to THEN Absent ELSE files[f]]
    /\ Goto(step + 1)
    /\ UNCHANGED <<published, failed>>

\* The benchmark, then the result of the iteration before.  If that was not
\* published, cp fails and the last input circuit is used again.
TakeInput ==
    /\ At("input")
    /\ IF iter > 1 /\ published[iter - 1] = Absent
       THEN /\ Fails
            /\ UNCHANGED files
       ELSE /\ files' = [files EXCEPT !["input"] = {iter}]
            /\ UNCHANGED failed
    /\ Goto(step + 1)
    /\ UNCHANGED published

Missing == \E f \in This.from : files[f] = Absent
Made == UNION {files[f] : f \in This.from}
Written(content) == files' = [f \in Files |-> IF f \in This.to THEN content ELSE files[f]]

\* Mutant of Copy: a file that exists is not overwritten.
CopyOnce ==
    /\ At("cp")
    /\ IF Missing
       THEN /\ Fails
            /\ UNCHANGED files
       ELSE /\ IF \E f \in This.to : files[f] # Absent THEN UNCHANGED files ELSE Written(Made)
            /\ UNCHANGED failed
    /\ Goto(step + 1)
    /\ UNCHANGED published

\* Without its source a cp leaves the target as it is.
Copy ==
    /\ At("cp")
    /\ IF Missing
       THEN /\ Fails
            /\ UNCHANGED files
       ELSE /\ Written(Made)
            /\ UNCHANGED failed
    /\ Goto(step + 1)
    /\ UNCHANGED published

RunOK ==
    /\ At("run")
    /\ ~ Missing
    /\ Written(Made)
    /\ Goto(step + 1)
    /\ UNCHANGED <<published, failed>>

(***************************************************************************)
(* A program that fails leaves its output as it was, removes it first, or  *)
(* breaks off in the middle of it; the cover is the redirected output, so  *)
(* that the shell has truncated it in any case.  After an error MATLAB     *)
(* stays at its prompt, until somebody leaves it.                          *)
(***************************************************************************)
RunFails ==
    /\ At("run")
    /\ Missing \/ Cardinality(failed) < MaxFailures
    /\ \/ Written(Broken)
       \/ /\ This.to # {"cover"}
          /\ Written(Absent) \/ UNCHANGED files
    /\ Fails
    /\ \/ Goto(step + 1)
       \/ /\ step = Matlab
          /\ pc' = "hung"
          /\ UNCHANGED <<iter, step>>
    /\ UNCHANGED published

Publish ==
    /\ At("publish")
    /\ IF Missing
       THEN /\ Fails
            /\ UNCHANGED published
       ELSE /\ published' = [published EXCEPT ![iter] = Made]
            /\ UNCHANGED failed
    /\ Goto(step + 1)
    /\ UNCHANGED files

\* Mutant of NextIteration: one iteration too many.
NextIterationMore ==
    /\ pc = "run"
    /\ step = Len(Script) + 1
    /\ IF iter > MaxIter THEN /\ pc' = "finished"
                              /\ UNCHANGED <<iter, step>>
                         ELSE /\ iter' = iter + 1
                              /\ step' = 1
                              /\ UNCHANGED pc
    /\ UNCHANGED <<files, published, failed>>

NextIteration ==
    /\ pc = "run"
    /\ step = Len(Script) + 1
    /\ IF iter = MaxIter THEN /\ pc' = "finished"
                              /\ UNCHANGED <<iter, step>>
                         ELSE /\ iter' = iter + 1
                              /\ step' = 1
                              /\ UNCHANGED pc
    /\ UNCHANGED <<files, published, failed>>

Next ==
    \/ RemoveFiles \/ TakeInput \/ Copy \/ RunOK \/ RunFails \/ Publish
    \/ NextIteration

Spec == Init /\ [][Next]_vars

-----------------------------------------------------------------------------
(* Properties.                                                             *)

FailedIn(i) == \E s \in Steps : <<i, s>> \in failed

TypeOK ==
    /\ iter \in Iterations
    /\ step \in 1 .. Len(Script) + 1
    /\ files \in [Files -> SUBSET (0 .. MaxIter)]
    /\ published \in [Iterations -> SUBSET (0 .. MaxIter)]
    /\ failed \subseteq Iterations \X Steps
    /\ pc \in {"run", "hung", "finished"}

(***************************************************************************)
(* An iteration in which no step failed publishes a result made from its   *)
(* own input circuit alone, whatever earlier runs and failed iterations    *)
(* have left in the directories that are never emptied.                    *)
(***************************************************************************)
Over(i) == i < iter \/ (i = iter /\ step = Len(Script) + 1)

CleanIterationIsFresh ==
    \A i \in Iterations : (Over(i) /\ ~ FailedIn(i)) => published[i] = {i}

(***************************************************************************)
(* Stale material is explained by failures in a row: if the result of      *)
(* iteration i holds something of an earlier iteration j, a step failed in *)
(* every iteration after j up to i.                                        *)
(***************************************************************************)
StaleIsExplained ==
    \A i \in Iterations : \A j \in published[i] \ {0} :
        j <= i /\ \A k \in j + 1 .. i : FailedIn(k)
=============================================================================
