---------------------------- MODULE ScriptProofs ----------------------------
(***************************************************************************)
(* Proofs about the Perl scripts around the programs: the driver           *)
(* (Pipeline), for every number of iterations and of failures, and the     *)
(* readers of covers (Minterms), for covers of any number of lines and     *)
(* columns.                                                                *)
(***************************************************************************)
EXTENDS Pipeline, Minterms, FiniteSetTheorems, SequenceTheorems, WellFoundedInduction, TLAPS

-----------------------------------------------------------------------------
(* The driver: what the script does to the files.                          *)

\* The steps that write files: all but the removals.
Writes(s, f) == Script[s].op # "rm" /\ f \in Script[s].to

LEMMA ScriptSteps == Steps = 1 .. 22 /\ Len(Script) = 22
  BY DEF Steps, Script

(* One step at a time: what Script says. *)
LEMMA ScriptAt ==
  /\ Script[1] = Rm({"candidate", "rest"})
  /\ Script[2] = [op |-> "input", from |-> {}, to |-> {"input"}]
  /\ Script[3] = Run({"input"}, "candidate")
  /\ Script[4] = Cp("candidate", "perl_candidate")
  /\ Script[5] = Cp("input", "perl_input")
  /\ Script[6] = Rm({"perl_rest"})
  /\ Script[7] = Run({"perl_input", "perl_candidate"}, "perl_rest")
  /\ Script[8] = Cp("perl_rest", "rest")
  /\ Script[9] = Rm({"covers_input"})
  /\ Script[10] = Cp("candidate", "covers_input")
  /\ Script[11] = Rm({"cover"})
  /\ Script[12] = Run({"covers_input"}, "cover")
  /\ Script[13] = Cp("cover", "minterms_input")
  /\ Script[14] = Run({"minterms_input"}, "f_vec")
  /\ Script[15] = Cp("f_vec", "matlab_input")
  /\ Script[16] = Run({"matlab_input"}, "apprx")
  /\ Script[17] = Cp("apprx", "syn_apprx")
  /\ Script[18] = Cp("rest", "syn_rest")
  /\ Script[19] = Cp("candidate", "syn_candidate")
  /\ Script[20] = Run({"syn_apprx", "syn_candidate"}, "modified")
  /\ Script[21] = Run({"modified", "syn_rest"}, "approximated")
  /\ Script[22] = [op |-> "publish", from |-> {"approximated"}, to |-> {}]
  BY DEF Script

LEMMA ScriptShape ==
  ASSUME NEW s \in Steps
  PROVE  /\ Script[s].op \in {"rm", "input", "cp", "run", "publish"}
         /\ Script[s].to \subseteq Files
         /\ Script[s].op = "input" => Script[s].to = {"input"}
         /\ Script[s].op = "publish" => s = 22 /\ Script[s].to = {}
         /\ Script[s].op \in {"cp", "run", "publish"} => Script[s].from # {}
         /\ s = 22 => Script[s].op = "publish"
<1>1. Script[s].to \subseteq Files
  BY DEF Files
<1>2. QED
  BY <1>1, ScriptSteps, ScriptAt DEF Rm, Cp, Run

LEMMA SourcesWritten ==
  ASSUME NEW s \in Steps, NEW f \in Script[s].from
  PROVE  \E t \in 1 .. s - 1 : Writes(t, f)
  BY ScriptSteps, ScriptAt, SMTT(60) DEF Writes, Rm, Cp, Run

LEMMA RemovedBefore ==
  ASSUME NEW s \in Steps, Script[s].op = "rm", NEW f \in Script[s].to, NEW t \in 1 .. s - 1
  PROVE  ~ Writes(t, f)
  BY ScriptSteps, ScriptAt, SMTT(60) DEF Writes, Rm, Cp, Run

LEMMA AllWritten ==
  ASSUME NEW f \in Files
  PROVE  \E t \in Steps : Writes(t, f)
<1>1. PICK s \in Steps : f \in Script[s].to
  BY DEF Files
<1>2. QED
  BY <1>1, ScriptSteps, ScriptAt, SMTT(60) DEF Writes, Rm, Cp, Run

-----------------------------------------------------------------------------
(* The inductive invariant.                                                *)

\* Until a step of the iteration fails, all that it has written is fresh.
FreshSoFar ==
  ~ FailedIn(iter) =>
      \A s \in 1 .. step - 1 : \A f \in Files : Writes(s, f) => files[f] = {iter}

\* What a file holds of an iteration j outlived only iterations that failed.
HistoryExplained ==
  \A f \in Files : \A j \in files[f] \ {0} :
      j <= iter /\ \A k \in j + 1 .. iter - 1 : FailedIn(k)

IInv ==
  /\ TypeOK
  /\ FreshSoFar
  /\ HistoryExplained
  /\ CleanIterationIsFresh
  /\ StaleIsExplained

LEMMA InitIInv == Init => IInv
<1> SUFFICES ASSUME Init PROVE IInv
  OBVIOUS
<1> USE MaxIterAssumption, ScriptSteps DEF Init, Absent, Iterations
<1>1. TypeOK
  BY DEF TypeOK
<1>2. FreshSoFar
  BY DEF FreshSoFar
<1>3. HistoryExplained
  BY DEF HistoryExplained
<1>4. CleanIterationIsFresh
  BY DEF CleanIterationIsFresh, Over
<1>5. StaleIsExplained
  BY DEF StaleIsExplained
<1>6. QED
  BY <1>1, <1>2, <1>3, <1>4, <1>5 DEF IInv

(***************************************************************************)
(* What a step reads: fresh, and there, unless a step has failed before;   *)
(* and explained in any case.                                              *)
(***************************************************************************)
LEMMA MadeFresh ==
  ASSUME IInv, step \in Steps, ~ FailedIn(iter), This.from # {}
  PROVE  ~ Missing /\ Made = {iter}
<1>1. \A f \in This.from : f \in Files /\ files[f] = {iter}
  <2> SUFFICES ASSUME NEW f \in This.from PROVE f \in Files /\ files[f] = {iter}
    OBVIOUS
  <2>1. PICK t \in 1 .. step - 1 : Writes(t, f)
    BY SourcesWritten DEF This
  <2>2. t \in Steps /\ f \in Files
    BY <2>1, ScriptSteps DEF Writes, Files
  <2>3. QED
    BY <2>1, <2>2 DEF IInv, FreshSoFar
<1>2. QED
  BY <1>1 DEF Missing, Made, Absent

LEMMA SourcesAreFiles ==
  ASSUME NEW s \in Steps
  PROVE  Script[s].from \subseteq Files
<1> SUFFICES ASSUME NEW f \in Script[s].from PROVE f \in Files
  OBVIOUS
<1>1. PICK t \in 1 .. s - 1 : Writes(t, f)
  BY SourcesWritten
<1>2. t \in Steps
  BY <1>1, ScriptSteps
<1>3. QED
  BY <1>1, <1>2 DEF Writes, Files

LEMMA MadeExplained ==
  ASSUME IInv, step \in Steps
  PROVE  /\ Made \in SUBSET (0 .. MaxIter)
         /\ \A j \in Made \ {0} : j <= iter /\ \A k \in j + 1 .. iter - 1 : FailedIn(k)
<1>1. This.from \subseteq Files
  BY SourcesAreFiles DEF This
<1>2. Made \in SUBSET (0 .. MaxIter)
  BY <1>1 DEF Made, IInv, TypeOK
<1>3. ASSUME NEW j \in Made \ {0}
      PROVE  j <= iter /\ \A k \in j + 1 .. iter - 1 : FailedIn(k)
  BY <1>1, <1>3 DEF Made, IInv, HistoryExplained
<1>4. QED
  BY <1>2, <1>3

(***************************************************************************)
(* The step before its target changes: what an action does to the rest of  *)
(* the state.  A step that is no Publish never completes an iteration.     *)
(***************************************************************************)
LEMMA StepInv ==
  ASSUME IInv, step \in Steps, This.op # "publish", Goto(step + 1), UNCHANGED published,
         failed \subseteq failed', failed' \subseteq Iterations \X Steps,
         files' \in [Files -> SUBSET (0 .. MaxIter)],
         FreshSoFar', HistoryExplained'
  PROVE  IInv'
<1>1. step \in 1 .. 21 /\ step' = step + 1 /\ iter' = iter /\ pc' = pc
  BY ScriptSteps, ScriptShape DEF This, Goto
<1>2. TypeOK'
  BY <1>1, ScriptSteps DEF IInv, TypeOK
<1>3. \A i : FailedIn(i) => FailedIn(i)'
  BY DEF FailedIn
<1>4. CleanIterationIsFresh'
  BY <1>1, <1>3, ScriptSteps DEF IInv, CleanIterationIsFresh, Over, TypeOK
<1>5. StaleIsExplained'
  BY <1>3 DEF IInv, StaleIsExplained
<1>6. QED
  BY <1>2, <1>4, <1>5 DEF IInv

\* The history of a step that leaves each file, or writes something explained.
LEMMA HistoryStep ==
  ASSUME IInv, step \in Steps, iter' = iter, failed \subseteq failed', NEW content,
         \A j \in content \ {0} : j <= iter /\ \A k \in j + 1 .. iter - 1 : FailedIn(k),
         \A f \in Files : files'[f] \in {files[f], content}
  PROVE  HistoryExplained'
<1>1. \A i : FailedIn(i) => FailedIn(i)'
  BY DEF FailedIn
<1>2. QED
  BY <1>1 DEF IInv, HistoryExplained

LEMMA FailingStep ==
  ASSUME IInv, step \in Steps, Fails, iter' = iter
  PROVE  /\ FailedIn(iter)'
         /\ FreshSoFar'
         /\ failed \subseteq failed'
         /\ failed' \subseteq Iterations \X Steps
<1>1. FailedIn(iter)'
  BY DEF FailedIn, Fails
<1>2. QED
  BY <1>1 DEF FreshSoFar, Fails, IInv, TypeOK

LEMMA RemoveInv == ASSUME IInv, RemoveFiles PROVE IInv'
<1>1. step \in Steps /\ This.op = "rm" /\ Goto(step + 1) /\ UNCHANGED <<published, failed>>
  BY DEF RemoveFiles, At
<1>2. iter' = iter /\ step' = step + 1
  BY <1>1 DEF Goto
<1>3. \A f \in Files : files'[f] = IF f \in This.to THEN {} ELSE files[f]
  BY DEF RemoveFiles, Absent
<1>4. FreshSoFar'
  <2> SUFFICES ASSUME ~ FailedIn(iter)', NEW s \in 1 .. step, NEW f \in Files, Writes(s, f)
               PROVE  files'[f] = {iter}
    BY <1>1, <1>2, ScriptSteps DEF FreshSoFar
  <2>1. ~ FailedIn(iter)
    BY <1>1, <1>2 DEF FailedIn
  <2>2. s \in 1 .. step - 1
    BY <1>1, ScriptSteps DEF Writes, This
  <2>3. f \notin This.to
    BY <1>1, <2>2, RemovedBefore DEF This
  <2>4. QED
    BY <1>3, <2>1, <2>2, <2>3 DEF IInv, FreshSoFar
<1>5. HistoryExplained'
  BY <1>1, <1>2, <1>3, HistoryStep
<1>6. files' \in [Files -> SUBSET (0 .. MaxIter)]
  BY DEF RemoveFiles, IInv, TypeOK, Absent
<1>7. QED
  BY <1>1, <1>4, <1>5, <1>6, StepInv DEF IInv, TypeOK

\* A step that writes something fresh where its target is.
LEMMA WritingStep ==
  ASSUME IInv, step \in Steps, This.op \in {"input", "cp", "run"}, Goto(step + 1),
         UNCHANGED <<published, failed>>,
         NEW content \in SUBSET (0 .. MaxIter), Written(content),
         ~ FailedIn(iter) => content = {iter},
         \A j \in content \ {0} : j <= iter /\ \A k \in j + 1 .. iter - 1 : FailedIn(k)
  PROVE  IInv'
<1>1. iter' = iter /\ step' = step + 1
  BY DEF Goto
<1>2. \A f \in Files : files'[f] = IF f \in This.to THEN content ELSE files[f]
  BY DEF Written
<1>3. FreshSoFar'
  <2> SUFFICES ASSUME ~ FailedIn(iter)', NEW s \in 1 .. step, NEW f \in Files, Writes(s, f)
               PROVE  files'[f] = {iter}
    BY <1>1, ScriptSteps DEF FreshSoFar
  <2>1. ~ FailedIn(iter)
    BY <1>1 DEF FailedIn
  <2>2. CASE f \in This.to
    BY <1>2, <2>1, <2>2
  <2>3. CASE f \notin This.to
    <3>1. s \in 1 .. step - 1
      BY <2>3, ScriptSteps DEF Writes, This
    <3>2. QED
      BY <1>2, <2>1, <2>3, <3>1 DEF IInv, FreshSoFar
  <2>4. QED
    BY <2>2, <2>3
<1>4. HistoryExplained'
  BY <1>1, <1>2, HistoryStep
<1>5. files' \in [Files -> SUBSET (0 .. MaxIter)]
  BY DEF Written, IInv, TypeOK
<1>6. QED
  BY <1>3, <1>4, <1>5, StepInv DEF IInv, TypeOK

LEMMA TakeInputInv == ASSUME IInv, TakeInput PROVE IInv'
<1>1. step \in Steps /\ This.op = "input" /\ Goto(step + 1) /\ UNCHANGED published
  BY DEF TakeInput, At
<1>2. iter' = iter /\ iter \in Iterations
  BY <1>1 DEF Goto, IInv, TypeOK
<1>3. CASE Fails /\ UNCHANGED files
  <2>1. HistoryExplained'
    BY <1>1, <1>2, <1>3, FailingStep, HistoryStep
  <2>2. QED
    BY <1>1, <1>2, <1>3, <2>1, FailingStep, StepInv DEF IInv, TypeOK
<1>4. CASE files' = [files EXCEPT !["input"] = {iter}] /\ UNCHANGED failed
  <2>1. This.to = {"input"}
    BY <1>1, ScriptShape DEF This
  <2>2. Written({iter})
    BY <1>4, <2>1 DEF Written, IInv, TypeOK
  <2>3. {iter} \in SUBSET (0 .. MaxIter)
    BY <1>2, MaxIterAssumption DEF Iterations
  <2>4. \A j \in {iter} \ {0} : j <= iter /\ \A k \in j + 1 .. iter - 1 : FailedIn(k)
    BY <1>2, MaxIterAssumption DEF Iterations
  <2>5. QED
    BY <1>1, <1>4, <2>2, <2>3, <2>4, WritingStep
<1>5. QED
  BY <1>3, <1>4 DEF TakeInput

LEMMA CopyInv == ASSUME IInv, Copy PROVE IInv'
<1>1. step \in Steps /\ This.op = "cp" /\ Goto(step + 1) /\ UNCHANGED published
  BY DEF Copy, At
<1>2. iter' = iter
  BY <1>1 DEF Goto
<1>3. CASE Fails /\ UNCHANGED files
  <2>1. HistoryExplained'
    BY <1>1, <1>2, <1>3, FailingStep, HistoryStep
  <2>2. QED
    BY <1>1, <1>2, <1>3, <2>1, FailingStep, StepInv DEF IInv, TypeOK
<1>4. CASE Written(Made) /\ UNCHANGED failed
  <2>1. ~ FailedIn(iter) => Made = {iter}
    BY <1>1, MadeFresh, ScriptShape DEF This
  <2>2. QED
    BY <1>1, <1>4, <2>1, MadeExplained, WritingStep
<1>5. QED
  BY <1>3, <1>4 DEF Copy

LEMMA RunOKInv == ASSUME IInv, RunOK PROVE IInv'
<1>1. /\ step \in Steps /\ This.op = "run" /\ Goto(step + 1)
      /\ UNCHANGED <<published, failed>> /\ Written(Made)
  BY DEF RunOK, At
<1>2. ~ FailedIn(iter) => Made = {iter}
  BY <1>1, MadeFresh, ScriptShape DEF This
<1>3. QED
  BY <1>1, <1>2, MadeExplained, WritingStep

LEMMA RunFailsInv == ASSUME IInv, RunFails PROVE IInv'
<1>1. step \in Steps /\ This.op = "run" /\ Fails /\ UNCHANGED published
  BY DEF RunFails, At
<1>2. iter' = iter
  BY DEF RunFails, Goto
<1>3. PICK content \in {{}, {0}} : Written(content) \/ UNCHANGED files
  BY DEF RunFails, Broken, Absent
<1>4. \A f \in Files : files'[f] \in {files[f], content}
  BY <1>3 DEF Written
<1>5. files' \in [Files -> SUBSET (0 .. MaxIter)]
  BY <1>3, MaxIterAssumption DEF Written, IInv, TypeOK
<1>6. HistoryExplained'
  BY <1>1, <1>2, <1>4, FailingStep, HistoryStep
<1>7. CASE Goto(step + 1)
  BY <1>1, <1>2, <1>5, <1>6, <1>7, FailingStep, StepInv
<1>8. CASE pc' = "hung" /\ UNCHANGED <<iter, step>>
  <2>1. \A i : FailedIn(i) => FailedIn(i)'
    BY <1>1, <1>2, FailingStep DEF FailedIn
  <2>2. TypeOK'
    BY <1>1, <1>2, <1>5, <1>8, FailingStep DEF IInv, TypeOK
  <2>3. CleanIterationIsFresh'
    BY <1>1, <1>8, <2>1 DEF IInv, CleanIterationIsFresh, Over
  <2>4. StaleIsExplained'
    BY <1>1, <2>1 DEF IInv, StaleIsExplained
  <2>5. QED
    BY <1>1, <1>2, <1>6, <2>2, <2>3, <2>4, FailingStep DEF IInv
<1>9. QED
  BY <1>7, <1>8 DEF RunFails

LEMMA PublishInv == ASSUME IInv, Publish PROVE IInv'
<1>1. step \in Steps /\ This.op = "publish" /\ Goto(step + 1) /\ UNCHANGED files
  BY DEF Publish, At
<1>2. step = 22 /\ This.to = {} /\ This.from # {}
  BY <1>1, ScriptShape DEF This
<1>3. iter' = iter /\ step' = 23 /\ pc' = pc /\ iter \in Iterations
  BY <1>1, <1>2 DEF Goto, IInv, TypeOK
<1>4. \/ Fails /\ UNCHANGED published
      \/ UNCHANGED failed /\ published' = [published EXCEPT ![iter] = Made]
  BY DEF Publish
<1>5. failed \subseteq failed' /\ failed' \subseteq Iterations \X Steps
  BY <1>1, <1>3, <1>4, FailingStep DEF IInv, TypeOK
<1>6. \A i : FailedIn(i) => FailedIn(i)'
  BY <1>5 DEF FailedIn
<1>7. TypeOK'
  BY <1>1, <1>3, <1>4, <1>5, MadeExplained, ScriptSteps DEF IInv, TypeOK
<1>8. FreshSoFar'
  <2> SUFFICES ASSUME ~ FailedIn(iter)', NEW s \in 1 .. 22, NEW f \in Files, Writes(s, f)
               PROVE  files[f] = {iter}
    BY <1>1, <1>3 DEF FreshSoFar
  <2>1. ~ FailedIn(iter)
    BY <1>6, <1>3
  <2>2. s \in 1 .. step - 1
    BY <1>2 DEF Writes, This
  <2>3. QED
    BY <2>1, <2>2 DEF IInv, FreshSoFar
<1>9. HistoryExplained'
  BY <1>1, <1>3, <1>6 DEF IInv, HistoryExplained
<1>10. CleanIterationIsFresh'
  <2> SUFFICES ASSUME NEW i \in Iterations, Over(i)', ~ FailedIn(i)'
               PROVE  published'[i] = {i}
    BY DEF CleanIterationIsFresh
  <2>1. ~ FailedIn(i)
    BY <1>6
  <2>2. CASE i = iter
    <3>1. ~ Missing /\ Made = {iter}
      BY <1>1, <1>2, <2>1, <2>2, MadeFresh
    <3>2. published' = [published EXCEPT ![iter] = Made]
      BY <3>1 DEF Publish
    <3>3. QED
      BY <2>2, <3>1, <3>2 DEF IInv, TypeOK
  <2>3. CASE i # iter
    <3>1. Over(i)
      BY <1>3, <2>3 DEF Over
    <3>2. published[i] = {i}
      BY <2>1, <3>1 DEF IInv, CleanIterationIsFresh
    <3>3. QED
      BY <1>4, <2>3, <3>2 DEF IInv, TypeOK
  <2>4. QED
    BY <2>2, <2>3
<1>11. StaleIsExplained'
  <2> SUFFICES ASSUME NEW i \in Iterations, NEW j \in published'[i] \ {0}
               PROVE  j <= i /\ \A k \in j + 1 .. i : FailedIn(k)'
    BY DEF StaleIsExplained
  <2>1. CASE j \in published[i]
    BY <1>6, <2>1 DEF IInv, StaleIsExplained
  <2>2. CASE j \notin published[i]
    <3>1. i = iter /\ j \in Made
      BY <1>4, <2>2 DEF IInv, TypeOK
    <3>2. j <= iter /\ \A k \in j + 1 .. iter - 1 : FailedIn(k)
      BY <1>1, <3>1, MadeExplained
    <3>3. j # iter => FailedIn(iter)
      BY <1>1, <1>2, <3>1, MadeFresh
    <3>4. j \in Nat /\ iter \in Nat
      BY <1>1, <1>3, <3>1, MadeExplained, MaxIterAssumption DEF Iterations
    <3>5. QED
      BY <1>6, <3>1, <3>2, <3>3, <3>4
  <2>3. QED
    BY <2>1, <2>2
<1>12. QED
  BY <1>7, <1>8, <1>9, <1>10, <1>11 DEF IInv

LEMMA NextIterationInv == ASSUME IInv, NextIteration PROVE IInv'
<1>1. step = 23 /\ UNCHANGED <<files, published, failed>> /\ iter \in Nat
  BY ScriptSteps, MaxIterAssumption DEF NextIteration, IInv, TypeOK, Iterations
<1>2. \A i : FailedIn(i)' <=> FailedIn(i)
  BY <1>1 DEF FailedIn
<1>3. StaleIsExplained'
  BY <1>1, <1>2 DEF IInv, StaleIsExplained
<1>4. CASE pc' = "finished" /\ UNCHANGED <<iter, step>>
  <2>1. TypeOK'
    BY <1>1, <1>4 DEF IInv, TypeOK
  <2>2. FreshSoFar' /\ HistoryExplained' /\ CleanIterationIsFresh'
    BY <1>1, <1>2, <1>4 DEF IInv, FreshSoFar, HistoryExplained, CleanIterationIsFresh, Over
  <2>3. QED
    BY <1>3, <2>1, <2>2 DEF IInv
<1>5. CASE iter # MaxIter /\ iter' = iter + 1 /\ step' = 1 /\ UNCHANGED pc
  <2>1. TypeOK'
    BY <1>1, <1>5, ScriptSteps, MaxIterAssumption DEF IInv, TypeOK, Iterations
  <2>2. FreshSoFar'
    BY <1>5 DEF FreshSoFar
  <2>3. HistoryExplained'
    <3> SUFFICES ASSUME NEW f \in Files, NEW j \in files[f] \ {0}
                 PROVE  j <= iter + 1 /\ \A k \in j + 1 .. iter : FailedIn(k)
      BY <1>1, <1>2, <1>5 DEF HistoryExplained
    <3>1. j <= iter /\ \A k \in j + 1 .. iter - 1 : FailedIn(k)
      BY DEF IInv, HistoryExplained
    <3>2. j # iter => FailedIn(iter)
      <4>1. PICK t \in Steps : Writes(t, f)
        BY AllWritten
      <4>2. QED
        BY <1>1, <4>1, ScriptSteps DEF IInv, FreshSoFar
    <3>3. j \in Nat
      BY MaxIterAssumption DEF IInv, TypeOK
    <3>4. QED
      BY <1>1, <3>1, <3>2, <3>3
  <2>4. CleanIterationIsFresh'
    BY <1>1, <1>2, <1>5, ScriptSteps DEF IInv, CleanIterationIsFresh, Over, Iterations
  <2>5. QED
    BY <1>3, <2>1, <2>2, <2>3, <2>4 DEF IInv
<1>6. QED
  BY <1>4, <1>5 DEF NextIteration

LEMMA NextIInv == IInv /\ [Next]_vars => IInv'
<1> SUFFICES ASSUME IInv, [Next]_vars PROVE IInv'
  OBVIOUS
<1>1. CASE UNCHANGED vars
  BY <1>1 DEF vars, IInv, TypeOK, FreshSoFar, HistoryExplained, CleanIterationIsFresh,
              StaleIsExplained, Over, FailedIn
<1>2. CASE Next
  BY <1>2, RemoveInv, TakeInputInv, CopyInv, RunOKInv, RunFailsInv, PublishInv,
     NextIterationInv DEF Next
<1>3. QED
  BY <1>1, <1>2

-----------------------------------------------------------------------------
(***************************************************************************)
(* The variables of the driver have their types.                           *)
(***************************************************************************)
THEOREM PipelineTypeCorrect == Spec => []TypeOK
<1>1. IInv => TypeOK
  BY DEF IInv
<1>2. QED
  BY <1>1, InitIInv, NextIInv, PTL DEF Spec

(***************************************************************************)
(* An iteration without a failing step publishes a result made from its    *)
(* own input circuit alone, for every number of iterations and failures    *)
(* and whatever was in the directories before.                             *)
(***************************************************************************)
THEOREM CleanIterationsAreFresh == Spec => []CleanIterationIsFresh
<1>1. IInv => CleanIterationIsFresh
  BY DEF IInv
<1>2. QED
  BY <1>1, InitIInv, NextIInv, PTL DEF Spec

(***************************************************************************)
(* Stale material in a result needs a failure in each iteration since the  *)
(* one it was made in.                                                     *)
(***************************************************************************)
THEOREM StaleResultsAreExplained == Spec => []StaleIsExplained
<1>1. IInv => StaleIsExplained
  BY DEF IInv
<1>2. QED
  BY <1>1, InitIInv, NextIInv, PTL DEF Spec

-----------------------------------------------------------------------------
(* The readers of covers.  First, induction and joining strings.           *)

\* Induction up to a bound, for a set of numbers: if some number were missing,
\* the sets of numbers up to a missing one would have a minimal element.
LEMMA UpTo ==
    ASSUME NEW n \in Nat, NEW S \in SUBSET (0 .. n), 0 \in S,
           \A i \in 0 .. n - 1 : i \in S => i + 1 \in S
    PROVE  S = 0 .. n
<1> SUFFICES ASSUME S # 0 .. n PROVE FALSE
  OBVIOUS
<1> DEFINE T == {0 .. j : j \in (0 .. n) \ S}
<1>1. FiniteSubsetsOf(0 .. n) = SUBSET (0 .. n)
  <2>1. IsFiniteSet(0 .. n)
    BY FS_Interval
  <2>2. QED
    BY <2>1, FS_FiniteSubsetsOfFinite
<1>2. T \subseteq FiniteSubsetsOf(0 .. n) /\ T # {}
  <2>1. \A j \in (0 .. n) \ S : 0 .. j \in SUBSET (0 .. n)
    OBVIOUS
  <2>2. PICK j \in (0 .. n) \ S : TRUE
    OBVIOUS
  <2>3. 0 .. j \in T
    BY <2>2
  <2>4. QED
    BY <1>1, <2>1, <2>3
<1>3. PICK t \in T : \A u \in T : ~(<<u, t>> \in StrictSubsetOrdering(0 .. n))
  BY <1>2, FS_StrictSubsetOrderingWellFounded, FS_Interval, WFMin, Zenon
<1>4. PICK j \in (0 .. n) \ S : t = 0 .. j
  BY <1>3
<1>5. j # 0 /\ j - 1 \in 0 .. n - 1 /\ j - 1 \notin S
  BY <1>4
<1>6. 0 .. j - 1 \in T /\ 0 .. j - 1 \subseteq t /\ 0 .. j - 1 # t
  <2>1. j \in 0 .. j /\ j \notin 0 .. j - 1 /\ 0 .. j - 1 \subseteq 0 .. j
    BY <1>4
  <2>2. QED
    BY <1>4, <1>5, <2>1
<1>7. <<0 .. j - 1, t>> \in StrictSubsetOrdering(0 .. n)
  BY <1>1, <1>2, <1>3, <1>6 DEF StrictSubsetOrdering
<1>8. QED
  BY <1>3, <1>6, <1>7

\* The partial results of the recursion, up to the n-th sequence.
IsFlatten(f, ss, n) ==
    \A i \in 1 .. n : f[i] = IF i = 1 THEN ss[i] ELSE f[i - 1] \o ss[i]

LEMMA FlattenExists ==
  ASSUME NEW S, NEW ss \in Seq(Seq(S)), NEW n \in Nat, n = Len(ss)
  PROVE  \E f \in [1 .. n -> Seq(S)] : IsFlatten(f, ss, n)
<1> DEFINE T == {m \in 0 .. n : \E f \in [1 .. m -> Seq(S)] : IsFlatten(f, ss, m)}
<1>1. \A i \in 1 .. n : ss[i] \in Seq(S)
  OBVIOUS
<1>2. 0 \in T
  <2>1. PICK g \in [1 .. 0 -> Seq(S)] : TRUE
    <3>1. [i \in 1 .. 0 |-> <<>>] \in [1 .. 0 -> Seq(S)]
      OBVIOUS
    <3>2. QED
      BY <3>1
  <2>2. IsFlatten(g, ss, 0)
    BY DEF IsFlatten
  <2>3. 0 \in 0 .. n
    OBVIOUS
  <2>4. QED
    BY <2>1, <2>2, <2>3
<1>3. ASSUME NEW m \in 0 .. n - 1, m \in T PROVE m + 1 \in T
  <2>1. PICK f \in [1 .. m -> Seq(S)] : IsFlatten(f, ss, m)
    BY <1>3
  <2> DEFINE last == IF m = 0 THEN ss[1] ELSE f[m] \o ss[m + 1]
             g == [i \in 1 .. m + 1 |-> IF i = m + 1 THEN last ELSE f[i]]
  <2>2. last \in Seq(S)
    <3>1. CASE m = 0
      BY <1>1, <3>1
    <3>2. CASE m # 0
      <4>1. f[m] \in Seq(S) /\ ss[m + 1] \in Seq(S)
        BY <1>1, <3>2
      <4>2. f[m] \o ss[m + 1] \in Seq(S)
        BY <4>1
      <4>3. QED
        BY <3>2, <4>2
    <3>3. QED
      BY <3>1, <3>2
  <2> HIDE DEF last
  <2>3. g \in [1 .. m + 1 -> Seq(S)]
    BY <2>2
  <2>4. IsFlatten(g, ss, m + 1)
    <3> SUFFICES ASSUME NEW i \in 1 .. m + 1
                 PROVE  g[i] = IF i = 1 THEN ss[i] ELSE g[i - 1] \o ss[i]
      BY DEF IsFlatten
    <3>1. CASE i = m + 1
      <4>1. i = 1 <=> m = 0
        BY <3>1
      <4>2. m # 0 => i - 1 = m /\ i - 1 \in 1 .. m + 1 /\ g[i - 1] = f[m]
        BY <3>1
      <4>3. g[i] = last
        BY <3>1
      <4>4. QED
        BY <3>1, <4>1, <4>2, <4>3 DEF last
    <3>2. CASE i # m + 1
      <4>1. i \in 1 .. m /\ g[i] = f[i]
        BY <3>2
      <4>2. i # 1 => i - 1 \in 1 .. m + 1 /\ i - 1 # m + 1 /\ g[i - 1] = f[i - 1]
        BY <4>1
      <4>3. f[i] = IF i = 1 THEN ss[i] ELSE f[i - 1] \o ss[i]
        BY <2>1, <4>1 DEF IsFlatten
      <4>4. QED
        BY <4>1, <4>2, <4>3
    <3>3. QED
      BY <3>1, <3>2
  <2> HIDE DEF g
  <2>5. m + 1 \in 0 .. n
    OBVIOUS
  <2>6. QED
    BY <2>3, <2>4, <2>5
<1> HIDE DEF T
<1>4. T \in SUBSET (0 .. n)
  BY DEF T
<1>5. T = 0 .. n
  BY <1>2, <1>3, <1>4, UpTo
<1>6. n \in T
  BY <1>5
<1>7. QED
  BY <1>6 DEF T

\* FlattenSeq is the last of them.
LEMMA FlattenIs ==
  ASSUME NEW S, NEW ss \in Seq(Seq(S)), NEW n \in Nat, n = Len(ss)
  PROVE  /\ n = 0 => FlattenSeq(ss) = <<>>
         /\ n # 0 => \E f \in [1 .. n -> Seq(S)] : IsFlatten(f, ss, n) /\ FlattenSeq(ss) = f[n]
<1>1. ASSUME n = 0 PROVE FlattenSeq(ss) = <<>>
  <2>1. ss = <<>>
    BY <1>1, EmptySeq
  <2>2. FlattenSeq(ss) = ss
    BY <1>1 DEF FlattenSeq
  <2>3. QED
    BY <2>1, <2>2
<1>2. ASSUME n # 0
      PROVE  \E f \in [1 .. n -> Seq(S)] : IsFlatten(f, ss, n) /\ FlattenSeq(ss) = f[n]
  <2> DEFINE body(f) == [i \in 1 .. n |-> IF i = 1 THEN ss[i] ELSE f[i - 1] \o ss[i]]
             flat == CHOOSE f : f = body(f)
  <2>1. PICK f \in [1 .. n -> Seq(S)] : IsFlatten(f, ss, n)
    BY FlattenExists
  <2>2. f = body(f)
    BY <2>1 DEF IsFlatten
  <2>3. flat = body(flat)
    BY ZenonT(40), <2>2
  <2>4. FlattenSeq(ss) = flat[n]
    BY <1>2 DEF FlattenSeq
  <2> HIDE DEF flat
  <2>5. \A i \in 1 .. n : flat[i] = IF i = 1 THEN ss[i] ELSE flat[i - 1] \o ss[i]
    BY <2>3
  <2>6. DOMAIN flat = 1 .. n /\ flat = [i \in 1 .. n |-> flat[i]]
    BY <2>3
  <2> DEFINE T == {m \in 0 .. n : m # 0 => flat[m] = f[m]}
  <2>7. 0 \in T
    OBVIOUS
  <2>8. ASSUME NEW m \in 0 .. n - 1, m \in T PROVE m + 1 \in T
    <3>1. m + 1 \in 1 .. n /\ m + 1 - 1 = m /\ (m + 1 = 1 <=> m = 0)
      OBVIOUS
    <3> PICK k \in 1 .. n : k = m + 1
      BY <3>1
    <3>2. f[k] = IF k = 1 THEN ss[k] ELSE f[k - 1] \o ss[k]
      BY <2>1 DEF IsFlatten
    <3>3. flat[k] = IF k = 1 THEN ss[k] ELSE flat[k - 1] \o ss[k]
      BY <2>5
    <3>4. k # 1 => k - 1 = m /\ flat[m] = f[m]
      BY <2>8
    <3>5. flat[k] = f[k]
      BY <3>2, <3>3, <3>4
    <3>6. QED
      BY <3>1, <3>5
  <2>9. T = 0 .. n
    <3>1. T \in SUBSET (0 .. n)
      OBVIOUS
    <3> HIDE DEF T
    <3>2. QED
      BY <2>7, <2>8, <3>1, UpTo
  <2>10. flat[n] = f[n]
    <3>1. n \in 0 .. n
      OBVIOUS
    <3>2. n \in T
      BY <2>9, <3>1, Zenon
    <3>3. QED
      BY <1>2, <3>2
  <2>11. QED
    BY <2>1, <2>4, <2>10
<1>3. QED
  BY <1>1, <1>2

-----------------------------------------------------------------------------
(* Strings and their columns.                                              *)

CubesOf(n) == [1 .. n -> Bits \cup {"-"}]
Strings == Seq(Seq(Bits))

LEMMA FunctionSeq ==
  ASSUME NEW S, NEW n \in Nat, NEW f \in [1 .. n -> S]
  PROVE  f \in Seq(S) /\ Len(f) = n /\ DOMAIN f = 1 .. n
  OBVIOUS

LEMMA OneMore ==
  ASSUME NEW S, NEW s \in Seq(S), NEW e \in S
  PROVE  /\ s \o <<e>> \in Seq(S) /\ Len(s \o <<e>>) = Len(s) + 1
         /\ \A i \in 1 .. Len(s) : (s \o <<e>>)[i] = s[i]
         /\ (s \o <<e>>)[Len(s) + 1] = e
<1>1. s \o <<e>> = Append(s, e)
  BY AppendIsConcat
<1>2. QED
  BY <1>1, AppendProperties

\* The columns of a row, joined, are the row.
LEMMA RowJoined ==
  ASSUME NEW n \in Nat, NEW row \in Rows(n)
  PROVE  FlattenSeq(Split(row)) = row
<1> DEFINE ss == Split(row)
<1>1. row \in Seq(Bits) /\ Len(row) = n /\ DOMAIN row = 1 .. n /\ \A i \in 1 .. n : row[i] \in Bits
  BY DEF Rows
<1>2. ss \in [1 .. n -> Seq(Bits)] /\ \A i \in 1 .. n : ss[i] = <<row[i]>>
  BY <1>1 DEF Split
<1> HIDE DEF ss
<1>3. ss \in Seq(Seq(Bits)) /\ Len(ss) = n
  BY <1>2
<1>4. CASE n = 0
  <2>1. FlattenSeq(ss) = <<>>
    BY <1>3, <1>4, FlattenIs
  <2>2. row = <<>>
    BY <1>1, <1>4, EmptySeq
  <2>3. QED
    BY <2>1, <2>2 DEF ss
<1>5. CASE n # 0
  <2>1. PICK f \in [1 .. n -> Seq(Bits)] : IsFlatten(f, ss, n) /\ FlattenSeq(ss) = f[n]
    BY <1>3, <1>5, FlattenIs
  <2> DEFINE Prefix(t, m) == Len(t) = m /\ \A i \in 1 .. m : t[i] = row[i]
             T == {m \in 0 .. n : m # 0 => Prefix(f[m], m)}
  <2>2. 0 \in T
    OBVIOUS
  <2>3. ASSUME NEW m \in 0 .. n - 1, m \in T PROVE m + 1 \in T
    <3>1. m + 1 \in 1 .. n /\ m + 1 - 1 = m /\ (m + 1 = 1 <=> m = 0)
      OBVIOUS
    <3> PICK k \in 1 .. n : k = m + 1
      BY <3>1
    <3>2. f[k] = IF k = 1 THEN ss[k] ELSE f[k - 1] \o ss[k]
      BY <2>1 DEF IsFlatten
    <3>3. Prefix(f[k], k)
      <4>1. CASE k = 1
        <5>1. f[k] = <<row[1]>>
          BY <1>2, <3>2, <4>1
        <5>2. QED
          BY <5>1, <4>1
      <4>2. CASE k # 1
        <5>1. m \in 1 .. n /\ k - 1 = m
          BY <4>2
        <5>2. f[m] \in Seq(Bits) /\ Prefix(f[m], m)
          BY <2>1, <2>3, <5>1
        <5>3. f[k] = f[m] \o <<row[k]>>
          BY <1>2, <3>2, <4>2, <5>1
        <5>4. /\ Len(f[k]) = Len(f[m]) + 1
              /\ \A i \in 1 .. Len(f[m]) : f[k][i] = f[m][i]
              /\ f[k][Len(f[m]) + 1] = row[k]
          <6> DEFINE s == f[m]
                     e == row[k]
          <6>1. s \in Seq(Bits) /\ e \in Bits
            BY <1>1, <5>2
          <6> HIDE DEF s, e
          <6>2. /\ Len(s \o <<e>>) = Len(s) + 1
                /\ \A i \in 1 .. Len(s) : (s \o <<e>>)[i] = s[i]
                /\ (s \o <<e>>)[Len(s) + 1] = e
            BY <6>1, OneMore
          <6>3. QED
            BY <5>3, <6>2, Zenon DEF s, e
        <5>5. QED
          BY <5>1, <5>2, <5>4
      <4>3. QED
        BY <4>1, <4>2
    <3>4. QED
      BY <3>1, <3>3
  <2>4. T = 0 .. n
    <3>1. T \in SUBSET (0 .. n)
      OBVIOUS
    <3> HIDE DEF T
    <3>2. QED
      BY <2>2, <2>3, <3>1, UpTo
  <2>5. Prefix(f[n], n)
    <3>1. n \in 0 .. n
      OBVIOUS
    <3>2. n \in T
      BY <2>4, <3>1, Zenon
    <3>3. QED
      BY <1>5, <3>2
  <2>6. f[n] \in Seq(Bits)
    BY <2>1, <1>5
  <2>7. f[n] = row
    BY <1>1, <2>5, <2>6, SeqEqual
  <2>8. QED
    BY <2>1, <2>7 DEF ss
<1>6. QED
  BY <1>4, <1>5

\* Strings joined make a string.
LEMMA StringsJoined ==
  ASSUME NEW ss \in Strings
  PROVE  FlattenSeq(ss) \in Seq(Bits)
<1> PICK n \in Nat : n = Len(ss)
  BY DEF Strings
<1>1. CASE n = 0
  BY <1>1, FlattenIs DEF Strings
<1>2. CASE n # 0
  <2>1. PICK f \in [1 .. n -> Seq(Bits)] : FlattenSeq(ss) = f[n]
    BY <1>2, FlattenIs DEF Strings
  <2>2. QED
    BY <1>2, <2>1
<1>3. QED
  BY <1>1, <1>2

\* The first of some places.
LEMMA FirstOf ==
  ASSUME NEW n \in Nat, NEW D \in SUBSET (1 .. n), D # {}
  PROVE  \E i \in D : \A j \in D : i <= j
<1> SUFFICES ASSUME \A i \in D : \E j \in D : j < i PROVE FALSE
  OBVIOUS
<1> DEFINE T == {k \in 0 .. n : \A j \in 1 .. k : j \notin D}
<1>1. 0 \in T
  OBVIOUS
<1>2. ASSUME NEW k \in 0 .. n - 1, k \in T PROVE k + 1 \in T
  <2>1. k + 1 \notin D
    <3> SUFFICES ASSUME k + 1 \in D PROVE FALSE
      OBVIOUS
    <3>1. PICK j \in D : j < k + 1
      OBVIOUS
    <3>2. j \in 1 .. k
      BY <3>1
    <3>3. QED
      BY <1>2, <3>2
  <2>2. QED
    BY <1>2, <2>1
<1>3. T = 0 .. n
  <2>1. T \in SUBSET (0 .. n)
    OBVIOUS
  <2> HIDE DEF T
  <2>2. QED
    BY <1>1, <1>2, <2>1, UpTo
<1>4. n \in T
  <2>1. n \in 0 .. n
    OBVIOUS
  <2>2. QED
    BY <1>3, <2>1, Zenon
<1>5. QED
  BY <1>4

-----------------------------------------------------------------------------
(* The arguments of subroutine: the columns of a cube, with or without     *)
(* strings behind them.                                                    *)

LEMMA SplitFacts ==
  ASSUME NEW n \in Nat, NEW cube \in CubesOf(n), NEW tail \in Strings
  PROVE  LET args == Split(cube) \o tail
         IN  /\ args \in Seq(Seq(Bits \cup {"-"}))
             /\ Len(args) = n + Len(tail) /\ DOMAIN args = 1 .. n + Len(tail)
             /\ \A i \in 1 .. n : args[i] = <<cube[i]>>
             /\ \A i \in 1 .. Len(tail) : args[n + i] = tail[i]
<1> DEFINE S == Seq(Bits \cup {"-"})
           ss == Split(cube)
           args == ss \o tail
<1>1. tail \in Seq(S) /\ Len(tail) \in Nat
  <2>1. Seq(Bits) \subseteq S
    OBVIOUS
  <2>2. QED
    BY <2>1, SeqMonotonic DEF Strings
<1>2. /\ cube \in Seq(Bits \cup {"-"}) /\ Len(cube) = n /\ DOMAIN cube = 1 .. n
      /\ \A i \in 1 .. n : cube[i] \in Bits \cup {"-"}
  BY DEF CubesOf
<1>3. ss \in [1 .. n -> S] /\ \A i \in 1 .. n : ss[i] = <<cube[i]>>
  BY <1>2 DEF Split
<1> HIDE DEF ss, S
<1>4. ss \in Seq(S) /\ Len(ss) = n
  BY <1>3, FunctionSeq
<1>5. /\ args \in Seq(S) /\ Len(args) = n + Len(tail)
      /\ \A i \in 1 .. n + Len(tail) : args[i] = IF i <= n THEN ss[i] ELSE tail[i - n]
  BY <1>1, <1>4, ConcatProperties
<1>6. \A i \in 1 .. Len(tail) : args[n + i] = tail[i]
  <2> SUFFICES ASSUME NEW i \in 1 .. Len(tail) PROVE args[n + i] = tail[i]
    OBVIOUS
  <2>1. n + i \in 1 .. n + Len(tail) /\ ~ (n + i <= n) /\ n + i - n = i
    BY <1>1
  <2>2. QED
    BY <1>5, <2>1
<1>7. DOMAIN args = 1 .. n + Len(tail)
  BY <1>5
<1>8. \A i \in 1 .. n : args[i] = <<cube[i]>>
  <2> SUFFICES ASSUME NEW i \in 1 .. n PROVE args[i] = <<cube[i]>>
    OBVIOUS
  <2>1. i \in 1 .. n + Len(tail) /\ i <= n
    BY <1>1
  <2>2. QED
    BY <1>3, <1>5, <2>1
<1>9. QED
  BY <1>5, <1>6, <1>7, <1>8 DEF ss, S

\* Only columns have dashes.
LEMMA DashedFacts ==
  ASSUME NEW n \in Nat, NEW cube \in CubesOf(n), NEW tail \in Strings
  PROVE  Dashed(Split(cube) \o tail) = {i \in 1 .. n : cube[i] = "-"}
<1> DEFINE args == Split(cube) \o tail
<1>1. /\ Len(tail) \in Nat
      /\ DOMAIN args = 1 .. n + Len(tail)
      /\ \A i \in 1 .. n : args[i] = <<cube[i]>>
      /\ \A i \in 1 .. Len(tail) : args[n + i] = tail[i]
  BY SplitFacts DEF Strings
<1> HIDE DEF args
<1>2. ASSUME NEW i \in 1 .. n PROVE Contains(args[i], "-") <=> cube[i] = "-"
  <2>1. args[i] = <<cube[i]>>
    BY <1>1
  <2>2. Len(<<cube[i]>>) = 1 /\ <<cube[i]>>[1] = cube[i]
    OBVIOUS
  <2>3. QED
    BY <2>1, <2>2 DEF Contains
<1>3. ASSUME NEW i \in 1 .. n + Len(tail), i \notin 1 .. n PROVE ~ Contains(args[i], "-")
  <2>1. i - n \in 1 .. Len(tail) /\ n + (i - n) = i
    BY <1>1, <1>3
  <2>2. args[i] = tail[i - n]
    BY <1>1, <2>1
  <2>3. tail[i - n] \in Seq(Bits)
    BY <2>1, ElementOfSeq DEF Strings
  <2>4. \A k \in 1 .. Len(args[i]) : args[i][k] \in Bits
    BY <2>2, <2>3
  <2>5. "-" \notin Bits
    BY DEF Bits
  <2>6. QED
    BY <2>4, <2>5 DEF Contains
<1>4. 1 .. n \subseteq 1 .. n + Len(tail)
  BY <1>1
<1>5. Dashed(args) = {i \in 1 .. n + Len(tail) : Contains(args[i], "-")}
  BY <1>1 DEF Dashed
<1>6. QED
  BY <1>2, <1>3, <1>4, <1>5, Zenon DEF args

\* The two cubes that a cube with a dash stands for.
With(cube, i, bit) == [cube EXCEPT ![i] = bit]

IsFirstDash(cube, i) == cube[i] = "-" /\ \A j \in 1 .. i - 1 : cube[j] # "-"

LEMMA FirstDash ==
  ASSUME NEW n \in Nat, NEW cube \in CubesOf(n), NEW tail \in Strings,
         Dashed(Split(cube) \o tail) # {}
  PROVE  \E i \in 1 .. n :
            /\ IsFirstDash(cube, i)
            /\ \A bit \in Bits : Becomes(Split(cube) \o tail, bit) = Split(With(cube, i, bit)) \o tail
<1> DEFINE args == Split(cube) \o tail
           D == {i \in 1 .. n : cube[i] = "-"}
<1>1. Dashed(args) = D /\ D # {} /\ D \in SUBSET (1 .. n)
  BY DashedFacts
<1>2. /\ args \in Seq(Seq(Bits \cup {"-"})) /\ Len(tail) \in Nat
      /\ Len(args) = n + Len(tail) /\ DOMAIN args = 1 .. n + Len(tail)
      /\ \A i \in 1 .. n : args[i] = <<cube[i]>>
      /\ \A i \in 1 .. Len(tail) : args[n + i] = tail[i]
  BY SplitFacts DEF Strings
<1> HIDE DEF args
<1> DEFINE i == FirstDashed(args)
<1>3. i \in D /\ \A j \in D : i <= j
  <2>1. \E k \in D : \A j \in D : k <= j
    BY <1>1, FirstOf, Zenon
  <2>2. QED
    BY <1>1, <2>1 DEF FirstDashed
<1> HIDE DEF i
<1>4. i \in 1 .. n
  BY <1>3
<1>5. IsFirstDash(cube, i)
  BY <1>3, <1>4 DEF IsFirstDash
<1>6. ASSUME NEW bit \in Bits PROVE Becomes(args, bit) = Split(With(cube, i, bit)) \o tail
  <2> DEFINE new == With(cube, i, bit)
             l == n + Len(tail)
  <2>1. new \in CubesOf(n) /\ \A j \in 1 .. n : new[j] = IF j = i THEN bit ELSE cube[j]
    BY <1>4 DEF With, CubesOf
  <2> HIDE DEF new
  <2> DEFINE left == Becomes(args, bit)
             right == Split(new) \o tail
  <2>2. /\ right \in Seq(Seq(Bits \cup {"-"})) /\ Len(right) = l
        /\ \A j \in 1 .. n : right[j] = <<new[j]>>
        /\ \A j \in 1 .. Len(tail) : right[n + j] = tail[j]
    BY <2>1, SplitFacts
  <2> HIDE DEF right
  <2>3. <<bit>> \in Seq(Bits \cup {"-"})
    OBVIOUS
  <2>4. i \in 1 .. Len(args)
    BY <1>2, <1>4
  <2>5. /\ left \in Seq(Seq(Bits \cup {"-"})) /\ Len(left) = l
        /\ \A j \in 1 .. l : left[j] = IF j = i THEN <<bit>> ELSE args[j]
    BY <1>2, <2>3, <2>4, ExceptSeq DEF Becomes, i
  <2> HIDE DEF left
  <2>6. ASSUME NEW j \in 1 .. l PROVE left[j] = right[j]
    <3>1. CASE j \in 1 .. n
      BY <1>2, <2>1, <2>2, <2>5, <3>1
    <3>2. CASE j \notin 1 .. n
      <4>1. j - n \in 1 .. Len(tail) /\ n + (j - n) = j /\ j # i
        BY <1>2, <1>4, <3>2
      <4>2. args[j] = tail[j - n] /\ right[j] = tail[j - n]
        BY <1>2, <2>2, <4>1
      <4>3. left[j] = args[j]
        BY <2>5, <4>1
      <4>4. QED
        BY <4>2, <4>3
    <3>3. QED
      BY <3>1, <3>2
  <2>7. left = right
    <3>1. Len(left) = Len(right) /\ \A j \in 1 .. Len(left) : left[j] = right[j]
      BY <2>2, <2>5, <2>6
    <3>2. QED
      BY <2>2, <2>5, <3>1, SeqEqual
  <2>8. QED
    BY <2>7 DEF left, right, new
<1>7. QED
  BY <1>4, <1>5, <1>6 DEF args

LEMMA NoDash ==
  ASSUME NEW n \in Nat, NEW cube \in CubesOf(n), NEW tail \in Strings,
         Dashed(Split(cube) \o tail) = {}
  PROVE  cube \in Rows(n) /\ FlattenSeq(Split(cube) \o tail) \in Seq(Bits)
<1>1. \A i \in 1 .. n : cube[i] # "-"
  BY DashedFacts
<1>2. cube \in Rows(n)
  BY <1>1 DEF CubesOf, Rows
<1>3. Split(cube) \in Seq(Seq(Bits))
  BY <1>2 DEF Split, Rows
<1>4. Split(cube) \o tail \in Strings
  BY <1>3, ConcatProperties DEF Strings
<1>5. QED
  BY <1>2, <1>4, StringsJoined

-----------------------------------------------------------------------------
(* What has been expanded of a cube.                                       *)

Covered(n, cube) == {row \in Rows(n) : Covers(cube, row)}

\* Every row of one cube is smaller than those of the other.
CubeBefore(n, cube, other) ==
    \A r, s \in Rows(n) : Covers(cube, r) /\ Covers(other, s) => Smaller(r, s)

(***************************************************************************)
(* The rows that were returned and the cubes that are pending make up the  *)
(* cube, and all of them are in order.                                     *)
(***************************************************************************)
Ordered(n, cubes, rows) ==
    /\ \A i, j \in 1 .. Len(cubes) : i < j => CubeBefore(n, cubes[i], cubes[j])
    /\ \A k, l \in 1 .. Len(rows) : k < l => Smaller(rows[k], rows[l])
    /\ \A k \in 1 .. Len(rows) : \A i \in 1 .. Len(cubes) :
          \A row \in Rows(n) : Covers(cubes[i], row) => Smaller(rows[k], row)

Listed(cubes, rows, row) ==
    \/ \E k \in 1 .. Len(rows) : rows[k] = row
    \/ \E i \in 1 .. Len(cubes) : Covers(cubes[i], row)

Partly(n, cube, cubes, rows) ==
    /\ cubes \in Seq(CubesOf(n))
    /\ rows \in Seq(Rows(n))
    /\ \A row \in Rows(n) : Covers(cube, row) <=> Listed(cubes, rows, row)
    /\ Ordered(n, cubes, rows)

\* The first element replaced by two.
LEMMA TwoForOne ==
  ASSUME NEW S, NEW s \in Seq(S), s # <<>>, NEW a \in S, NEW b \in S
  PROVE  LET t == <<a, b>> \o Tail(s)
         IN  /\ t \in Seq(S) /\ Len(t) = Len(s) + 1 /\ Len(s) \in Nat \ {0}
             /\ t[1] = a /\ t[2] = b
             /\ \A i \in 1 .. Len(t) : i > 2 => i - 1 \in 2 .. Len(s) /\ t[i] = s[i - 1]
<1> DEFINE t == <<a, b>> \o Tail(s)
<1>1. /\ Len(s) \in Nat \ {0} /\ Tail(s) \in Seq(S) /\ Len(Tail(s)) = Len(s) - 1
      /\ \A i \in 1 .. Len(Tail(s)) : Tail(s)[i] = s[i + 1]
  BY EmptySeq, HeadTailProperties
<1>2. <<a, b>> \in Seq(S) /\ Len(<<a, b>>) = 2 /\ <<a, b>>[1] = a /\ <<a, b>>[2] = b
  OBVIOUS
<1>3. /\ t \in Seq(S) /\ Len(t) = Len(s) + 1
      /\ \A i \in 1 .. Len(s) + 1 : t[i] = IF i <= 2 THEN <<a, b>>[i] ELSE Tail(s)[i - 2]
  <2> DEFINE p == <<a, b>>
             u == Tail(s)
  <2> HIDE DEF p, u
  <2>1. /\ p \o u \in Seq(S) /\ Len(p \o u) = Len(p) + Len(u)
        /\ \A i \in 1 .. Len(p) + Len(u) : (p \o u)[i] = IF i <= Len(p) THEN p[i] ELSE u[i - Len(p)]
    BY <1>1, <1>2, ConcatProperties DEF p, u
  <2>2. Len(p) = 2 /\ Len(p) + Len(u) = Len(s) + 1
    BY <1>1, <1>2 DEF p, u
  <2>3. QED
    BY <2>1, <2>2 DEF p, u
<1> HIDE DEF t
<1>4. t[1] = a /\ t[2] = b
  <2>1. 1 \in 1 .. Len(s) + 1 /\ 2 \in 1 .. Len(s) + 1
    BY <1>1
  <2>2. QED
    BY <1>2, <1>3, <2>1
<1>5. ASSUME NEW i \in 1 .. Len(t), i > 2 PROVE i - 1 \in 2 .. Len(s) /\ t[i] = s[i - 1]
  <2>1. i \in 1 .. Len(s) + 1 /\ ~ (i <= 2) /\ i - 2 \in 1 .. Len(Tail(s)) /\ i - 2 + 1 = i - 1 /\ i - 1 \in 2 .. Len(s)
    BY <1>1, <1>3, <1>5
  <2>2. QED
    BY <1>1, <1>3, <2>1
<1>6. QED
  BY <1>1, <1>3, <1>4, <1>5 DEF t

LEMMA WithFacts ==
  ASSUME NEW n \in Nat, NEW cube \in CubesOf(n), NEW i \in 1 .. n, NEW bit \in Bits
  PROVE  /\ With(cube, i, bit) \in CubesOf(n)
         /\ \A j \in 1 .. n : With(cube, i, bit)[j] = IF j = i THEN bit ELSE cube[j]
         /\ cube[i] = "-" => \A row \in Rows(n) : Covers(With(cube, i, bit), row) <=>
                                                      Covers(cube, row) /\ row[i] = bit
<1> DEFINE new == With(cube, i, bit)
<1>1. new \in CubesOf(n) /\ \A j \in 1 .. n : new[j] = IF j = i THEN bit ELSE cube[j]
  BY DEF With, CubesOf
<1>2. DOMAIN new = 1 .. n /\ DOMAIN cube = 1 .. n
  BY <1>1 DEF CubesOf
<1> HIDE DEF new
<1>3. "-" \notin Bits
  BY DEF Bits
<1>4. ASSUME cube[i] = "-", NEW row \in Rows(n) PROVE Covers(new, row) <=> Covers(cube, row) /\ row[i] = bit
  BY <1>1, <1>2, <1>3, <1>4 DEF Covers
<1>5. QED
  BY <1>1, <1>4 DEF new

\* The rows with 0 at the first dash come before those with 1.
LEMMA ZerosBeforeOnes ==
  ASSUME NEW n \in Nat, NEW cube \in CubesOf(n), NEW i \in 1 .. n, IsFirstDash(cube, i)
  PROVE  CubeBefore(n, With(cube, i, "0"), With(cube, i, "1"))
<1> SUFFICES ASSUME NEW r \in Rows(n), NEW s \in Rows(n),
                    Covers(With(cube, i, "0"), r), Covers(With(cube, i, "1"), s)
             PROVE  Smaller(r, s)
  BY DEF CubeBefore
<1>1. "0" \in Bits /\ "1" \in Bits
  BY DEF Bits
<1>2. Covers(cube, r) /\ r[i] = "0" /\ Covers(cube, s) /\ s[i] = "1"
  BY <1>1, WithFacts DEF IsFirstDash
<1>3. DOMAIN cube = 1 .. n /\ DOMAIN r = 1 .. n
  BY DEF CubesOf, Rows
<1>4. \A j \in 1 .. i - 1 : r[j] = s[j]
  <2> SUFFICES ASSUME NEW j \in 1 .. i - 1 PROVE r[j] = s[j]
    OBVIOUS
  <2>1. j \in 1 .. n /\ cube[j] # "-"
    BY DEF IsFirstDash
  <2>2. cube[j] \in {"-", r[j]} /\ cube[j] \in {"-", s[j]}
    BY <1>2, <1>3, <2>1 DEF Covers
  <2>3. QED
    BY <2>1, <2>2
<1>5. QED
  BY <1>2, <1>3, <1>4 DEF Smaller

\* A call that calls itself twice.
LEMMA PartlyTwice ==
  ASSUME NEW n \in Nat, NEW cube, NEW cubes, NEW rows, Partly(n, cube, cubes, rows), cubes # <<>>,
         NEW i \in 1 .. n, IsFirstDash(cubes[1], i)
  PROVE  Partly(n, cube, <<With(cubes[1], i, "0"), With(cubes[1], i, "1")>> \o Tail(cubes), rows)
<1> DEFINE c == cubes[1]
           zero == With(c, i, "0")
           one == With(c, i, "1")
           new == <<zero, one>> \o Tail(cubes)
           m == Len(cubes)
<1>1. cubes \in Seq(CubesOf(n)) /\ rows \in Seq(Rows(n)) /\ m \in Nat \ {0} /\ Len(rows) \in Nat
  BY EmptySeq DEF Partly
<1>2. c \in CubesOf(n) /\ c[i] = "-" /\ 1 \in 1 .. m
  BY <1>1, ElementOfSeq DEF IsFirstDash
<1>3. "0" \in Bits /\ "1" \in Bits /\ \A bit \in Bits : bit = "0" \/ bit = "1"
  BY DEF Bits
<1>4. /\ zero \in CubesOf(n) /\ one \in CubesOf(n)
      /\ \A row \in Rows(n) : Covers(zero, row) <=> Covers(c, row) /\ row[i] = "0"
      /\ \A row \in Rows(n) : Covers(one, row) <=> Covers(c, row) /\ row[i] = "1"
  BY <1>2, <1>3, WithFacts
<1>5. /\ new \in Seq(CubesOf(n)) /\ Len(new) = m + 1
      /\ new[1] = zero /\ new[2] = one
      /\ \A j \in 1 .. Len(new) : j > 2 => j - 1 \in 2 .. m /\ new[j] = cubes[j - 1]
  BY <1>1, <1>4, TwoForOne
<1>6. CubeBefore(n, zero, one)
  BY <1>2, ZerosBeforeOnes
<1> HIDE DEF new, zero, one
\* Which cube a new one is part of.
<1> DEFINE old(j) == IF j <= 2 THEN 1 ELSE j - 1
<1>7. ASSUME NEW j \in 1 .. m + 1
      PROVE  old(j) \in 1 .. m /\ \A row \in Rows(n) : Covers(new[j], row) => Covers(cubes[old(j)], row)
  <2>1. CASE j = 1
    BY <1>1, <1>4, <1>5, <2>1
  <2>2. CASE j = 2
    BY <1>1, <1>4, <1>5, <2>2
  <2>3. CASE j > 2
    <3>1. j \in 1 .. Len(new)
      BY <1>5
    <3>2. j - 1 \in 1 .. m /\ new[j] = cubes[j - 1] /\ ~ (j <= 2)
      BY <1>5, <2>3, <3>1
    <3>3. QED
      BY <3>2
  <2>4. QED
    BY <2>1, <2>2, <2>3
<1>8. ASSUME NEW row \in Rows(n), NEW j \in 1 .. m, Covers(cubes[j], row)
      PROVE  \E k \in 1 .. m + 1 : Covers(new[k], row)
  <2>1. CASE j = 1
    <3>1. row[i] \in Bits
      BY DEF Rows
    <3>2. Covers(zero, row) \/ Covers(one, row)
      BY <1>3, <1>4, <1>8, <2>1, <3>1
    <3>3. 1 \in 1 .. m + 1 /\ 2 \in 1 .. m + 1
      BY <1>1
    <3>4. QED
      BY <1>5, <3>2, <3>3
  <2>2. CASE j # 1
    <3>1. j + 1 \in 1 .. Len(new) /\ j + 1 > 2 /\ j + 1 - 1 = j
      BY <1>5, <2>2
    <3>2. new[j + 1] = cubes[j]
      BY <1>5, <3>1
    <3>3. QED
      BY <1>5, <1>8, <3>1, <3>2
  <2>3. QED
    BY <2>1, <2>2
<1>9. ASSUME NEW row \in Rows(n) PROVE Listed(cubes, rows, row) <=> Listed(new, rows, row)
  BY <1>5, <1>7, <1>8 DEF Listed
<1>10. ASSUME NEW j \in 1 .. m + 1, NEW k \in 1 .. m + 1, j < k PROVE CubeBefore(n, new[j], new[k])
  <2>1. CASE k = 2
    <3>1. j = 1
      BY <1>10, <2>1
    <3>2. QED
      BY <1>5, <1>6, <2>1, <3>1
  <2>2. CASE k # 2
    <3>1. old(j) \in 1 .. m /\ old(k) \in 1 .. m /\ old(j) < old(k)
      <4>1. k > 2
        BY <1>10, <2>2
      <4>2. old(k) = k - 1
        BY <4>1
      <4>3. old(j) < k - 1
        BY <1>10, <4>1
      <4>4. QED
        BY <1>7, <4>2, <4>3
    <3>2. CubeBefore(n, cubes[old(j)], cubes[old(k)])
      <4> HIDE DEF old
      <4>1. QED
        BY <3>1 DEF Partly, Ordered
    <3>3. QED
      <4>1. /\ \A row \in Rows(n) : Covers(new[j], row) => Covers(cubes[old(j)], row)
            /\ \A row \in Rows(n) : Covers(new[k], row) => Covers(cubes[old(k)], row)
        BY <1>7
      <4> HIDE DEF old
      <4>2. QED
        BY <3>2, <4>1 DEF CubeBefore
  <2>3. QED
    BY <2>1, <2>2
<1>11. ASSUME NEW k \in 1 .. Len(rows), NEW j \in 1 .. m + 1, NEW row \in Rows(n), Covers(new[j], row)
       PROVE  Smaller(rows[k], row)
  <2>1. old(j) \in 1 .. m /\ Covers(cubes[old(j)], row)
    BY <1>7, <1>11
  <2> HIDE DEF old
  <2>2. QED
    BY <2>1 DEF Partly, Ordered
<1>12. Ordered(n, new, rows)
  <2>1. \A k, l \in 1 .. Len(rows) : k < l => Smaller(rows[k], rows[l])
    BY DEF Partly, Ordered
  <2>2. QED
    BY <1>5, <1>10, <1>11, <2>1 DEF Ordered
<1>13. \A row \in Rows(n) : Covers(cube, row) <=> Listed(new, rows, row)
  BY <1>9 DEF Partly
<1>14. QED
  BY <1>1, <1>5, <1>12, <1>13 DEF Partly, new, zero, one

\* A call that returns.
LEMMA PartlyReturned ==
  ASSUME NEW n \in Nat, NEW cube, NEW cubes, NEW rows, Partly(n, cube, cubes, rows), cubes # <<>>,
         cubes[1] \in Rows(n)
  PROVE  Partly(n, cube, Tail(cubes), Append(rows, cubes[1]))
<1> DEFINE c == cubes[1]
           rest == Tail(cubes)
           more == Append(rows, c)
           m == Len(cubes)
           l == Len(rows)
<1>1. cubes \in Seq(CubesOf(n)) /\ rows \in Seq(Rows(n)) /\ m \in Nat \ {0} /\ l \in Nat /\ 1 \in 1 .. m
  BY EmptySeq DEF Partly
<1>2. /\ rest \in Seq(CubesOf(n)) /\ Len(rest) = m - 1
      /\ \A i \in 1 .. m - 1 : rest[i] = cubes[i + 1] /\ i + 1 \in 1 .. m
  BY <1>1, HeadTailProperties
<1>3. /\ more \in Seq(Rows(n)) /\ Len(more) = l + 1
      /\ \A k \in 1 .. l : more[k] = rows[k]
      /\ more[l + 1] = c
  BY <1>1, AppendProperties
<1>4. ASSUME NEW row \in Rows(n) PROVE Covers(c, row) <=> row = c
  <2>1. DOMAIN c = 1 .. n /\ \A i \in 1 .. n : c[i] \in Bits /\ c[i] # "-"
    BY DEF Rows, Bits
  <2>2. Covers(c, row) <=> \A i \in 1 .. n : c[i] = row[i]
    BY <2>1 DEF Covers
  <2>3. (\A i \in 1 .. n : c[i] = row[i]) <=> c = row
    BY DEF Rows
  <2>4. QED
    BY <2>2, <2>3
<1> HIDE DEF rest, more
<1>5. ASSUME NEW row \in Rows(n) PROVE Listed(cubes, rows, row) <=> Listed(rest, more, row)
  <2>1. ASSUME Listed(cubes, rows, row) PROVE Listed(rest, more, row)
    <3>1. CASE \E k \in 1 .. l : rows[k] = row
      <4>1. PICK k \in 1 .. l : rows[k] = row
        BY <3>1
      <4>2. k \in 1 .. l + 1 /\ more[k] = row
        BY <1>1, <1>3, <4>1
      <4>3. QED
        BY <1>3, <4>2 DEF Listed
    <3>2. CASE \E i \in 1 .. m : Covers(cubes[i], row)
      <4>1. PICK i \in 1 .. m : Covers(cubes[i], row)
        BY <3>2
      <4>2. CASE i = 1
        <5>1. row = c /\ l + 1 \in 1 .. l + 1
          BY <1>1, <1>4, <4>1, <4>2
        <5>2. QED
          BY <1>3, <5>1 DEF Listed
      <4>3. CASE i # 1
        <5>1. i - 1 \in 1 .. m - 1 /\ i - 1 + 1 = i
          BY <4>3
        <5>2. rest[i - 1] = cubes[i]
          BY <1>2, <5>1
        <5>3. QED
          BY <1>2, <4>1, <5>1, <5>2 DEF Listed
      <4>4. QED
        BY <4>2, <4>3
    <3>3. QED
      BY <2>1, <3>1, <3>2 DEF Listed
  <2>2. ASSUME Listed(rest, more, row) PROVE Listed(cubes, rows, row)
    <3>1. CASE \E k \in 1 .. l + 1 : more[k] = row
      <4>1. PICK k \in 1 .. l + 1 : more[k] = row
        BY <3>1
      <4>2. CASE k = l + 1
        <5>1. Covers(cubes[1], row)
          BY <1>3, <1>4, <4>1, <4>2
        <5>2. QED
          BY <1>1, <5>1 DEF Listed
      <4>3. CASE k # l + 1
        <5>1. k \in 1 .. l /\ rows[k] = row
          BY <1>1, <1>3, <4>1, <4>3
        <5>2. QED
          BY <5>1 DEF Listed
      <4>4. QED
        BY <4>2, <4>3
    <3>2. CASE \E i \in 1 .. m - 1 : Covers(rest[i], row)
      BY <1>2, <3>2 DEF Listed
    <3>3. QED
      BY <1>2, <1>3, <2>2, <3>1, <3>2 DEF Listed
  <2>3. QED
    BY <2>1, <2>2
<1>6. ASSUME NEW i \in 1 .. m - 1, NEW j \in 1 .. m - 1, i < j PROVE CubeBefore(n, rest[i], rest[j])
  <2>1. rest[i] = cubes[i + 1] /\ rest[j] = cubes[j + 1] /\ i + 1 \in 1 .. m /\ j + 1 \in 1 .. m /\ i + 1 < j + 1
    BY <1>2, <1>6
  <2>2. QED
    BY <2>1 DEF Partly, Ordered
<1>7. ASSUME NEW k \in 1 .. l + 1, NEW i \in 1 .. m - 1, NEW row \in Rows(n), Covers(rest[i], row)
      PROVE  Smaller(more[k], row)
  <2>1. rest[i] = cubes[i + 1] /\ i + 1 \in 1 .. m /\ 1 < i + 1
    BY <1>2
  <2>2. CASE k = l + 1
    <3>1. CubeBefore(n, c, cubes[i + 1])
      BY <1>1, <2>1 DEF Partly, Ordered
    <3>2. Covers(c, c)
      BY <1>4
    <3>3. QED
      BY <1>3, <1>7, <2>1, <2>2, <3>1, <3>2 DEF CubeBefore
  <2>3. CASE k # l + 1
    <3>1. k \in 1 .. l /\ more[k] = rows[k]
      BY <1>1, <1>3, <2>3
    <3>2. QED
      BY <1>7, <2>1, <3>1 DEF Partly, Ordered
  <2>4. QED
    BY <2>2, <2>3
<1>8. ASSUME NEW j \in 1 .. l + 1, NEW k \in 1 .. l + 1, j < k PROVE Smaller(more[j], more[k])
  <2>1. j \in 1 .. l /\ more[j] = rows[j]
    BY <1>1, <1>3, <1>8
  <2>2. CASE k = l + 1
    <3>1. Covers(cubes[1], c)
      BY <1>4
    <3>2. QED
      BY <1>1, <1>3, <2>1, <2>2, <3>1 DEF Partly, Ordered
  <2>3. CASE k # l + 1
    <3>1. k \in 1 .. l /\ more[k] = rows[k]
      BY <1>1, <1>3, <2>3
    <3>2. QED
      BY <1>8, <2>1, <3>1 DEF Partly, Ordered
  <2>4. QED
    BY <2>2, <2>3
<1>9. Ordered(n, rest, more)
  BY <1>2, <1>3, <1>6, <1>7, <1>8 DEF Ordered
<1>10. \A row \in Rows(n) : Covers(cube, row) <=> Listed(rest, more, row)
  BY <1>5 DEF Partly
<1>11. QED
  BY <1>2, <1>3, <1>9, <1>10 DEF Partly, rest, more

\* No row is smaller than itself, or than one that is smaller.
LEMMA SmallerAsymmetric ==
  ASSUME NEW n \in Nat, NEW r \in Rows(n), NEW s \in Rows(n), Smaller(r, s)
  PROVE  r # s /\ ~ Smaller(s, r)
<1>1. DOMAIN r = 1 .. n /\ DOMAIN s = 1 .. n
  BY DEF Rows
<1>2. PICK i \in 1 .. n : r[i] = "0" /\ s[i] = "1" /\ \A j \in 1 .. i - 1 : r[j] = s[j]
  BY <1>1 DEF Smaller
<1>3. r # s
  BY <1>2
<1>4. ASSUME Smaller(s, r) PROVE FALSE
  <2>1. PICK k \in 1 .. n : s[k] = "0" /\ r[k] = "1" /\ \A j \in 1 .. k - 1 : s[j] = r[j]
    BY <1>1, <1>4 DEF Smaller
  <2>2. CASE i = k
    BY <1>2, <2>1, <2>2
  <2>3. CASE i < k
    <3>1. i \in 1 .. k - 1
      BY <2>3
    <3>2. QED
      BY <1>2, <2>1, <3>1
  <2>4. CASE k < i
    <3>1. k \in 1 .. i - 1
      BY <2>4
    <3>2. QED
      BY <1>2, <2>1, <3>1
  <2>5. QED
    BY <2>2, <2>3, <2>4
<1>5. QED
  BY <1>3, <1>4

(***************************************************************************)
(* All that is known once nothing is pending: the rows of the cube, each   *)
(* once and in order.                                                      *)
(***************************************************************************)
Sorted(n, cube, rows) ==
    /\ rows \in Seq(Rows(n))
    /\ \A row \in Rows(n) : Covers(cube, row) <=> \E k \in 1 .. Len(rows) : rows[k] = row
    /\ \A j, k \in 1 .. Len(rows) : Smaller(rows[j], rows[k]) <=> j < k

LEMMA PartlyAll ==
  ASSUME NEW n \in Nat, NEW cube, NEW rows, Partly(n, cube, <<>>, rows)
  PROVE  Sorted(n, cube, rows)
<1>1. rows \in Seq(Rows(n)) /\ \A k \in 1 .. Len(rows) : rows[k] \in Rows(n)
  BY ElementOfSeq DEF Partly
<1>2. \A row \in Rows(n) : Covers(cube, row) <=> \E k \in 1 .. Len(rows) : rows[k] = row
  <2>1. Len(<<>>) = 0 /\ 1 .. 0 = {}
    OBVIOUS
  <2>2. QED
    BY <2>1 DEF Partly, Listed
<1>3. ASSUME NEW j \in 1 .. Len(rows), NEW k \in 1 .. Len(rows) PROVE Smaller(rows[j], rows[k]) <=> j < k
  <2>1. \A x, y \in 1 .. Len(rows) : x < y => Smaller(rows[x], rows[y])
    BY DEF Partly, Ordered
  <2>2. j < k \/ j = k \/ k < j
    BY <1>1
  <2>3. CASE j < k
    BY <2>1, <2>3
  <2>4. CASE j = k
    <3>1. ~ Smaller(rows[j], rows[j])
      BY <1>1, SmallerAsymmetric
    <3>2. QED
      BY <2>4, <3>1
  <2>5. CASE k < j
    <3>1. Smaller(rows[k], rows[j])
      BY <2>1, <2>5
    <3>2. ~ Smaller(rows[j], rows[k])
      BY <1>1, <3>1, SmallerAsymmetric
    <3>3. QED
      BY <2>5, <3>2
  <2>6. QED
    BY <2>2, <2>3, <2>4, <2>5
<1>4. QED
  BY <1>1, <1>2, <1>3 DEF Sorted

-----------------------------------------------------------------------------
(* How many rows there are.                                                *)

LEMMA SameNumber ==
  ASSUME NEW S, NEW T, IsFiniteSet(S), NEW f \in [S -> T],
         \A a, b \in S : f[a] = f[b] => a = b,
         \A t \in T : \E a \in S : f[a] = t
  PROVE  IsFiniteSet(T) /\ Cardinality(T) = Cardinality(S)
<1>1. f \in Bijection(S, T)
  BY DEF Bijection, Injection, Surjection, IsInjective
<1>2. QED
  BY <1>1, FS_Bijection DEF ExistsBijection

LEMMA RowsNumber ==
  ASSUME NEW n \in Nat
  PROVE  IsFiniteSet(Rows(n)) /\ Cardinality(Rows(n)) = 2 ^ n
<1> DEFINE V == 1 .. n
           f == [A \in SUBSET V |-> [i \in V |-> IF i \in A THEN "1" ELSE "0"]]
<1>1. IsFiniteSet(V) /\ Cardinality(V) = n
  BY FS_Interval
<1>2. IsFiniteSet(SUBSET V) /\ Cardinality(SUBSET V) = 2 ^ Cardinality(V)
  BY <1>1, FS_SUBSET
<1>3. f \in [SUBSET V -> Rows(n)]
  BY DEF Rows, Bits
<1>4. ASSUME NEW A \in SUBSET V, NEW B \in SUBSET V, f[A] = f[B] PROVE A = B
  <2>1. \A i \in V : f[A][i] = "1" <=> i \in A
    OBVIOUS
  <2>2. \A i \in V : f[B][i] = "1" <=> i \in B
    OBVIOUS
  <2> HIDE DEF f
  <2>3. QED
    BY <1>4, <2>1, <2>2
<1>5. ASSUME NEW row \in Rows(n) PROVE \E A \in SUBSET V : f[A] = row
  <2> DEFINE A == {i \in V : row[i] = "1"}
  <2>1. row = [i \in V |-> row[i]] /\ \A i \in V : row[i] = "0" \/ row[i] = "1"
    BY DEF Rows, Bits
  <2>2. \A i \in V : (IF i \in A THEN "1" ELSE "0") = row[i]
    BY <2>1
  <2>3. [i \in V |-> IF i \in A THEN "1" ELSE "0"] = [i \in V |-> row[i]]
    BY <2>2
  <2>4. f[A] = row
    BY <2>1, <2>3
  <2>5. QED
    BY <2>4
<1> HIDE DEF f
<1>6. IsFiniteSet(Rows(n)) /\ Cardinality(Rows(n)) = Cardinality(SUBSET V)
  BY <1>2, <1>3, <1>4, <1>5, SameNumber
<1>7. QED
  BY <1>1, <1>2, <1>6

\* There are as many as were returned.
LEMMA SortedNumber ==
  ASSUME NEW n \in Nat, NEW cube, NEW rows, Sorted(n, cube, rows)
  PROVE  Cardinality(Covered(n, cube)) = Len(rows)
<1> DEFINE l == Len(rows)
<1>1. rows \in Seq(Rows(n)) /\ l \in Nat /\ rows \in [1 .. l -> Rows(n)]
  BY LenProperties DEF Sorted
<1>2. rows \in [1 .. l -> Covered(n, cube)]
  <2>1. \A k \in 1 .. l : rows[k] \in Covered(n, cube)
    BY <1>1 DEF Sorted, Covered
  <2>2. QED
    BY <1>1, <2>1
<1>3. ASSUME NEW j \in 1 .. l, NEW k \in 1 .. l, rows[j] = rows[k] PROVE j = k
  <2>1. ~ Smaller(rows[j], rows[j]) /\ ~ Smaller(rows[k], rows[k])
    BY <1>1 DEF Sorted
  <2>2. ~ Smaller(rows[j], rows[k]) /\ ~ Smaller(rows[k], rows[j])
    BY <1>3, <2>1
  <2>3. ~ (j < k) /\ ~ (k < j)
    BY <2>2 DEF Sorted
  <2>4. QED
    BY <2>3
<1>4. \A row \in Covered(n, cube) : \E k \in 1 .. l : rows[k] = row
  BY DEF Sorted, Covered
<1>5. IsFiniteSet(1 .. l) /\ Cardinality(1 .. l) = l
  <2> HIDE DEF l
  <2>1. IsFiniteSet(1 .. l) /\ Cardinality(1 .. l) = IF 1 > l THEN 0 ELSE l - 1 + 1
    BY <1>1, FS_Interval
  <2>2. QED
    BY <1>1, <2>1
<1>6. Cardinality(Covered(n, cube)) = Cardinality(1 .. l)
  BY <1>2, <1>3, <1>4, <1>5, SameNumber
<1>7. QED
  BY <1>5, <1>6

\* The k-th row, if all are listed, has as many that are not smaller as there
\* are from the k-th on.
LEMMA SortedPlace ==
  ASSUME NEW n \in Nat, NEW cube, NEW rows, Sorted(n, cube, rows), Covered(n, cube) = Rows(n),
         NEW k \in 1 .. Len(rows)
  PROVE  Cardinality({other \in Rows(n) : ~ Smaller(other, rows[k])}) = Len(rows) - k + 1
<1> DEFINE l == Len(rows)
           T == {other \in Rows(n) : ~ Smaller(other, rows[k])}
           f == [j \in k .. l |-> rows[j]]
<1>1. rows \in Seq(Rows(n)) /\ l \in Nat /\ \A j \in 1 .. l : rows[j] \in Rows(n)
  BY ElementOfSeq DEF Sorted
<1>2. \A j \in 1 .. l : Smaller(rows[j], rows[k]) <=> j < k
  BY DEF Sorted
<1>3. f \in [k .. l -> T]
  <2>1. \A j \in k .. l : j \in 1 .. l /\ ~ (j < k)
    BY <1>1
  <2>2. \A j \in k .. l : rows[j] \in T
    BY <1>1, <1>2, <2>1
  <2>3. QED
    BY <2>2
<1>4. ASSUME NEW i \in k .. l, NEW j \in k .. l, f[i] = f[j] PROVE i = j
  <2>1. i \in 1 .. l /\ j \in 1 .. l /\ rows[i] = rows[j]
    BY <1>1, <1>4
  <2>2. (Smaller(rows[i], rows[j]) <=> i < j) /\ (Smaller(rows[j], rows[i]) <=> j < i) /\ ~ Smaller(rows[i], rows[i])
    BY <1>1, <2>1 DEF Sorted
  <2>3. QED
    BY <2>1, <2>2
<1>5. ASSUME NEW row \in T PROVE \E j \in k .. l : f[j] = row
  <2>1. PICK j \in 1 .. l : rows[j] = row
    BY DEF Sorted, Covered
  <2>2. j \in k .. l
    BY <1>1, <1>2, <2>1
  <2>3. QED
    BY <2>1, <2>2
<1>6. IsFiniteSet(k .. l) /\ Cardinality(k .. l) = l - k + 1
  BY <1>1, FS_Interval
<1> HIDE DEF f, T
<1>7. Cardinality(T) = Cardinality(k .. l)
  BY <1>3, <1>4, <1>5, <1>6, SameNumber
<1>8. QED
  BY <1>6, <1>7 DEF T

-----------------------------------------------------------------------------
(* The invariant.                                                          *)

(***************************************************************************)
(* What has been expanded of a cube, in the arguments and results of the   *)
(* calls.                                                                  *)
(***************************************************************************)
Calling(cubes, tail, pend) ==
    /\ pend \in Seq(Seq(Seq(Bits \cup {"-"})))
    /\ Len(pend) = Len(cubes)
    /\ \A i \in 1 .. Len(cubes) : pend[i] = Split(cubes[i]) \o tail

Returning(rows, tail, ret) ==
    /\ ret \in Strings
    /\ Len(ret) = Len(rows)
    /\ \A k \in 1 .. Len(rows) : ret[k] = FlattenSeq(Split(rows[k]) \o tail)

Expanding(n, cube, tail, pend, ret) ==
    \E cubes, rows :
       /\ Partly(n, cube, cubes, rows)
       /\ Calling(cubes, tail, pend)
       /\ Returning(rows, tail, ret)

\* The cube that is current after the first p lines.
IsCurrent(lines, p, cube) ==
    \/ cube = <<>> /\ \A i \in CubeLines(lines) : i > p
    \/ \E i \in CubeLines(lines) :
          i <= p /\ cube = lines[i] /\ \A j \in CubeLines(lines) : j <= p => j <= i

\* What the table is made from after the first p lines.
Collected(lines, p, res) ==
    /\ p # 0 /\ (\A i \in CubeLines(lines) : i > p) => Contains(res, <<>>)
    /\ \A i \in CubeLines(lines) : i <= p =>
          \A row \in Rows(Len(lines[i])) : Covers(lines[i], row) => Contains(res, row)
    /\ \A k \in 1 .. Len(res) :
          res[k] = <<>> \/ \E i \in CubeLines(lines) : i <= p /\ Covers(lines[i], res[k])

\* What the count is made from.
Counted(p, cube, res) == p # 0 => Len(res) = Cardinality(Covered(Len(cube), cube))

LinesRead == Len(file) - Len(unread)

ReadingOK ==
    /\ unread \in Seq({Other} \cup Seq(Bits \cup {"-"}))
    /\ Len(unread) <= Len(file)
    /\ \A i \in 1 .. Len(unread) : unread[i] = file[LinesRead + i]
    /\ IsCurrent(file, LinesRead, minterm)

Dashes(n) == [i \in 1 .. n |-> "-"]

\* What subroutine has been called for: the cube, and the strings behind it.
CalledFor == IF at = "call" THEN minterm ELSE Dashes(Len(minterm))
PassedOn == IF at = "call" /\ script = "count" THEN results ELSE <<>>

ExpansionOK ==
    IF at \in {"call", "call all"}
    THEN Expanding(Len(minterm), CalledFor, PassedOn, pending, returned)
    ELSE pending = <<>>

ResultsOK ==
    /\ at = "line" /\ script = "table" => Collected(file, LinesRead, results)
    /\ at = "line" /\ script = "count" => Counted(LinesRead, minterm, results)
    /\ at = "call" => LinesRead # 0
    /\ at = "call" /\ script = "table" => Collected(file, LinesRead - 1, results)
    /\ at = "call all" => script = "table" /\ unread = <<>> /\ Collected(file, Len(file), results)

MTInv ==
    /\ script \in {"table", "count"}
    /\ file \in CoverFiles
    /\ at \in {"line", "call", "call all", "done"}
    /\ results \in Strings
    /\ ReadingOK
    /\ ExpansionOK
    /\ ResultsOK
    /\ TableListsCover
    /\ CountsLastCube

LEMMA FileFacts ==
  ASSUME NEW lines \in CoverFiles
  PROVE  /\ lines \in Seq({Other} \cup Seq(Bits \cup {"-"})) /\ Len(lines) \in Nat \ {0}
         /\ CubeLines(lines) = {i \in 1 .. Len(lines) : lines[i] # Other}
         /\ \A i \in CubeLines(lines) :
               Len(lines[i]) \in Nat \ {0} /\ lines[i] \in CubesOf(Len(lines[i]))
         /\ \A i, j \in CubeLines(lines) : Len(lines[i]) = Len(lines[j])
<1>1. /\ lines \in Seq({Other} \cup Seq(Bits \cup {"-"})) /\ lines # <<>>
      /\ \A i, j \in CubeLines(lines) : lines[i] # <<>> /\ Len(lines[i]) = Len(lines[j])
  BY CoverFilesAssumption
<1>2. Len(lines) \in Nat \ {0} /\ DOMAIN lines = 1 .. Len(lines)
  BY <1>1, EmptySeq, LenProperties
<1>3. CubeLines(lines) = {i \in 1 .. Len(lines) : lines[i] # Other}
  BY <1>2 DEF CubeLines
<1>4. ASSUME NEW i \in CubeLines(lines)
      PROVE  Len(lines[i]) \in Nat \ {0} /\ lines[i] \in CubesOf(Len(lines[i]))
  <2>1. lines[i] \in Seq(Bits \cup {"-"}) /\ lines[i] # <<>>
    BY <1>1, <1>3
  <2>2. QED
    BY <2>1, EmptySeq, LenProperties DEF CubesOf
<1>5. QED
  BY <1>1, <1>2, <1>3, <1>4

LEMMA CurrentFacts ==
  ASSUME NEW lines \in CoverFiles, NEW p \in Nat, NEW cube, IsCurrent(lines, p, cube)
  PROVE  Len(cube) \in Nat /\ cube \in CubesOf(Len(cube))
<1>1. CASE cube = <<>>
  BY <1>1 DEF CubesOf
<1>2. CASE \E i \in CubeLines(lines) : cube = lines[i]
  BY <1>2, FileFacts
<1>3. QED
  BY <1>1, <1>2 DEF IsCurrent

\* A call of subroutine for a cube.
LEMMA ExpandingStart ==
  ASSUME NEW n \in Nat, NEW cube \in CubesOf(n), NEW tail \in Strings
  PROVE  Expanding(n, cube, tail, <<Split(cube) \o tail>>, <<>>)
<1> DEFINE cubes == <<cube>>
           pend == <<Split(cube) \o tail>>
<1>1. cubes \in Seq(CubesOf(n)) /\ Len(cubes) = 1 /\ cubes[1] = cube
  OBVIOUS
<1>2. <<>> \in Seq(Rows(n)) /\ Len(<<>>) = 0 /\ 1 .. 0 = {} /\ <<>> \in Strings
  BY DEF Strings
<1>3. Split(cube) \o tail \in Seq(Seq(Bits \cup {"-"}))
  BY SplitFacts
<1>4. pend \in Seq(Seq(Seq(Bits \cup {"-"}))) /\ Len(pend) = 1 /\ pend[1] = Split(cube) \o tail
  BY <1>3
<1> HIDE DEF cubes, pend
<1>5. Ordered(n, cubes, <<>>)
  BY <1>1, <1>2 DEF Ordered
<1>6. ASSUME NEW row \in Rows(n) PROVE Covers(cube, row) <=> Listed(cubes, <<>>, row)
  BY <1>1, <1>2 DEF Listed
<1>7. Partly(n, cube, cubes, <<>>)
  BY <1>1, <1>2, <1>5, <1>6 DEF Partly
<1>8. Calling(cubes, tail, pend) /\ Returning(<<>>, tail, <<>>)
  BY <1>1, <1>2, <1>4 DEF Calling, Returning
<1>9. QED
  BY <1>7, <1>8 DEF Expanding, pend

\* CallTwice.
LEMMA ExpandingTwice ==
  ASSUME NEW n \in Nat, NEW cube, NEW tail \in Strings, NEW pend, NEW ret,
         Expanding(n, cube, tail, pend, ret), pend # <<>>, Dashed(Head(pend)) # {}
  PROVE  Expanding(n, cube, tail,
                   << Becomes(Head(pend), "0"), Becomes(Head(pend), "1") >> \o Tail(pend), ret)
<1> DEFINE S == Seq(Seq(Bits \cup {"-"}))
<1>1. PICK cubes, rows : Partly(n, cube, cubes, rows) /\ Calling(cubes, tail, pend) /\ Returning(rows, tail, ret)
  BY DEF Expanding
<1>2. cubes \in Seq(CubesOf(n)) /\ pend \in Seq(S) /\ Len(pend) = Len(cubes)
      /\ \A i \in 1 .. Len(cubes) : pend[i] = Split(cubes[i]) \o tail
  BY <1>1 DEF Partly, Calling
<1>3. Len(pend) \in Nat \ {0} /\ cubes # <<>> /\ 1 \in 1 .. Len(cubes) /\ Head(pend) = pend[1]
  <2>1. Len(pend) \in Nat \ {0} /\ Head(pend) = pend[1]
    BY <1>2, EmptySeq, HeadTailProperties
  <2>2. QED
    BY <1>2, <2>1
<1>4. cubes[1] \in CubesOf(n) /\ Head(pend) = Split(cubes[1]) \o tail
  BY <1>2, <1>3, ElementOfSeq
<1>5. PICK i \in 1 .. n :
         /\ IsFirstDash(cubes[1], i)
         /\ \A bit \in Bits : Becomes(Head(pend), bit) = Split(With(cubes[1], i, bit)) \o tail
  BY <1>4, FirstDash
<1> DEFINE zero == With(cubes[1], i, "0")
           one == With(cubes[1], i, "1")
           more == <<zero, one>> \o Tail(cubes)
           zeros == Split(zero) \o tail
           ones == Split(one) \o tail
           new == <<zeros, ones>> \o Tail(pend)
<1>6. Partly(n, cube, more, rows)
  BY <1>1, <1>3, <1>5, PartlyTwice
<1>7. zero \in CubesOf(n) /\ one \in CubesOf(n)
  BY <1>4, WithFacts DEF Bits
<1>8. zeros \in S /\ ones \in S
  BY <1>7, SplitFacts
<1>9. "0" \in Bits /\ "1" \in Bits
  BY DEF Bits
<1>10. <<Becomes(Head(pend), "0"), Becomes(Head(pend), "1")>> \o Tail(pend) = new
  BY <1>5, <1>9
<1> HIDE DEF zero, one
<1>11. /\ Len(more) = Len(cubes) + 1 /\ more[1] = zero /\ more[2] = one
       /\ \A j \in 1 .. Len(more) : j > 2 => j - 1 \in 2 .. Len(cubes) /\ more[j] = cubes[j - 1]
  BY <1>2, <1>3, <1>7, TwoForOne
<1> HIDE DEF zeros, ones, S
<1>12. /\ new \in Seq(S) /\ Len(new) = Len(pend) + 1 /\ new[1] = zeros /\ new[2] = ones
       /\ \A j \in 1 .. Len(new) : j > 2 => j - 1 \in 2 .. Len(pend) /\ new[j] = pend[j - 1]
  BY <1>2, <1>8, TwoForOne
<1> HIDE DEF more, new
<1>13. ASSUME NEW j \in 1 .. Len(more) PROVE new[j] = Split(more[j]) \o tail
  <2>1. CASE j = 1
    BY <1>11, <1>12, <2>1 DEF zeros
  <2>2. CASE j = 2
    BY <1>11, <1>12, <2>2 DEF ones
  <2>3. CASE j > 2
    <3>1. j \in 1 .. Len(new)
      BY <1>2, <1>11, <1>12
    <3>2. j - 1 \in 1 .. Len(cubes) /\ more[j] = cubes[j - 1] /\ new[j] = pend[j - 1]
      BY <1>3, <1>11, <1>12, <2>3, <3>1
    <3>3. QED
      BY <1>2, <3>2
  <2>4. QED
    BY <1>2, <1>11, <2>1, <2>2, <2>3
<1>14. Calling(more, tail, new)
  BY <1>2, <1>11, <1>12, <1>13 DEF Calling, S
<1>15. Expanding(n, cube, tail, new, ret)
  BY <1>1, <1>6, <1>14 DEF Expanding, more
<1>16. QED
  BY <1>10, <1>15 DEF new, zeros, ones, zero, one

\* ReturnJoined.
LEMMA ExpandingJoined ==
  ASSUME NEW n \in Nat, NEW cube, NEW tail \in Strings, NEW pend, NEW ret,
         Expanding(n, cube, tail, pend, ret), pend # <<>>, Dashed(Head(pend)) = {}
  PROVE  Expanding(n, cube, tail, Tail(pend), Append(ret, FlattenSeq(Head(pend))))
<1> DEFINE S == Seq(Seq(Bits \cup {"-"}))
<1>1. PICK cubes, rows : Partly(n, cube, cubes, rows) /\ Calling(cubes, tail, pend) /\ Returning(rows, tail, ret)
  BY DEF Expanding
<1>2. /\ cubes \in Seq(CubesOf(n)) /\ rows \in Seq(Rows(n)) /\ pend \in Seq(S) /\ Len(pend) = Len(cubes)
      /\ \A i \in 1 .. Len(cubes) : pend[i] = Split(cubes[i]) \o tail
      /\ ret \in Seq(Seq(Bits)) /\ Len(ret) = Len(rows)
      /\ \A k \in 1 .. Len(rows) : ret[k] = FlattenSeq(Split(rows[k]) \o tail)
  BY <1>1 DEF Partly, Calling, Returning, Strings
<1> HIDE DEF S
<1>3. Len(pend) \in Nat \ {0} /\ cubes # <<>> /\ 1 \in 1 .. Len(cubes) /\ Head(pend) = pend[1]
  <2>1. Len(pend) \in Nat \ {0} /\ Head(pend) = pend[1]
    BY <1>2, EmptySeq, HeadTailProperties
  <2>2. QED
    BY <1>2, <2>1
<1>4. cubes[1] \in CubesOf(n) /\ Head(pend) = Split(cubes[1]) \o tail
  BY <1>2, <1>3, ElementOfSeq
<1> DEFINE c == cubes[1]
           joined == FlattenSeq(Head(pend))
           fewer == Tail(cubes)
           more == Append(rows, c)
           left == Tail(pend)
           new == Append(ret, joined)
<1>5. c \in Rows(n) /\ joined \in Seq(Bits)
  BY <1>4, NoDash
<1>6. Partly(n, cube, fewer, more)
  BY <1>1, <1>3, <1>5, PartlyReturned
<1>7. Calling(fewer, tail, left)
  <2>1. /\ left \in Seq(S) /\ Len(left) = Len(pend) - 1
        /\ \A i \in 1 .. Len(left) : left[i] = pend[i + 1]
    BY <1>2, HeadTailProperties
  <2>2. /\ Len(fewer) = Len(cubes) - 1
        /\ \A i \in 1 .. Len(fewer) : fewer[i] = cubes[i + 1]
    BY <1>2, <1>3, HeadTailProperties
  <2> HIDE DEF left, fewer
  <2>3. ASSUME NEW i \in 1 .. Len(fewer) PROVE left[i] = Split(fewer[i]) \o tail
    <3>1. i + 1 \in 1 .. Len(cubes) /\ i \in 1 .. Len(left)
      BY <1>2, <1>3, <2>1, <2>2
    <3>2. QED
      BY <1>2, <2>1, <2>2, <3>1
  <2>4. QED
    BY <1>2, <2>1, <2>2, <2>3 DEF Calling, S
<1>8. Returning(more, tail, new)
  <2>1. /\ new \in Seq(Seq(Bits)) /\ Len(new) = Len(ret) + 1
        /\ \A k \in 1 .. Len(ret) : new[k] = ret[k]
        /\ new[Len(ret) + 1] = joined
    <3> HIDE DEF joined
    <3>1. QED
      BY <1>2, <1>5, AppendProperties
  <2>2. /\ Len(more) = Len(rows) + 1
        /\ \A k \in 1 .. Len(rows) : more[k] = rows[k]
        /\ more[Len(rows) + 1] = c
    <3> HIDE DEF c
    <3>1. QED
      BY <1>2, <1>5, AppendProperties
  <2>3. joined = FlattenSeq(Split(c) \o tail)
    BY <1>4
  <2> HIDE DEF new, more, c, joined
  <2>4. ASSUME NEW k \in 1 .. Len(more) PROVE new[k] = FlattenSeq(Split(more[k]) \o tail)
    <3>1. CASE k = Len(rows) + 1
      BY <1>2, <2>1, <2>2, <2>3, <3>1
    <3>2. CASE k # Len(rows) + 1
      <4>1. k \in 1 .. Len(rows)
        BY <1>2, <2>2, <3>2
      <4>2. QED
        BY <1>2, <2>1, <2>2, <4>1
    <3>3. QED
      BY <3>1, <3>2
  <2>5. QED
    BY <1>2, <2>1, <2>2, <2>4 DEF Returning, Strings
<1>9. QED
  BY <1>6, <1>7, <1>8 DEF Expanding

LEMMA RowSplit ==
  ASSUME NEW n \in Nat, NEW row \in Rows(n)
  PROVE  Split(row) \in Strings
  BY DEF Rows, Split, Strings

\* Nothing is pending.
LEMMA ExpandingDone ==
  ASSUME NEW n \in Nat, NEW cube, NEW tail \in Strings, NEW ret, Expanding(n, cube, tail, <<>>, ret)
  PROVE  /\ ret \in Strings
         /\ Len(ret) = Cardinality(Covered(n, cube))
         /\ tail = <<>> => Sorted(n, cube, ret)
<1>1. PICK cubes, rows : Partly(n, cube, cubes, rows) /\ Calling(cubes, tail, <<>>) /\ Returning(rows, tail, ret)
  BY DEF Expanding
<1>2. cubes = <<>>
  <2>1. Len(cubes) = 0 /\ cubes \in Seq(CubesOf(n))
    BY <1>1 DEF Calling, Partly
  <2>2. QED
    BY <2>1, EmptySeq
<1>3. Sorted(n, cube, rows)
  BY <1>1, <1>2, PartlyAll
<1>4. ret \in Strings /\ Len(ret) = Len(rows)
  BY <1>1 DEF Returning
<1>5. Len(ret) = Cardinality(Covered(n, cube))
  BY <1>3, <1>4, SortedNumber
<1>6. ASSUME tail = <<>> PROVE ret = rows
  <2>1. rows \in Seq(Rows(n))
    BY <1>3 DEF Sorted
  <2>2. ASSUME NEW k \in 1 .. Len(rows) PROVE ret[k] = rows[k]
    <3>1. rows[k] \in Rows(n)
      BY <2>1, ElementOfSeq
    <3>2. Split(rows[k]) \in Seq(Seq(Bits))
      BY <3>1, RowSplit DEF Strings
    <3>3. Split(rows[k]) \o <<>> = Split(rows[k])
      BY <3>2, ConcatEmptySeq
    <3>4. ret[k] = FlattenSeq(Split(rows[k]))
      BY <1>1, <1>6, <3>3 DEF Returning
    <3>5. QED
      BY <3>1, <3>4, RowJoined
  <2>3. rows \in Strings
    <3>1. Rows(n) \subseteq Seq(Bits)
      BY DEF Rows
    <3>2. QED
      BY <2>1, <3>1, SeqMonotonic DEF Strings
  <2>4. QED
    BY <1>4, <2>2, <2>3, SeqEqual DEF Strings
<1>7. QED
  BY <1>3, <1>4, <1>5, <1>6

-----------------------------------------------------------------------------
(* The lines.                                                              *)

\* One line more is read.
LEMMA CurrentNext ==
  ASSUME NEW lines \in CoverFiles, NEW p \in 0 .. Len(lines) - 1, NEW cube, IsCurrent(lines, p, cube)
  PROVE  IsCurrent(lines, p + 1, IF lines[p + 1] = Other THEN cube ELSE lines[p + 1])
<1>1. /\ Len(lines) \in Nat /\ p \in Nat /\ p + 1 \in 1 .. Len(lines)
      /\ CubeLines(lines) = {i \in 1 .. Len(lines) : lines[i] # Other}
  BY FileFacts
<1>2. \A j \in CubeLines(lines) : j \in Nat
  BY <1>1
<1>3. CASE lines[p + 1] = Other
  <2>1. p + 1 \notin CubeLines(lines)
    BY <1>1, <1>3
  <2>2. \A j \in CubeLines(lines) : (j > p <=> j > p + 1) /\ (j <= p <=> j <= p + 1)
    BY <1>1, <1>2, <2>1
  <2>3. IsCurrent(lines, p + 1, cube)
    BY <2>2 DEF IsCurrent
  <2>4. QED
    BY <1>3, <2>3
<1>4. CASE lines[p + 1] # Other
  <2>1. p + 1 \in CubeLines(lines) /\ p + 1 <= p + 1
    BY <1>1, <1>4
  <2>2. IsCurrent(lines, p + 1, lines[p + 1])
    BY <2>1 DEF IsCurrent
  <2>3. QED
    BY <1>4, <2>2
<1>5. QED
  BY <1>3, <1>4

\* The rows of the line that has been expanded are added.
LEMMA CollectedMore ==
  ASSUME NEW lines \in CoverFiles, NEW q \in 1 .. Len(lines), NEW cube, IsCurrent(lines, q, cube),
         NEW res \in Strings, Collected(lines, q - 1, res),
         NEW ret \in Strings, Sorted(Len(cube), cube, ret)
  PROVE  Collected(lines, q, res \o ret)
<1> DEFINE n == Len(cube)
           all == res \o ret
           l == Len(res)
           m == Len(ret)
<1>1. /\ Len(lines) \in Nat
      /\ CubeLines(lines) = {i \in 1 .. Len(lines) : lines[i] # Other}
      /\ \A i \in CubeLines(lines) : Len(lines[i]) \in Nat \ {0} /\ lines[i] \in CubesOf(Len(lines[i]))
  BY FileFacts
<1>2. l \in Nat /\ m \in Nat /\ all \in Strings /\ Len(all) = l + m
      /\ \A i \in 1 .. l + m : all[i] = IF i <= l THEN res[i] ELSE ret[i - l]
  BY ConcatProperties, LenProperties DEF Strings
<1>3. n \in Nat /\ cube \in CubesOf(n)
  BY CurrentFacts
<1> HIDE DEF all
<1>4. ASSUME NEW s, Contains(res, s) PROVE Contains(all, s)
  <2>1. PICK i \in 1 .. l : res[i] = s
    BY <1>4 DEF Contains
  <2>2. i \in 1 .. l + m /\ all[i] = s
    BY <1>2, <2>1
  <2>3. QED
    BY <1>2, <2>2 DEF Contains
<1>5. ASSUME NEW s, NEW i \in 1 .. m, ret[i] = s PROVE Contains(all, s)
  <2>1. l + i \in 1 .. l + m /\ ~ (l + i <= l) /\ l + i - l = i
    BY <1>2
  <2>2. all[l + i] = s
    BY <1>2, <1>5, <2>1
  <2>3. QED
    BY <1>2, <2>1, <2>2 DEF Contains
<1>6. ASSUME \A i \in CubeLines(lines) : i > q PROVE Contains(all, <<>>)
  <2>1. cube = <<>>
    <3>1. \A i \in CubeLines(lines) : ~ (i <= q)
      BY <1>1, <1>6
    <3>2. QED
      BY <3>1 DEF IsCurrent
  <2>2. n = 0 /\ <<>> \in Rows(n) /\ Covers(cube, <<>>)
    BY <2>1 DEF Rows, Covers
  <2>3. PICK i \in 1 .. m : ret[i] = <<>>
    BY <2>2 DEF Sorted
  <2>4. QED
    BY <1>5, <2>3
<1>7. ASSUME NEW i \in CubeLines(lines), i <= q, NEW row \in Rows(Len(lines[i])), Covers(lines[i], row)
      PROVE  Contains(all, row)
  <2>1. CASE i = q
    <3>1. cube = lines[i]
      <4>1. ~ (i > q)
        BY <1>1, <2>1
      <4>2. PICK k \in CubeLines(lines) : k <= q /\ cube = lines[k] /\ \A j \in CubeLines(lines) : j <= q => j <= k
        BY <4>1 DEF IsCurrent
      <4>3. k = i
        BY <1>1, <1>7, <2>1, <4>2
      <4>4. QED
        BY <4>2, <4>3
    <3>2. PICK k \in 1 .. m : ret[k] = row
      BY <1>7, <3>1 DEF Sorted
    <3>3. QED
      BY <1>5, <3>2
  <2>2. CASE i # q
    <3>1. i <= q - 1
      BY <1>1, <1>7, <2>2
    <3>2. Contains(res, row)
      BY <1>7, <3>1 DEF Collected
    <3>3. QED
      BY <1>4, <3>2
  <2>3. QED
    BY <2>1, <2>2
<1>8. ASSUME NEW k \in 1 .. Len(all)
      PROVE  all[k] = <<>> \/ \E i \in CubeLines(lines) : i <= q /\ Covers(lines[i], all[k])
  <2>1. CASE k <= l
    <3>1. k \in 1 .. l /\ all[k] = res[k]
      BY <1>2, <2>1
    <3>2. res[k] = <<>> \/ \E i \in CubeLines(lines) : i <= q - 1 /\ Covers(lines[i], res[k])
      BY <3>1 DEF Collected
    <3>3. \A i \in CubeLines(lines) : i <= q - 1 => i <= q
      BY <1>1
    <3>4. QED
      BY <3>1, <3>2, <3>3
  <2>2. CASE ~ (k <= l)
    <3>1. k - l \in 1 .. m /\ all[k] = ret[k - l]
      BY <1>2, <2>2
    <3> DEFINE j == k - l
    <3> HIDE DEF j
    <3>2. j \in 1 .. m /\ all[k] = ret[j]
      BY <3>1 DEF j
    <3>3. ret[j] \in Rows(n) /\ Covers(cube, ret[j])
      <4>1. ret \in Seq(Rows(n))
        BY DEF Sorted
      <4>2. ret[j] \in Rows(n)
        BY <3>2, <4>1, ElementOfSeq
      <4>3. QED
        BY <3>2, <4>2 DEF Sorted
    <3>4. CASE cube = <<>>
      <4>1. n = 0
        BY <3>4
      <4>2. ret[j] = <<>>
        BY <3>3, <4>1 DEF Rows
      <4>3. QED
        BY <3>2, <4>2
    <3>5. CASE \E i \in CubeLines(lines) : i <= q /\ cube = lines[i]
      BY <3>2, <3>3, <3>5
    <3>6. QED
      BY <3>4, <3>5 DEF IsCurrent
  <2>3. QED
    BY <2>1, <2>2
<1>9. QED
  BY <1>6, <1>7, <1>8 DEF Collected, all

-----------------------------------------------------------------------------
(* What is written.                                                        *)

LastLine(lines) == CHOOSE i \in CubeLines(lines) : \A j \in CubeLines(lines) : j <= i
IsOn(lines, row) == \E i \in CubeLines(lines) : Covers(lines[i], row)

TableRight(lines, output) ==
    IF CubeLines(lines) = {} THEN output = <<1>>
    ELSE LET rows == Rows(Len(lines[LastLine(lines)]))
             Place(row) == Cardinality({other \in rows : ~ Smaller(other, row)})
         IN  /\ Len(output) = Cardinality(rows)
             /\ \A row \in rows : output[Place(row)] = IF IsOn(lines, row) THEN 1 ELSE 0

CountRight(lines, output) ==
    CubeLines(lines) # {} =>
        LET cube == lines[LastLine(lines)]
            rows == Rows(Len(cube))
        IN  output = <<Cardinality(rows), Cardinality({row \in rows : Covers(cube, row)})>>

LEMMA WrittenRight ==
  /\ TableListsCover <=> (script = "table" /\ at = "done" => TableRight(file, written))
  /\ CountsLastCube <=> (script = "count" /\ at = "done" => CountRight(file, written))
  /\ TableListsCover' <=> (script' = "table" /\ at' = "done" => TableRight(file', written'))
  /\ CountsLastCube' <=> (script' = "count" /\ at' = "done" => CountRight(file', written'))
<1>1. TableListsCover <=> (script = "table" /\ at = "done" => TableRight(file, written))
  BY DEF TableListsCover, TableRight, LastCube, LastLine, OnSet, IsOn
<1>2. TableListsCover' <=> (script' = "table" /\ at' = "done" => TableRight(file', written'))
  BY DEF TableListsCover, TableRight, LastCube, LastLine, OnSet, IsOn
<1>3. CountsLastCube <=> (script = "count" /\ at = "done" => CountRight(file, written))
  BY DEF CountsLastCube, CountRight, LastCube, LastLine
<1>4. CountsLastCube' <=> (script' = "count" /\ at' = "done" => CountRight(file', written'))
  BY DEF CountsLastCube, CountRight, LastCube, LastLine
<1>5. QED
  BY <1>1, <1>2, <1>3, <1>4

\* The cube at the end of the file is the last one.
LEMMA CurrentIsLast ==
  ASSUME NEW lines \in CoverFiles, NEW cube, IsCurrent(lines, Len(lines), cube)
  PROVE  IF CubeLines(lines) = {} THEN cube = <<>>
         ELSE cube = lines[LastLine(lines)] /\ LastLine(lines) \in CubeLines(lines)
<1>1. /\ Len(lines) \in Nat
      /\ CubeLines(lines) = {i \in 1 .. Len(lines) : lines[i] # Other}
  BY FileFacts
<1>2. \A i \in CubeLines(lines) : i \in Nat /\ i <= Len(lines) /\ ~ (i > Len(lines))
  BY <1>1
<1>3. CASE CubeLines(lines) = {}
  BY <1>3 DEF IsCurrent
<1>4. CASE CubeLines(lines) # {}
  <2>1. PICK i \in CubeLines(lines) : cube = lines[i] /\ \A j \in CubeLines(lines) : j <= Len(lines) => j <= i
    BY <1>2, <1>4 DEF IsCurrent
  <2>2. \A j \in CubeLines(lines) : j <= i
    BY <1>2, <2>1
  <2>3. LastLine(lines) \in CubeLines(lines) /\ \A j \in CubeLines(lines) : j <= LastLine(lines)
    BY <2>2 DEF LastLine
  <2>4. LastLine(lines) = i
    BY <1>2, <2>2, <2>3
  <2>5. QED
    BY <1>4, <2>1, <2>3, <2>4
<1>5. QED
  BY <1>3, <1>4

LEMMA CountWritten ==
  ASSUME NEW lines \in CoverFiles, NEW cube, IsCurrent(lines, Len(lines), cube),
         NEW res, Counted(Len(lines), cube, res)
  PROVE  CountRight(lines, <<2 ^ Len(cube), Len(res)>>)
<1> SUFFICES ASSUME CubeLines(lines) # {}
             PROVE  LET last == lines[LastLine(lines)]
                        rows == Rows(Len(last))
                    IN  <<2 ^ Len(cube), Len(res)>>
                            = <<Cardinality(rows), Cardinality({row \in rows : Covers(last, row)})>>
  BY DEF CountRight
<1>1. cube = lines[LastLine(lines)]
  BY CurrentIsLast
<1>2. Len(lines) \in Nat \ {0}
  BY FileFacts
<1>3. Len(cube) \in Nat
  BY <1>2, CurrentFacts
<1>4. Cardinality(Rows(Len(cube))) = 2 ^ Len(cube)
  BY <1>3, RowsNumber
<1>5. Len(res) = Cardinality({row \in Rows(Len(cube)) : Covers(cube, row)})
  BY <1>2 DEF Counted, Covered
<1>6. QED
  BY <1>1, <1>4, <1>5

LEMMA DashesCover ==
  ASSUME NEW n \in Nat
  PROVE  Dashes(n) \in CubesOf(n) /\ Covered(n, Dashes(n)) = Rows(n)
  BY DEF Dashes, CubesOf, Covered, Covers

LEMMA TableWritten ==
  ASSUME NEW lines \in CoverFiles, NEW cube, IsCurrent(lines, Len(lines), cube),
         NEW res \in Strings, Collected(lines, Len(lines), res),
         NEW ret, Sorted(Len(cube), Dashes(Len(cube)), ret)
  PROVE  TableRight(lines, [k \in DOMAIN ret |-> IF Contains(res, Reverse(ret)[k]) THEN 1 ELSE 0])
<1> DEFINE n == Len(cube)
           l == Len(ret)
           output == [k \in DOMAIN ret |-> IF Contains(res, Reverse(ret)[k]) THEN 1 ELSE 0]
<1>1. /\ Len(lines) \in Nat \ {0}
      /\ CubeLines(lines) = {i \in 1 .. Len(lines) : lines[i] # Other}
      /\ \A i \in CubeLines(lines) : Len(lines[i]) \in Nat \ {0} /\ lines[i] \in CubesOf(Len(lines[i]))
      /\ \A i, j \in CubeLines(lines) : Len(lines[i]) = Len(lines[j])
  BY FileFacts
<1>2. n \in Nat
  BY <1>1, CurrentFacts
<1>3. /\ ret \in Seq(Rows(n)) /\ l \in Nat /\ DOMAIN ret = 1 .. l
      /\ \A row \in Rows(n) : \E k \in 1 .. l : ret[k] = row
  BY <1>2, DashesCover, LenProperties DEF Sorted, Covered
<1>4. l = Cardinality(Rows(n))
  BY <1>2, DashesCover, SortedNumber
<1>5. \A k \in 1 .. l : output[k] = IF Contains(res, ret[l - k + 1]) THEN 1 ELSE 0
  BY <1>3 DEF Reverse
<1>6. DOMAIN output = 1 .. l
  BY <1>3
<1>7. output \in Seq({0, 1}) /\ Len(output) = l
  <2>1. output \in [1 .. l -> {0, 1}]
    BY <1>3
  <2> HIDE DEF output, l
  <2>2. QED
    BY <1>3, <2>1, FunctionSeq
<1> HIDE DEF output
<1>8. CASE CubeLines(lines) = {}
  <2>1. cube = <<>> /\ n = 0
    BY <1>8, CurrentIsLast
  <2>2. \A row \in Rows(n) : row = <<>>
    BY <2>1 DEF Rows
  <2>3. l = 1
    <3>1. <<>> \in Rows(n)
      BY <2>1 DEF Rows
    <3>2. Rows(n) = {<<>>}
      BY <2>2, <3>1
    <3>3. Cardinality(Rows(n)) = 1
      BY <3>2, FS_Singleton
    <3>4. QED
      BY <1>4, <3>3
  <2>4. ret[1] = <<>>
    <3>1. ret[1] \in Rows(n)
      BY <1>3, <2>3, ElementOfSeq
    <3>2. QED
      BY <2>2, <3>1
  <2>5. Contains(res, <<>>)
    BY <1>1, <1>8 DEF Collected
  <2>6. output[1] = 1
    <3>1. 1 \in 1 .. l /\ l - 1 + 1 = 1
      BY <2>3
    <3>2. QED
      BY <1>5, <2>4, <2>5, <3>1
  <2>7. output = <<1>>
    BY <1>7, <2>3, <2>6
  <2>8. QED
    BY <1>8, <2>7 DEF TableRight, output
<1>9. CASE CubeLines(lines) # {}
  <2>1. cube = lines[LastLine(lines)] /\ LastLine(lines) \in CubeLines(lines)
    BY <1>9, CurrentIsLast
  <2>2. n # 0 /\ \A i \in CubeLines(lines) : Len(lines[i]) = n /\ i \in Nat /\ i <= Len(lines)
    BY <1>1, <2>1
  <2>3. ASSUME NEW row \in Rows(n) PROVE Contains(res, row) <=> IsOn(lines, row)
    <3>1. ASSUME IsOn(lines, row) PROVE Contains(res, row)
      <4>1. PICK i \in CubeLines(lines) : Covers(lines[i], row)
        BY <3>1 DEF IsOn
      <4>2. i <= Len(lines) /\ row \in Rows(Len(lines[i]))
        BY <2>2, <4>1
      <4>3. QED
        BY <4>1, <4>2 DEF Collected
    <3>2. ASSUME Contains(res, row) PROVE IsOn(lines, row)
      <4>1. PICK k \in 1 .. Len(res) : res[k] = row
        BY <3>2 DEF Contains
      <4>2. row # <<>>
        <5>1. DOMAIN row = 1 .. n /\ 1 \in 1 .. n /\ 1 \notin DOMAIN <<>>
          BY <1>2, <2>2 DEF Rows
        <5>2. QED
          BY <5>1
      <4>3. QED
        BY <4>1, <4>2 DEF Collected, IsOn
    <3>3. QED
      BY <3>1, <3>2
  <2>4. ASSUME NEW row \in Rows(n)
        PROVE  output[Cardinality({other \in Rows(n) : ~ Smaller(other, row)})]
                   = IF IsOn(lines, row) THEN 1 ELSE 0
    <3>1. PICK k \in 1 .. l : ret[k] = row
      BY <1>3
    <3>2. Cardinality({other \in Rows(n) : ~ Smaller(other, row)}) = l - k + 1
      BY <1>2, <3>1, DashesCover, SortedPlace
    <3>3. l - k + 1 \in 1 .. l /\ l - (l - k + 1) + 1 = k
      BY <1>3
    <3>4. output[l - k + 1] = IF Contains(res, ret[k]) THEN 1 ELSE 0
      <4> DEFINE j == l - k + 1
      <4>1. j \in 1 .. l /\ l - j + 1 = k
        BY <3>3
      <4> HIDE DEF j
      <4>2. output[j] = IF Contains(res, ret[k]) THEN 1 ELSE 0
        BY <1>5, <4>1
      <4>3. QED
        BY <4>2 DEF j
    <3>5. QED
      BY <2>3, <3>1, <3>2, <3>4
  <2>5. QED
    BY <1>4, <1>7, <1>9, <2>1, <2>4 DEF TableRight, output
<1>10. QED
  BY <1>8, <1>9

-----------------------------------------------------------------------------
(* The steps.                                                              *)

LEMMA MTInitInv == MTInit => MTInv
<1> SUFFICES ASSUME MTInit PROVE MTInv
  OBVIOUS
<1>1. /\ script \in {"table", "count"} /\ file \in CoverFiles /\ unread = file
      /\ minterm = <<>> /\ at = "line" /\ pending = <<>> /\ results = <<>>
  BY DEF MTInit
<1>2. /\ file \in Seq({Other} \cup Seq(Bits \cup {"-"})) /\ Len(file) \in Nat
      /\ CubeLines(file) = {i \in 1 .. Len(file) : file[i] # Other}
  BY <1>1, FileFacts
<1>3. LinesRead = 0 /\ \A i \in 1 .. Len(file) : 0 + i = i
  BY <1>1, <1>2 DEF LinesRead
<1>4. results \in Strings /\ Len(results) = 0 /\ 1 .. 0 = {}
  BY <1>1 DEF Strings
<1>5. \A i \in CubeLines(file) : i > 0 /\ ~ (i <= 0)
  BY <1>2
<1>6. ReadingOK
  BY <1>1, <1>2, <1>3, <1>5 DEF ReadingOK, IsCurrent
<1>7. Collected(file, 0, results)
  BY <1>4, <1>5 DEF Collected
<1>8. Counted(0, minterm, results)
  BY DEF Counted
<1>9. ExpansionOK /\ ResultsOK
  BY <1>1, <1>3, <1>7, <1>8 DEF ExpansionOK, ResultsOK
<1>10. QED
  BY <1>1, <1>4, <1>6, <1>9 DEF MTInv, TableListsCover, CountsLastCube

\* What the invariant says wherever the script is.
LEMMA MTFacts ==
  ASSUME MTInv
  PROVE  /\ script \in {"table", "count"} /\ file \in CoverFiles /\ results \in Strings
         /\ Len(file) \in Nat \ {0} /\ Len(unread) \in Nat /\ LinesRead \in 0 .. Len(file)
         /\ Len(file) = LinesRead + Len(unread)
         /\ unread = <<>> <=> LinesRead = Len(file)
         /\ Len(minterm) \in Nat /\ minterm \in CubesOf(Len(minterm))
<1>1. /\ script \in {"table", "count"} /\ file \in CoverFiles /\ results \in Strings
      /\ unread \in Seq({Other} \cup Seq(Bits \cup {"-"})) /\ Len(unread) <= Len(file)
      /\ IsCurrent(file, LinesRead, minterm)
  BY DEF MTInv, ReadingOK
<1>2. Len(file) \in Nat \ {0} /\ Len(unread) \in Nat /\ (unread = <<>> <=> Len(unread) = 0)
  BY <1>1, FileFacts, EmptySeq
<1>3. LinesRead \in 0 .. Len(file) /\ Len(file) = LinesRead + Len(unread)
      /\ (unread = <<>> <=> LinesRead = Len(file))
  BY <1>1, <1>2 DEF LinesRead
<1>4. Len(minterm) \in Nat /\ minterm \in CubesOf(Len(minterm))
  BY <1>1, <1>3, CurrentFacts
<1>5. QED
  BY <1>1, <1>2, <1>3, <1>4

LEMMA LineInv == ASSUME MTInv, Line PROVE MTInv'
<1> DEFINE p == LinesRead
           tail == IF script = "table" THEN <<>> ELSE results
           n == Len(Current)
<1>1. /\ at = "line" /\ unread # <<>> /\ minterm' = Current /\ unread' = Tail(unread)
      /\ pending' = <<IF script = "table" THEN Split(Current) ELSE Split(Current) \o results>>
      /\ returned' = <<>> /\ at' = "call"
      /\ script' = script /\ file' = file /\ results' = results /\ written' = written
  BY DEF Line, Called
<1>2. /\ file \in CoverFiles /\ results \in Strings /\ script \in {"table", "count"}
      /\ Len(file) \in Nat \ {0} /\ Len(unread) \in Nat /\ p \in 0 .. Len(file)
      /\ Len(file) = p + Len(unread) /\ p # Len(file)
  BY <1>1, MTFacts
<1>3. /\ unread \in Seq({Other} \cup Seq(Bits \cup {"-"}))
      /\ \A i \in 1 .. Len(unread) : unread[i] = file[p + i]
      /\ IsCurrent(file, p, minterm)
  BY DEF MTInv, ReadingOK
<1>4. p \in 0 .. Len(file) - 1 /\ Len(unread) \in Nat \ {0}
  BY <1>2
<1> HIDE DEF p
<1>5. Head(unread) = file[p + 1]
  <2>1. Head(unread) = unread[1]
    BY <1>1, <1>3
  <2>2. QED
    BY <1>3, <1>4, <2>1
<1>6. IsCurrent(file, p + 1, Current)
  <2>1. Current = IF file[p + 1] = Other THEN minterm ELSE file[p + 1]
    BY <1>5 DEF Current
  <2>2. QED
    BY <1>2, <1>3, <1>4, <2>1, CurrentNext
<1>7. /\ Tail(unread) \in Seq({Other} \cup Seq(Bits \cup {"-"}))
      /\ Len(Tail(unread)) = Len(unread) - 1
      /\ \A i \in 1 .. Len(Tail(unread)) : Tail(unread)[i] = unread[i + 1]
  BY <1>1, <1>3, HeadTailProperties
<1>8. LinesRead' = p + 1
  BY <1>1, <1>2, <1>7 DEF LinesRead
<1>9. ReadingOK'
  <2>1. ASSUME NEW i \in 1 .. Len(Tail(unread)) PROVE Tail(unread)[i] = file[p + 1 + i]
    <3>1. i + 1 \in 1 .. Len(unread) /\ p + (i + 1) = p + 1 + i
      BY <1>4, <1>7
    <3>2. unread[i + 1] = file[p + (i + 1)]
      BY <1>3, <3>1
    <3>3. QED
      BY <1>7, <3>1, <3>2
  <2>2. Len(Tail(unread)) <= Len(file)
    BY <1>2, <1>4, <1>7
  <2>3. QED
    BY <1>1, <1>6, <1>7, <1>8, <2>1, <2>2 DEF ReadingOK
<1>10. n \in Nat /\ Current \in CubesOf(n)
  BY <1>2, <1>4, <1>6, CurrentFacts
<1>11. tail \in Strings
  BY <1>2, EmptySeq DEF Strings
<1>12. pending' = <<Split(Current) \o tail>>
  <2>1. Split(Current) \in Seq(Seq(Bits \cup {"-"}))
    BY <1>10 DEF Split, CubesOf
  <2>2. Split(Current) \o <<>> = Split(Current)
    BY <2>1, ConcatEmptySeq
  <2>3. QED
    BY <1>1, <2>2
<1>13. Expanding(n, Current, tail, pending', <<>>)
  BY <1>10, <1>11, <1>12, ExpandingStart
<1>14. script = "table" => Collected(file, p, results)
  BY <1>1 DEF MTInv, ResultsOK, p
<1>15. ExpansionOK' /\ ResultsOK'
  <2>1. p + 1 # 0 /\ p + 1 - 1 = p
    BY <1>4
  <2>2. CalledFor' = Current
    BY <1>1 DEF CalledFor
  <2>3. PassedOn' = tail
    BY <1>1, <1>2 DEF PassedOn
  <2>4. ExpansionOK'
    <3>1. Len(minterm') = n /\ returned' = <<>> /\ at' \in {"call", "call all"}
      BY <1>1
    <3> HIDE DEF n, tail
    <3>2. Expanding(Len(minterm'), CalledFor', PassedOn', pending', returned')
      BY <1>13, <2>2, <2>3, <3>1
    <3>3. QED
      BY <3>1, <3>2 DEF ExpansionOK
  <2>5. ResultsOK'
    <3>1. LinesRead' # 0 /\ LinesRead' - 1 = p
      BY <1>4, <1>8
    <3>2. script' = "table" => Collected(file', LinesRead' - 1, results')
      BY <1>1, <1>14, <3>1
    <3>3. QED
      BY <1>1, <3>1, <3>2, Zenon DEF ResultsOK
  <2>6. QED
    BY <2>4, <2>5
<1>16. TableListsCover' /\ CountsLastCube'
  BY <1>1, WrittenRight
<1>17. QED
  BY <1>1, <1>2, <1>9, <1>15, <1>16 DEF MTInv

\* What is being expanded during the calls.
LEMMA CallsFacts ==
  ASSUME MTInv
  PROVE  /\ PassedOn \in Strings /\ Len(minterm) \in Nat
         /\ pending # <<>> => at \in {"call", "call all"}
         /\ at \in {"call", "call all"} =>
               Expanding(Len(minterm), CalledFor, PassedOn, pending, returned)
<1>1. results \in Strings /\ <<>> \in Strings /\ Len(minterm) \in Nat
  BY MTFacts, EmptySeq DEF Strings
<1>2. QED
  BY <1>1 DEF MTInv, ExpansionOK, PassedOn

\* A step of subroutine.
LEMMA CallStep ==
  ASSUME MTInv, pending # <<>>, UNCHANGED <<script, file, unread, minterm, at, results, written>>,
         Expanding(Len(minterm), CalledFor, PassedOn, pending', returned')
  PROVE  MTInv'
<1>1. at \in {"call", "call all"}
  BY CallsFacts
<1>2. CalledFor' = CalledFor /\ PassedOn' = PassedOn /\ LinesRead' = LinesRead
  BY DEF CalledFor, PassedOn, LinesRead
<1>3. ExpansionOK'
  BY <1>1, <1>2 DEF ExpansionOK
<1>4. ReadingOK' /\ ResultsOK'
  BY <1>2 DEF MTInv, ReadingOK, ResultsOK
<1>5. TableListsCover' /\ CountsLastCube'
  <2>1. at' # "done"
    BY <1>1
  <2>2. QED
    BY <2>1, WrittenRight
<1>6. QED
  BY <1>3, <1>4, <1>5 DEF MTInv

LEMMA CallTwiceInv == ASSUME MTInv, CallTwice PROVE MTInv'
<1>1. /\ pending # <<>> /\ Dashed(Head(pending)) # {} /\ returned' = returned
      /\ pending' = << Becomes(Head(pending), "0"), Becomes(Head(pending), "1") >> \o Tail(pending)
      /\ UNCHANGED <<script, file, unread, minterm, at, results, written>>
  BY DEF CallTwice
<1>2. /\ PassedOn \in Strings /\ Len(minterm) \in Nat
      /\ Expanding(Len(minterm), CalledFor, PassedOn, pending, returned)
  BY <1>1, CallsFacts
<1>3. Expanding(Len(minterm), CalledFor, PassedOn, pending', returned')
  BY <1>1, <1>2, ExpandingTwice
<1>4. QED
  BY <1>1, <1>3, CallStep

LEMMA ReturnJoinedInv == ASSUME MTInv, ReturnJoined PROVE MTInv'
<1>1. /\ pending # <<>> /\ Dashed(Head(pending)) = {}
      /\ pending' = Tail(pending) /\ returned' = Append(returned, FlattenSeq(Head(pending)))
      /\ UNCHANGED <<script, file, unread, minterm, at, results, written>>
  BY DEF ReturnJoined
<1>2. /\ PassedOn \in Strings /\ Len(minterm) \in Nat
      /\ Expanding(Len(minterm), CalledFor, PassedOn, pending, returned)
  BY <1>1, CallsFacts
<1>3. Expanding(Len(minterm), CalledFor, PassedOn, pending', returned')
  BY <1>1, <1>2, ExpandingJoined
<1>4. QED
  BY <1>1, <1>3, CallStep

LEMMA LineDoneInv == ASSUME MTInv, LineDone PROVE MTInv'
<1> DEFINE n == Len(minterm)
<1>1. /\ at = "call" /\ pending = <<>> /\ results' = LineResults /\ at' = "line"
      /\ UNCHANGED <<script, file, unread, minterm, pending, returned, written>>
  BY DEF LineDone
<1>2. /\ file \in CoverFiles /\ results \in Strings /\ script \in {"table", "count"}
      /\ Len(file) \in Nat \ {0} /\ LinesRead \in 0 .. Len(file)
  BY MTFacts
<1>3. /\ PassedOn \in Strings /\ n \in Nat
      /\ Expanding(n, minterm, PassedOn, <<>>, returned)
  BY <1>1, CallsFacts DEF CalledFor
<1>4. /\ returned \in Strings /\ Len(returned) = Cardinality(Covered(n, minterm))
      /\ PassedOn = <<>> => Sorted(n, minterm, returned)
  BY <1>3, ExpandingDone
<1>5. IsCurrent(file, LinesRead, minterm) /\ LinesRead # 0 /\ LinesRead' = LinesRead
  BY <1>1 DEF MTInv, ReadingOK, ResultsOK, LinesRead
<1>6. CASE script = "table"
  <2>1. results' = results \o returned
    BY <1>1, <1>6 DEF LineResults
  <2>2. Sorted(n, minterm, returned)
    BY <1>4, <1>6 DEF PassedOn
  <2>3. Collected(file, LinesRead - 1, results)
    BY <1>1, <1>6 DEF MTInv, ResultsOK
  <2>4. Collected(file, LinesRead, results')
    <3>1. LinesRead \in 1 .. Len(file)
      BY <1>2, <1>5
    <3>2. QED
      BY <1>2, <1>4, <1>5, <2>1, <2>2, <2>3, <3>1, CollectedMore
  <2>5. results' \in Strings
    BY <1>2, <1>4, <2>1, ConcatProperties DEF Strings
  <2>6. ResultsOK'
    BY <1>1, <1>5, <1>6, <2>4 DEF ResultsOK
  <2>7. ReadingOK' /\ ExpansionOK'
    BY <1>1, <1>5 DEF MTInv, ReadingOK, ExpansionOK
  <2>8. TableListsCover' /\ CountsLastCube'
    BY <1>1, WrittenRight
  <2>9. QED
    BY <1>1, <1>2, <2>5, <2>6, <2>7, <2>8 DEF MTInv
<1>7. CASE script = "count"
  <2>1. results' = returned
    BY <1>1, <1>7 DEF LineResults
  <2>2. Counted(LinesRead, minterm, results')
    BY <1>4, <2>1 DEF Counted
  <2>3. ResultsOK'
    BY <1>1, <1>5, <1>7, <2>2 DEF ResultsOK
  <2>4. ReadingOK' /\ ExpansionOK'
    BY <1>1, <1>5 DEF MTInv, ReadingOK, ExpansionOK
  <2>5. TableListsCover' /\ CountsLastCube'
    BY <1>1, WrittenRight
  <2>6. QED
    BY <1>1, <1>2, <1>4, <2>1, <2>3, <2>4, <2>5 DEF MTInv
<1>8. QED
  BY <1>2, <1>6, <1>7

LEMMA CallAllInv == ASSUME MTInv, CallAll PROVE MTInv'
<1> DEFINE n == Len(minterm)
<1>1. /\ at = "line" /\ unread = <<>> /\ script = "table" /\ at' = "call all"
      /\ pending' = <<[i \in DOMAIN minterm |-> <<"-">>]>> /\ returned' = <<>>
      /\ UNCHANGED <<script, file, unread, minterm, results, written>>
  BY DEF CallAll, Called
<1>2. /\ file \in CoverFiles /\ results \in Strings
      /\ unread = <<>> <=> LinesRead = Len(file)
      /\ n \in Nat /\ minterm \in CubesOf(n)
  BY MTFacts
<1>3. Collected(file, Len(file), results)
  BY <1>1, <1>2 DEF MTInv, ResultsOK
<1>4. pending' = <<Split(Dashes(n)) \o <<>>>>
  <2>1. DOMAIN minterm = 1 .. n /\ DOMAIN Dashes(n) = 1 .. n
    BY <1>2 DEF CubesOf, Dashes
  <2>2. [i \in DOMAIN minterm |-> <<"-">>] = Split(Dashes(n))
    BY <2>1 DEF Split, Dashes
  <2>3. Split(Dashes(n)) \in Seq(Seq({"-"}))
    BY <1>2 DEF Split, Dashes
  <2>4. Split(Dashes(n)) \o <<>> = Split(Dashes(n))
    BY <2>3, ConcatEmptySeq
  <2>5. QED
    BY <1>1, <2>2, <2>4
<1>5. <<>> \in Strings
  BY EmptySeq DEF Strings
<1>6. Expanding(n, Dashes(n), <<>>, pending', <<>>)
  BY <1>2, <1>4, <1>5, DashesCover, ExpandingStart
<1>7. CalledFor' = Dashes(n) /\ PassedOn' = <<>> /\ LinesRead' = LinesRead
  BY <1>1 DEF CalledFor, PassedOn, LinesRead
<1>8. ExpansionOK'
  BY <1>1, <1>6, <1>7 DEF ExpansionOK
<1>9. ReadingOK' /\ ResultsOK'
  BY <1>1, <1>3, <1>7 DEF MTInv, ReadingOK, ResultsOK
<1>10. TableListsCover' /\ CountsLastCube'
  BY <1>1, WrittenRight
<1>11. QED
  BY <1>1, <1>2, <1>8, <1>9, <1>10 DEF MTInv

\* The script ends.
LEMMA WriteStep ==
  ASSUME MTInv, pending = <<>>, NEW output, Write(output),
         script = "table" => TableRight(file, output),
         script = "count" => CountRight(file, output)
  PROVE  MTInv'
<1>1. /\ written' = output /\ at' = "done"
      /\ UNCHANGED <<script, file, unread, minterm, pending, returned, results>>
  BY DEF Write
<1>2. LinesRead' = LinesRead
  BY <1>1 DEF LinesRead
<1>3. ReadingOK' /\ ExpansionOK' /\ ResultsOK'
  BY <1>1, <1>2 DEF MTInv, ReadingOK, ExpansionOK, ResultsOK
<1>4. TableListsCover' /\ CountsLastCube'
  BY <1>1, WrittenRight
<1>5. QED
  BY <1>1, <1>3, <1>4 DEF MTInv

LEMMA WriteTableInv == ASSUME MTInv, WriteTable PROVE MTInv'
<1> DEFINE n == Len(minterm)
           output == [k \in DOMAIN returned |-> IF Contains(results, Reverse(returned)[k]) THEN 1 ELSE 0]
<1>1. at = "call all" /\ pending = <<>> /\ Write(output)
  BY DEF WriteTable
<1>2. file \in CoverFiles /\ results \in Strings /\ (unread = <<>> <=> LinesRead = Len(file))
  BY MTFacts
<1>3. script = "table" /\ unread = <<>> /\ Collected(file, Len(file), results)
  BY <1>1 DEF MTInv, ResultsOK
<1>4. IsCurrent(file, Len(file), minterm)
  BY <1>2, <1>3 DEF MTInv, ReadingOK
<1>5. n \in Nat /\ <<>> \in Strings /\ Expanding(n, Dashes(n), <<>>, <<>>, returned)
  BY <1>1, CallsFacts, EmptySeq DEF CalledFor, PassedOn, Strings
<1>6. Sorted(n, Dashes(n), returned)
  BY <1>5, ExpandingDone
<1>7. TableRight(file, output)
  BY <1>2, <1>3, <1>4, <1>6, TableWritten
<1>8. QED
  <2> HIDE DEF output
  <2>1. QED
    BY <1>1, <1>3, <1>7, WriteStep

LEMMA WriteCountInv == ASSUME MTInv, WriteCount PROVE MTInv'
<1> DEFINE output == <<2 ^ Len(minterm), Len(results)>>
<1>1. at = "line" /\ unread = <<>> /\ script = "count" /\ Write(output)
  BY DEF WriteCount
<1>2. file \in CoverFiles /\ (unread = <<>> <=> LinesRead = Len(file))
  BY MTFacts
<1>3. /\ IsCurrent(file, Len(file), minterm) /\ Counted(Len(file), minterm, results)
      /\ pending = <<>>
  BY <1>1, <1>2 DEF MTInv, ReadingOK, ResultsOK, ExpansionOK
<1>4. CountRight(file, output)
  BY <1>2, <1>3, CountWritten
<1>5. QED
  <2> HIDE DEF output
  <2>1. QED
    BY <1>1, <1>3, <1>4, WriteStep

LEMMA MTNextInv == MTInv /\ [MTNext]_mtVars => MTInv'
<1> SUFFICES ASSUME MTInv, [MTNext]_mtVars PROVE MTInv'
  OBVIOUS
<1>1. CASE Line
  BY <1>1, LineInv
<1>2. CASE CallTwice
  BY <1>2, CallTwiceInv
<1>3. CASE ReturnJoined
  BY <1>3, ReturnJoinedInv
<1>4. CASE LineDone
  BY <1>4, LineDoneInv
<1>5. CASE CallAll
  BY <1>5, CallAllInv
<1>6. CASE WriteTable
  BY <1>6, WriteTableInv
<1>7. CASE WriteCount
  BY <1>7, WriteCountInv
<1>8. CASE UNCHANGED mtVars
  <2>1. UNCHANGED <<script, file, unread, minterm, at, pending, returned, results, written>>
    BY <1>8 DEF mtVars
  <2>2. LinesRead' = LinesRead /\ CalledFor' = CalledFor /\ PassedOn' = PassedOn
    BY <2>1 DEF LinesRead, CalledFor, PassedOn
  <2>3. ReadingOK' /\ ExpansionOK' /\ ResultsOK'
    BY <2>1, <2>2 DEF MTInv, ReadingOK, ExpansionOK, ResultsOK
  <2>4. TableListsCover' /\ CountsLastCube'
    BY <2>1, WrittenRight DEF MTInv
  <2>5. QED
    BY <2>1, <2>3, <2>4 DEF MTInv
<1>9. QED
  BY <1>1, <1>2, <1>3, <1>4, <1>5, <1>6, <1>7, <1>8 DEF MTNext

(***************************************************************************)
(* The expansion, for covers of any number of lines and columns: the cubes *)
(* that are pending and the rows that were returned make up the cube that  *)
(* subroutine was called for, all in order; the parser has collected the   *)
(* rows of the cubes read so far, count_minterms.pl those of the last one. *)
(***************************************************************************)
THEOREM ExpansionCorrect == MTSpec => []MTInv
<1>1. MTInit => MTInv
  BY MTInitInv
<1>2. MTInv /\ [MTNext]_mtVars => MTInv'
  BY MTNextInv
<1>3. QED
  BY <1>1, <1>2, PTL DEF MTSpec

(***************************************************************************)
(* For any cover the table lists its values, from all ones down            *)
(* (minterms2truthTable_parser.pl).                                        *)
(***************************************************************************)
THEOREM TableIsCover == MTSpec => []TableListsCover
<1>1. MTInv => TableListsCover
  BY DEF MTInv
<1>2. QED
  BY <1>1, ExpansionCorrect, PTL

(***************************************************************************)
(* For any cover the count is that of its last cube (count_minterms.pl).   *)
(***************************************************************************)
THEOREM CountIsLastCube == MTSpec => []CountsLastCube
<1>1. MTInv => CountsLastCube
  BY DEF MTInv
<1>2. QED
  BY <1>1, ExpansionCorrect, PTL
=============================================================================
