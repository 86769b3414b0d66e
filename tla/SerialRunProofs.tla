-------------------------- MODULE SerialRunProofs ---------------------------
(***************************************************************************)
(* Theorems about the serial runner, for every plan, workflow and bound.   *)
(*                                                                         *)
(* The argument: IInv is inductive.  Besides the types it says where in    *)
(* the workflow each phase can be (StepControl), that the task of an       *)
(* iteration stays startable until its outcome is in the plan              *)
(* (TaskStaysOpen), and that the finalizer's copy of the plan differs from *)
(* the file in that one outcome (CopyMatches).  Some properties also need  *)
(* whose turn it is (TurnInv), others which results can still reach the    *)
(* finalizer (UnreviewedParts, FirstRun).                                  *)
(***************************************************************************)
EXTENDS SerialRun, TaskPlanProofs

AgentPhases ==
  {"prompt", "repairNotes", "outputs", "repairOutputs", "recheck",
   "repairFailed", "recordUnreviewed"}
Unapplied == {"load", "verify", "apply"}
Applied == {"removeReview", "saveNotes", "savePlan"}

StepControl ==
  /\ rpc \in AgentPhases
       => step \in 1..Len(Steps) /\ Steps[step].kind = "agent"
  /\ rpc = "finalize"
       => step \in 1..Len(Steps) /\ Steps[step].kind = "finalize"
  /\ rpc # "finalize" <=> fpc = "idle"

\* The task of the iteration may still be worked on: nothing but its own
\* outcome can change its status, or that of a task it depends on.
TaskStaysOpen ==
  rpc \in AgentPhases \/ fpc \in Unapplied \cup Applied
    => /\ plan[cur] \notin Terminal
       /\ \A d \in Deps[cur] : plan[d] \in Terminal

\* The finalizer's copies, loaded before the verify commands ran, are not
\* stale when they are saved.
CopyMatches ==
  /\ fpc \in {"verify", "apply"} => fplan = plan
  /\ fpc \in Applied
       => fplan = [plan EXCEPT ![cur] = fresult.status] /\ fnotes[cur] = fresult
  /\ fpc = "savePlan" => notes = fnotes

CopyIsVerified ==
  fpc \in {"apply"} \cup Applied /\ fresult.status = "done" => cur \in verified

HeadBehindPlan == \A t \in Tasks : head[t] = "done" => plan[t] = "done"

SafetyParts ==
  /\ TaskStaysOpen
  /\ CopyMatches
  /\ CopyIsVerified
  /\ HeadBehindPlan
  /\ DoneIsVerified

IInv == TypeOK /\ StepControl /\ SafetyParts

-----------------------------------------------------------------------------
(***************************************************************************)
(* Types                                                                   *)
(***************************************************************************)

\* A finalizer step keeps the files and its own copies well typed.
LEMMA FinalizerStepType ==
  ASSUME FinalizerTypeOK, NEW t \in Tasks, FinalizerStep(t)
  PROVE  FinalizerTypeOK'
<1> USE DEF FinalizerTypeOK, files
<1>1. CASE FinLoadFails(t)
  BY <1>1 DEF FinLoadFails, Exits
<1>2. CASE FinLoad(t)
  BY <1>2 DEF FinLoad, Phases
<1>3. CASE FinVerifyPasses(t)
  BY <1>3 DEF FinVerifyPasses, Phases
<1>4. CASE FinVerifyFails(t)
  <2>1. FailedResult(fresult) \in Results
    BY DEF FailedResult, WithMark, Results, Texts, Marks, ResultStatuses, Statuses
  <2>2. QED
    BY <1>4, <2>1 DEF FinVerifyFails, Phases
<1>5. CASE FinApply(t)
  <2>1. fresult.status \in Statuses /\ fresult \in Notes
    BY DEF Results, Notes, ResultStatuses
  <2>2. QED
    BY <1>5, <2>1 DEF FinApply, Phases
<1>6. CASE FinRemoveReview(t)
  BY <1>6 DEF FinRemoveReview, Phases
<1>7. CASE FinSaveNotes
  BY <1>7 DEF FinSaveNotes, Phases
<1>8. CASE FinSavePlan
  BY <1>8 DEF FinSavePlan, Phases, Exits
<1>9. CASE FinCommit
  BY <1>9 DEF FinCommit, Exits
<1>10. CASE FinAborts
  BY <1>10 DEF FinAborts, WritesCutShort, Exits
<1>11. QED
  BY <1>1, <1>2, <1>3, <1>4, <1>5, <1>6, <1>7, <1>8, <1>9, <1>10
     DEF FinalizerStep

LEMMA StepFields ==
  ASSUME NEW i \in 1..Len(Steps)
  PROVE  /\ Steps[i].kind \in {"agent", "finalize"}
         /\ Steps[i].outs \subseteq Outputs
         /\ Steps[i].continue_on_error \in BOOLEAN
<1> DEFINE Shape == [kind: {"agent", "finalize"}, outs: SUBSET Outputs,
                     continue_on_error: BOOLEAN]
<1>1. Steps \in Seq(Shape)
  BY SerialRunAssumption
<1>2. Steps[i] \in Shape
  <2> HIDE DEF Shape
  <2>1. QED
    BY <1>1
<1>3. QED
  BY <1>2

LEMMA InitType == Init => TypeOK
<1> SUFFICES ASSUME Init PROVE TypeOK
  OBVIOUS
<1>1. EmptyText \in Texts
  BY DEF EmptyText, Texts
<1>2. FinalizerTypeOK
  BY <1>1 DEF Init, FinalizerInit, FinalizerTypeOK, Results, ResultStatuses, Statuses
<1>3. 1 \in Tasks /\ 0 \in 0..Len(Steps) /\ 0 \in Nat
  BY PlanAssumption, SerialRunAssumption DEF Tasks
<1>4. <<"todo", EmptyText>> \in Statuses \X Texts
  BY <1>1 DEF Statuses
<1>5. QED
  BY <1>2, <1>3, <1>4 DEF Init, TypeOK, RunnerPhases, Outcomes

\* Wherever the runner goes from a step, its control variables keep their types.
ControlOK ==
  /\ rpc \in RunnerPhases
  /\ step \in 0..Len(Steps)
  /\ issues \subseteq Outputs \X {"missing", "invalid"}
  /\ outcome \in Outcomes
  /\ fpc \in {"idle"} \cup Phases \cup Exits

LEMMA GoToStepType ==
  ASSUME TypeOK, NEW i \in 1..(Len(Steps) + 1), GoToStep(i)
  PROVE  ControlOK'
<1>1. Len(Steps) \in Nat
  BY SerialRunAssumption
<1>2. QED
  BY <1>1 DEF GoToStep, TypeOK, RunnerPhases, Phases, ControlOK

LEMMA ControlType ==
  ASSUME TypeOK,
         \/ \E p \in RunnerPhases : GoTo(p)
         \/ \E o \in Outcomes : StopRun(o)
         \/ EndSteps
         \/ step \in 1..Len(Steps) /\ (GoToStep(step + 1) \/ StepFails)
  PROVE  ControlOK'
<1>1. 0 \in 0..Len(Steps)
  BY SerialRunAssumption
<1>2. CASE \E p \in RunnerPhases : GoTo(p)
  BY <1>2 DEF GoTo, TypeOK, FinalizerTypeOK, ControlOK
<1>3. CASE \E o \in Outcomes : StopRun(o)
  BY <1>1, <1>3 DEF StopRun, RunnerPhases, ControlOK
<1>4. CASE EndSteps
  BY <1>1, <1>4 DEF EndSteps, TypeOK, RunnerPhases, ControlOK
<1>5. CASE step \in 1..Len(Steps) /\ (GoToStep(step + 1) \/ StepFails)
  <2>1. step + 1 \in 1..(Len(Steps) + 1)
    BY <1>5, SerialRunAssumption
  <2>2. GoToStep(step + 1) \/ StopRun("error")
    BY <1>5 DEF StepFails
  <2>3. CASE GoToStep(step + 1)
    BY <2>1, <2>3, GoToStepType
  <2>4. CASE StopRun("error")
    BY <1>1, <2>4 DEF StopRun, RunnerPhases, ControlOK, Outcomes
  <2>5. QED
    BY <2>2, <2>3, <2>4
<1>6. QED
  BY <1>2, <1>3, <1>4, <1>5

LEMMA IssuesType ==
  ASSUME step \in 1..Len(Steps)
  PROVE  Issues \subseteq Outputs \X {"missing", "invalid"}
BY StepFields DEF Issues, Problem

LEMMA FallbackTextType ==
  ASSUME NEW found, found \subseteq Outputs \X {"missing", "invalid"},
         OnlyIssuesOf("result", found)
  PROVE  InProgress(FallbackText(found)) \in Results
<1>1. \E i \in found : i[1] = "result"
  BY DEF OnlyIssuesOf
<1>2. (CHOOSE i \in found : i[1] = "result") \in found
  BY <1>1
<1>3. (CHOOSE i \in found : i[1] = "result")[2] \in {"missing", "invalid"}
  BY <1>2
<1>4. FallbackText(found) \in Texts
  BY <1>3 DEF FallbackText, Texts
<1>5. QED
  BY <1>4 DEF InProgress, Results, ResultStatuses, Statuses

LEMMA UnreviewedTextType ==
  ASSUME NEW f
  PROVE  InProgress(UnreviewedText(f)) \in Results
<1>1. UnreviewedText(f) \in Texts
  BY DEF UnreviewedText, WithMark, EmptyText, Results, Texts, Marks
<1>2. QED
  BY <1>1 DEF InProgress, Results, ResultStatuses, Statuses

LEMMA SignatureType ==
  ASSUME TypeOK, NEW t \in Tasks
  PROVE  Signature(t) \in Statuses \X Texts
BY DEF TypeOK, FinalizerTypeOK, Signature, NoteText, Notes, EmptyText, Texts

\* The part of the types that agents, fallbacks and crashes can disturb.
FilesOK ==
  /\ torn \subseteq {"plan", "notes"}
  /\ notes \in [Tasks -> Notes \cup {NoFile}]
  /\ notesParse \in BOOLEAN
  /\ result \in [Tasks -> Results \cup {NoFile, BadFile}]
  /\ review \in [Tasks -> {NoFile, BadFile, Review, OwnReview}]
  /\ fresh \in BOOLEAN
  /\ unreviewed \subseteq Tasks

LEMMA AgentType ==
  ASSUME TypeOK, NEW outs, AgentWrites(outs), AgentEditsNotes,
         UNCHANGED torn
  PROVE  FilesOK'
<1>1. result' \in [Tasks -> Results \cup {NoFile, BadFile}] /\ fresh' \in BOOLEAN
      /\ unreviewed' \subseteq Tasks
  BY SerialRunAssumption DEF TypeOK, FinalizerTypeOK, AgentWrites
<1>2. review' \in [Tasks -> {NoFile, BadFile, Review, OwnReview}]
  BY DEF TypeOK, FinalizerTypeOK, AgentWrites
<1>3. notes' \in [Tasks -> Notes \cup {NoFile}] /\ notesParse' \in BOOLEAN
  <2>1. CASE notes' = notes
    BY <2>1 DEF TypeOK, FinalizerTypeOK, AgentEditsNotes
  <2>2. CASE notes' # notes
    <3>1. PICK x \in AgentTexts :
            notes' = [notes EXCEPT ![cur] =
                        [status |-> IF notes[cur] = NoFile THEN "in_progress"
                                    ELSE notes[cur].status,
                         text |-> x]]
      BY <2>2 DEF AgentEditsNotes
    <3>2. x \in Texts
      BY SerialRunAssumption
    <3>3. (IF notes[cur] = NoFile THEN "in_progress" ELSE notes[cur].status)
            \in Statuses
      BY DEF TypeOK, FinalizerTypeOK, Notes, Statuses
    <3>4. notes'[cur] \in Notes
      BY <3>1, <3>2, <3>3 DEF TypeOK, FinalizerTypeOK, Notes
    <3>5. QED
      BY <2>2, <3>1, <3>4 DEF TypeOK, FinalizerTypeOK, AgentEditsNotes
  <2>3. QED
    BY <2>1, <2>2
<1>4. QED
  BY <1>1, <1>2, <1>3 DEF TypeOK, FinalizerTypeOK, FilesOK

\* Together the two parts are all of TypeOK that the steps below disturb.
LEMMA TypeFromParts ==
  ASSUME TypeOK, ControlOK', FilesOK',
         UNCHANGED <<plan, head, fplan, fnotes, fresult, ffailed, verified>>,
         UNCHANGED <<cur, sig, stalled, iteration, runs>>
  PROVE  TypeOK'
BY DEF TypeOK, FinalizerTypeOK, ControlOK, FilesOK

LEMMA TypeStep ==
  ASSUME TypeOK, StepControl, Next
  PROVE  TypeOK'
<1>1. CASE Start
  <2>1. FinalizerTypeOK'
    BY <1>1 DEF Start, TypeOK, FinalizerTypeOK, files, fvars
  <2>2. QED
    BY <1>1, <2>1 DEF Start, TypeOK, RunnerPhases, Outcomes
<1>2. CASE StopBeforeIteration
  <2>1. \E o \in Outcomes : StopRun(o)
    BY <1>2 DEF StopBeforeIteration, Outcomes
  <2>2. FilesOK'
    BY <1>2 DEF StopBeforeIteration, files, TypeOK, FinalizerTypeOK, FilesOK
  <2>3. QED
    BY <1>2, <2>1, <2>2, ControlType, TypeFromParts
       DEF StopBeforeIteration, KeepCopies, KeepIteration, files, TypeOK
<1>3. CASE SelectTask
  <2>1. FindNextReady(plan) \in Tasks
    BY <1>3, NextReadyIsRunnable DEF SelectTask, TypeOK, FinalizerTypeOK
  <2>2. ControlOK'
    BY <1>3, SerialRunAssumption, GoToStepType DEF SelectTask
  <2>3. FinalizerTypeOK'
    BY <1>3, <2>2 DEF SelectTask, files, TypeOK, FinalizerTypeOK, ControlOK
  <2>4. sig' \in Statuses \X Texts
    BY <1>3, <2>1, SignatureType DEF SelectTask
  <2>5. iteration' \in Nat /\ cur' \in Tasks
    BY <1>3, <2>1 DEF SelectTask, TypeOK
  <2>6. UNCHANGED <<stalled, runs, unreviewed>> /\ fresh' = FALSE
    BY <1>3 DEF SelectTask
  <2>7. QED
    BY <2>2, <2>3, <2>4, <2>5, <2>6 DEF TypeOK, ControlOK
<1>4. CASE RunPrompt
  <2>1. step \in 1..Len(Steps)
    BY <1>4 DEF RunPrompt, StepControl, AgentPhases
  <2>2. ControlOK'
    BY <1>4, <2>1, ControlType DEF RunPrompt, RunnerPhases
  <2>3. FilesOK'
    BY <1>4, AgentType DEF RunPrompt
  <2>4. QED
    BY <1>4, <2>2, <2>3, TypeFromParts
       DEF RunPrompt, KeepCopies, KeepIteration, TypeOK
<1>5. CASE RepairNotes
  <2>1. step \in 1..Len(Steps)
    BY <1>5 DEF RepairNotes, StepControl, AgentPhases
  <2>2. ControlOK'
    BY <1>5, <2>1, ControlType DEF RepairNotes, RunnerPhases
  <2>3. FilesOK'
    BY <1>5 DEF RepairNotes, TypeOK, FinalizerTypeOK, FilesOK
  <2>4. QED
    BY <1>5, <2>2, <2>3, TypeFromParts
       DEF RepairNotes, KeepCopies, KeepIteration, TypeOK
<1>6. CASE InspectOutputs
  <2>1. step \in 1..Len(Steps)
    BY <1>6 DEF InspectOutputs, StepControl, AgentPhases
  <2>2. ControlOK'
    <3>1. CASE GoToStep(step + 1)
      BY <2>1, <3>1, ControlType
    <3>2. CASE ~GoToStep(step + 1)
      BY <1>6, <2>1, <3>2, IssuesType
         DEF InspectOutputs, TypeOK, FinalizerTypeOK, ControlOK, RunnerPhases
    <3>3. QED
      BY <3>1, <3>2
  <2>3. FilesOK'
    BY <1>6 DEF InspectOutputs, files, TypeOK, FinalizerTypeOK, FilesOK
  <2>4. QED
    BY <1>6, <2>2, <2>3, TypeFromParts
       DEF InspectOutputs, files, KeepCopies, KeepIteration, TypeOK
<1>7. CASE RepairOutputs
  <2>1. ControlOK'
    BY <1>7, ControlType DEF RepairOutputs, RunnerPhases
  <2>2. FilesOK'
    BY <1>7, AgentType DEF RepairOutputs
  <2>3. QED
    BY <1>7, <2>1, <2>2, TypeFromParts
       DEF RepairOutputs, KeepCopies, KeepIteration, TypeOK
<1>8. CASE RecheckOutputs
  <2>1. step \in 1..Len(Steps)
    BY <1>8 DEF RecheckOutputs, StepControl, AgentPhases
  <2>2. ControlOK'
    BY <1>8, <2>1, ControlType DEF RecheckOutputs, FallbackReview, RunnerPhases
  <2>3. FilesOK'
    <3>1. CASE FallbackReview
      BY <1>8, <3>1
         DEF RecheckOutputs, FallbackReview, TypeOK, FinalizerTypeOK, FilesOK
    <3>2. CASE OnlyIssuesOf("result", Issues) /\ FallbackResult(Issues)
      <4>1. InProgress(FallbackText(Issues)) \in Results
        BY <2>1, <3>2, IssuesType, FallbackTextType
      <4>2. QED
        BY <1>8, <3>2, <4>1
           DEF RecheckOutputs, FallbackResult, TypeOK, FinalizerTypeOK, FilesOK
    <3>3. CASE UNCHANGED <<result, review, fresh, unreviewed>>
      BY <1>8, <3>3 DEF RecheckOutputs, TypeOK, FinalizerTypeOK, FilesOK
    <3>4. QED
      BY <1>8, <3>1, <3>2, <3>3 DEF RecheckOutputs
  <2>4. QED
    BY <1>8, <2>2, <2>3, TypeFromParts
       DEF RecheckOutputs, KeepCopies, KeepIteration, TypeOK
<1>9. CASE RepairPromptFailed
  <2>1. step \in 1..Len(Steps)
    BY <1>9 DEF RepairPromptFailed, StepControl, AgentPhases
  <2>2. ControlOK'
    BY <1>9, <2>1, ControlType DEF RepairPromptFailed, FallbackReview, RunnerPhases
  <2>3. FilesOK'
    <3>1. CASE OnlyIssuesOf("review", issues) /\ FallbackReview
      BY <1>9, <3>1
         DEF RepairPromptFailed, FallbackReview, TypeOK, FinalizerTypeOK, FilesOK
    <3>2. CASE OnlyIssuesOf("result", issues) /\ FallbackResult(issues)
      <4>1. InProgress(FallbackText(issues)) \in Results
        BY <3>2, FallbackTextType DEF TypeOK
      <4>2. QED
        BY <1>9, <3>2, <4>1
           DEF RepairPromptFailed, FallbackResult, TypeOK, FinalizerTypeOK, FilesOK
    <3>3. CASE UNCHANGED <<result, review, fresh, unreviewed>>
      BY <1>9, <3>3 DEF RepairPromptFailed, TypeOK, FinalizerTypeOK, FilesOK
    <3>4. QED
      BY <1>9, <3>1, <3>2, <3>3 DEF RepairPromptFailed
  <2>4. QED
    BY <1>9, <2>2, <2>3, TypeFromParts
       DEF RepairPromptFailed, KeepCopies, KeepIteration, TypeOK
<1>10. CASE Finalize
  <2>1. FinalizerTypeOK'
    BY <1>10, FinalizerStepType DEF Finalize, TypeOK
  <2>2. QED
    BY <1>10, <2>1 DEF Finalize, rvars, TypeOK
<1>11. CASE FinalizeSucceeded
  <2>1. step \in 1..Len(Steps)
    BY <1>11 DEF FinalizeSucceeded, StepControl
  <2>2. ControlOK'
    BY <1>11, <2>1, ControlType DEF FinalizeSucceeded
  <2>3. FilesOK'
    BY <1>11 DEF FinalizeSucceeded, files, TypeOK, FinalizerTypeOK, FilesOK
  <2>4. QED
    BY <1>11, <2>2, <2>3, TypeFromParts
       DEF FinalizeSucceeded, files, KeepCopies, KeepIteration, TypeOK
<1>12. CASE FinalizeFailed
  <2>1. step \in 1..Len(Steps)
    BY <1>12 DEF FinalizeFailed, StepControl
  <2>2. ControlOK'
    BY <1>12, <2>1, ControlType DEF FinalizeFailed
  <2>3. FilesOK'
    BY <1>12 DEF FinalizeFailed, files, TypeOK, FinalizerTypeOK, FilesOK
  <2>4. QED
    BY <1>12, <2>2, <2>3, TypeFromParts
       DEF FinalizeFailed, files, KeepCopies, KeepIteration, TypeOK
<1>13. CASE EndIteration
  <2>1. ControlOK'
    BY <1>13, ControlType DEF EndIteration, RunnerPhases, Outcomes
  <2>2. FinalizerTypeOK'
    BY <1>13, <2>1
       DEF EndIteration, KeepCopies, files, TypeOK, FinalizerTypeOK, ControlOK
  <2>3. stalled' \in Nat
    BY <1>13 DEF EndIteration, TypeOK
  <2>4. QED
    BY <1>13, <2>1, <2>2, <2>3 DEF EndIteration, TypeOK, ControlOK
<1>14. CASE EndIterationFails
  <2>1. ControlOK'
    BY <1>14, ControlType DEF EndIterationFails, Outcomes
  <2>2. FilesOK'
    BY <1>14 DEF EndIterationFails, files, TypeOK, FinalizerTypeOK, FilesOK
  <2>3. QED
    BY <1>14, <2>1, <2>2, TypeFromParts
       DEF EndIterationFails, files, KeepCopies, KeepIteration, TypeOK
<1>15. CASE Crash
  <2>1. ControlOK'
    BY <1>15, ControlType DEF Crash, Outcomes
  <2>2. FilesOK'
    BY <1>15 DEF Crash, WritesCutShort, TypeOK, FinalizerTypeOK, FilesOK
  <2>3. QED
    BY <1>15, <2>1, <2>2, TypeFromParts
       DEF Crash, KeepCopies, KeepIteration, TypeOK
<1>16. CASE FixNotes
  <2>1. FinalizerTypeOK'
    BY <1>16 DEF FixNotes, TypeOK, FinalizerTypeOK, fvars
  <2>2. QED
    BY <1>16, <2>1 DEF FixNotes, rvars, TypeOK
<1>17. CASE RecordUnreviewed
  <2>1. step \in 1..Len(Steps)
    BY <1>17 DEF RecordUnreviewed, StepControl, AgentPhases
  <2>2. ControlOK'
    BY <1>17, <2>1, ControlType DEF RecordUnreviewed
  <2>3. FilesOK'
    <3>1. result' = [result EXCEPT ![cur] = InProgress(UnreviewedText(result[cur]))]
      BY <1>17 DEF RecordUnreviewed
    <3>2. QED
      BY <1>17, <3>1, UnreviewedTextType
         DEF RecordUnreviewed, TypeOK, FinalizerTypeOK, FilesOK
  <2>4. QED
    BY <1>17, <2>2, <2>3, TypeFromParts
       DEF RecordUnreviewed, KeepCopies, KeepIteration, TypeOK
<1>18. QED
  BY <1>1, <1>2, <1>3, <1>4, <1>5, <1>6, <1>7, <1>8, <1>9, <1>10, <1>11,
     <1>12, <1>13, <1>14, <1>15, <1>16, <1>17 DEF Next, RunnerStep, AgentStep

-----------------------------------------------------------------------------
(***************************************************************************)
(* Where the runner is in the workflow                                     *)
(***************************************************************************)

LEMMA GoToStepControl ==
  ASSUME NEW i \in 1..(Len(Steps) + 1), GoToStep(i)
  PROVE  StepControl'
<1>1. Len(Steps) \in Nat
  BY SerialRunAssumption
<1>2. CASE i > Len(Steps)
  BY <1>1, <1>2 DEF GoToStep, StepControl, AgentPhases
<1>3. CASE i <= Len(Steps)
  <2>1. i \in 1..Len(Steps)
    BY <1>1, <1>3
  <2>2. Steps[i].kind \in {"agent", "finalize"}
    BY <2>1, StepFields
  <2>3. QED
    BY <1>1, <2>1, <2>2 DEF GoToStep, StepControl, AgentPhases
<1>4. QED
  BY <1>1, <1>2, <1>3

LEMMA StepEndsControl ==
  ASSUME \/ \E o : StopRun(o)
         \/ EndSteps
         \/ step \in 1..Len(Steps) /\ (GoToStep(step + 1) \/ StepFails)
  PROVE  StepControl'
<1>1. CASE \E o : StopRun(o)
  BY <1>1 DEF StopRun, StepControl, AgentPhases
<1>2. CASE EndSteps
  BY <1>2 DEF EndSteps, StepControl, AgentPhases
<1>3. CASE step \in 1..Len(Steps) /\ (GoToStep(step + 1) \/ StepFails)
  <2>1. step + 1 \in 1..(Len(Steps) + 1)
    BY <1>3, SerialRunAssumption
  <2>2. GoToStep(step + 1) \/ StopRun("error")
    BY <1>3 DEF StepFails
  <2>3. QED
    BY <1>1, <2>1, <2>2, GoToStepControl
<1>4. QED
  BY <1>1, <1>2, <1>3

LEMMA ControlStep ==
  ASSUME TypeOK, StepControl, Next
  PROVE  StepControl'
<1> USE DEF AgentPhases
<1>1. CASE Start \/ FixNotes
  BY <1>1 DEF Start, FixNotes, fvars, rvars, StepControl
<1>2. CASE StopBeforeIteration \/ EndIterationFails \/ Crash
  BY <1>2, StepEndsControl DEF StopBeforeIteration, EndIterationFails, Crash
<1>3. CASE SelectTask
  BY <1>3, GoToStepControl, SerialRunAssumption DEF SelectTask
<1>4. CASE AgentStep \/ InspectOutputs \/ RecheckOutputs \/ RepairPromptFailed \/ RecordUnreviewed
  <2>1. rpc \in AgentPhases
    BY <1>4 DEF AgentStep, RunPrompt, RepairNotes, RepairOutputs,
                InspectOutputs, RecheckOutputs, RepairPromptFailed, RecordUnreviewed
  <2>2. step \in 1..Len(Steps) /\ Steps[step].kind = "agent" /\ fpc = "idle"
    BY <2>1 DEF StepControl
  <2>3. \/ GoToStep(step + 1) \/ StepFails \/ EndSteps
        \/ rpc' \in AgentPhases /\ UNCHANGED <<fpc, step>>
    BY <1>4 DEF AgentStep, RunPrompt, RepairNotes, RepairOutputs, InspectOutputs,
                RecheckOutputs, RepairPromptFailed, RecordUnreviewed, FallbackReview, GoTo
  <2>4. CASE rpc' \in AgentPhases /\ UNCHANGED <<fpc, step>>
    BY <2>2, <2>4 DEF StepControl
  <2>5. QED
    BY <2>2, <2>3, <2>4, StepEndsControl
<1>5. CASE Finalize
  <2>1. fpc' # "idle"
    BY <1>5 DEF Finalize, FinalizerStep, FinLoadFails, FinLoad, FinVerifyPasses,
                FinVerifyFails, FinApply, FinRemoveReview, FinSaveNotes,
                FinSavePlan, FinCommit, FinAborts
  <2>2. QED
    BY <1>5, <2>1 DEF Finalize, rvars, StepControl
<1>6. CASE FinalizeSucceeded \/ FinalizeFailed
  <2>1. step \in 1..Len(Steps)
    BY <1>6 DEF FinalizeSucceeded, FinalizeFailed, StepControl
  <2>2. QED
    BY <1>6, <2>1, StepEndsControl DEF FinalizeSucceeded, FinalizeFailed
<1>7. CASE EndIteration
  <2>1. StopRun("stalled") \/ (GoTo("select") /\ rpc = "endIteration")
    BY <1>7 DEF EndIteration
  <2>2. QED
    BY <2>1, StepEndsControl DEF GoTo, StepControl
<1>8. QED
  BY <1>1, <1>2, <1>3, <1>4, <1>5, <1>6, <1>7 DEF Next, RunnerStep

\* The theorem behind TypeOK: the program's state is what the code takes it
\* for, in every phase of every workflow, after any crash and restart.
THEOREM TypeCorrect == Spec => [](TypeOK /\ StepControl)
<1>1. Init => TypeOK /\ StepControl
  BY InitType DEF Init, FinalizerInit, StepControl, AgentPhases
<1>2. TypeOK /\ StepControl /\ [Next]_vars => (TypeOK /\ StepControl)'
  <2> SUFFICES ASSUME TypeOK, StepControl, [Next]_vars
               PROVE  (TypeOK /\ StepControl)'
    OBVIOUS
  <2>1. CASE Next
    BY <2>1, TypeStep, ControlStep
  <2>2. CASE UNCHANGED vars
    BY <2>2 DEF vars, files, fvars, rvars, TypeOK, FinalizerTypeOK, StepControl
  <2>3. QED
    BY <2>1, <2>2
<1>3. QED
  BY <1>1, <1>2, PTL DEF Spec

-----------------------------------------------------------------------------
(***************************************************************************)
(* Statuses change one at a time, and "done" is verified                   *)
(***************************************************************************)

\* Outside the finalizer and the choice of a task nothing happens to the plan
\* or to the copies of it, and an iteration never starts.
LEMMA OtherSteps ==
  ASSUME TypeOK, StepControl, Next, ~Finalize, ~SelectTask
  PROVE  /\ UNCHANGED <<plan, head, verified>>
         /\ rpc' \in AgentPhases \/ fpc' \in Unapplied \cup Applied
              => rpc \in AgentPhases /\ fpc' \in {"idle", "load"} /\ cur' = cur
<1> USE DEF AgentPhases, Unapplied, Applied
<1>1. CASE Start \/ FixNotes
  BY <1>1 DEF Start, FixNotes, fvars, rvars, files, StepControl
<1>2. CASE StopBeforeIteration \/ EndIterationFails \/ Crash
  BY <1>2 DEF StopBeforeIteration, EndIterationFails, Crash, StopRun,
              files, KeepCopies
<1>3. CASE AgentStep \/ InspectOutputs \/ RecheckOutputs \/ RepairPromptFailed \/ RecordUnreviewed
  <2>1. UNCHANGED <<plan, head, verified, cur>> /\ rpc \in AgentPhases
    BY <1>3 DEF AgentStep, RunPrompt, RepairNotes, RepairOutputs, InspectOutputs,
                RecheckOutputs, RepairPromptFailed, RecordUnreviewed, files, KeepCopies, KeepIteration
  <2>2. fpc = "idle"
    BY <2>1 DEF StepControl
  <2>3. fpc' \in {"idle", "load"}
    BY <1>3, <2>2
       DEF AgentStep, RunPrompt, RepairNotes, RepairOutputs, InspectOutputs,
           RecheckOutputs, RepairPromptFailed, RecordUnreviewed, FallbackReview, GoTo, GoToStep,
           StepFails, StopRun, EndSteps
  <2>4. QED
    BY <2>1, <2>3
<1>4. CASE FinalizeSucceeded \/ FinalizeFailed
  <2>1. step = Len(Steps) /\ step + 1 > Len(Steps)
    BY <1>4, SerialRunAssumption
       DEF FinalizeSucceeded, FinalizeFailed, StepControl
  <2>2. rpc' \in {"endIteration", "off"} /\ fpc' = "idle"
    BY <1>4, <2>1 DEF FinalizeSucceeded, FinalizeFailed, GoToStep, StepFails,
                      StopRun, EndSteps
  <2>3. QED
    BY <1>4, <2>2 DEF FinalizeSucceeded, FinalizeFailed, files, KeepCopies
<1>5. CASE EndIteration
  <2>1. rpc' \in {"select", "off"} /\ fpc' = "idle"
    BY <1>5 DEF EndIteration, StopRun, GoTo, StepControl
  <2>2. QED
    BY <1>5, <2>1 DEF EndIteration, files, KeepCopies
<1>6. QED
  BY <1>1, <1>2, <1>3, <1>4, <1>5 DEF Next, RunnerStep

\* Each step of the finalizer keeps the safety part of IInv.
LEMMA FinalizeKeepsSafety ==
  ASSUME TypeOK, StepControl, SafetyParts, Finalize
  PROVE  SafetyParts'
<1> USE DEF SafetyParts, Unapplied, Applied
<1>1. /\ cur \in Tasks /\ cur' = cur
      /\ rpc = "finalize" /\ rpc' = "finalize"
      /\ plan \in [Tasks -> Statuses] /\ head \in [Tasks -> Statuses]
      /\ fnotes \in [Tasks -> Notes \cup {NoFile}]
  BY DEF Finalize, rvars, TypeOK, FinalizerTypeOK
<1> USE <1>1 DEF AgentPhases
<1>2. CASE FinLoadFails(cur) \/ FinAborts
  BY <1>2 DEF FinLoadFails, FinAborts, WritesCutShort, files, TaskStaysOpen,
              CopyMatches, CopyIsVerified, HeadBehindPlan, DoneIsVerified
<1>3. CASE FinLoad(cur)
  BY <1>3 DEF FinLoad, files, TaskStaysOpen, CopyMatches, CopyIsVerified,
              HeadBehindPlan, DoneIsVerified
<1>4. CASE FinVerifyPasses(cur)
  BY <1>4 DEF FinVerifyPasses, files, TaskStaysOpen, CopyMatches, CopyIsVerified,
              HeadBehindPlan, DoneIsVerified
<1>5. CASE FinVerifyFails(cur)
  <2>1. plan[cur] # "done" /\ head[cur] # "done"
    BY <1>5 DEF FinVerifyFails, TaskStaysOpen, HeadBehindPlan, Terminal
  <2>2. fresult'.status = "in_progress"
    BY <1>5 DEF FinVerifyFails, FailedResult
  <2>3. QED
    BY <1>5, <2>1, <2>2 DEF FinVerifyFails, files, TaskStaysOpen, CopyMatches,
                            CopyIsVerified, HeadBehindPlan, DoneIsVerified
<1>6. CASE FinApply(cur)
  BY <1>6 DEF FinApply, TaskStaysOpen, CopyMatches, CopyIsVerified,
              HeadBehindPlan, DoneIsVerified
<1>7. CASE FinRemoveReview(cur)
  BY <1>7 DEF FinRemoveReview, TaskStaysOpen, CopyMatches, CopyIsVerified,
              HeadBehindPlan, DoneIsVerified
<1>8. CASE FinSaveNotes
  BY <1>8 DEF FinSaveNotes, TaskStaysOpen, CopyMatches, CopyIsVerified,
              HeadBehindPlan, DoneIsVerified
<1>9. CASE FinSavePlan
  <2>1. plan' = [plan EXCEPT ![cur] = fresult.status] /\ head' = head
        /\ verified' = verified
    BY <1>9 DEF FinSavePlan, CopyMatches
  <2>2. plan[cur] # "done" /\ head[cur] # "done"
    BY <1>9 DEF FinSavePlan, TaskStaysOpen, HeadBehindPlan, Terminal
  <2>3. plan'[cur] = "done" => cur \in verified
    BY <1>9, <2>1 DEF FinSavePlan, CopyIsVerified
  <2>4. HeadBehindPlan' /\ DoneIsVerified'
    BY <2>1, <2>2, <2>3 DEF HeadBehindPlan, DoneIsVerified
  <2>5. QED
    BY <1>9, <2>4 DEF FinSavePlan, TaskStaysOpen, CopyMatches, CopyIsVerified
<1>10. CASE FinCommit
  BY <1>10 DEF FinCommit, TaskStaysOpen, CopyMatches, CopyIsVerified,
              HeadBehindPlan, DoneIsVerified
<1>11. QED
  BY <1>2, <1>3, <1>4, <1>5, <1>6, <1>7, <1>8, <1>9, <1>10
     DEF Finalize, FinalizerStep

LEMMA SelectKeepsSafety ==
  ASSUME TypeOK, StepControl, SafetyParts, SelectTask
  PROVE  SafetyParts'
<1>1. plan \in [Tasks -> Statuses] /\ HasReady(plan)
  BY DEF SelectTask, TypeOK, FinalizerTypeOK
<1>2. /\ UNCHANGED <<plan, head, notes>>
      /\ cur' = FindNextReady(plan)
      /\ verified' = verified \ {FindNextReady(plan)}
  BY DEF SelectTask, files
<1>3. /\ plan[cur'] \in {"todo", "in_progress"}
      /\ \A d \in Deps[cur'] : plan[d] \in Terminal
  BY <1>1, <1>2, NextReadyIsRunnable
<1>4. fpc' \in {"idle", "load"}
  BY DEF SelectTask, GoToStep
<1>5. TaskStaysOpen' /\ CopyMatches' /\ CopyIsVerified'
  BY <1>2, <1>3, <1>4
     DEF TaskStaysOpen, CopyMatches, CopyIsVerified, Applied, Terminal
<1>6. HeadBehindPlan' /\ DoneIsVerified'
  BY <1>2, <1>3 DEF HeadBehindPlan, DoneIsVerified, SafetyParts
<1>7. QED
  BY <1>5, <1>6 DEF SafetyParts

LEMMA OthersKeepSafety ==
  ASSUME TypeOK, StepControl, SafetyParts, Next, ~Finalize, ~SelectTask
  PROVE  SafetyParts'
<1>1. HeadBehindPlan' /\ DoneIsVerified'
  BY OtherSteps DEF SafetyParts, HeadBehindPlan, DoneIsVerified
<1>2. CopyMatches' /\ CopyIsVerified'
  <2>1. fpc' \notin {"verify", "apply"} \cup Applied
    BY OtherSteps DEF Unapplied, Applied
  <2>2. QED
    BY <2>1 DEF CopyMatches, CopyIsVerified, Applied
<1>3. TaskStaysOpen'
  BY OtherSteps DEF SafetyParts, TaskStaysOpen
<1>4. QED
  BY <1>1, <1>2, <1>3 DEF SafetyParts

LEMMA Invariant == Spec => []IInv
<1>1. Init => IInv
  <2> SUFFICES ASSUME Init PROVE IInv
    OBVIOUS
  <2>1. TypeOK
    BY InitType
  <2>2. QED
    BY <2>1 DEF Init, FinalizerInit, IInv, SafetyParts, StepControl, AgentPhases, Unapplied,
                Applied, TaskStaysOpen, CopyMatches, CopyIsVerified,
                HeadBehindPlan, DoneIsVerified
<1>2. IInv /\ [Next]_vars => IInv'
  <2> SUFFICES ASSUME IInv, [Next]_vars PROVE IInv'
    OBVIOUS
  <2>1. CASE Next
    <3>1. SafetyParts'
      BY <2>1, FinalizeKeepsSafety, SelectKeepsSafety, OthersKeepSafety
         DEF IInv
    <3>2. QED
      BY <2>1, <3>1, TypeStep, ControlStep DEF IInv
  <2>2. CASE UNCHANGED vars
    BY <2>2 DEF vars, files, fvars, rvars, IInv, SafetyParts, TypeOK, FinalizerTypeOK,
                StepControl, TaskStaysOpen, CopyMatches, CopyIsVerified,
                HeadBehindPlan, DoneIsVerified
  <2>3. QED
    BY <2>1, <2>2
<1>3. QED
  BY <1>1, <1>2, PTL DEF Spec

\* A task that the plan or HEAD calls done passed its verify commands after
\* its agents last worked on it, whatever failed, crashed or was restarted.
THEOREM DoneOnlyIfVerified == Spec => []DoneIsVerified
<1>1. IInv => DoneIsVerified
  BY DEF IInv, SafetyParts
<1>2. QED
  BY <1>1, Invariant, PTL

\* What a step may do to the plan: only the finalizer's save changes it, and
\* then only the status of its task.
LEMMA PlanStep ==
  ASSUME IInv, Next
  PROVE  \/ plan' = plan
         \/ /\ plan[cur] \notin Terminal
            /\ \A d \in Deps[cur] : plan[d] \in Terminal
            /\ fresult.status \in ResultStatuses
            /\ plan' = [plan EXCEPT ![cur] = fresult.status]
            /\ notes[cur] = fresult
<1>1. CASE FinSavePlan
  BY <1>1 DEF IInv, SafetyParts, FinSavePlan, TaskStaysOpen, CopyMatches,
              Applied, TypeOK, FinalizerTypeOK, Results
<1>2. CASE Finalize /\ ~FinSavePlan
  BY <1>2 DEF Finalize, FinalizerStep, FinLoadFails, FinLoad, FinVerifyPasses,
              FinVerifyFails, FinApply, FinRemoveReview, FinSaveNotes,
              FinCommit, FinAborts, files
<1>3. CASE SelectTask
  BY <1>3 DEF SelectTask, files
<1>4. CASE ~Finalize /\ ~SelectTask
  BY <1>4, OtherSteps DEF IInv
<1>5. QED
  BY <1>1, <1>2, <1>3, <1>4

\* The notes already say what the plan is about to say.
THEOREM PlanStaysBehindNotes == Spec => PlanFollowsNotes
<1> DEFINE Follows ==
      \A t \in Tasks :
        plan'[t] # plan[t] => notes[t] # NoFile /\ notes[t].status = plan'[t]
<1>1. IInv /\ [Next]_vars => [Follows]_vars
  <2> SUFFICES ASSUME IInv, Next PROVE Follows
    OBVIOUS
  <2> SUFFICES ASSUME NEW t \in Tasks, plan'[t] # plan[t]
               PROVE  notes[t] # NoFile /\ notes[t].status = plan'[t]
    OBVIOUS
  <2>1. t = cur /\ notes[t] = fresult /\ plan'[t] = fresult.status
        /\ fresult \in Results
    BY PlanStep DEF IInv, TypeOK, FinalizerTypeOK
  <2>2. NoFile \notin Results
    BY DEF NoFile, Results
  <2>3. QED
    BY <2>1, <2>2
<1>2. QED
  BY <1>1, Invariant, PTL DEF Spec, PlanFollowsNotes

\* The serial runner implements the task queue.
THEOREM RunImplementsQueue == Spec => ImplementsQueue
<1>1. Init => Queue!Init
  BY DEF Init, FinalizerInit, Queue!Init, Queue!Tasks, Queue!Statuses, Tasks, Statuses
<1>2. IInv /\ [Next]_vars => [Queue!Next]_plan
  <2> SUFFICES ASSUME IInv, Next, plan' # plan PROVE Queue!Next
    BY DEF vars, files
  <2>1. cur \in Tasks /\ Queue!Record(cur, fresult.status)
    BY PlanStep DEF IInv, TypeOK, Queue!Record, Queue!Terminal, Terminal
  <2>2. fresult.status \in Statuses \ {"todo"}
    BY PlanStep DEF ResultStatuses
  <2>3. QED
    BY <2>1, <2>2 DEF Queue!Next, Queue!Tasks, Queue!Statuses, Tasks, Statuses
<1>3. QED
  BY <1>1, <1>2, Invariant, PTL DEF Spec, ImplementsQueue, Queue!Spec

-----------------------------------------------------------------------------
(***************************************************************************)
(* Whose turn it is                                                        *)
(*                                                                         *)
(* Nothing in the code remembers the task of the last iteration: that the  *)
(* next iteration takes it up again follows from the order FindNextReady   *)
(* prefers.  TurnInv is the invariant behind it, relative to IInv.         *)
(***************************************************************************)
TakesNext(t) == HasReady(plan) /\ FindNextReady(plan) = t

Working == rpc \in AgentPhases \/ fpc \in Unapplied \cup Applied

TurnInv ==
  /\ Working => TakesNext(cur) /\ plan[cur] = sig[1]
  /\ rpc \in {"finalize", "endIteration"} /\ plan[cur] = sig[1] => TakesNext(cur)
  /\ \A t \in Tasks : notes[t] # NoFile /\ plan[t] \notin Terminal => TakesNext(t)
  /\ fpc \in {"verify", "apply"} => fnotes = notes
  /\ fpc \in {"removeReview", "saveNotes"}
       => fnotes = [notes EXCEPT ![cur] = fresult]
  /\ rpc = "select" /\ stalled > 0 => TakesNext(cur)

LEMMA SavePlanKeepsTurn ==
  ASSUME IInv, TurnInv, Finalize, FinSavePlan
  PROVE  TurnInv'
<1>1. /\ cur' = cur /\ sig' = sig /\ notes' = notes /\ rpc' = rpc
      /\ rpc = "finalize" /\ cur \in Tasks /\ plan \in [Tasks -> Statuses]
  BY DEF Finalize, rvars, FinSavePlan, IInv, TypeOK, FinalizerTypeOK
<1>2. /\ plan' = [plan EXCEPT ![cur] = fresult.status]
      /\ fresult.status \in Statuses \ {"todo"}
      /\ plan[cur] \notin Terminal
  BY DEF FinSavePlan, IInv, SafetyParts, TaskStaysOpen, CopyMatches, Applied,
         TypeOK, FinalizerTypeOK, Results, ResultStatuses
<1>3. TakesNext(cur) /\ plan[cur] = sig[1]
  BY DEF TurnInv, Working, FinSavePlan, Applied
<1>4. ~Working' /\ fpc' \in {"exitVerify", "commit"}
  BY <1>1 DEF Working, FinSavePlan, AgentPhases, Unapplied, Applied
<1>5. CASE fresult.status = "in_progress"
  <2>1. HasReady(plan') /\ FindNextReady(plan') = cur
    BY <1>1, <1>2, <1>3, <1>5, StartedStaysNext DEF TakesNext
  <2>2. \A t \in Tasks : notes[t] # NoFile /\ plan'[t] \notin Terminal => t = cur
    BY <1>1, <1>2, <1>3 DEF TurnInv, TakesNext
  <2>3. QED
    BY <1>1, <1>4, <2>1, <2>2 DEF TurnInv, TakesNext
<1>6. CASE fresult.status # "in_progress"
  <2>1. fresult.status \in Terminal
    BY <1>2, <1>6 DEF Statuses, Terminal
  <2>2. plan'[cur] # sig[1]
    BY <1>1, <1>2, <1>3, <2>1
  <2>3. \A t \in Tasks : ~(notes[t] # NoFile /\ plan'[t] \notin Terminal)
    <3>1. SUFFICES ASSUME NEW t \in Tasks, notes[t] # NoFile, plan'[t] \notin Terminal
                   PROVE  FALSE
      OBVIOUS
    <3>2. t # cur /\ plan[t] \notin Terminal
      BY <1>1, <1>2, <2>1, <3>1
    <3>3. QED
      BY <1>3, <3>1, <3>2 DEF TurnInv, TakesNext
  <2>4. QED
    BY <1>1, <1>4, <2>2, <2>3 DEF TurnInv
<1>7. QED
  BY <1>5, <1>6

LEMMA FinalizeKeepsTurn ==
  ASSUME IInv, TurnInv, Finalize, ~FinSavePlan
  PROVE  TurnInv'
<1>1. /\ UNCHANGED <<cur, sig, rpc, stalled, plan>>
      /\ rpc = "finalize" /\ cur \in Tasks
      /\ notes \in [Tasks -> Notes \cup {NoFile}]
  BY DEF Finalize, rvars, FinalizerStep, FinLoadFails, FinLoad, FinVerifyPasses,
         FinVerifyFails, FinApply, FinRemoveReview, FinSaveNotes, FinCommit,
         FinAborts, files, IInv, TypeOK, FinalizerTypeOK
<1>2. Working' => Working
  BY <1>1 DEF Finalize, FinalizerStep, FinLoadFails, FinLoad, FinVerifyPasses,
         FinVerifyFails, FinApply, FinRemoveReview, FinSaveNotes, FinCommit,
         FinAborts, Working, AgentPhases, Unapplied, Applied
<1>3. /\ fpc' \in {"verify", "apply"} => fnotes' = notes'
      /\ fpc' \in {"removeReview", "saveNotes"}
           => fnotes' = [notes' EXCEPT ![cur] = fresult']
  BY DEF Finalize, FinalizerStep, FinLoadFails, FinLoad, FinVerifyPasses,
         FinVerifyFails, FinApply, FinRemoveReview, FinSaveNotes, FinCommit,
         FinAborts, files, TurnInv
<1>4. \A t \in Tasks :
        notes'[t] # NoFile => notes[t] # NoFile \/ (t = cur /\ TakesNext(cur))
  <2>1. CASE notes' = notes
    BY <2>1
  <2>2. CASE FinSaveNotes
    BY <1>1, <2>2 DEF FinSaveNotes, TurnInv, Working, Applied
  <2>3. CASE FinAborts
    BY <2>3 DEF FinAborts, WritesCutShort
  <2>4. QED
    BY <2>1, <2>2, <2>3
       DEF Finalize, FinalizerStep, FinLoadFails, FinLoad, FinVerifyPasses,
           FinVerifyFails, FinApply, FinRemoveReview, FinCommit, files
<1>5. QED
  BY <1>1, <1>2, <1>3, <1>4 DEF TurnInv, TakesNext

LEMMA SelectKeepsTurn ==
  ASSUME IInv, TurnInv, SelectTask
  PROVE  TurnInv'
<1>1. /\ plan' = plan /\ notes' = notes /\ HasReady(plan)
      /\ cur' = FindNextReady(plan) /\ sig'[1] = plan[cur']
  BY DEF SelectTask, files, Signature
<1>2. fpc' \in {"idle", "load"} /\ rpc' # "select"
  BY DEF SelectTask, GoToStep
<1>3. QED
  BY <1>1, <1>2 DEF TurnInv, TakesNext

LEMMA OthersKeepTurn ==
  ASSUME IInv, TurnInv, Next, ~Finalize, ~SelectTask
  PROVE  TurnInv'
<1> USE DEF AgentPhases
<1>1. /\ plan' = plan
      /\ Working' => rpc \in AgentPhases /\ fpc' \in {"idle", "load"} /\ cur' = cur
  BY OtherSteps DEF IInv, Working
<1>2. fpc' \notin {"verify", "apply", "removeReview", "saveNotes"}
  BY OtherSteps DEF IInv, Unapplied, Applied
<1>3. notes \in [Tasks -> Notes \cup {NoFile}]
  BY DEF IInv, TypeOK, FinalizerTypeOK
<1>4. CASE Start
  BY <1>1, <1>2, <1>4 DEF Start, files, TurnInv, TakesNext
<1>5. CASE FixNotes
  BY <1>1, <1>2, <1>5 DEF FixNotes, rvars, TurnInv, TakesNext
<1>6. CASE StopBeforeIteration \/ EndIterationFails \/ Crash
  <2>1. rpc' = "off"
    BY <1>6 DEF StopBeforeIteration, EndIterationFails, Crash, StopRun
  <2>2. ~Working'
    BY <1>1, <1>6, <2>1
       DEF StopBeforeIteration, EndIterationFails, Crash, StopRun, Working,
           Unapplied, Applied
  <2>3. \A t \in Tasks : notes'[t] # NoFile => notes'[t] = notes[t]
    BY <1>6 DEF StopBeforeIteration, EndIterationFails, Crash, WritesCutShort, files
  <2>4. QED
    BY <1>1, <1>2, <2>1, <2>2, <2>3 DEF TurnInv, TakesNext
<1>7. CASE AgentStep \/ InspectOutputs \/ RecheckOutputs \/ RepairPromptFailed \/ RecordUnreviewed
  <2>1. UNCHANGED <<cur, sig>> /\ rpc \in AgentPhases
    BY <1>7 DEF AgentStep, RunPrompt, RepairNotes, RepairOutputs, InspectOutputs,
                RecheckOutputs, RepairPromptFailed, RecordUnreviewed, KeepIteration
  <2>2. TakesNext(cur) /\ plan[cur] = sig[1]
    BY <2>1 DEF TurnInv, Working
  <2>3. \A t \in Tasks : t # cur => notes'[t] = notes[t]
    BY <1>3, <1>7 DEF AgentStep, RunPrompt, RepairNotes, RepairOutputs,
                InspectOutputs, RecheckOutputs, RepairPromptFailed, RecordUnreviewed,
                AgentEditsNotes, files
  <2>4. rpc' # "select"
    BY <1>7 DEF AgentStep, RunPrompt, RepairNotes, RepairOutputs, InspectOutputs,
                RecheckOutputs, RepairPromptFailed, RecordUnreviewed, FallbackReview, GoTo,
                GoToStep, StepFails, StopRun, EndSteps
  <2>5. QED
    BY <1>1, <1>2, <2>1, <2>2, <2>3, <2>4 DEF TurnInv, TakesNext
<1>8. CASE FinalizeSucceeded \/ FinalizeFailed
  <2>1. UNCHANGED <<cur, sig, notes>> /\ rpc = "finalize"
    BY <1>8 DEF FinalizeSucceeded, FinalizeFailed, KeepIteration, files
  <2>2. ~Working' /\ rpc' # "select"
    BY <1>1, <1>8, <2>1
       DEF FinalizeSucceeded, FinalizeFailed, GoToStep, StepFails, StopRun, EndSteps
  <2>3. QED
    BY <1>1, <1>2, <2>1, <2>2 DEF TurnInv, TakesNext
<1>9. CASE EndIteration
  <2>1. /\ UNCHANGED <<cur, sig, notes>> /\ rpc = "endIteration"
        /\ rpc' \in {"select", "off"}
        /\ stalled' > 0 => Signature(cur) = sig
    BY <1>9 DEF EndIteration, StopRun, GoTo, files
  <2>2. ~Working'
    BY <1>1, <2>1
  <2>3. stalled' > 0 => TakesNext(cur)
    BY <2>1 DEF TurnInv, Signature
  <2>4. QED
    BY <1>1, <1>2, <2>1, <2>2, <2>3 DEF TurnInv, TakesNext
<1>10. QED
  BY <1>4, <1>5, <1>6, <1>7, <1>8, <1>9 DEF Next, RunnerStep

LEMMA Turns == Spec => [](IInv /\ TurnInv)
<1>1. Init => TurnInv
  BY DEF Init, FinalizerInit, TurnInv, Working, AgentPhases, Unapplied, Applied
<1>2. IInv /\ TurnInv /\ [Next]_vars => TurnInv'
  <2> SUFFICES ASSUME IInv, TurnInv, [Next]_vars PROVE TurnInv'
    OBVIOUS
  <2>1. CASE Next
    BY <2>1, SavePlanKeepsTurn, FinalizeKeepsTurn, SelectKeepsTurn, OthersKeepTurn
  <2>2. CASE UNCHANGED vars
    BY <2>2 DEF vars, files, fvars, rvars, TurnInv, Working, TakesNext
  <2>3. QED
    BY <2>1, <2>2
<1>3. QED
  BY <1>1, <1>2, Invariant, PTL DEF Spec

\* The stall counter counts one task, though it does not know which.
THEOREM StallsAreOfOneItem == Spec => []StallStaysOnItem
<1>1. TurnInv => StallStaysOnItem
  BY DEF TurnInv, TakesNext, StallStaysOnItem
<1>2. QED
  BY <1>1, Turns, PTL

\* After a recorded verification failure the same task comes next.
THEOREM FailedIsRepairedFirst == Spec => RepairFirst
<1> DEFINE First1 ==
      \A t \in Tasks :
        (/\ plan[t] = "in_progress" /\ FailureNoted(t)
         /\ rpc = "select" /\ rpc' # "off") => cur' = t
<1>1. IInv /\ TurnInv /\ [Next]_vars => [First1]_vars
  <2> SUFFICES ASSUME TurnInv, Next, NEW t \in Tasks, plan[t] = "in_progress",
                      FailureNoted(t), rpc = "select", rpc' # "off"
               PROVE  cur' = t
    OBVIOUS
  <2>1. TakesNext(t)
    BY DEF TurnInv, FailureNoted, Terminal
  <2>2. SelectTask
    BY DEF Next, RunnerStep, AgentStep, Start, StopBeforeIteration, StopRun,
           RunPrompt, RepairNotes, RepairOutputs, InspectOutputs, RecheckOutputs,
           RepairPromptFailed, RecordUnreviewed, Finalize, FinalizeSucceeded, FinalizeFailed,
           EndIteration, EndIterationFails, Crash, FixNotes
  <2>3. QED
    BY <2>1, <2>2 DEF SelectTask, TakesNext
<1>2. QED
  BY <1>1, Turns, PTL DEF Spec, RepairFirst

-----------------------------------------------------------------------------
(***************************************************************************)
(* Which results a task may become done on                                 *)
(***************************************************************************)

\* A task result that would make task t done.
SaysDone(t) == result[t] \in Results /\ result[t].status = "done"

\* What the steps around a prompt do to the results and where they lead.
PromptEffect ==
  /\ rpc \in AgentPhases /\ UNCHANGED <<cur, plan, fresult>>
  /\ \A t \in Tasks : t # cur => (SaysDone(t)' <=> SaysDone(t))
  /\ fresh' \/ ((SaysDone(cur)' <=> SaysDone(cur)) /\ UNCHANGED fresh)
  /\ \/ rpc' \in AgentPhases /\ UNCHANGED <<fpc, step>>
     \/ GoToStep(step + 1)
     \/ rpc' = "off" /\ fpc' = "idle"
     \/ ~SaysDone(cur)' /\ EndSteps

LEMMA PromptSteps ==
  ASSUME TypeOK, StepControl,
         AgentStep \/ InspectOutputs \/ RecheckOutputs \/ RepairPromptFailed \/ RecordUnreviewed
  PROVE  PromptEffect
<1> USE DEF PromptEffect
<1>1. /\ rpc \in AgentPhases /\ UNCHANGED <<cur, plan, fresult>>
      /\ cur \in Tasks /\ result \in [Tasks -> Results \cup {NoFile, BadFile}]
  BY DEF AgentStep, RunPrompt, RepairNotes, RepairOutputs, InspectOutputs,
         RecheckOutputs, RepairPromptFailed, RecordUnreviewed, KeepIteration, KeepCopies, files,
         AgentPhases, TypeOK, FinalizerTypeOK
<1>2. ASSUME RunPrompt \/ RepairNotes \/ RepairOutputs
      PROVE  /\ \A t \in Tasks : t # cur => (SaysDone(t)' <=> SaysDone(t))
             /\ fresh' \/ ((SaysDone(cur)' <=> SaysDone(cur)) /\ UNCHANGED fresh)
  <2>1. CASE UNCHANGED <<result, fresh>>
    BY <1>1, <1>2, <2>1 DEF SaysDone, RunPrompt, RepairNotes, RepairOutputs
  <2>2. CASE ~UNCHANGED <<result, fresh>>
    <3>1. /\ fresh'
          /\ \E f : result' = [result EXCEPT ![cur] = f]
      BY <1>2, <2>2 DEF RunPrompt, RepairNotes, RepairOutputs, AgentWrites
    <3>2. QED
      BY <1>1, <3>1 DEF SaysDone
  <2>3. QED
    BY <2>1, <2>2
<1>3. ASSUME NEW x, result' = [result EXCEPT ![cur] = InProgress(x)]
      PROVE  /\ \A t \in Tasks : t # cur => (SaysDone(t)' <=> SaysDone(t))
             /\ ~SaysDone(cur)'
  <2>1. result'[cur].status = "in_progress"
    BY <1>1, <1>3 DEF InProgress
  <2>2. \A t \in Tasks : t # cur => result'[t] = result[t]
    BY <1>1, <1>3
  <2>3. QED
    BY <1>1, <2>1, <2>2 DEF SaysDone
<1>4. CASE RecordUnreviewed
  <2>1. result' = [result EXCEPT ![cur] = InProgress(UnreviewedText(result[cur]))]
    BY <1>4 DEF RecordUnreviewed
  <2>2. QED
    BY <1>1, <1>3, <1>4, <2>1 DEF RecordUnreviewed
<1>5. ASSUME NEW found, FallbackResult(found)
      PROVE  /\ \A t \in Tasks : t # cur => (SaysDone(t)' <=> SaysDone(t))
             /\ ~SaysDone(cur)' /\ fresh'
  BY <1>3, <1>5 DEF FallbackResult
<1>6. ASSUME FallbackReview
      PROVE  UNCHANGED <<result, fresh>> /\ rpc' \in AgentPhases /\ UNCHANGED <<fpc, step>>
  BY <1>6 DEF FallbackReview, GoTo, AgentPhases
<1>7. CASE AgentStep
  <2>1. \/ rpc' \in AgentPhases /\ UNCHANGED <<fpc, step>>
        \/ GoToStep(step + 1)
        \/ rpc' = "off" /\ fpc' = "idle"
    BY <1>7 DEF AgentStep, RunPrompt, RepairNotes, RepairOutputs, GoTo, StepFails,
                StopRun, AgentPhases
  <2>2. QED
    BY <1>1, <1>2, <1>7, <2>1 DEF AgentStep
<1>8. CASE InspectOutputs
  <2>1. UNCHANGED <<result, fresh>>
    BY <1>8 DEF InspectOutputs, files
  <2>2. \/ rpc' \in AgentPhases /\ UNCHANGED <<fpc, step>>
        \/ GoToStep(step + 1)
    BY <1>8 DEF InspectOutputs, AgentPhases
  <2>3. QED
    BY <1>1, <2>1, <2>2 DEF SaysDone
<1>9. CASE RecheckOutputs
  <2>1. CASE OnlyIssuesOf("review", Issues) /\ FallbackReview
    BY <1>1, <1>6, <2>1 DEF SaysDone
  <2>2. CASE OnlyIssuesOf("result", Issues) /\ FallbackResult(Issues)
             /\ GoToStep(step + 1)
    BY <1>1, <1>5, <2>2
  <2>3. CASE /\ UNCHANGED <<result, fresh>>
             /\ GoToStep(step + 1) \/ StepFails
    BY <1>1, <2>3 DEF SaysDone, StepFails, StopRun
  <2>4. QED
    BY <1>9, <2>1, <2>2, <2>3 DEF RecheckOutputs
<1>10. CASE RepairPromptFailed
  <2>1. CASE OnlyIssuesOf("review", issues) /\ FallbackReview
    BY <1>1, <1>6, <2>1 DEF SaysDone
  <2>2. CASE OnlyIssuesOf("result", issues) /\ FallbackResult(issues) /\ EndSteps
    BY <1>1, <1>5, <2>2
  <2>3. CASE StepFails /\ UNCHANGED <<result, fresh>>
    BY <1>1, <2>3 DEF SaysDone, StepFails, StopRun
  <2>4. QED
    BY <1>10, <2>1, <2>2, <2>3 DEF RepairPromptFailed
<1>11. QED
  BY <1>4, <1>7, <1>8, <1>9, <1>10

\* A task becomes done when the finalizer saves the result it has loaded.
LEMMA SavesResult ==
  ASSUME IInv, Next, NEW t \in Tasks, plan'[t] = "done", plan[t] # "done"
  PROVE  t = cur /\ rpc = "finalize" /\ fpc = "savePlan" /\ fresult.status = "done"
<1>1. cur \in Tasks /\ plan \in [Tasks -> Statuses]
  BY DEF IInv, TypeOK, FinalizerTypeOK
<1>2. t = cur /\ fresult.status = "done"
  BY <1>1, PlanStep
<1>3. Finalize
  <2>1. ~SelectTask
    BY DEF SelectTask, files
  <2>2. QED
    BY <2>1, OtherSteps DEF IInv
<1>4. FinSavePlan
  BY <1>3 DEF Finalize, FinalizerStep, FinLoadFails, FinLoad, FinVerifyPasses,
              FinVerifyFails, FinApply, FinRemoveReview, FinSaveNotes,
              FinCommit, FinAborts, files
<1>5. QED
  BY <1>2, <1>3, <1>4 DEF Finalize, FinSavePlan

\* What is on record as not reviewed is not "done" in the result, nor in what the
\* finalizer has loaded of it.
UnreviewedParts ==
  /\ \A t \in unreviewed : ~SaysDone(t)
  /\ fpc \in {"verify", "apply"} \cup Applied /\ fresult.status = "done"
       => cur \notin unreviewed

\* The finalizer loads no such result as "done", and makes none "done".
LEMMA FinalizeKeepsUnreviewed ==
  ASSUME IInv, UnreviewedParts, Finalize
  PROVE  UnreviewedParts'
<1>1. UNCHANGED rvars /\ cur \in Tasks
      /\ result \in [Tasks -> Results \cup {NoFile, BadFile}]
  BY DEF Finalize, IInv, TypeOK, FinalizerTypeOK
<1>2. \A t \in unreviewed : ~SaysDone(t)'
  <2>1. CASE result' = result
    BY <2>1 DEF UnreviewedParts, SaysDone
  <2>2. CASE result' = [result EXCEPT ![cur] = NoFile]
    <3>1. NoFile \notin Results
      BY DEF NoFile, Results
    <3>2. QED
      BY <1>1, <2>2, <3>1 DEF UnreviewedParts, SaysDone, TypeOK, IInv
  <2>3. QED
    BY <2>1, <2>2 DEF Finalize, FinalizerStep, FinLoadFails, FinLoad, FinVerifyPasses,
         FinVerifyFails, FinApply, FinRemoveReview, FinSaveNotes, FinSavePlan,
         FinCommit, FinAborts, files
<1>3. CASE FinLoad(cur)
  <2>1. fresult' = result[cur] /\ result[cur] \in Results
    BY <1>3 DEF FinLoad
  <2>2. QED
    BY <1>1, <1>2, <2>1 DEF UnreviewedParts, SaysDone, rvars
<1>4. CASE FinVerifyFails(cur)
  <2>1. fresult'.status = "in_progress"
    BY <1>4 DEF FinVerifyFails, FailedResult
  <2>2. QED
    BY <1>1, <1>2, <2>1 DEF UnreviewedParts, rvars
<1>5. CASE ~FinLoad(cur) /\ ~FinVerifyFails(cur)
  <2>1. /\ fresult' = fresult
        /\ fpc' \in {"verify", "apply"} \cup Applied
             => fpc \in {"verify", "apply"} \cup Applied
    BY <1>5 DEF Finalize, FinalizerStep, FinLoadFails, FinVerifyPasses, FinApply,
                FinRemoveReview, FinSaveNotes, FinSavePlan, FinCommit, FinAborts,
                Applied
  <2>2. QED
    BY <1>1, <1>2, <2>1 DEF UnreviewedParts, rvars
<1>6. QED
  BY <1>3, <1>4, <1>5

\* An agent's new result takes its task off the record, and its task alone;
\* vibedrive's own result says in_progress.
LEMMA OthersKeepUnreviewed ==
  ASSUME IInv, UnreviewedParts, Next, ~Finalize
  PROVE  UnreviewedParts'
<1>1. cur \in Tasks /\ result \in [Tasks -> Results \cup {NoFile, BadFile}]
      /\ unreviewed \subseteq Tasks
  BY DEF IInv, TypeOK, FinalizerTypeOK
<1>2. fpc' \notin {"verify", "apply"} \cup Applied
  <2>1. CASE SelectTask
    BY <2>1 DEF SelectTask, GoToStep, Applied
  <2>2. CASE ~SelectTask
    BY <2>2, OtherSteps DEF IInv, Unapplied, Applied
  <2>3. QED
    BY <2>1, <2>2
<1>3. ASSUME NEW x, result' = [result EXCEPT ![cur] = InProgress(x)],
             unreviewed' \subseteq unreviewed \cup {cur}
      PROVE  \A t \in unreviewed' : ~SaysDone(t)'
  <2>1. result'[cur].status = "in_progress"
    BY <1>1, <1>3 DEF InProgress
  <2>2. \A t \in Tasks : t # cur => result'[t] = result[t]
    BY <1>1, <1>3
  <2>3. QED
    BY <1>1, <1>3, <2>1, <2>2 DEF UnreviewedParts, SaysDone
<1>4. \A t \in unreviewed' : ~SaysDone(t)'
  <2>1. CASE UNCHANGED <<result, unreviewed>>
    BY <2>1 DEF UnreviewedParts, SaysDone
  <2>2. ASSUME NEW outs, AgentWrites(outs), ~UNCHANGED <<result, unreviewed>>
        PROVE  \A t \in unreviewed' : ~SaysDone(t)'
    <3>1. PICK f \in AgentResults \cup {BadFile} :
            /\ result' = [result EXCEPT ![cur] = f]
            /\ unreviewed' = IF f = BadFile THEN unreviewed ELSE unreviewed \ {cur}
      BY <2>2 DEF AgentWrites
    <3>2. \A t \in Tasks : t # cur => result'[t] = result[t]
      BY <1>1, <3>1
    <3>3. CASE f = BadFile
      <4>1. result'[cur] \notin Results
        BY <1>1, <3>1, <3>3 DEF BadFile, Results
      <4>2. QED
        BY <1>1, <3>1, <3>2, <3>3, <4>1 DEF UnreviewedParts, SaysDone
    <3>4. CASE f # BadFile
      BY <1>1, <3>1, <3>2, <3>4 DEF UnreviewedParts, SaysDone
    <3>5. QED
      BY <3>3, <3>4
  <2>3. CASE RunPrompt \/ RepairOutputs
    BY <2>1, <2>2, <2>3 DEF RunPrompt, RepairOutputs
  <2>4. ASSUME NEW found, FallbackResult(found)
        PROVE  \A t \in unreviewed' : ~SaysDone(t)'
    BY <1>3, <2>4 DEF FallbackResult
  <2>5. CASE RecheckOutputs \/ RepairPromptFailed
    BY <2>1, <2>4, <2>5 DEF RecheckOutputs, RepairPromptFailed, FallbackReview
  <2>6. CASE RecordUnreviewed
    BY <1>3, <2>6 DEF RecordUnreviewed
  <2>7. CASE ~(\/ RunPrompt \/ RepairOutputs \/ RecheckOutputs \/ RepairPromptFailed
               \/ RecordUnreviewed)
    <3>1. UNCHANGED <<result, unreviewed>>
      BY <2>7 DEF Next, RunnerStep, AgentStep, Start, StopBeforeIteration, SelectTask,
           RepairNotes, InspectOutputs, FinalizeSucceeded, FinalizeFailed,
           EndIteration, EndIterationFails, Crash, FixNotes, files, rvars
    <3>2. QED
      BY <2>1, <3>1
  <2>8. QED
    BY <2>3, <2>5, <2>6, <2>7
<1>5. QED
  BY <1>2, <1>4 DEF UnreviewedParts

\* A task that vibedrive put on record as not reviewed does not become done
\* before an agent has written another result for it, in any workflow and
\* whatever is killed or fails, and however often the run is started.
THEOREM UnreviewedStaysOpen == Spec => UnreviewedIsNotDone
<1> DEFINE IsReported ==
      \A t \in Tasks : plan'[t] = "done" /\ plan[t] # "done" => t \notin unreviewed
<1>1. Init => UnreviewedParts
  BY DEF Init, FinalizerInit, UnreviewedParts, Applied
<1>2. IInv /\ UnreviewedParts /\ [Next]_vars => UnreviewedParts'
  <2> SUFFICES ASSUME IInv, UnreviewedParts, [Next]_vars PROVE UnreviewedParts'
    OBVIOUS
  <2>1. CASE Next
    BY <2>1, FinalizeKeepsUnreviewed, OthersKeepUnreviewed
  <2>2. CASE UNCHANGED vars
    BY <2>2 DEF vars, files, fvars, rvars, UnreviewedParts, SaysDone
  <2>3. QED
    BY <2>1, <2>2
<1>3. IInv /\ UnreviewedParts /\ [Next]_vars => [IsReported]_vars
  <2> SUFFICES ASSUME IInv, UnreviewedParts, Next, NEW t \in Tasks,
                      plan'[t] = "done", plan[t] # "done"
               PROVE  t \notin unreviewed
    OBVIOUS
  <2>1. t = cur /\ fpc = "savePlan" /\ fresult.status = "done"
    BY SavesResult
  <2>2. QED
    BY <2>1 DEF UnreviewedParts, Applied
<1>4. QED
  BY <1>1, <1>2, <1>3, Invariant, PTL DEF Spec, UnreviewedIsNotDone

\* As long as one run is not interrupted, a "done" on file was written in this
\* iteration, or the files cannot be read and the run is about to stop.
FreshParts ==
  /\ \A t \in Tasks : (t # cur \/ rpc = "select") => ~SaysDone(t)
  /\ rpc \in AgentPhases \/ fpc \in {"load", "verify", "apply"}
       => (SaysDone(cur) => fresh)
  /\ fpc \in {"verify", "apply"} \cup Applied /\ fresult.status = "done" => fresh
  /\ fpc \in Applied \cup {"commit", "exitOK", "exitVerify"} => ~SaysDone(cur)
  /\ rpc = "endIteration" \/ fpc = "exitError"
       => (SaysDone(cur) => ~PlanReadable \/ ~notesParse)

FirstRun ==
  /\ rpc = "off" => runs = 1 \/ \A t \in Tasks : ~SaysDone(t)
  /\ rpc # "off" => runs = 1
  /\ Steps[Len(Steps)].kind = "finalize" /\ rpc # "off" => FreshParts

LEMMA FinalizeKeepsFresh ==
  ASSUME IInv, FreshParts, Finalize, AbortsAt = {}
  PROVE  FreshParts'
<1>1. UNCHANGED rvars /\ rpc = "finalize" /\ rpc \notin AgentPhases /\ cur \in Tasks
  BY DEF Finalize, AgentPhases, IInv, TypeOK
<1>2. ~FinAborts /\ NoFile \notin Results
  BY DEF FinAborts, NoFile, Results
<1> USE <1>1 DEF rvars, SaysDone, Applied, PlanReadable
<1>3. CASE FinLoadFails(cur)
  BY <1>3 DEF FinLoadFails, FreshParts, files
<1>4. CASE FinLoad(cur)
  BY <1>4 DEF FinLoad, FreshParts, files
<1>5. CASE FinVerifyPasses(cur)
  BY <1>5 DEF FinVerifyPasses, FreshParts, files
<1>6. CASE FinVerifyFails(cur)
  <2>1. fresult'.status = "in_progress"
    BY <1>6 DEF FinVerifyFails, FailedResult
  <2>2. QED
    BY <1>6, <2>1 DEF FinVerifyFails, FreshParts, files
<1>7. CASE FinApply(cur)
  <2>1. /\ result'[cur] = NoFile
        /\ \A t \in Tasks : t # cur => result'[t] = result[t]
    BY <1>7 DEF FinApply, IInv, TypeOK, FinalizerTypeOK
  <2>2. QED
    BY <1>2, <1>7, <2>1 DEF FinApply, FreshParts
<1>8. CASE FinRemoveReview(cur)
  BY <1>8 DEF FinRemoveReview, FreshParts
<1>9. CASE FinSaveNotes \/ FinSavePlan \/ FinCommit
  BY <1>9 DEF FinSaveNotes, FinSavePlan, FinCommit, FreshParts
<1>10. QED
  BY <1>2, <1>3, <1>4, <1>5, <1>6, <1>7, <1>8, <1>9 DEF Finalize, FinalizerStep

LEMMA PromptKeepsFresh ==
  ASSUME IInv, FreshParts, Steps[Len(Steps)].kind = "finalize",
         AgentStep \/ InspectOutputs \/ RecheckOutputs \/ RepairPromptFailed \/ RecordUnreviewed,
         rpc' # "off"
  PROVE  FreshParts'
<1>. PromptEffect
  BY PromptSteps DEF IInv
<1>1. /\ rpc \in AgentPhases /\ cur' = cur /\ cur \in Tasks /\ fpc = "idle"
      /\ step \in 1..Len(Steps) /\ step # Len(Steps) /\ Len(Steps) \in Nat
  BY SerialRunAssumption DEF PromptEffect, IInv, TypeOK, StepControl, AgentPhases
<1>2. (SaysDone(cur) => fresh) /\ \A t \in Tasks : t # cur => ~SaysDone(t)'
  BY <1>1 DEF FreshParts, PromptEffect
<1>3. SaysDone(cur)' => fresh'
  BY <1>2 DEF PromptEffect
<1>4. CASE rpc' \in AgentPhases /\ UNCHANGED <<fpc, step>>
  BY <1>1, <1>2, <1>3, <1>4 DEF FreshParts, AgentPhases, Applied
<1>5. CASE GoToStep(step + 1)
  <2>1. rpc' \notin {"select", "endIteration"} /\ fpc' \in {"idle", "load"}
    BY <1>1, <1>5 DEF GoToStep
  <2>2. QED
    BY <1>1, <1>2, <1>3, <2>1 DEF FreshParts, Applied
<1>6. CASE ~SaysDone(cur)' /\ EndSteps
  BY <1>1, <1>2, <1>6 DEF FreshParts, EndSteps, AgentPhases, Applied
<1>7. QED
  BY <1>4, <1>5, <1>6 DEF PromptEffect

LEMMA ExitKeepsFresh ==
  ASSUME IInv, FreshParts, FinalizeSucceeded \/ FinalizeFailed, rpc' # "off"
  PROVE  FreshParts'
<1>1. /\ UNCHANGED <<cur, result, torn, notesParse>>
      /\ rpc = "finalize" /\ fpc \in {"exitOK", "exitVerify", "exitError"}
  BY DEF FinalizeSucceeded, FinalizeFailed, KeepIteration, files
<1>2. rpc' = "endIteration" /\ fpc' = "idle"
  <2>1. step = Len(Steps) /\ step + 1 > Len(Steps)
    BY <1>1, SerialRunAssumption DEF IInv, StepControl
  <2>2. QED
    BY <2>1 DEF FinalizeSucceeded, FinalizeFailed, GoToStep, StepFails, StopRun,
                EndSteps
<1>3. /\ \A t \in Tasks : t # cur => ~SaysDone(t)
      /\ SaysDone(cur) => ~PlanReadable \/ ~notesParse
  BY <1>1 DEF FreshParts
<1>4. QED
  BY <1>1, <1>2, <1>3 DEF FreshParts, SaysDone, PlanReadable, AgentPhases, Applied

LEMMA FirstRunStep ==
  ASSUME IInv, FirstRun, Next, AbortsAt = {}, MaxRuns <= 1
  PROVE  FirstRun'
<1> DEFINE Ends == Steps[Len(Steps)].kind = "finalize"
<1>1. runs \in Nat /\ MaxRuns \in Nat
  BY SerialRunAssumption DEF IInv, TypeOK
<1>2. CASE Start
  <2>1. runs = 0 /\ runs' = 1 /\ rpc' = "select" /\ fpc' = "idle"
        /\ UNCHANGED <<cur, result>>
    BY <1>1, <1>2 DEF Start, files, fvars, IInv, StepControl
  <2>2. \A t \in Tasks : ~SaysDone(t)'
    BY <1>2, <2>1 DEF Start, FirstRun, SaysDone
  <2>3. QED
    BY <2>1, <2>2 DEF FirstRun, FreshParts, AgentPhases, Applied
<1>3. CASE FixNotes
  BY <1>1, <1>3 DEF FixNotes, rvars, FirstRun, SaysDone
<1>4. CASE rpc # "off" /\ rpc' = "off"
  <2>1. runs' = runs
    BY <1>4 DEF Next, RunnerStep, AgentStep, Start, StopBeforeIteration, SelectTask,
           RunPrompt, RepairNotes, RepairOutputs, InspectOutputs, RecheckOutputs,
           RepairPromptFailed, RecordUnreviewed, Finalize, FinalizeSucceeded, FinalizeFailed,
           EndIteration, EndIterationFails, Crash, FixNotes, rvars, KeepIteration
  <2>2. QED
    BY <1>4, <2>1 DEF FirstRun
<1>5. CASE rpc # "off" /\ rpc' # "off"
  <2>1. runs' = runs
    BY <1>5 DEF Next, RunnerStep, AgentStep, Start, StopBeforeIteration, SelectTask,
           RunPrompt, RepairNotes, RepairOutputs, InspectOutputs, RecheckOutputs,
           RepairPromptFailed, RecordUnreviewed, Finalize, FinalizeSucceeded, FinalizeFailed,
           EndIteration, EndIterationFails, Crash, FixNotes, rvars, KeepIteration
  <2>2. SUFFICES ASSUME Ends PROVE FreshParts'
    BY <1>5, <2>1 DEF FirstRun
  <2>3. FreshParts
    BY <1>5, <2>2 DEF FirstRun
  <2>4. CASE SelectTask
    <3>1. /\ \A t \in Tasks : ~SaysDone(t)' /\ rpc' \notin {"select", "endIteration"}
          /\ fpc' \in {"idle", "load"}
      BY <2>3, <2>4, SerialRunAssumption DEF SelectTask, FreshParts, SaysDone, files, GoToStep
    <3>2. cur' \in Tasks
      BY <2>4, TypeStep DEF IInv, TypeOK
    <3>3. QED
      BY <3>1, <3>2 DEF FreshParts, Applied
  <2>5. CASE Finalize
    BY <2>3, <2>5, FinalizeKeepsFresh
  <2>6. CASE AgentStep \/ InspectOutputs \/ RecheckOutputs \/ RepairPromptFailed \/ RecordUnreviewed
    BY <1>5, <2>2, <2>3, <2>6, PromptKeepsFresh
  <2>7. CASE FinalizeSucceeded \/ FinalizeFailed
    BY <1>5, <2>3, <2>7, ExitKeepsFresh
  <2>8. CASE EndIteration
    <3>1. /\ UNCHANGED <<cur, result>> /\ rpc' = "select" /\ fpc' = "idle"
          /\ \A t \in Tasks : ~SaysDone(t)
      BY <1>5, <2>3, <2>8 DEF EndIteration, GoTo, StopRun, files, FreshParts, IInv,
                              StepControl
    <3>2. QED
      BY <3>1 DEF FreshParts, SaysDone, AgentPhases, Applied
  <2>9. QED
    BY <1>5, <2>4, <2>5, <2>6, <2>7, <2>8
       DEF Next, RunnerStep, Start, StopBeforeIteration, EndIterationFails, Crash,
           FixNotes, StopRun
<1>6. QED
  BY <1>2, <1>3, <1>4, <1>5
     DEF Next, RunnerStep, AgentStep, StopBeforeIteration, SelectTask, RunPrompt,
         RepairNotes, RepairOutputs, InspectOutputs, RecheckOutputs,
         RepairPromptFailed, RecordUnreviewed, Finalize, FinalizeSucceeded, FinalizeFailed,
         EndIteration, EndIterationFails, Crash

\* Within one run, and as long as no operation of the finalizer fails half way,
\* a task becomes done only on a result its agents wrote in this iteration.
THEOREM DoneOnlyOnFreshResult ==
  ASSUME AbortsAt = {}, MaxRuns <= 1
  PROVE  Spec => DoneOnFreshResult
<1> DEFINE IsFresh == \A t \in Tasks : plan'[t] = "done" /\ plan[t] # "done" => fresh
<1>1. Init => FirstRun
  <2>1. NoFile \notin Results
    BY DEF NoFile, Results
  <2>2. QED
    BY <2>1 DEF Init, FinalizerInit, FirstRun, SaysDone
<1>2. IInv /\ FirstRun /\ [Next]_vars => FirstRun'
  <2> SUFFICES ASSUME IInv, FirstRun, [Next]_vars
               PROVE  FirstRun'
    OBVIOUS
  <2>1. CASE Next
    BY <2>1, FirstRunStep DEF IInv
  <2>2. CASE UNCHANGED vars
    BY <2>2 DEF vars, files, fvars, rvars, FirstRun, FreshParts, SaysDone,
                PlanReadable
  <2>3. QED
    BY <2>1, <2>2
<1>3. IInv /\ FirstRun /\ [Next]_vars => [IsFresh]_vars
  <2> SUFFICES ASSUME IInv, FirstRun, Next, NEW t \in Tasks,
                      plan'[t] = "done", plan[t] # "done"
               PROVE  fresh
    OBVIOUS
  <2>1. rpc = "finalize" /\ fpc = "savePlan" /\ fresult.status = "done"
    BY SavesResult
  <2>2. Steps[Len(Steps)].kind = "finalize"
    BY <2>1, SerialRunAssumption DEF IInv, StepControl
  <2>3. QED
    BY <2>1, <2>2 DEF FirstRun, FreshParts, Applied
<1>4. QED
  BY <1>1, <1>2, <1>3, Invariant, PTL DEF Spec, DoneOnFreshResult

-----------------------------------------------------------------------------
(***************************************************************************)
(* Why a run gives up                                                      *)
(***************************************************************************)

\* No task is ready only if each unfinished one waits for another of them.
THEOREM GivesUpOnlyOnCycle == Spec => []StuckOnlyOnCycle
<1> DEFINE Stuck == outcome = "noReady" => rpc = "off" /\ NoReadyTasks(plan)
<1>1. Init => Stuck
  BY DEF Init
<1>2. IInv /\ Stuck /\ [Next]_vars => Stuck'
  <2> SUFFICES ASSUME IInv, Stuck, Next, outcome' = "noReady"
               PROVE  rpc' = "off" /\ NoReadyTasks(plan')
    BY DEF vars, files, rvars
  <2>1. CASE outcome' = outcome
    <3>1. rpc = "off" /\ NoReadyTasks(plan)
      BY <2>1
    <3>2. FixNotes
      BY <2>1, <3>1 DEF Next, RunnerStep, AgentStep, Start, StopBeforeIteration,
           SelectTask, RunPrompt, RepairNotes, RepairOutputs, InspectOutputs,
           RecheckOutputs, RepairPromptFailed, RecordUnreviewed, Finalize, FinalizeSucceeded,
           FinalizeFailed, EndIteration, EndIterationFails, Crash
    <3>3. QED
      BY <3>1, <3>2 DEF FixNotes, rvars
  <2>2. CASE outcome' # outcome
    <3>1. StopBeforeIteration
      BY <2>2 DEF Next, RunnerStep, AgentStep, Start, SelectTask, RunPrompt,
           RepairNotes, RepairOutputs, InspectOutputs, RecheckOutputs,
           RepairPromptFailed, RecordUnreviewed, FallbackReview, Finalize, FinalizeSucceeded,
           FinalizeFailed, EndIteration, EndIterationFails, Crash, FixNotes, rvars,
           GoToStep, GoTo, StepFails, StopRun, EndSteps
    <3>2. rpc' = "off" /\ plan' = plan /\ NoReadyTasks(plan)
      BY <3>1 DEF StopBeforeIteration, StopRun, files
    <3>3. QED
      BY <3>2
  <2>3. QED
    BY <2>1, <2>2
<1>3. IInv /\ Stuck => StuckOnlyOnCycle
  <2> SUFFICES ASSUME IInv, NoReadyTasks(plan)
               PROVE  \E S \in SUBSET Unfinished(plan) \ {{}} :
                        \A t \in S : Deps[t] \cap S # {}
    BY DEF StuckOnlyOnCycle
  <2>1. Unfinished(plan) # {}
    BY DEF NoReadyTasks
  <2>2. ASSUME NEW t \in Unfinished(plan)
        PROVE  Deps[t] \cap Unfinished(plan) # {}
    <3>1. plan[t] \in {"todo", "in_progress"} /\ t \in Tasks /\ Deps[t] \subseteq Tasks
      BY PlanAssumption DEF Unfinished, IInv, TypeOK, FinalizerTypeOK, Statuses, Terminal
    <3>2. UnmetDeps(plan, t) # {}
      BY <3>1 DEF NoReadyTasks, HasReady, ReadyWith
    <3>3. QED
      BY <3>1, <3>2 DEF UnmetDeps, Unfinished
  <2>3. QED
    BY <2>1, <2>2
<1>4. QED
  BY <1>1, <1>2, <1>3, Invariant, PTL DEF Spec

=============================================================================
