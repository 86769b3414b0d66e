------------------------- MODULE ParallelRunProofs --------------------------
(***************************************************************************)
(* Theorems about the parallel runner, for every plan, workflow, limit and *)
(* set of failures.                                                        *)
(*                                                                         *)
(* The argument: outside a batch IInv of SerialRunProofs is inductive as   *)
(* it stands, and a batch touches none of it but through the finalizer.    *)
(* PInv adds what holds while one is integrated: the tasks that wait stay  *)
(* startable although others of the batch finish (BatchOpen), the copies   *)
(* the finalizer or a record is about to save are not stale (BatchCopies), *)
(* and what is promised of work that is not taken, is kept (PatchParts).   *)
(* Relative to PInv, RecordParts and UndoParts follow a batch through to   *)
(* its end, and AloneParts ties the counters of the run to the batches     *)
(* they count.                                                             *)
(***************************************************************************)
EXTENDS ParallelRun, SerialRunProofs, ReadyBatchProofs

InBatch == rpc = "batch"

\* The types that TypeOK and ParallelTypeOK do not share.
RunTypeOK ==
  /\ cur \in Tasks
  /\ step \in 0..Len(Steps)
  /\ issues \subseteq Outputs \X {"missing", "invalid"}
  /\ sig \in Statuses \X Texts
  /\ stalled \in Nat /\ iteration \in Nat /\ runs \in Nat
  /\ outcome \in Outcomes
  /\ fresh \in BOOLEAN /\ unreviewed \subseteq Tasks

\* Which phases of the finalizer go with what becomes of a task.
BatchControl ==
  /\ ~InBatch => bpc = "none" /\ left = {}
  /\ InBatch =>
       /\ bpc # "none"
       /\ bpc \in {"next", "undo", "followUp"} => fpc = "idle"
       /\ bpc = "finalize" => fpc \in Phases \cup Exits
       /\ bpc \in Recordings =>
            /\ fpc \in {"saveNotes", "savePlan", "commit", "exitOK", "exitError"}
            /\ ~ffailed
       /\ bpc # "next" => cur \in batch \ left

Open(t) == plan[t] \notin Terminal /\ \A d \in Deps[t] : plan[d] \in Terminal

\* The tasks that wait for their integration, and the one whose outcome is not
\* in the plan yet, may still be worked on.
BatchOpen ==
  /\ \A t \in left : Open(t)
  /\ InBatch /\ fpc \in Unapplied \cup Applied \cup {"exitVerify"} => Open(cur)

\* What the finalizer or a record is about to save differs from the plan in
\* one status, and that may be "done" only after its verify commands passed.
BatchCopies ==
  InBatch =>
    /\ fpc = "verify" => ~ffailed
    /\ fpc \in {"verify", "apply"} => fplan = plan
    /\ fpc = "apply" =>
         /\ fresult.status = "done" => cur \in verified
         /\ ffailed => fresult.status = "in_progress"
    /\ fpc \in Applied =>
         /\ fplan = [plan EXCEPT ![cur] = fplan[cur]]
         /\ fplan[cur] # "todo"
         /\ fplan[cur] = "done" => cur \in verified
         /\ ffailed => fplan[cur] = "in_progress"

\* Where the work is that the root workspace did not take: a workspace goes only
\* with work that was taken, or that its worker gave up.
PatchParts ==
  /\ WorkspaceIsKept /\ PatchIsKept
  /\ left \subseteq kept /\ stranded \cap left = {}
  /\ InBatch /\ bpc = "finalize" => cur \in kept \ stranded
  /\ InBatch /\ bpc = "stopped" => cur \in stopped

PInv ==
  /\ ParallelTypeOK /\ RunTypeOK
  /\ HeadBehindPlan /\ DoneIsVerified
  /\ ~InBatch => StepControl /\ SafetyParts
  /\ BatchControl /\ BatchOpen /\ BatchCopies
  /\ PatchParts

-----------------------------------------------------------------------------
(***************************************************************************)
(* The steps of a run outside batches                                      *)
(***************************************************************************)

LEMMA SerialTypes ==
  ASSUME ParallelTypeOK, RunTypeOK, ~InBatch
  PROVE  TypeOK
BY DEF ParallelTypeOK, RunTypeOK, InBatch, TypeOK

\* What SerialRunProofs says of a step of the serial runner.
LEMMA SerialKeeps ==
  ASSUME PInv, ~InBatch, Next
  PROVE  TypeOK' /\ StepControl' /\ SafetyParts' /\ ~InBatch'
<1>1. TypeOK /\ StepControl /\ SafetyParts
  BY SerialTypes DEF PInv
<1>2. TypeOK' /\ StepControl'
  BY <1>1, TypeStep, ControlStep
<1>3. SafetyParts'
  BY <1>1, FinalizeKeepsSafety, SelectKeepsSafety, OthersKeepSafety
<1>4. ~InBatch'
  BY <1>2 DEF TypeOK, RunnerPhases, InBatch
<1>5. QED
  BY <1>2, <1>3, <1>4

\* A task keeps its turn until the iteration ends.
LEMMA TaskStays ==
  ASSUME \/ StopBeforeIteration \/ InspectOutputs \/ RecheckOutputs
         \/ RepairPromptFailed \/ RecordUnreviewed
         \/ FinalizeSucceeded \/ FinalizeFailed
         \/ Finalize \/ EndIteration \/ EndIterationFails \/ AgentStep
         \/ Start \/ FixNotes \/ Crash
  PROVE  /\ Next /\ cur' = cur
         /\ rpc' \notin {"off", "select"} => rpc \notin {"off", "select"}
<1>1. CASE Start \/ FixNotes
  BY <1>1 DEF Start, FixNotes, rvars, Next
<1>2. CASE StopBeforeIteration \/ EndIterationFails \/ Crash
  BY <1>2 DEF StopBeforeIteration, EndIterationFails, Crash, StopRun,
              KeepIteration, Next, RunnerStep
<1>3. CASE \/ AgentStep \/ InspectOutputs \/ RecheckOutputs
             \/ RepairPromptFailed \/ RecordUnreviewed
  BY <1>3 DEF AgentStep, RunPrompt, RepairNotes, RepairOutputs, InspectOutputs,
              RecheckOutputs, RepairPromptFailed, RecordUnreviewed,
              KeepIteration, Next, RunnerStep
<1>4. CASE Finalize \/ FinalizeSucceeded \/ FinalizeFailed
  BY <1>4 DEF Finalize, rvars, FinalizeSucceeded, FinalizeFailed, KeepIteration,
              Next, RunnerStep
<1>5. CASE EndIteration
  BY <1>5 DEF EndIteration, StopRun, GoTo, Next, RunnerStep
<1>6. QED
  BY <1>1, <1>2, <1>3, <1>4, <1>5

\* The types of what the batches add.
BatchTypeOK ==
  /\ batch \subseteq Tasks /\ left \subseteq batch
  /\ bsig \in [Tasks -> Statuses \X Texts]
  /\ bpc \in BatchPhases \cup Recordings
  /\ work \in [status : ResultStatuses, text : Texts, changes : BOOLEAN]
  /\ applied \in BOOLEAN /\ errors \in BOOLEAN
  /\ bkey \subseteq Tasks /\ bcount \in Nat
  /\ tree \subseteq Tasks /\ headTree \subseteq Tasks
  /\ recovery \subseteq Tasks /\ kept \subseteq Tasks
  /\ stranded \subseteq Tasks /\ stopped \subseteq Tasks
  /\ rejected \subseteq Tasks /\ unsettled \subseteq Tasks

\* A serial step keeps PInv if it keeps the rest of what belongs to batches.
LEMMA SerialFrame ==
  ASSUME PInv, ~InBatch, Next, BatchTypeOK', bpc' = "none", left' = {}, PatchParts'
  PROVE  PInv'
<1>1. TypeOK' /\ StepControl' /\ SafetyParts' /\ ~InBatch'
  BY SerialKeeps
<1>2. (ParallelTypeOK /\ RunTypeOK)'
  BY <1>1 DEF TypeOK, ParallelTypeOK, RunTypeOK, BatchTypeOK
<1>3. (HeadBehindPlan /\ DoneIsVerified)'
  BY <1>1 DEF SafetyParts
<1>4. (BatchControl /\ BatchOpen /\ BatchCopies)'
  BY <1>1 DEF BatchControl, BatchOpen, BatchCopies
<1>5. QED
  BY <1>1, <1>2, <1>3, <1>4 DEF PInv

LEMMA TextTypes ==
  /\ EmptyText \in Texts
  /\ \A x \in Texts, m \in Marks : WithMark(x, m) \in Texts
BY DEF EmptyText, Texts, Marks, WithMark

\* What a run knows of its batch when it has none.
LEMMA BlankTypes ==
  /\ NoSignatures \in [Tasks -> Statuses \X Texts]
  /\ NoWork \in [status : ResultStatuses, text : Texts, changes : BOOLEAN]
BY TextTypes DEF NoSignatures, NoWork, ResultStatuses, Statuses

LEMMA ForgetTypes ==
  ASSUME ForgetBatch, bkey' \subseteq Tasks, bcount' \in Nat,
         UNCHANGED <<recovery, kept, promises, unsettled>>,
         ParallelTypeOK
  PROVE  BatchTypeOK'
BY BlankTypes DEF ForgetBatch, promises, ParallelTypeOK, BatchTypeOK, BatchPhases

\* What keeps a promised patch: nothing that is terminal becomes open again.
LEMMA PatchStays ==
  ASSUME PatchIsKept, rejected \subseteq Tasks, UNCHANGED <<recovery, rejected>>,
         \A t \in Tasks : plan[t] \in Terminal => plan'[t] \in Terminal
  PROVE  PatchIsKept'
BY DEF PatchIsKept

LEMMA SerialSteps ==
  ASSUME PInv, ~InBatch,
         \/ SelectSingle \/ SingleStep \/ SingleFinalize \/ EndSingle
         \/ SingleAgentStep \/ ParallelStart \/ ParallelCrash
         \/ FixNotes /\ UNCHANGED <<bvars, unsettled>>
  PROVE  PInv'
<1>1. /\ bpc = "none" /\ left = {} /\ ParallelTypeOK
      /\ WorkspaceIsKept /\ PatchIsKept
  BY DEF PInv, BatchControl, PatchParts, InBatch
<1>0. Next => \A t \in Tasks : plan[t] \in Terminal => plan'[t] \in Terminal
  <2>1. IInv
    BY SerialTypes DEF PInv, IInv
  <2>2. plan \in [Tasks -> Statuses]
    BY <1>1 DEF ParallelTypeOK, FinalizerTypeOK
  <2>3. QED
    BY <2>1, <2>2, PlanStep
<1>2. CASE SelectSingle
  <2>1. Next
    BY <1>2 DEF SelectSingle, Next, RunnerStep
  <2>2. bpc' = "none" /\ left' = {}
    BY <1>1, <1>2 DEF SelectSingle
  <2>3. cur' \in Tasks /\ ~InBatch'
    BY <2>1, SerialKeeps DEF TypeOK
  <2>4. BatchTypeOK'
    BY <1>1, <1>2, <2>3 DEF SelectSingle, trackers, ParallelTypeOK, BatchTypeOK
  <2>5. PatchParts'
    <3>1. PatchIsKept'
      BY <1>0, <1>1, <1>2, <2>1, PatchStays DEF SelectSingle, ParallelTypeOK
    <3>2. QED
      BY <1>1, <1>2, <2>2, <2>3, <3>1 DEF SelectSingle, PatchParts, WorkspaceIsKept
  <2>6. QED
    BY <2>1, <2>2, <2>4, <2>5, SerialFrame
<1>3. CASE SingleStep \/ SingleAgentStep \/ SingleFinalize \/ ParallelStart
           \/ (FixNotes /\ UNCHANGED <<bvars, unsettled>>)
  <2>1. Next
    BY <1>3, TaskStays
       DEF SingleStep, SingleAgentStep, SingleFinalize, ParallelStart
  <2>2. /\ UNCHANGED <<batch, left, bsig, bpc, work, applied, errors, tree,
                       headTree, recovery, kept, promises>>
        /\ bkey' \in {bkey, {}} /\ bcount' \in {bcount, 0}
        /\ unsettled' \in {unsettled, {}}
    BY <1>3 DEF SingleStep, SingleAgentStep, SingleFinalize, ParallelStart, Settle,
                bvars, trackers, promises
  <2>3. BatchTypeOK'
    BY <1>1, <2>2 DEF promises, ParallelTypeOK, BatchTypeOK
  <2>4. PatchParts'
    <3>1. PatchIsKept'
      BY <1>0, <1>1, <2>1, <2>2, PatchStays DEF promises, ParallelTypeOK
    <3>2. QED
      BY <1>1, <2>1, <2>2, <3>1, SerialKeeps DEF promises, PatchParts, WorkspaceIsKept
  <2>5. QED
    BY <1>1, <2>1, <2>2, <2>3, <2>4, SerialFrame
<1>4. CASE EndSingle
  <2>1. Next /\ cur' = cur /\ plan' = plan
    BY <1>4, TaskStays DEF EndSingle, EndIteration, EndIterationFails, files
  <2>2. /\ UNCHANGED <<batch, left, bsig, bpc, work, applied, errors, trackers,
                       tree, headTree, kept, promises, unsettled>>
        /\ \/ recovery' = recovery
           \/ plan[cur] \in Terminal /\ recovery' = recovery \ {cur}
    BY <1>4 DEF EndSingle
  <2>3. BatchTypeOK'
    BY <1>1, <2>2 DEF ParallelTypeOK, BatchTypeOK, trackers, promises
  <2>4. PatchParts'
    BY <1>1, <2>1, <2>2, SerialKeeps
       DEF promises, PatchParts, WorkspaceIsKept, PatchIsKept
  <2>5. QED
    BY <1>1, <2>1, <2>2, <2>3, <2>4, SerialFrame
<1>5. CASE ParallelCrash
  <2>1. Next
    BY <1>5, TaskStays DEF ParallelCrash
  <2>2. /\ bpc' = "none" /\ left' = {}
        /\ UNCHANGED <<trackers, recovery, kept, promises, unsettled>>
    BY <1>5 DEF ParallelCrash, ForgetBatch
  <2>3. BatchTypeOK'
    <3>1. ForgetBatch /\ bkey' \subseteq Tasks /\ bcount' \in Nat
      BY <1>1, <1>5 DEF ParallelCrash, trackers, ParallelTypeOK
    <3>2. QED
      BY <1>1, <2>2, <3>1, ForgetTypes
  <2>4. PatchParts'
    <3>1. PatchIsKept'
      BY <1>0, <1>1, <2>1, <2>2, PatchStays DEF promises, ParallelTypeOK
    <3>2. QED
      BY <1>1, <2>1, <2>2, <3>1, SerialKeeps DEF promises, PatchParts, WorkspaceIsKept
  <2>5. QED
    BY <2>1, <2>2, <2>3, <2>4, SerialFrame
<1>6. QED
  BY <1>2, <1>3, <1>4, <1>5

-----------------------------------------------------------------------------
(***************************************************************************)
(* The integration of a batch                                              *)
(***************************************************************************)

\* The parts of PInv that tell what the plan may become.
PlanParts ==
  HeadBehindPlan /\ DoneIsVerified /\ BatchControl /\ BatchOpen /\ BatchCopies

LEMMA BatchFrame ==
  ASSUME PInv, InBatch, rpc' = rpc, FinalizerTypeOK', RunTypeOK', BatchTypeOK',
         PlanParts', PatchParts'
  PROVE  PInv'
BY DEF PInv, InBatch, ParallelTypeOK, BatchTypeOK, PlanParts

\* What an iteration with a batch leaves alone keeps its types.
LEMMA RunTypes ==
  ASSUME RunTypeOK, KeepRun, cur' \in Tasks
  PROVE  RunTypeOK'
BY DEF RunTypeOK, KeepRun

\* A finalizer that has exited, or a change that is taken back, leaves nothing
\* that could be saved later.
LEMMA ReturnKeepsPlan ==
  ASSUME PInv, InBatch, bpc # "next",
         UNCHANGED <<rpc, cur, left, batch, plan, verified>>, head' \in {head, plan},
         fpc' = "idle", bpc' \in {"next", "undo", "followUp"}
  PROVE  PlanParts'
<1>1. (HeadBehindPlan /\ DoneIsVerified)'
  BY DEF PInv, HeadBehindPlan, DoneIsVerified
<1>2. (BatchControl /\ BatchOpen /\ BatchCopies)'
  BY DEF PInv, InBatch, BatchControl, BatchOpen, BatchCopies, Open, Unapplied,
         Applied, Recordings
<1>3. QED
  BY <1>1, <1>2 DEF PlanParts

\* A record sets the status of a task that is open, and never to "done".
LEMMA RecordKeepsPlan ==
  ASSUME PInv, InBatch, NEW t \in batch, cur' = t, Open(t),
         UNCHANGED <<rpc, batch, files, fresult, verified>>,
         left' \subseteq left, t \notin left',
         NEW status \in ResultStatuses \ {"done"}, NEW text \in Texts,
         NEW next \in Recordings, Record(t, status, text, next)
  PROVE  /\ PlanParts' /\ FinalizerTypeOK'
         /\ bpc' \in {"next", next}
<1>1. PlanParts /\ FinalizerTypeOK /\ t \in Tasks
  BY DEF PInv, PlanParts, ParallelTypeOK
<1>2. UNCHANGED <<plan, head, notes, torn, notesParse, result, review, verified>>
  BY DEF files
<1>3. /\ status \in Statuses \ {"todo"}
      /\ [status |-> status, text |-> text] \in Notes
      /\ next \in {"failed", "stopped", "unapplied", "unverified"}
  BY DEF ResultStatuses, Statuses, Notes, Recordings
<1>4. (HeadBehindPlan /\ DoneIsVerified)'
  BY <1>1, <1>2 DEF PlanParts, HeadBehindPlan, DoneIsVerified
<1>5. CASE ~Recordable
  <2>1. bpc' = "next" /\ fpc' = "idle" /\ UNCHANGED <<fplan, fnotes, ffailed>>
    BY <1>5 DEF Record, NextTask
  <2>2. FinalizerTypeOK'
    BY <1>1, <1>2, <2>1 DEF FinalizerTypeOK
  <2>3. (BatchControl /\ BatchOpen /\ BatchCopies)'
    BY <1>1, <1>2, <2>1
       DEF PlanParts, InBatch, BatchControl, BatchOpen, BatchCopies, Open, Unapplied,
           Applied, Recordings
  <2>4. QED
    BY <1>4, <2>1, <2>2, <2>3 DEF PlanParts
<1>6. CASE Recordable
  <2>1. /\ bpc' = next /\ fpc' = "saveNotes" /\ ffailed' = FALSE
        /\ fplan' = [plan EXCEPT ![t] = status]
        /\ fnotes' = [notes EXCEPT ![t] = [status |-> status, text |-> text]]
    BY <1>6 DEF Record
  <2>2. FinalizerTypeOK'
    BY <1>1, <1>2, <1>3, <2>1 DEF FinalizerTypeOK, Phases
  <2>3. BatchControl' /\ BatchOpen'
    BY <1>1, <1>2, <1>3, <2>1
       DEF PlanParts, InBatch, BatchControl, BatchOpen, Open, Unapplied,
           Applied, Recordings
  <2>4. BatchCopies'
    BY <1>1, <1>2, <1>3, <2>1 DEF FinalizerTypeOK, BatchCopies, Applied
  <2>5. QED
    BY <1>4, <2>1, <2>2, <2>3, <2>4 DEF PlanParts
<1>7. QED
  BY <1>5, <1>6

\* What the next task of the batch brings.
LEMMA TakenTask ==
  ASSUME PInv, NEW t \in Tasks, IsNext(t), Take(t)
  PROVE  /\ InBatch /\ bpc = "next" /\ fpc = "idle"
         /\ t \in batch /\ t \in left /\ t \in kept /\ t \notin stranded
         /\ Open(t)
         /\ cur' = t /\ left' = left \ {t} /\ left' \subseteq left /\ t \notin left'
BY DEF PInv, IsNext, Take, InBatch, BatchControl, BatchOpen, PatchParts, ParallelTypeOK

LEMMA WorkerTypes ==
  ASSUME NEW w \in WorkerResults
  PROVE  /\ w \in [status : ResultStatuses, text : Texts, changes : BOOLEAN]
         /\ w.status \in ResultStatuses /\ w.text \in Texts /\ w.changes \in BOOLEAN
BY ParallelRunAssumption

\* A patch that could not be written is not promised.
LEMMA PreserveKeeps ==
  ASSUME ParallelTypeOK, PatchIsKept, UNCHANGED plan,
         NEW t \in Tasks, NEW ok \in Preserved, Preserve(t, ok)
  PROVE  recovery' \subseteq Tasks /\ rejected' \subseteq Tasks /\ PatchIsKept'
BY DEF Preserve, Preserved, ParallelTypeOK, PatchIsKept

LEMMA IntegrateSteps ==
  ASSUME PInv,
         \/ IntegrateFailure \/ IntegrateUncollected \/ IntegrateStopped
         \/ IntegrateRefused \/ IntegrateApplied \/ WriteResultFails
  PROVE  PInv'
<1>1. ParallelTypeOK /\ RunTypeOK /\ PatchParts
  BY DEF PInv
<1>2. CASE IntegrateFailure \/ IntegrateUncollected
  <2>1. PICK t \in Tasks, x \in Texts :
          /\ IsNext(t) /\ Take(t)
          /\ Record(t, "in_progress", x, "failed")
          /\ stranded' = stranded \cup {t}
    BY <1>2, TextTypes, WorkerTypes
       DEF IntegrateFailure, IntegrateUncollected, Marks
  <2>2. /\ errors' = TRUE /\ KeepBatch /\ KeepRun
        /\ UNCHANGED <<files, fresult, verified, work, applied, tree, headTree,
                       recovery, kept, stopped, rejected, unsettled>>
    BY <1>2 DEF IntegrateFailure, IntegrateUncollected
  <2>3. rpc' = rpc /\ batch' = batch
    BY <2>2 DEF KeepBatch, KeepRun
  <2>4. PlanParts' /\ FinalizerTypeOK' /\ bpc' \in {"next", "failed"}
    BY <2>1, <2>2, <2>3, TakenTask, RecordKeepsPlan
       DEF Recordings, ResultStatuses, Statuses
  <2>5. RunTypeOK' /\ BatchTypeOK'
    BY <1>1, <2>1, <2>2, <2>4, RunTypes, TakenTask
       DEF KeepBatch, trackers, promises, ParallelTypeOK, BatchTypeOK,
           BatchPhases, Recordings
  <2>6. PatchParts'
    BY <1>1, <2>1, <2>2, <2>3, <2>4, TakenTask
       DEF PatchParts, WorkspaceIsKept, PatchIsKept, InBatch, promises, files
  <2>7. QED
    BY <2>1, <2>3, <2>4, <2>5, <2>6, TakenTask, BatchFrame
<1>3. CASE IntegrateStopped
  <2>1. PICK t \in Tasks, w \in WorkerResults :
          /\ IsNext(t) /\ Take(t)
          /\ w.status \in {"blocked", "manual"}
          /\ Record(t, w.status, w.text, "stopped")
          /\ kept' = IF Recordable THEN kept ELSE kept \ {t}
          /\ stranded' \in {stranded, stranded \cup {t}}
          /\ stopped' = stopped \cup {t}
    BY <1>3 DEF IntegrateStopped
  <2>2. /\ errors' = (errors \/ ~Recordable) /\ KeepBatch /\ KeepRun
        /\ UNCHANGED <<files, fresult, verified, work, applied, tree, headTree,
                       recovery, rejected, unsettled>>
    BY <1>3 DEF IntegrateStopped
  <2>3. rpc' = rpc /\ batch' = batch
    BY <2>2 DEF KeepBatch, KeepRun
  <2>4. PlanParts' /\ FinalizerTypeOK' /\ bpc' \in {"next", "stopped"}
    <3>1. w.status \in ResultStatuses \ {"done"} /\ w.text \in Texts
      BY <2>1, WorkerTypes
    <3>2. QED
      BY <2>1, <2>2, <2>3, <3>1, TakenTask, RecordKeepsPlan DEF Recordings
  <2>5. RunTypeOK' /\ BatchTypeOK'
    <3>1. errors' \in BOOLEAN
      BY <2>2 DEF Recordable
    <3>2. QED
      BY <1>1, <2>1, <2>2, <2>4, <3>1, RunTypes, TakenTask
         DEF KeepBatch, trackers, promises, ParallelTypeOK, BatchTypeOK,
           BatchPhases, Recordings
  <2>6. PatchParts'
    BY <1>1, <2>1, <2>2, <2>3, <2>4, TakenTask
       DEF PatchParts, WorkspaceIsKept, PatchIsKept, InBatch, promises, files
  <2>7. QED
    BY <2>1, <2>3, <2>4, <2>5, <2>6, TakenTask, BatchFrame
<1>4. CASE IntegrateRefused
  <2>1. PICK t \in Tasks, w \in WorkerResults :
          /\ IsNext(t) /\ Take(t)
          /\ Record(t, "in_progress", WithMark(w.text, "unapplied"), "unapplied")
          /\ stranded' = stranded \cup {t}
          /\ \E ok \in Preserved :
               Preserve(t, ok) /\ errors' = (errors \/ ~ok \/ ~Recordable)
          /\ tree' \in {tree, tree \cup {t}}
    BY <1>4 DEF IntegrateRefused
  <2>2. /\ KeepBatch /\ KeepRun
        /\ UNCHANGED <<files, fresult, verified, work, applied, headTree, kept,
                       stopped, unsettled>>
    BY <1>4 DEF IntegrateRefused
  <2>3. rpc' = rpc /\ batch' = batch
    BY <2>2 DEF KeepBatch, KeepRun
  <2>4. PlanParts' /\ FinalizerTypeOK' /\ bpc' \in {"next", "unapplied"}
    <3>1. WithMark(w.text, "unapplied") \in Texts
      BY TextTypes, WorkerTypes DEF Marks
    <3>2. QED
      BY <2>1, <2>2, <2>3, <3>1, TakenTask, RecordKeepsPlan
         DEF Recordings, ResultStatuses, Statuses
  <2>5. /\ errors' \in BOOLEAN
        /\ recovery' \subseteq Tasks /\ rejected' \subseteq Tasks /\ PatchIsKept'
    BY <1>1, <2>1, <2>2, PreserveKeeps DEF Recordable, PatchParts, files
  <2>6. RunTypeOK' /\ BatchTypeOK'
    BY <1>1, <2>1, <2>2, <2>4, <2>5, RunTypes, TakenTask
       DEF KeepBatch, trackers, promises, ParallelTypeOK, BatchTypeOK,
           BatchPhases, Recordings
  <2>7. PatchParts'
    BY <1>1, <2>1, <2>2, <2>3, <2>4, <2>5, TakenTask
       DEF PatchParts, WorkspaceIsKept, InBatch
  <2>8. QED
    BY <2>1, <2>3, <2>4, <2>6, <2>7, TakenTask, BatchFrame
<1>5. CASE IntegrateApplied
  <2>1. PICK t \in Tasks, w \in WorkerResults :
          /\ IsNext(t) /\ Take(t) /\ Integrated(w)
          /\ applied' = w.changes
          /\ tree' = IF w.changes THEN tree \cup {t} ELSE tree
          /\ result' = [result EXCEPT ![t] =
                          [status |-> work'.status, text |-> work'.text]]
    BY <1>5 DEF IntegrateApplied
  <2>2. /\ bpc' = "finalize" /\ fpc' = "load" /\ KeepBatch /\ KeepRun
        /\ UNCHANGED <<plan, torn, notes, notesParse, review, head, fplan, fnotes,
                       fresult, ffailed, verified, errors, headTree, recovery, kept,
                       promises, unsettled>>
    BY <1>5 DEF IntegrateApplied
  <2>3. rpc' = rpc /\ batch' = batch
    BY <2>2 DEF KeepBatch, KeepRun
  <2>4. work' \in [status : ResultStatuses, text : Texts, changes : BOOLEAN]
    <3>1. WithMark(w.text, "synced") \in Texts
      BY TextTypes, WorkerTypes DEF Marks
    <3>2. QED
      BY <2>1, <3>1, WorkerTypes DEF Integrated
  <2>5. FinalizerTypeOK'
    <3>1. result' \in [Tasks -> Results \cup {NoFile, BadFile}]
      BY <1>1, <2>1, <2>4 DEF Results, ParallelTypeOK, FinalizerTypeOK
    <3>2. QED
      BY <1>1, <2>2, <3>1 DEF ParallelTypeOK, FinalizerTypeOK, Phases
  <2>6. PlanParts'
    <3>1. (HeadBehindPlan /\ DoneIsVerified)'
      BY <2>2 DEF PInv, HeadBehindPlan, DoneIsVerified
    <3>2. BatchControl' /\ BatchOpen'
      BY <2>1, <2>2, <2>3, TakenTask
         DEF PInv, BatchControl, BatchOpen, Open, InBatch, Phases, Recordings
    <3>3. BatchCopies'
      BY <2>2 DEF BatchCopies, Applied
    <3>4. QED
      BY <3>1, <3>2, <3>3 DEF PlanParts
  <2>7. RunTypeOK' /\ BatchTypeOK'
    BY <1>1, <2>1, <2>2, <2>4, RunTypes, TakenTask, WorkerTypes
       DEF KeepBatch, trackers, promises, ParallelTypeOK, BatchTypeOK, BatchPhases
  <2>8. PatchParts'
    BY <1>1, <2>1, <2>2, <2>3, TakenTask
       DEF PatchParts, WorkspaceIsKept, PatchIsKept, InBatch, promises, files
  <2>9. QED
    BY <2>1, <2>3, <2>5, <2>6, <2>7, <2>8, TakenTask, BatchFrame
<1>6. CASE WriteResultFails
  <2>1. PICK t \in Tasks, w \in WorkerResults :
          /\ IsNext(t) /\ Take(t)
          /\ tree' = IF w.changes THEN tree \cup {t} ELSE tree
          /\ result' \in {result, [result EXCEPT ![t] = BadFile]}
          /\ kept' = kept \ {t}
    BY <1>6 DEF WriteResultFails
  <2>2. /\ errors' = TRUE /\ KeepBatch /\ KeepRun /\ KeepCopies
        /\ UNCHANGED <<plan, torn, notes, notesParse, review, head, fpc, bpc, work,
                       applied, headTree, recovery, promises, unsettled>>
    BY <1>6 DEF WriteResultFails
  <2>3. rpc' = rpc /\ batch' = batch
    BY <2>2 DEF KeepBatch, KeepRun
  <2>4. FinalizerTypeOK'
    BY <1>1, <2>1, <2>2 DEF KeepCopies, ParallelTypeOK, FinalizerTypeOK
  <2>5. PlanParts'
    <3>1. (HeadBehindPlan /\ DoneIsVerified)'
      BY <2>2 DEF KeepCopies, PInv, HeadBehindPlan, DoneIsVerified
    <3>2. (BatchControl /\ BatchOpen /\ BatchCopies)'
      BY <2>1, <2>2, <2>3, TakenTask
         DEF PInv, BatchControl, BatchOpen, BatchCopies, Open, InBatch, Unapplied,
             Applied, Recordings
    <3>3. QED
      BY <3>1, <3>2 DEF PlanParts
  <2>6. RunTypeOK' /\ BatchTypeOK'
    BY <1>1, <2>1, <2>2, RunTypes, TakenTask, WorkerTypes
       DEF KeepBatch, trackers, promises, ParallelTypeOK, BatchTypeOK
  <2>7. PatchParts'
    BY <1>1, <2>1, <2>2, <2>3, TakenTask
       DEF PatchParts, WorkspaceIsKept, PatchIsKept, InBatch, promises, files
  <2>8. QED
    BY <2>1, <2>3, <2>4, <2>5, <2>6, <2>7, TakenTask, BatchFrame
<1>7. QED
  BY <1>2, <1>3, <1>4, <1>5, <1>6

\* What an exit of the finalizer, and the changes of a task taken back, lead to.
LEMMA ReturnSteps ==
  ASSUME PInv,
         \/ Recorded \/ Finalized \/ VerificationRecorded \/ FinalizerFailed
         \/ Undo \/ FollowUp \/ TakeBackFails
  PROVE  PInv'
<1>1. /\ ParallelTypeOK /\ RunTypeOK /\ PatchParts /\ BatchControl
  BY DEF PInv
<1>2. /\ InBatch /\ bpc \notin {"none", "next"} /\ cur' = cur /\ left' = left
      /\ KeepBatch /\ KeepRun /\ UNCHANGED <<work, applied>>
  BY DEF Recorded, Finalized, VerificationRecorded, FinalizerFailed, Undo,
         FollowUp, TakeBackFails, KeepTask, InBatch, Recordings
<1>3. rpc' = rpc /\ batch' = batch /\ cur \in batch \ left
  BY <1>1, <1>2 DEF KeepRun, KeepBatch, BatchControl
<1>4. /\ UNCHANGED <<plan, torn, notes, notesParse, result, review, verified,
                     fplan, fnotes, fresult, ffailed>>
      /\ head' \in {head, plan}
  BY DEF Recorded, Finalized, VerificationRecorded, FinalizerFailed, Undo,
         FollowUp, TakeBackFails, KeepFiles, KeepCopies, files
<1>5. fpc' = "idle" /\ bpc' \in {"next", "undo", "followUp"}
  BY <1>1, <1>2 DEF Recorded, Finalized, VerificationRecorded, FinalizerFailed,
         Undo, FollowUp, TakeBackFails, NextTask, TakeBack, BatchControl
<1>6. FinalizerTypeOK'
  BY <1>1, <1>4, <1>5 DEF ParallelTypeOK, FinalizerTypeOK
<1>7. PlanParts'
  BY <1>2, <1>3, <1>4, <1>5, ReturnKeepsPlan
<1>8. RunTypeOK'
  BY <1>1, <1>2, RunTypes DEF RunTypeOK
<1>9. /\ errors' \in BOOLEAN
      /\ tree' \subseteq tree /\ headTree' \in {headTree, tree}
      /\ unsettled' \subseteq unsettled
      /\ recovery' \in {recovery, recovery \ {cur}}
      /\ kept' \in {kept, kept \ {cur}}
      /\ stranded' \in {stranded, stranded \cup {cur}}
      /\ stopped' = stopped /\ rejected' \in {rejected, rejected \ {cur}}
      /\ recovery' = recovery \/ rejected' = rejected \ {cur}
      /\ \/ kept' = kept \/ cur \in stopped
         \/ bpc = "finalize" /\ stranded' = stranded
  BY <1>1, <1>2 DEF Recorded, Finalized, VerificationRecorded, FinalizerFailed, Undo,
         FollowUp, TakeBackFails, ParallelTypeOK, PatchParts, promises
<1>10. BatchTypeOK'
  BY <1>1, <1>2, <1>3, <1>5, <1>9
     DEF KeepBatch, trackers, ParallelTypeOK, BatchTypeOK, BatchPhases, RunTypeOK
<1>11. PatchParts'
  <2>1. WorkspaceIsKept'
    <3>1. kept' = kept => stranded' \subseteq kept \cup stopped
      BY <1>1, <1>2
         DEF Recorded, Finalized, VerificationRecorded, FinalizerFailed, Undo,
             FollowUp, TakeBackFails, PatchParts, WorkspaceIsKept, promises
    <3>2. CASE cur \in stopped
      BY <1>1, <1>9, <3>2 DEF PatchParts, WorkspaceIsKept
    <3>3. CASE bpc = "finalize" /\ stranded' = stranded
      <4>1. cur \notin stranded
        BY <1>1, <1>2, <3>3 DEF PatchParts
      <4>2. QED
        BY <1>1, <1>9, <3>3, <4>1 DEF PatchParts, WorkspaceIsKept
    <3>4. CASE kept' = kept
      BY <1>9, <3>1, <3>4 DEF WorkspaceIsKept
    <3>5. QED
      BY <1>9, <3>2, <3>3, <3>4
  <2>2. PatchIsKept'
    BY <1>1, <1>4, <1>9 DEF PatchParts, PatchIsKept
  <2>3. QED
    BY <1>1, <1>2, <1>3, <1>5, <1>9, <2>1, <2>2 DEF PatchParts, InBatch
<1>12. QED
  BY <1>2, <1>3, <1>6, <1>7, <1>8, <1>10, <1>11, BatchFrame

LEMMA VerificationFailedStep ==
  ASSUME PInv, VerificationFailed
  PROVE  PInv'
<1> DEFINE text == WithMark(IF FailureNoted(cur) THEN notes[cur].text ELSE work.text,
                            "unverified")
<1>1. /\ ParallelTypeOK /\ RunTypeOK /\ PatchParts /\ BatchControl /\ BatchOpen
  BY DEF PInv
<1>2. /\ InBatch /\ bpc = "finalize" /\ fpc = "exitVerify" /\ cur' = cur /\ left' = left
      /\ KeepBatch /\ KeepRun
      /\ UNCHANGED <<files, fresult, verified, tree, headTree, kept, stopped, unsettled,
                     work, applied>>
      /\ Record(cur, "in_progress", text, "unverified")
  BY DEF VerificationFailed, KeepTask, InBatch
<1>3. rpc' = rpc /\ batch' = batch /\ cur \in batch \ left /\ Open(cur)
      /\ left' \subseteq left
  BY <1>1, <1>2 DEF KeepRun, KeepBatch, BatchControl, BatchOpen
<1>4. text \in Texts
  <2>1. work.text \in Texts
    BY <1>1 DEF ParallelTypeOK
  <2>2. FailureNoted(cur) => notes[cur].text \in Texts
    BY <1>1 DEF FailureNoted, ParallelTypeOK, FinalizerTypeOK, RunTypeOK, Notes
  <2>3. QED
    BY <2>1, <2>2, TextTypes DEF Marks
<1>5. PlanParts' /\ FinalizerTypeOK' /\ bpc' \in {"next", "unverified"}
  <2> HIDE DEF text
  <2>1. QED
    BY <1>2, <1>3, <1>4, RecordKeepsPlan
       DEF Recordings, ResultStatuses, Statuses
<1>6. /\ errors' \in BOOLEAN
      /\ recovery' \subseteq Tasks /\ rejected' \subseteq Tasks /\ PatchIsKept'
      /\ stranded' \in {stranded, stranded \cup {cur}}
  <2>1. CASE UNCHANGED <<recovery, rejected>>
    BY <1>1, <1>2, <2>1
       DEF VerificationFailed, Recordable, ParallelTypeOK, PatchParts, PatchIsKept, files
  <2>2. CASE \E ok \in Preserved : Preserve(cur, ok)
    BY <1>1, <1>2, <2>2, PreserveKeeps
       DEF VerificationFailed, Recordable, ParallelTypeOK, RunTypeOK, PatchParts, files
  <2>3. QED
    BY <2>1, <2>2 DEF VerificationFailed
<1>7. RunTypeOK' /\ BatchTypeOK'
  BY <1>1, <1>2, <1>3, <1>5, <1>6, RunTypes
     DEF KeepBatch, trackers, ParallelTypeOK, BatchTypeOK, BatchPhases, Recordings,
         RunTypeOK
<1>8. PatchParts'
  BY <1>1, <1>2, <1>3, <1>5, <1>6 DEF PatchParts, WorkspaceIsKept, InBatch
<1>9. QED
  BY <1>2, <1>3, <1>5, <1>7, <1>8, BatchFrame

\* The finalizer, and the writes of a record.
LEMMA BatchFinalizerStep ==
  ASSUME PInv, BatchFinalizer
  PROVE  PInv'
<1>1. /\ ParallelTypeOK /\ RunTypeOK /\ PatchParts /\ FinalizerTypeOK /\ PlanParts
      /\ cur \in Tasks
  BY DEF PInv, ParallelTypeOK, RunTypeOK, PlanParts
<1>2. /\ InBatch /\ FinalizerStep(cur) /\ KeepBatch /\ KeepRun
      /\ headTree' \in {headTree, tree} /\ unsettled' \in {unsettled, {}}
      /\ UNCHANGED <<cur, left, bpc, work, applied, errors, tree, recovery, kept,
                     promises>>
  BY DEF BatchFinalizer, Settle, InBatch
<1>3. rpc' = rpc /\ batch' = batch
  BY <1>2 DEF KeepRun, KeepBatch
<1>4. FinalizerTypeOK'
  BY <1>1, <1>2, FinalizerStepType
<1>5. RunTypeOK' /\ BatchTypeOK'
  BY <1>1, <1>2, RunTypes DEF KeepBatch, trackers, promises, ParallelTypeOK,
                                BatchTypeOK
<1>6. PatchParts'
  <2>1. plan' = plan \/ (plan' = [plan EXCEPT ![cur] = fplan[cur]] /\ Open(cur))
    BY <1>1, <1>2
       DEF FinalizerStep, FinLoadFails, FinLoad, FinVerifyPasses, FinVerifyFails,
           FinApply, FinRemoveReview, FinSaveNotes, FinSavePlan, FinCommit, FinAborts,
           files, PlanParts, BatchOpen, BatchCopies, InBatch, Applied
  <2>2. PatchIsKept'
    BY <1>1, <1>2, <2>1, PatchStays
       DEF PatchParts, ParallelTypeOK, FinalizerTypeOK, Open, promises
  <2>3. QED
    BY <1>1, <1>2, <1>3, <2>2 DEF PatchParts, WorkspaceIsKept, InBatch, promises
<1>7. PlanParts'
  <2> USE <1>1, <1>2, <1>3 DEF PlanParts, InBatch, Unapplied, Applied
  <2>0. /\ plan \in [Tasks -> Statuses] /\ fplan \in [Tasks -> Statuses]
        /\ bpc \in {"finalize"} \cup Recordings
        /\ cur \in batch \ left
    <3>1. fpc # "idle"
      BY FinalizerAssumption
         DEF FinalizerStep, FinLoadFails, FinLoad, FinVerifyPasses, FinVerifyFails,
             FinApply, FinRemoveReview, FinSaveNotes, FinSavePlan, FinCommit,
             FinAborts, Phases
    <3>2. QED
      BY <3>1 DEF FinalizerTypeOK, BatchControl, ParallelTypeOK, BatchPhases
  <2>1. CASE FinLoadFails(cur) \/ FinAborts
    BY <2>0, <2>1 DEF FinLoadFails, FinAborts, WritesCutShort, files, HeadBehindPlan,
           DoneIsVerified, BatchControl, BatchOpen, BatchCopies, Open, Phases, Exits,
           Recordings
  <2>2. CASE FinLoad(cur)
    BY <2>0, <2>2 DEF FinLoad, files, HeadBehindPlan, DoneIsVerified, BatchControl,
           BatchOpen, BatchCopies, Open, Phases, Exits, Recordings
  <2>3. CASE FinVerifyPasses(cur) \/ FinVerifyFails(cur)
    <3>1. bpc = "finalize" /\ fpc' = "apply" /\ fpc = "verify" /\ Open(cur)
      BY <2>0, <2>3 DEF FinVerifyPasses, FinVerifyFails, BatchControl, BatchOpen,
             Recordings
    <3>2. plan[cur] # "done" /\ head[cur] # "done"
      BY <3>1 DEF Open, Terminal, HeadBehindPlan
    <3>3. (HeadBehindPlan /\ DoneIsVerified)'
      BY <2>3, <3>2 DEF FinVerifyPasses, FinVerifyFails, files, HeadBehindPlan,
             DoneIsVerified
    <3>4. BatchControl' /\ BatchOpen'
      BY <2>0, <2>3, <3>1 DEF FinVerifyPasses, FinVerifyFails, files, BatchControl,
             BatchOpen, Open, Phases, Exits, Recordings
    <3>5. BatchCopies'
      BY <2>0, <2>3, <3>1 DEF FinVerifyPasses, FinVerifyFails, files, BatchCopies,
             FailedResult
    <3>6. QED
      BY <3>3, <3>4, <3>5
  <2>4. CASE FinApply(cur)
    <3>1. fresult.status \in Statuses \ {"todo"}
      BY DEF FinalizerTypeOK, Results, ResultStatuses
    <3>2. (HeadBehindPlan /\ DoneIsVerified)'
      BY <2>4 DEF FinApply, HeadBehindPlan, DoneIsVerified
    <3>3. BatchControl' /\ BatchOpen'
      BY <2>0, <2>4 DEF FinApply, BatchControl, BatchOpen, Open, Phases, Exits,
             Recordings
    <3>4. BatchCopies'
      BY <2>0, <2>4, <3>1 DEF FinApply, BatchCopies
    <3>5. QED
      BY <3>2, <3>3, <3>4
  <2>5. CASE FinRemoveReview(cur) \/ FinSaveNotes
    BY <2>0, <2>5 DEF FinRemoveReview, FinSaveNotes, HeadBehindPlan, DoneIsVerified,
           BatchControl, BatchOpen, BatchCopies, Open, Phases, Exits, Recordings
  <2>6. CASE FinSavePlan
    <3>1. /\ plan' = [plan EXCEPT ![cur] = fplan[cur]]
          /\ fplan[cur] = "done" => cur \in verified
          /\ ffailed => fplan[cur] = "in_progress"
          /\ Open(cur)
          /\ UNCHANGED <<head, verified>>
          /\ fpc' = IF ffailed THEN "exitVerify" ELSE "commit"
      BY <2>6 DEF FinSavePlan, BatchCopies, BatchOpen
    <3>2. (HeadBehindPlan /\ DoneIsVerified)'
      BY <2>0, <3>1 DEF HeadBehindPlan, DoneIsVerified, Open, Terminal
    <3>3. BatchControl'
      BY <2>0, <2>6, <3>1 DEF FinSavePlan, BatchControl, Phases, Exits, Recordings
    <3>4. \A t \in Tasks : Open(t) /\ t # cur => Open(t)'
      BY <2>0, <3>1, PlanAssumption DEF Open
    <3>5. ffailed => Open(cur)'
      BY <2>0, <3>1, PlanAssumption DEF Open, Terminal
    <3>6. BatchOpen'
      BY <2>0, <3>1, <3>4, <3>5 DEF BatchOpen, ParallelTypeOK
    <3>7. BatchCopies'
      BY <3>1 DEF BatchCopies
    <3>8. QED
      BY <3>2, <3>3, <3>6, <3>7
  <2>7. CASE FinCommit
    BY <2>0, <2>7 DEF FinCommit, HeadBehindPlan, DoneIsVerified,
           BatchControl, BatchOpen, BatchCopies, Open, Phases, Exits, Recordings
  <2>8. QED
    BY <2>1, <2>2, <2>3, <2>4, <2>5, <2>6, <2>7 DEF FinalizerStep
<1>8. QED
  BY <1>2, <1>3, <1>4, <1>5, <1>6, <1>7, BatchFrame

\* Between iterations, and after a run, nothing of a batch is left.
LEMMA BetweenIterations ==
  ASSUME PInv, rpc' \in {"select", "off"}, fpc' = "idle",
         UNCHANGED <<plan, head, verified>>,
         FinalizerTypeOK', RunTypeOK', BatchTypeOK', PatchParts',
         bpc' = "none", left' = {}
  PROVE  PInv'
<1>1. (HeadBehindPlan /\ DoneIsVerified)'
  BY DEF PInv, HeadBehindPlan, DoneIsVerified
<1>2. (StepControl /\ SafetyParts)'
  BY <1>1 DEF StepControl, SafetyParts, TaskStaysOpen, CopyMatches, CopyIsVerified,
         AgentPhases, Unapplied, Applied
<1>3. (BatchControl /\ BatchOpen /\ BatchCopies)'
  BY DEF BatchControl, BatchOpen, BatchCopies, InBatch
<1>4. ParallelTypeOK'
  BY DEF BatchTypeOK, ParallelTypeOK, RunnerPhases
<1>5. QED
  BY <1>1, <1>2, <1>3, <1>4 DEF PInv

LEMMA StartBatchStep ==
  ASSUME PInv, StartBatch
  PROVE  PInv'
<1>1. PICK S \in SUBSET Tasks :
        /\ BatchReady(S)
        /\ batch' = S /\ left' = S
        /\ bsig' = [t \in Tasks |->
                      IF t \in S THEN Signature(t) ELSE NoSignatures[t]]
        /\ verified' = verified \ S
        /\ stranded' = stranded \ S
        /\ stopped' = stopped \ S
        /\ kept' = kept \cup S
  BY DEF StartBatch
<1>2. /\ rpc' = "batch" /\ bpc' = "next"
      /\ iteration' = IF MaxIterations > 0 THEN iteration + 1 ELSE 0
      /\ tree' = {} /\ headTree' = {} /\ errors' = FALSE
      /\ UNCHANGED <<files, fpc, fplan, fnotes, fresult, ffailed, cur, step,
                     issues, sig, stalled, outcome, runs, fresh, unreviewed, work,
                     applied, trackers, recovery, rejected, unsettled>>
  BY DEF StartBatch
<1>3. /\ ~InBatch /\ TypeOK /\ StepControl /\ fpc = "idle"
      /\ ParallelTypeOK /\ RunTypeOK /\ FinalizerTypeOK
  BY <1>1, SerialTypes DEF BatchReady, InBatch, PInv, StepControl, ParallelTypeOK
<1>4. \A t \in S : Open(t)
  BY <1>1, <1>3, PlanAssumption
     DEF BatchReady, IsBatch, Ready, ReadyWith, UnmetDeps, Open, Terminal
<1>5. UNCHANGED <<plan, head, torn, notes, notesParse, result, review>>
  BY <1>2 DEF files
<1>6. (ParallelTypeOK /\ RunTypeOK)'
  <2>1. bsig' \in [Tasks -> Statuses \X Texts]
    <3>1. \A t \in Tasks : Signature(t) \in Statuses \X Texts
      BY <1>3, SignatureType
    <3>2. \A t \in Tasks : NoSignatures[t] \in Statuses \X Texts
      BY TextTypes DEF NoSignatures, Statuses
    <3>3. QED
      BY <1>1, <3>1, <3>2
  <2>2. FinalizerTypeOK'
    BY <1>1, <1>2, <1>3, <1>5 DEF FinalizerTypeOK
  <2>3. iteration' \in Nat
    BY <1>2, <1>3 DEF RunTypeOK
  <2>4. RunTypeOK'
    BY <1>2, <1>3, <2>3 DEF RunTypeOK
  <2>5. QED
    BY <1>1, <1>2, <1>3, <2>1, <2>2, <2>4 DEF ParallelTypeOK, BatchPhases, trackers
<1>7. (HeadBehindPlan /\ DoneIsVerified)'
  BY <1>1, <1>4, <1>5 DEF PInv, HeadBehindPlan, DoneIsVerified, Open, Terminal
<1>8. (BatchControl /\ BatchOpen /\ BatchCopies)'
  BY <1>1, <1>2, <1>3, <1>4, <1>5
     DEF BatchControl, BatchOpen, BatchCopies, InBatch, Open, Unapplied, Applied,
         Recordings
<1>9. PatchParts'
  BY <1>1, <1>2, <1>5 DEF PInv, PatchParts, WorkspaceIsKept, PatchIsKept, InBatch
<1>10. QED
  BY <1>2, <1>6, <1>7, <1>8, <1>9 DEF PInv, InBatch

LEMMA EndBatchSteps ==
  ASSUME PInv,
         \/ BatchCannotStart \/ EndBatch \/ BatchFails
         \/ InBatch /\ ParallelCrash
  PROVE  PInv'
<1>1. /\ ParallelTypeOK /\ RunTypeOK /\ PatchParts /\ BatchControl
      /\ (~InBatch => StepControl)
  BY DEF PInv
<1>2. /\ UNCHANGED <<recovery, kept, promises, unsettled>>
      /\ UNCHANGED <<plan, head, notesParse, result, review, fplan, fnotes, fresult,
                     ffailed, verified>>
      /\ UNCHANGED <<cur, sig, stalled, iteration, runs, fresh, unreviewed>>
  BY DEF BatchCannotStart, EndBatch, BatchFails, ParallelCrash, Crash, KeepCopies,
         KeepIteration, files, bvars, promises
<1>3. /\ torn' \subseteq {"plan", "notes"}
      /\ notes' \in [Tasks -> Notes \cup {NoFile}]
  BY <1>1 DEF BatchCannotStart, EndBatch, BatchFails, ParallelCrash, Crash,
         WritesCutShort, files, ParallelTypeOK, FinalizerTypeOK
<1>4. \/ \E o \in Outcomes : StopRun(o)
      \/ GoTo("select") /\ fpc = "idle"
  BY <1>1 DEF BatchCannotStart, EndBatch, BatchFails, ParallelCrash, Crash, Outcomes,
         BatchControl, InBatch
<1>5. rpc' \in {"select", "off"} /\ fpc' = "idle" /\ step' \in {step, 0}
      /\ issues' \in {issues, {}} /\ outcome' \in Outcomes
  BY <1>1, <1>4 DEF StopRun, GoTo, RunTypeOK
<1>6. FinalizerTypeOK'
  BY <1>1, <1>2, <1>3, <1>5 DEF ParallelTypeOK, FinalizerTypeOK
<1>7. RunTypeOK'
  BY <1>1, <1>2, <1>5, SerialRunAssumption DEF RunTypeOK
<1>8. BatchTypeOK' /\ bpc' = "none" /\ left' = {}
  <2>1. CASE BatchCannotStart
    BY <1>1, <2>1
       DEF BatchCannotStart, BatchReady, BatchControl, InBatch, bvars, trackers,
           ParallelTypeOK, BatchTypeOK
  <2>2. CASE EndBatch \/ BatchFails \/ ParallelCrash
    <3>1. ForgetBatch /\ bkey' \subseteq Tasks /\ bcount' \in Nat
      BY <1>1, <2>2 DEF EndBatch, BatchFails, ParallelCrash, trackers, ParallelTypeOK
    <3>2. BatchTypeOK'
      BY <1>1, <1>2, <3>1, ForgetTypes
    <3>3. QED
      BY <3>1, <3>2 DEF ForgetBatch
  <2>3. QED
    BY <2>1, <2>2
<1>9. PatchParts'
  BY <1>1, <1>2, <1>5, <1>8
     DEF PatchParts, WorkspaceIsKept, PatchIsKept, InBatch, promises
<1>10. QED
  BY <1>2, <1>5, <1>6, <1>7, <1>8, <1>9, BetweenIterations

LEMMA ParallelInvariant == ParallelSpec => []PInv
<1>1. ParallelInit => PInv
  <2> SUFFICES ASSUME ParallelInit PROVE PInv
    OBVIOUS
  <2>1. TypeOK /\ ~InBatch
    BY InitType DEF ParallelInit, Init, InBatch
  <2>2. StepControl /\ SafetyParts
    BY DEF ParallelInit, Init, FinalizerInit, SafetyParts, StepControl, AgentPhases,
           Unapplied, Applied, TaskStaysOpen, CopyMatches, CopyIsVerified,
           HeadBehindPlan, DoneIsVerified
  <2>3. ParallelTypeOK /\ RunTypeOK
    BY <2>1, BlankTypes DEF ParallelInit, TypeOK, ParallelTypeOK, RunTypeOK, BatchPhases
  <2>4. BatchControl /\ BatchOpen /\ BatchCopies /\ PatchParts
    BY <2>1 DEF ParallelInit, Init, BatchControl, BatchOpen, BatchCopies, PatchParts,
           WorkspaceIsKept, PatchIsKept
  <2>5. QED
    BY <2>2, <2>3, <2>4 DEF PInv, SafetyParts
<1>2. PInv /\ [ParallelNext]_pvars => PInv'
  <2> SUFFICES ASSUME PInv, [ParallelNext]_pvars PROVE PInv'
    OBVIOUS
  <2>1. CASE ParallelNext
    <3>1. CASE BatchStep
      BY <3>1, StartBatchStep, IntegrateSteps, BatchFinalizerStep, ReturnSteps,
         VerificationFailedStep, EndBatchSteps DEF BatchStep
    <3>2. CASE ~InBatch /\ ~BatchStep
      BY <2>1, <3>2, SerialSteps DEF ParallelNext, ParallelRunnerStep
    <3>3. CASE InBatch /\ ~BatchStep
      <4>1. ParallelCrash
        BY <2>1, <3>3
           DEF ParallelNext, ParallelRunnerStep, InBatch, SelectSingle, SelectTask,
               SingleStep, StopBeforeIteration, InspectOutputs, RecheckOutputs,
               RepairPromptFailed, RecordUnreviewed, FinalizeSucceeded, FinalizeFailed,
               SingleFinalize,
               Finalize, EndSingle, EndIteration, EndIterationFails, SingleAgentStep,
               AgentStep, RunPrompt, RepairNotes, RepairOutputs, ParallelStart, Start,
               FixNotes
      <4>2. QED
        BY <3>3, <4>1, EndBatchSteps
    <3>4. QED
      BY <3>1, <3>2, <3>3
  <2>2. CASE UNCHANGED pvars
    <3>1. UNCHANGED <<files, fvars, rvars, bvars, unsettled>>
      BY <2>2 DEF pvars, vars
    <3>2. (ParallelTypeOK /\ RunTypeOK)'
      BY <3>1 DEF files, fvars, rvars, bvars, trackers, PInv, ParallelTypeOK,
             FinalizerTypeOK, RunTypeOK
    <3>3. (HeadBehindPlan /\ DoneIsVerified)' /\ InBatch' = InBatch
      BY <3>1 DEF files, fvars, rvars, PInv, HeadBehindPlan, DoneIsVerified, InBatch
    <3>4. (~InBatch => StepControl /\ SafetyParts)'
      BY <3>1, <3>3 DEF files, fvars, rvars, PInv, StepControl, SafetyParts,
             TaskStaysOpen, CopyMatches, CopyIsVerified
    <3>5. (BatchControl /\ BatchOpen /\ BatchCopies /\ PatchParts)'
      BY <3>1 DEF files, fvars, rvars, bvars, trackers, PInv, BatchControl, BatchOpen,
             BatchCopies, PatchParts, WorkspaceIsKept, PatchIsKept, Open, InBatch
    <3>6. QED
      BY <3>2, <3>3, <3>4, <3>5 DEF PInv
  <2>3. QED
    BY <2>1, <2>2
<1>3. QED
  BY <1>1, <1>2, PTL DEF ParallelSpec

\* The state of a parallel run is what the code takes it for, whatever fails,
\* crashes or is restarted.
THEOREM ParallelTypeCorrect == ParallelSpec => []ParallelTypeOK
<1>1. PInv => ParallelTypeOK
  BY DEF PInv
<1>2. QED
  BY <1>1, ParallelInvariant, PTL

\* Also of tasks that workers worked on, and whose changes were merged with
\* those of others, "done" means verified.
THEOREM ParallelDoneIsVerified == ParallelSpec => []DoneIsVerified
<1>1. PInv => DoneIsVerified
  BY DEF PInv
<1>2. QED
  BY <1>1, ParallelInvariant, PTL

\* Work that the root workspace did not take stays in its worker's workspace until
\* the task is taken up again, unless the worker gave the task up; and a promised
\* patch stays until the task is terminal or a later result was finalized.
THEOREM ParallelStrandedIsKept == ParallelSpec => []StrandedIsKept
<1>1. PInv => StrandedIsKept
  BY DEF PInv, PatchParts, StrandedIsKept
<1>2. QED
  BY <1>1, ParallelInvariant, PTL

\* What a step of a parallel run may do to the plan.
LEMMA ParallelPlanStep ==
  ASSUME PInv, [ParallelNext]_pvars, plan' # plan
  PROVE  \E s \in Statuses \ {"todo"} :
           plan' = [plan EXCEPT ![cur] = s] /\ Open(cur) /\ (InBatch => cur \in batch)
<1>1. ParallelNext
  BY DEF pvars, vars, files
<1>2. CASE BatchFinalizer
  <2>1. InBatch /\ FinSavePlan
    BY <1>2 DEF BatchFinalizer, InBatch, FinalizerStep, FinLoadFails, FinLoad,
                FinVerifyPasses, FinVerifyFails, FinApply, FinRemoveReview,
                FinSaveNotes, FinCommit, FinAborts, files
  <2>2. plan' = [plan EXCEPT ![cur] = fplan[cur]] /\ fplan[cur] # "todo" /\ Open(cur)
    BY <2>1 DEF PInv, FinSavePlan, BatchCopies, BatchOpen, Applied
  <2>3. fplan[cur] \in Statuses /\ cur \in batch
    BY <2>1 DEF PInv, ParallelTypeOK, FinalizerTypeOK, RunTypeOK, BatchControl,
                FinSavePlan
  <2>4. QED
    BY <2>2, <2>3
<1>3. CASE ~BatchFinalizer /\ Next /\ ~InBatch
  <2>1. IInv
    BY <1>3, SerialTypes DEF PInv, IInv
  <2>2. QED
    BY <1>3, <2>1, PlanStep DEF Open, ResultStatuses
<1>4. CASE ~BatchFinalizer /\ ~(Next /\ ~InBatch)
  <2>1. ParallelCrash \/ BatchStep
    BY <1>1, <1>4, TaskStays
       DEF ParallelNext, ParallelRunnerStep, InBatch, SelectSingle, SelectTask,
           SingleStep, StopBeforeIteration, InspectOutputs, RecheckOutputs,
           RepairPromptFailed, RecordUnreviewed, FinalizeSucceeded, FinalizeFailed,
           SingleFinalize,
           Finalize, EndSingle, EndIteration, EndIterationFails, SingleAgentStep,
           AgentStep, RunPrompt, RepairNotes, RepairOutputs, ParallelStart, Start,
           FixNotes, Next, RunnerStep
  <2>2. plan' = plan
    BY <1>4, <2>1
       DEF ParallelCrash, Crash, BatchStep, StartBatch, BatchCannotStart,
           IntegrateFailure, IntegrateUncollected, IntegrateStopped, IntegrateRefused,
           IntegrateApplied, WriteResultFails, Recorded, Finalized,
           VerificationFailed, VerificationRecorded, FinalizerFailed, Undo, FollowUp,
           TakeBackFails, EndBatch, BatchFails, KeepFiles, files
  <2>3. QED
    BY <2>2
<1>5. QED
  BY <1>2, <1>3, <1>4

\* The parallel runner implements the task queue, too.
THEOREM ParallelRunImplementsQueue == ParallelSpec => ImplementsQueue
<1>1. ParallelInit => Queue!Init
  BY DEF ParallelInit, Init, FinalizerInit, Queue!Init, Queue!Tasks, Queue!Statuses,
         Tasks, Statuses
<1>2. PInv /\ [ParallelNext]_pvars => [Queue!Next]_plan
  <2> SUFFICES ASSUME PInv, [ParallelNext]_pvars, plan' # plan PROVE Queue!Next
    OBVIOUS
  <2>1. PICK s \in Statuses \ {"todo"} : Queue!Record(cur, s)
    BY ParallelPlanStep DEF Open, Queue!Record, Queue!Terminal, Terminal
  <2>2. cur \in Tasks
    BY DEF PInv, RunTypeOK
  <2>3. QED
    BY <2>1, <2>2 DEF Queue!Next, Queue!Tasks, Queue!Statuses, Tasks, Statuses
<1>3. QED
  BY <1>1, <1>2, ParallelInvariant, PTL DEF ParallelSpec, ImplementsQueue, Queue!Spec

-----------------------------------------------------------------------------
(***************************************************************************)
(* What a batch without errors leaves behind                               *)
(***************************************************************************)

\* As long as nothing failed, the integrated tasks are on record.
OnRecord(t) ==
  /\ notes[t] # NoFile /\ notes[t].status = plan[t]
  /\ plan[t] # "todo"

Current == IF bpc \in {"finalize"} \cup Recordings THEN {cur} ELSE {}

RecordParts ==
  InBatch /\ ~errors /\ fpc # "exitError" =>
    /\ \A t \in batch \ (left \cup Current) : OnRecord(t) /\ head[t] = plan[t]
    /\ fpc \in {"verify", "apply"} => fnotes = notes
    /\ fpc \in {"removeReview", "saveNotes"}
         => fnotes = [notes EXCEPT ![cur] = fnotes[cur]]
    /\ fpc \in Applied => fnotes[cur] # NoFile /\ fnotes[cur].status = fplan[cur]
    /\ fpc = "savePlan" => notes = fnotes
    /\ fpc \in {"commit", "exitOK"} => OnRecord(cur)
    /\ fpc = "exitOK" => head[cur] = plan[cur]

\* As long as nothing failed, the root workspace holds nothing of stranded work
\* but that of the task that is being taken back.
UndoParts ==
  /\ InBatch => tree \cup headTree \subseteq batch \ left
  /\ InBatch /\ ~errors =>
       /\ stranded \cap (tree \cup headTree)
            \subseteq IF bpc \in {"unverified", "undo", "followUp"} THEN {cur} ELSE {}
       /\ bpc = "unverified" /\ cur \in stranded => applied
       /\ bpc = "followUp" /\ cur \in stranded => cur \notin tree

\* Once a batch has begun, only it and its end concern it.
LEMMA InBatchSteps ==
  ASSUME ParallelNext, InBatch, InBatch'
  PROVE  \/ IntegrateFailure \/ IntegrateUncollected \/ IntegrateStopped
         \/ IntegrateRefused \/ IntegrateApplied \/ WriteResultFails
         \/ BatchFinalizer \/ Recorded \/ Finalized
         \/ VerificationFailed \/ VerificationRecorded \/ FinalizerFailed
         \/ Undo \/ FollowUp \/ TakeBackFails
BY DEF ParallelNext, ParallelRunnerStep, InBatch, SelectSingle, SelectTask,
       SingleStep, StopBeforeIteration, InspectOutputs, RecheckOutputs,
       RepairPromptFailed, RecordUnreviewed, FinalizeSucceeded, FinalizeFailed,
       SingleFinalize,
       Finalize, EndSingle, EndIteration, EndIterationFails, SingleAgentStep,
       AgentStep, RunPrompt, RepairNotes, RepairOutputs, ParallelStart, Start,
       FixNotes, ParallelCrash, Crash, StopRun, BatchStep, StartBatch, BatchReady,
       BatchCannotStart, EndBatch, BatchFails, GoTo

LEMMA IntoBatch ==
  ASSUME ParallelNext, PInv, ~InBatch, InBatch'
  PROVE  StartBatch
<1>1. CASE BatchStep
  BY <1>1 DEF BatchStep, InBatch, BatchCannotStart, BatchReady, IntegrateFailure,
       IntegrateUncollected, IntegrateStopped, IntegrateRefused, IntegrateApplied,
       WriteResultFails, IsNext, BatchFinalizer, Recorded, Finalized,
       VerificationFailed, VerificationRecorded, FinalizerFailed, Undo, FollowUp,
       TakeBackFails, EndBatch, BatchFails, StopRun
<1>2. CASE ~BatchStep
  <2>1. Next
    BY <1>2, TaskStays
       DEF ParallelNext, ParallelRunnerStep, SelectSingle, SingleStep, SingleFinalize,
           EndSingle, SingleAgentStep, ParallelStart, ParallelCrash, Next, RunnerStep
  <2>2. QED
    BY <2>1, SerialKeeps
<1>3. QED
  BY <1>1, <1>2

LEMMA RecordPartsStep ==
  ASSUME PInv, RecordParts, ParallelNext
  PROVE  RecordParts'
<1> SUFFICES ASSUME InBatch', ~errors', fpc' # "exitError"
             PROVE  RecordParts'
  BY DEF RecordParts
<1>1. CASE ~InBatch
  <2>1. StartBatch /\ fpc = "idle"
    BY <1>1, IntoBatch DEF PInv, StepControl, InBatch, StartBatch, BatchReady
  <2>2. batch' = left' /\ fpc' = "idle"
    BY <2>1 DEF StartBatch
  <2>3. QED
    BY <2>2 DEF RecordParts, Applied
<1>2. CASE InBatch
  <2> USE <1>2
  <2>1. /\ BatchControl /\ BatchCopies /\ FinalizerTypeOK /\ cur \in Tasks
        /\ batch \subseteq Tasks
    BY DEF PInv, ParallelTypeOK, RunTypeOK
  <2>2. CASE IntegrateStopped \/ IntegrateRefused
    <3>0. /\ Recordable
          /\ \E t \in Tasks, next \in Recordings, status \in ResultStatuses, x \in Texts :
               IsNext(t) /\ Take(t) /\ Record(t, status, x, next)
      <4>1. CASE IntegrateStopped
        <5>1. Recordable
          BY <4>1, Zenon DEF IntegrateStopped
        <5>2. PICK t \in Tasks, w \in WorkerResults :
                IsNext(t) /\ Take(t) /\ Record(t, w.status, w.text, "stopped")
          BY <4>1 DEF IntegrateStopped
        <5>3. QED
          BY <5>1, <5>2, WorkerTypes DEF Recordings
      <4>2. CASE IntegrateRefused
        <5>1. Recordable
          BY <4>2, Zenon DEF IntegrateRefused
        <5>2. PICK t \in Tasks, w \in WorkerResults :
                /\ IsNext(t) /\ Take(t)
                /\ Record(t, "in_progress", WithMark(w.text, "unapplied"), "unapplied")
          BY <4>2 DEF IntegrateRefused
        <5>3. WithMark(w.text, "unapplied") \in Texts /\ "in_progress" \in ResultStatuses
          BY WorkerTypes, TextTypes DEF Marks, ResultStatuses, Statuses
        <5>4. QED
          BY <5>1, <5>2, <5>3 DEF Recordings
      <4>3. QED
        BY <2>2, <4>1, <4>2
    <3>1. PICK t \in Tasks, next \in Recordings, status \in ResultStatuses, x \in Texts :
            IsNext(t) /\ Take(t) /\ Record(t, status, x, next) /\ Recordable
      BY <3>0
    <3>2. UNCHANGED <<batch, plan, notes, head>>
      BY <2>2 DEF IntegrateStopped, IntegrateRefused, KeepBatch, files
    <3>3. /\ bpc' \in Recordings /\ fpc' = "saveNotes" /\ cur' = t
          /\ fplan' = [plan EXCEPT ![t] = status]
          /\ fnotes' = [notes EXCEPT ![t] = [status |-> status, text |-> x]]
      BY <3>1 DEF Record, Take
    <3>4. \A u \in batch \ left : OnRecord(u) /\ head[u] = plan[u]
      BY <2>2, <3>1, TakenTask
         DEF RecordParts, Current, IntegrateStopped, IntegrateRefused, Recordings
    <3>5. \A u \in batch' \ (left' \cup Current') : OnRecord(u)' /\ head'[u] = plan'[u]
      BY <3>1, <3>2, <3>3, <3>4, TakenTask DEF Current, OnRecord
    <3>6. /\ fnotes' = [notes' EXCEPT ![cur'] = fnotes'[cur']]
          /\ fnotes'[cur'] # NoFile /\ fnotes'[cur'].status = fplan'[cur']
      BY <2>1, <3>2, <3>3 DEF FinalizerTypeOK, NoFile
    <3>7. QED
      BY <3>3, <3>5, <3>6 DEF RecordParts
  <2>3. CASE IntegrateApplied
    <3>1. PICK t \in Tasks : IsNext(t) /\ Take(t)
      BY <2>3 DEF IntegrateApplied
    <3>2. /\ UNCHANGED <<batch, plan, notes, head, errors>>
          /\ bpc' = "finalize" /\ fpc' = "load"
      BY <2>3 DEF IntegrateApplied, KeepBatch
    <3>3. \A u \in batch' \ (left' \cup Current') : OnRecord(u)' /\ head'[u] = plan'[u]
      BY <3>1, <3>2, TakenTask DEF RecordParts, Current, OnRecord, Recordings
    <3>4. QED
      BY <3>2, <3>3 DEF RecordParts, Applied
  <2>4. CASE VerificationFailed
    <3>1. PICK x : Record(cur, "in_progress", x, "unverified") /\ Recordable
      BY <2>4 DEF VerificationFailed
    <3>2. /\ UNCHANGED <<batch, left, cur, plan, notes, head>> /\ ~errors
          /\ bpc = "finalize" /\ fpc = "exitVerify"
      BY <2>4 DEF VerificationFailed, KeepBatch, KeepTask, files
    <3>3. /\ bpc' = "unverified" /\ fpc' = "saveNotes"
          /\ fplan' = [plan EXCEPT ![cur] = "in_progress"]
          /\ fnotes' = [notes EXCEPT ![cur] = [status |-> "in_progress", text |-> x]]
      BY <3>1 DEF Record
    <3>4. \A u \in batch' \ (left' \cup Current') : OnRecord(u)' /\ head'[u] = plan'[u]
      BY <3>2, <3>3 DEF RecordParts, Current, OnRecord, Recordings
    <3>5. /\ fnotes' = [notes' EXCEPT ![cur'] = fnotes'[cur']]
          /\ fnotes'[cur'] # NoFile /\ fnotes'[cur'].status = fplan'[cur']
      BY <2>1, <3>2, <3>3 DEF FinalizerTypeOK, NoFile
    <3>6. QED
      BY <3>3, <3>4, <3>5 DEF RecordParts
  <2>5. CASE Recorded \/ Finalized \/ VerificationRecorded
    <3>1. /\ UNCHANGED <<batch, left, cur, plan, notes, head>> /\ ~errors
          /\ fpc = "exitOK" /\ fpc' = "idle"
          /\ bpc' \in {"next", "undo", "followUp"}
      BY <2>5 DEF Recorded, Finalized, VerificationRecorded, KeepBatch, KeepTask,
                  KeepFiles, files, NextTask, TakeBack
    <3>2. \A u \in batch' \ (left' \cup Current') : OnRecord(u)' /\ head'[u] = plan'[u]
      BY <3>1 DEF RecordParts, Current, OnRecord, Recordings
    <3>3. QED
      BY <3>1, <3>2 DEF RecordParts, Applied
  <2>6. CASE Undo \/ FollowUp
    <3>1. /\ UNCHANGED <<batch, left, cur, plan, notes, errors>>
          /\ head' \in {head, plan}
          /\ bpc \in {"undo", "followUp"} /\ bpc' \in {"next", "followUp"}
          /\ fpc' = "idle"
      BY <2>1, <2>6 DEF Undo, FollowUp, KeepBatch, KeepTask, KeepFiles, files, NextTask,
                        BatchControl
    <3>2. fpc = "idle"
      BY <2>1, <3>1 DEF BatchControl
    <3>3. \A u \in batch' \ (left' \cup Current') : OnRecord(u)' /\ head'[u] = plan'[u]
      BY <3>1, <3>2 DEF RecordParts, Current, OnRecord, Recordings
    <3>4. QED
      BY <3>1, <3>3 DEF RecordParts, Applied
  <2>7. CASE BatchFinalizer
    <3>1. /\ FinalizerStep(cur) /\ UNCHANGED <<cur, batch, left, bpc, errors>>
          /\ Current' = Current
      BY <2>7 DEF BatchFinalizer, KeepBatch, Current
    <3>2. bpc \in {"finalize"} \cup Recordings /\ Current = {cur}
          /\ fpc # "exitError"
      <4>1. fpc \in Phases
        BY <3>1, FinalizerAssumption
           DEF FinalizerStep, FinLoadFails, FinLoad, FinVerifyPasses, FinVerifyFails,
               FinApply, FinRemoveReview, FinSaveNotes, FinSavePlan, FinCommit,
               FinAborts, Phases
      <4>2. QED
        BY <2>1, <4>1 DEF PInv, ParallelTypeOK, BatchPhases, BatchControl, Current, Phases
    <3>3. plan \in [Tasks -> Statuses] /\ notes \in [Tasks -> Notes \cup {NoFile}]
          /\ fnotes \in [Tasks -> Notes \cup {NoFile}]
      BY <2>1 DEF FinalizerTypeOK
    <3>4. /\ \A u \in batch \ (left \cup {cur}) : OnRecord(u) /\ head[u] = plan[u]
          /\ fpc \in {"verify", "apply"} => fnotes = notes
          /\ fpc \in {"removeReview", "saveNotes"}
               => fnotes = [notes EXCEPT ![cur] = fnotes[cur]]
          /\ fpc \in Applied => fnotes[cur] # NoFile /\ fnotes[cur].status = fplan[cur]
          /\ fpc = "savePlan" => notes = fnotes
          /\ fpc \in {"commit", "exitOK"} => OnRecord(cur)
      BY <3>1, <3>2 DEF RecordParts
    <3> HIDE DEF RecordParts
    <3>5. CASE FinLoadFails(cur) \/ FinAborts
      BY <3>5 DEF FinLoadFails, FinAborts
    <3>6. CASE FinLoad(cur) \/ FinVerifyPasses(cur) \/ FinVerifyFails(cur)
      BY <3>1, <3>2, <3>4, <3>6
         DEF FinLoad, FinVerifyPasses, FinVerifyFails, files, RecordParts, OnRecord,
             Applied
    <3>7. CASE FinApply(cur)
      <4>1. /\ fnotes' = [notes EXCEPT ![cur] = fresult] /\ fpc' = "removeReview"
            /\ fplan' = [fplan EXCEPT ![cur] = fresult.status]
            /\ UNCHANGED <<plan, notes, head>>
        BY <3>4, <3>7 DEF FinApply
      <4>2. fresult \in Results /\ NoFile \notin Results /\ fplan \in [Tasks -> Statuses]
        BY <2>1 DEF FinalizerTypeOK, NoFile, Results
      <4>3. QED
        BY <2>1, <3>1, <3>2, <3>3, <3>4, <4>1, <4>2 DEF RecordParts, OnRecord
    <3>8. CASE FinRemoveReview(cur) \/ FinSaveNotes
      <4>1. /\ fpc \in Applied /\ fpc' \in {"saveNotes", "savePlan"}
            /\ notes' \in {notes, fnotes} /\ UNCHANGED <<plan, head, fnotes, fplan>>
            /\ fpc' = "savePlan" => notes' = fnotes
            /\ fpc' = "saveNotes" => notes' = notes
            /\ fpc \in {"removeReview", "saveNotes"}
        BY <3>8 DEF FinRemoveReview, FinSaveNotes, Applied
      <4>2. \A u \in Tasks \ {cur} : notes'[u] = notes[u]
        BY <2>1, <3>3, <3>4, <4>1
      <4>3. QED
        BY <2>1, <3>1, <3>2, <3>4, <4>1, <4>2 DEF RecordParts, OnRecord
    <3>9. CASE FinSavePlan
      <4>1. /\ plan' = [plan EXCEPT ![cur] = fplan[cur]] /\ fplan[cur] # "todo"
            /\ notes' = notes /\ head' = head /\ notes = fnotes
            /\ fnotes[cur] # NoFile /\ fnotes[cur].status = fplan[cur]
            /\ fpc' \in {"exitVerify", "commit"}
        BY <2>1, <3>4, <3>9 DEF FinSavePlan, BatchCopies, Applied
      <4>2. QED
        BY <2>1, <3>1, <3>2, <3>3, <3>4, <4>1 DEF RecordParts, OnRecord, Applied
    <3>10. CASE FinCommit
      BY <2>1, <3>1, <3>2, <3>4, <3>10 DEF FinCommit, RecordParts, OnRecord, Applied
    <3>11. QED
      BY <3>1, <3>5, <3>6, <3>7, <3>8, <3>9, <3>10 DEF FinalizerStep
  <2>8. CASE IntegrateFailure \/ IntegrateUncollected \/ WriteResultFails
             \/ FinalizerFailed \/ TakeBackFails
    BY <2>8 DEF IntegrateFailure, IntegrateUncollected, WriteResultFails,
                FinalizerFailed, TakeBackFails
  <2>9. QED
    BY <2>2, <2>3, <2>4, <2>5, <2>6, <2>7, <2>8, InBatchSteps
<1>3. QED
  BY <1>1, <1>2

\* The one way from a batch to the next iteration.
LEMMA OutOfBatch ==
  ASSUME ParallelNext, InBatch, rpc' = "select"
  PROVE  bpc = "next" /\ left = {} /\ ~errors
<1>1. EndBatch
  BY DEF ParallelNext, ParallelRunnerStep, InBatch, SelectSingle, SelectTask,
       SingleStep, StopBeforeIteration, InspectOutputs, RecheckOutputs,
       RepairPromptFailed, RecordUnreviewed, FinalizeSucceeded, FinalizeFailed,
       SingleFinalize,
       Finalize, EndSingle, EndIteration, EndIterationFails, SingleAgentStep,
       AgentStep, RunPrompt, RepairNotes, RepairOutputs, ParallelStart, Start,
       FixNotes, ParallelCrash, Crash, StopRun, BatchStep, StartBatch,
       BatchCannotStart, IntegrateFailure, IntegrateUncollected, IntegrateStopped,
       IntegrateRefused, IntegrateApplied, WriteResultFails, BatchFinalizer,
       Recorded, Finalized, VerificationFailed, VerificationRecorded,
       FinalizerFailed, Undo, FollowUp, TakeBackFails, BatchFails, KeepRun
<1>2. QED
  BY <1>1 DEF EndBatch

\* After a batch without errors plan, notes and HEAD agree on every task of it.
THEOREM ParallelBatchIsRecorded == ParallelSpec => BatchIsRecorded
<1> DEFINE OnRecordAtEnd ==
      rpc = "batch" /\ rpc' = "select" =>
        \A t \in batch : /\ notes[t] # NoFile /\ notes[t].status = plan[t]
                          /\ plan[t] # "todo" /\ head[t] = plan[t]
<1>1. ParallelInit => RecordParts
  BY DEF ParallelInit, Init, RecordParts, InBatch
<1>2. PInv /\ RecordParts /\ [ParallelNext]_pvars => RecordParts'
  <2>1. CASE UNCHANGED pvars
    <3>1. UNCHANGED <<files, fvars, rvars, bvars>>
      BY <2>1 DEF pvars, vars
    <3>2. QED
      BY <3>1 DEF files, fvars, rvars, bvars, RecordParts, InBatch, Current, OnRecord
  <2>2. QED
    BY <2>1, RecordPartsStep
<1>3. PInv /\ RecordParts /\ [ParallelNext]_pvars => [OnRecordAtEnd]_pvars
  <2> SUFFICES ASSUME PInv, RecordParts, ParallelNext, rpc = "batch", rpc' = "select"
               PROVE  OnRecordAtEnd
    OBVIOUS
  <2>1. bpc = "next" /\ left = {} /\ ~errors
    BY OutOfBatch DEF InBatch
  <2>2. fpc = "idle"
    BY <2>1 DEF PInv, BatchControl, InBatch
  <2>3. QED
    BY <2>1, <2>2 DEF RecordParts, Current, OnRecord, InBatch, Recordings
<1>4. QED
  BY <1>1, <1>2, <1>3, ParallelInvariant, PTL DEF ParallelSpec, BatchIsRecorded

LEMMA UndoPartsStep ==
  ASSUME PInv, UndoParts, ParallelNext, "sync" \notin Failures
  PROVE  UndoParts'
<1> SUFFICES ASSUME InBatch' PROVE UndoParts'
  BY DEF UndoParts
<1>1. CASE ~InBatch
  <2>1. StartBatch
    BY <1>1, IntoBatch
  <2>2. tree' = {} /\ headTree' = {} /\ bpc' = "next"
    BY <2>1 DEF StartBatch
  <2>3. QED
    BY <2>2 DEF UndoParts
<1>2. CASE InBatch
  <2> USE <1>2
  <2>1. /\ BatchControl /\ PatchParts /\ cur \in Tasks /\ left \subseteq batch
        /\ tree \cup headTree \subseteq batch \ left
    BY DEF PInv, RunTypeOK, ParallelTypeOK, UndoParts
  <2>2. CASE IntegrateFailure \/ IntegrateUncollected \/ WriteResultFails
    <3>1. PICK t \in Tasks, w \in {TRUE, FALSE} :
            IsNext(t) /\ Take(t) /\ tree' = IF w THEN tree \cup {t} ELSE tree
      BY <2>2, WorkerTypes DEF IntegrateFailure, IntegrateUncollected, WriteResultFails
    <3>2. errors' = TRUE /\ UNCHANGED <<headTree, batch>>
      BY <2>2 DEF IntegrateFailure, IntegrateUncollected, WriteResultFails, KeepBatch
    <3>3. QED
      BY <2>1, <3>1, <3>2, TakenTask DEF UndoParts
  <2>3. CASE IntegrateStopped
    <3>1. PICK t \in Tasks : /\ IsNext(t) /\ Take(t)
                             /\ bpc' \in {"next", "stopped"}
                             /\ stranded' \in {stranded, stranded \cup {t}}
      BY <2>3 DEF IntegrateStopped, Record, NextTask
    <3>2. /\ UNCHANGED <<tree, headTree, batch>>
          /\ ~errors' => ~errors
      BY <2>3 DEF IntegrateStopped, KeepBatch
    <3>3. t \notin tree \cup headTree
      BY <2>1, <3>1, TakenTask
    <3>4. QED
      BY <2>1, <3>1, <3>2, <3>3, TakenTask DEF UndoParts
  <2>4. CASE IntegrateRefused
    <3>1. PICK t \in Tasks : /\ IsNext(t) /\ Take(t)
                             /\ bpc' \in {"next", "unapplied"}
                             /\ stranded' = stranded \cup {t}
      BY <2>4 DEF IntegrateRefused, Record, NextTask
    <3>2. /\ UNCHANGED <<tree, headTree, batch>>
          /\ ~errors' => ~errors
      BY <2>4 DEF IntegrateRefused, KeepBatch
    <3>3. t \notin tree \cup headTree
      BY <2>1, <3>1, TakenTask
    <3>4. QED
      BY <2>1, <3>1, <3>2, <3>3, TakenTask DEF UndoParts
  <2>5. CASE IntegrateApplied
    <3>1. PICK t \in Tasks, w \in WorkerResults :
            /\ IsNext(t) /\ Take(t) /\ tree' = IF w.changes THEN tree \cup {t} ELSE tree
      BY <2>5 DEF IntegrateApplied
    <3>2. UNCHANGED <<headTree, batch, stranded, errors>> /\ bpc' = "finalize"
      BY <2>5 DEF IntegrateApplied, KeepBatch, promises
    <3>3. QED
      BY <2>1, <3>1, <3>2, TakenTask DEF UndoParts
  <2>6. CASE BatchFinalizer
    <3>1. /\ headTree' \in {headTree, tree}
          /\ UNCHANGED <<cur, batch, left, bpc, applied, errors, tree, stranded>>
      BY <2>6 DEF BatchFinalizer, KeepBatch, promises
    <3>2. bpc # "followUp" \/ headTree' = headTree
      <4>1. fpc' # "exitOK" \/ fpc = "commit"
        BY <2>6 DEF BatchFinalizer, FinalizerStep, FinLoadFails, FinLoad,
             FinVerifyPasses, FinVerifyFails, FinApply, FinRemoveReview,
             FinSaveNotes, FinSavePlan, FinCommit, FinAborts
      <4>2. QED
        BY <2>1, <2>6 DEF BatchFinalizer, Committing, BatchControl
    <3>3. QED
      BY <2>1, <3>1, <3>2 DEF UndoParts
  <2>7. CASE VerificationFailed
    <3>1. /\ UNCHANGED <<cur, left, batch, applied, tree, headTree>>
          /\ ~errors' => ~errors /\ Recordable
          /\ bpc = "finalize" /\ stranded' = IF applied THEN stranded \cup {cur} ELSE stranded
      BY <2>7 DEF VerificationFailed, KeepTask, KeepBatch
    <3>2. Recordable => bpc' = "unverified"
      BY <2>7 DEF VerificationFailed, Record
    <3>3. QED
      BY <2>1, <3>1, <3>2 DEF UndoParts, PatchParts
  <2>8. CASE VerificationRecorded
    BY <2>1, <2>8 DEF VerificationRecorded, TakeBack, NextTask, KeepTask, KeepBatch,
                      promises, UndoParts
  <2>9. CASE Recorded \/ Finalized
    BY <2>1, <2>9 DEF Recorded, Finalized, NextTask, KeepTask, KeepBatch, Recordings,
                      promises, UndoParts
  <2>10. CASE Undo \/ FollowUp
    BY <2>1, <2>10 DEF Undo, FollowUp, NextTask, KeepTask, KeepBatch, promises,
                       UndoParts
  <2>11. CASE FinalizerFailed \/ TakeBackFails
    BY <2>1, <2>11 DEF FinalizerFailed, TakeBackFails, KeepTask, KeepBatch, promises,
                       UndoParts
  <2>12. QED
    BY <2>2, <2>3, <2>4, <2>5, <2>6, <2>7, <2>8, <2>9, <2>10, <2>11, InBatchSteps
<1>3. QED
  BY <1>1, <1>2

\* A batch without errors leaves nothing of changes that were refused or did
\* not verify, unless a file sync was refused half way.
THEOREM ParallelRejectedIsUndone ==
  ASSUME "sync" \notin Failures
  PROVE  ParallelSpec => RejectedIsUndone
<1> DEFINE UndoneAtEnd ==
      rpc = "batch" /\ rpc' = "select" => stranded \cap (tree \cup headTree) = {}
<1>1. ParallelInit => UndoParts
  BY DEF ParallelInit, Init, UndoParts, InBatch
<1>2. PInv /\ UndoParts /\ [ParallelNext]_pvars => UndoParts'
  <2>1. CASE UNCHANGED pvars
    <3>1. UNCHANGED <<files, fvars, rvars, bvars>>
      BY <2>1 DEF pvars, vars
    <3>2. QED
      BY <3>1 DEF rvars, bvars, UndoParts, InBatch
  <2>2. QED
    BY <2>1, UndoPartsStep
<1>3. PInv /\ UndoParts /\ [ParallelNext]_pvars => [UndoneAtEnd]_pvars
  <2> SUFFICES ASSUME PInv, UndoParts, ParallelNext, rpc = "batch", rpc' = "select"
               PROVE  UndoneAtEnd
    OBVIOUS
  <2>1. bpc = "next" /\ ~errors
    BY OutOfBatch DEF InBatch
  <2>2. QED
    BY <2>1 DEF UndoParts, InBatch
<1>4. QED
  BY <1>1, <1>2, <1>3, ParallelInvariant, PTL DEF ParallelSpec, RejectedIsUndone

-----------------------------------------------------------------------------
(***************************************************************************)
(* Who runs alone                                                          *)
(*                                                                         *)
(* The two stall counters, and the changes agents left in the root         *)
(* workspace, belong to tasks the code does not remember.  That the next   *)
(* iteration takes them follows from the batch being a function of the     *)
(* plan (OneBatch): as long as the plan stays as it was, or only starts    *)
(* the task that is alone (StartedStaysAlone), it takes the same tasks.    *)
(***************************************************************************)

\* The plan the batch was chosen from.
BeginPlan == [t \in Tasks |-> IF t \in batch THEN bsig[t][1] ELSE plan[t]]

IsAlone(t) == IsBatch(plan, {t})

AloneParts ==
  /\ ~InBatch /\ Working => IsAlone(cur) /\ plan[cur] = sig[1]
  /\ rpc \in {"finalize", "endIteration"} /\ plan[cur] = sig[1] => IsAlone(cur)
  /\ rpc = "select" /\ stalled > 0 => IsAlone(cur)
  /\ rpc = "select" /\ bcount > 0 => IsBatch(plan, bkey) /\ Cardinality(bkey) > 1
  /\ rpc \notin {"off", "select", "batch"} => bcount = 0
  /\ InBatch => stalled = 0 /\ Cardinality(batch) > 1 /\ IsBatch(BeginPlan, batch)
  /\ \A t \in unsettled : plan[t] \notin Terminal => ~InBatch /\ IsAlone(t)

\* A task that runs alone is in no larger batch.
LEMMA AloneOrNot ==
  ASSUME plan \in [Tasks -> Statuses], NEW t, IsAlone(t), NEW S, IsBatch(plan, S)
  PROVE  S = {t} /\ Cardinality(S) = 1
BY OneBatch, FS_Singleton DEF IsAlone

LEMMA OneAlone ==
  ASSUME plan \in [Tasks -> Statuses], NEW t, NEW u, IsAlone(t), IsAlone(u)
  PROVE  t = u
<1>1. {t} = {u}
  BY OneBatch DEF IsAlone
<1>2. QED
  BY <1>1

\* What the steps of an iteration after its first one do with its task.
Turn ==
  /\ cur' = cur /\ sig' = sig
  /\ rpc' \notin {"off", "select"} => rpc \notin {"off", "select"}
  /\ rpc' \in {"finalize", "endIteration"}
       => rpc \in {"finalize", "endIteration"} \cup AgentPhases
  /\ rpc' = "select" /\ stalled' > 0 => rpc = "endIteration" /\ plan[cur] = sig[1]
  /\ rpc' = "select" => rpc \in {"endIteration", "off"}

LEMMA TurnStep ==
  ASSUME TypeOK, StepControl, Next, ~Finalize, ~SelectTask
  PROVE  Turn
<1> USE DEF Turn, AgentPhases
<1>1. CASE Start \/ FixNotes
  BY <1>1 DEF Start, FixNotes, rvars
<1>2. CASE StopBeforeIteration \/ EndIterationFails \/ Crash
  BY <1>2 DEF StopBeforeIteration, EndIterationFails, Crash, StopRun, KeepIteration
<1>3. CASE \/ AgentStep \/ InspectOutputs \/ RecheckOutputs
             \/ RepairPromptFailed \/ RecordUnreviewed
  <2>1. rpc \in AgentPhases /\ UNCHANGED <<cur, sig, stalled>>
    BY <1>3 DEF AgentStep, RunPrompt, RepairNotes, RepairOutputs, InspectOutputs,
                RecheckOutputs, RepairPromptFailed, RecordUnreviewed,
              KeepIteration
  <2>2. rpc' # "select"
    BY <1>3 DEF AgentStep, RunPrompt, RepairNotes, RepairOutputs, InspectOutputs,
                RecheckOutputs, RepairPromptFailed, RecordUnreviewed, FallbackReview,
                GoTo, GoToStep, StepFails, StopRun, EndSteps
  <2>3. QED
    BY <2>1, <2>2
<1>4. CASE FinalizeSucceeded \/ FinalizeFailed
  BY <1>4 DEF FinalizeSucceeded, FinalizeFailed, KeepIteration, GoToStep, StepFails,
              StopRun, EndSteps
<1>5. CASE EndIteration
  BY <1>5 DEF EndIteration, StopRun, GoTo, Signature
<1>6. QED
  BY <1>1, <1>2, <1>3, <1>4, <1>5 DEF Next, RunnerStep

LEMMA SerialKeepsAlone ==
  ASSUME PInv, AloneParts, ~InBatch, Next,
         SelectTask => IsAlone(FindNextReady(plan)),
         UNCHANGED <<bkey, bcount>> \/ (rpc = "off" /\ bcount' = 0),
         rpc = "off" /\ rpc' # "off" => bcount' = 0,
         unsettled' \subseteq unsettled
           \cup (IF SelectTask THEN {FindNextReady(plan)} ELSE {})
  PROVE  AloneParts'
<1>1. /\ TypeOK /\ StepControl /\ SafetyParts /\ ~InBatch'
      /\ plan \in [Tasks -> Statuses] /\ cur \in Tasks /\ bcount \in Nat
  BY SerialKeeps, SerialTypes DEF PInv, TypeOK, FinalizerTypeOK, ParallelTypeOK
<1>2. CASE Finalize
  <2>1. UNCHANGED <<cur, sig, rpc, stalled>> /\ rpc = "finalize" /\ ~SelectTask
    BY <1>2 DEF Finalize, rvars, SelectTask
  <2>2. Working' => Working
    BY <1>2, <2>1 DEF Finalize, FinalizerStep, FinLoadFails, FinLoad, FinVerifyPasses,
         FinVerifyFails, FinApply, FinRemoveReview, FinSaveNotes, FinCommit,
         FinSavePlan, FinAborts, Working, AgentPhases, Unapplied, Applied
  <2>3. unsettled' \subseteq unsettled /\ bcount' = bcount
    BY <2>1
  <2>4. CASE plan' = plan
    BY <1>1, <2>1, <2>2, <2>3, <2>4 DEF AloneParts, IsAlone
  <2>5. CASE plan' # plan
    <3>1. FinSavePlan
      BY <1>2, <2>5 DEF Finalize, FinalizerStep, FinLoadFails, FinLoad,
           FinVerifyPasses, FinVerifyFails, FinApply, FinRemoveReview, FinSaveNotes,
           FinCommit, FinAborts, files
    <3>2. /\ plan' = [plan EXCEPT ![cur] = fresult.status]
          /\ fresult.status \in {"in_progress"} \cup Terminal
      BY <1>1, <3>1 DEF FinSavePlan, SafetyParts, CopyMatches, Applied, TypeOK,
           FinalizerTypeOK, Results, ResultStatuses, Statuses, Terminal
    <3>3. IsAlone(cur) /\ plan[cur] = sig[1]
      BY <1>1, <3>1 DEF AloneParts, Working, FinSavePlan, Applied
    <3>4. ~Working'
      BY <2>1, <3>1 DEF FinSavePlan, Working, AgentPhases, Unapplied, Applied
    <3>5. plan'[cur] # sig[1]
      BY <1>1, <2>5, <3>2, <3>3
    <3>6. \A t \in unsettled : plan[t] \notin Terminal => t = cur
      BY <1>1, <3>3, OneAlone DEF AloneParts
    <3>7. fresult.status = "in_progress" => IsAlone(cur)'
      BY <1>1, <2>1, <3>2, <3>3, StartedStaysAlone DEF IsAlone
    <3>8. \A t \in unsettled : plan'[t] \notin Terminal => IsAlone(t)'
      <4>1. SUFFICES ASSUME NEW t \in unsettled, plan'[t] \notin Terminal
                     PROVE  IsAlone(t)'
        OBVIOUS
      <4>2. t \in Tasks
        BY DEF PInv, ParallelTypeOK
      <4>3. t = cur
        BY <1>1, <3>2, <3>6, <4>1, <4>2
      <4>4. fresult.status = "in_progress"
        BY <1>1, <3>2, <4>1, <4>3
      <4>5. QED
        BY <2>1, <3>7, <4>3, <4>4 DEF IsAlone
    <3>9. QED
      BY <1>1, <2>1, <2>3, <3>4, <3>5, <3>8 DEF AloneParts
  <2>6. QED
    BY <2>4, <2>5
<1>3. CASE SelectTask
  <2>1. /\ plan' = plan /\ cur' = FindNextReady(plan) /\ sig'[1] = plan[cur']
        /\ rpc = "select" /\ rpc' \notin {"select", "off"}
        /\ IsAlone(cur')
    BY <1>3 DEF SelectTask, files, Signature, GoToStep
  <2>2. bcount' = 0
    <3>1. bcount' = bcount
      BY <2>1
    <3>2. bcount > 0 => IsBatch(plan, bkey) /\ Cardinality(bkey) > 1
      BY <2>1 DEF AloneParts
    <3>3. bcount > 0 => Cardinality(bkey) = 1
      BY <1>1, <2>1, <3>2, AloneOrNot
    <3>4. QED
      BY <1>1, <3>1, <3>2, <3>3
  <2>3. unsettled' \subseteq unsettled \cup {cur'}
    BY <1>3, <2>1
  <2>4. QED
    BY <1>1, <2>1, <2>2, <2>3 DEF AloneParts, IsAlone
<1>4. CASE ~Finalize /\ ~SelectTask
  <2>1. /\ plan' = plan
        /\ Working' => rpc \in AgentPhases /\ cur' = cur
    BY <1>1, <1>4, OtherSteps DEF Working
  <2>2. Turn
    BY <1>1, <1>4, TurnStep
  <2>3. QED
    <3>1. bcount' > 0 => rpc' # "select" /\ rpc' \in {"off", "select", "batch"}
      BY <1>1, <2>2 DEF AloneParts, Turn, InBatch
    <3>2. unsettled' \subseteq unsettled
      BY <1>4
    <3>3. bcount' \in Nat
      BY <1>1
    <3>4. rpc \in AgentPhases => IsAlone(cur) /\ plan[cur] = sig[1]
      BY DEF AloneParts, Working
    <3>5. \A t : IsBatch(plan', t) <=> IsBatch(plan, t)
      BY <2>1
    <3>6. QED
      BY <1>1, <2>1, <2>2, <3>1, <3>2, <3>3, <3>4, <3>5
         DEF AloneParts, IsAlone, Turn
<1>5. QED
  BY <1>2, <1>3, <1>4

LEMMA SerialSide ==
  ASSUME PInv, ParallelNext, ~InBatch, ~BatchStep
  PROVE  /\ Next
         /\ SelectTask => IsAlone(FindNextReady(plan))
         /\ UNCHANGED <<bkey, bcount>> \/ (rpc = "off" /\ bcount' = 0)
         /\ rpc = "off" /\ rpc' # "off" => bcount' = 0
         /\ unsettled' \subseteq unsettled
              \cup (IF SelectTask THEN {FindNextReady(plan)} ELSE {})
<1>1. CASE SelectSingle
  BY <1>1 DEF SelectSingle, SelectTask, IsAlone, Next, RunnerStep, trackers
<1>2. CASE ParallelStart
  BY <1>2 DEF ParallelStart, Start, SelectTask, Next
<1>3. CASE SingleStep \/ SingleFinalize \/ EndSingle \/ SingleAgentStep
           \/ ParallelCrash \/ (FixNotes /\ UNCHANGED <<bvars, unsettled>>)
  <2>1. Next
    BY <1>3, TaskStays DEF SingleStep, SingleFinalize, EndSingle, SingleAgentStep,
         ParallelCrash
  <2>2. UNCHANGED <<bkey, bcount>> /\ unsettled' \subseteq unsettled
    BY <1>3 DEF SingleStep, SingleFinalize, EndSingle, SingleAgentStep, ParallelCrash,
         Settle, bvars, trackers
  <2>3. /\ rpc = "off" => rpc' = "off"
        /\ rpc # "select" \/ rpc' = "off"
    BY <1>3 DEF SingleStep, StopBeforeIteration, InspectOutputs, RecheckOutputs,
         RepairPromptFailed, RecordUnreviewed, FinalizeSucceeded, FinalizeFailed,
         SingleFinalize,
         Finalize, EndSingle, EndIteration, EndIterationFails, SingleAgentStep,
         AgentStep, RunPrompt, RepairNotes, RepairOutputs, ParallelCrash, Crash,
         StopRun, FixNotes, rvars
  <2>4. ~SelectTask
    BY <2>3 DEF SelectTask, GoToStep
  <2>5. QED
    BY <2>1, <2>2, <2>3, <2>4
<1>4. QED
  BY <1>1, <1>2, <1>3 DEF ParallelNext, ParallelRunnerStep

LEMMA BatchKeepsAlone ==
  ASSUME PInv, AloneParts, ParallelNext, InBatch, InBatch'
  PROVE  AloneParts'
<1>1. /\ UNCHANGED <<batch, bsig, stalled>> /\ unsettled' \subseteq unsettled
      /\ rpc' = rpc
  BY InBatchSteps
     DEF IntegrateFailure, IntegrateUncollected, IntegrateStopped, IntegrateRefused,
         IntegrateApplied, WriteResultFails, BatchFinalizer, Settle, Recorded,
         Finalized, VerificationFailed, VerificationRecorded, FinalizerFailed, Undo,
         FollowUp, TakeBackFails, KeepBatch, KeepRun
<1>2. /\ plan \in [Tasks -> Statuses]
      /\ unsettled \subseteq Tasks
      /\ \/ plan' = plan
         \/ \E s : /\ plan' = [plan EXCEPT ![cur] = s]
                   /\ plan[cur] \notin Terminal /\ cur \in batch
  BY ParallelPlanStep DEF PInv, ParallelTypeOK, FinalizerTypeOK, Open
<1>3. BeginPlan' = BeginPlan
  BY <1>1, <1>2 DEF BeginPlan
<1>4. \A t \in unsettled : plan[t] \in Terminal /\ plan'[t] \in Terminal
  BY <1>1, <1>2 DEF AloneParts
<1>5. QED
  BY <1>1, <1>3, <1>4 DEF AloneParts, InBatch

LEMMA StartKeepsAlone ==
  ASSUME PInv, AloneParts, StartBatch
  PROVE  AloneParts'
<1>1. PICK S \in SUBSET Tasks :
        /\ BatchReady(S) /\ batch' = S
        /\ bsig' = [t \in Tasks |->
                      IF t \in S THEN Signature(t) ELSE NoSignatures[t]]
  BY DEF StartBatch
<1>2. /\ rpc = "select" /\ IsBatch(plan, S) /\ Cardinality(S) > 1
      /\ rpc' = "batch" /\ UNCHANGED <<plan, stalled, unsettled>>
  BY <1>1 DEF StartBatch, BatchReady, files
<1>3. plan \in [Tasks -> Statuses] /\ stalled \in Nat
  BY DEF PInv, ParallelTypeOK, FinalizerTypeOK, RunTypeOK
<1>4. \A t : ~IsAlone(t)
  BY <1>2, <1>3, AloneOrNot
<1>5. stalled = 0 /\ \A t \in unsettled : plan[t] \in Terminal
  BY <1>2, <1>3, <1>4 DEF AloneParts
<1>6. BeginPlan' = plan
  BY <1>1, <1>2, <1>3 DEF BeginPlan, Signature
<1>7. QED
  BY <1>1, <1>2, <1>5, <1>6 DEF AloneParts, InBatch

LEMMA EndKeepsAlone ==
  ASSUME PInv, AloneParts,
         \/ BatchCannotStart \/ EndBatch \/ BatchFails
         \/ InBatch /\ ParallelCrash
  PROVE  AloneParts'
<1>1. /\ plan \in [Tasks -> Statuses] /\ BatchControl /\ (~InBatch => StepControl)
      /\ bsig \in [Tasks -> Statuses \X Texts] /\ batch \subseteq Tasks
  BY DEF PInv, ParallelTypeOK, FinalizerTypeOK
<1>2. /\ UNCHANGED <<plan, stalled, unsettled, cur>>
  BY DEF BatchCannotStart, EndBatch, BatchFails, ParallelCrash, Crash, KeepIteration,
         files
<1>3. /\ rpc' \in {"select", "off"} /\ fpc' = "idle"
      /\ rpc' = "select" => EndBatch
  BY <1>1 DEF BatchCannotStart, EndBatch, BatchFails, ParallelCrash, Crash, StopRun,
         GoTo, BatchControl, InBatch
<1>4. \A t \in unsettled : plan[t] \notin Terminal => IsAlone(t)
  BY DEF AloneParts
<1>5. CASE rpc' = "off"
  BY <1>2, <1>3, <1>4, <1>5
     DEF AloneParts, InBatch, Working, IsAlone, AgentPhases, Unapplied, Applied
<1>6. CASE rpc' = "select"
  <2>1. EndBatch /\ InBatch
    BY <1>3, <1>6 DEF EndBatch, InBatch
  <2>2. stalled' = 0 /\ Cardinality(batch) > 1 /\ IsBatch(BeginPlan, batch)
    BY <1>2, <2>1 DEF AloneParts
  <2>3. bcount' > 0 => bkey' = batch /\ ~BatchProgressed
    BY <2>1 DEF EndBatch
  <2>4. ~BatchProgressed => BeginPlan = plan
    BY <1>1 DEF BatchProgressed, BeginPlan, Signature
  <2>5. QED
    BY <1>2, <1>3, <1>4, <1>6, <2>2, <2>3, <2>4
       DEF AloneParts, InBatch, Working, IsAlone, AgentPhases, Unapplied, Applied
<1>7. QED
  BY <1>3, <1>5, <1>6

LEMMA AloneInvariant == ParallelSpec => [](PInv /\ AloneParts)
<1>1. ParallelInit => AloneParts
  BY DEF ParallelInit, Init, FinalizerInit, AloneParts, InBatch, Working, AgentPhases,
         Unapplied, Applied
<1>2. PInv /\ AloneParts /\ [ParallelNext]_pvars => AloneParts'
  <2> SUFFICES ASSUME PInv, AloneParts, [ParallelNext]_pvars PROVE AloneParts'
    OBVIOUS
  <2>1. CASE ParallelNext /\ ~InBatch /\ ~BatchStep
    BY <2>1, SerialSide, SerialKeepsAlone
  <2>2. CASE ParallelNext /\ ~InBatch /\ BatchStep
    <3>1. StartBatch \/ BatchCannotStart
      BY <2>2 DEF BatchStep, InBatch, IntegrateFailure, IntegrateUncollected,
           IntegrateStopped, IntegrateRefused, IntegrateApplied, WriteResultFails,
           IsNext, BatchFinalizer, Recorded, Finalized, VerificationFailed,
           VerificationRecorded, FinalizerFailed, Undo, FollowUp, TakeBackFails,
           EndBatch, BatchFails
    <3>2. QED
      BY <3>1, StartKeepsAlone, EndKeepsAlone
  <2>3. CASE ParallelNext /\ InBatch /\ InBatch'
    BY <2>3, BatchKeepsAlone
  <2>4. CASE ParallelNext /\ InBatch /\ ~InBatch'
    <3>1. EndBatch \/ BatchFails \/ ParallelCrash
      BY <2>4
         DEF ParallelNext, ParallelRunnerStep, InBatch, SelectSingle, SelectTask,
             SingleStep, StopBeforeIteration, InspectOutputs, RecheckOutputs,
             RepairPromptFailed, RecordUnreviewed, FinalizeSucceeded, FinalizeFailed,
             SingleFinalize,
             Finalize, EndSingle, EndIteration, EndIterationFails, SingleAgentStep,
             AgentStep, RunPrompt, RepairNotes, RepairOutputs, ParallelStart, Start,
             FixNotes, BatchStep, StartBatch, BatchReady, BatchCannotStart,
             IntegrateFailure, IntegrateUncollected, IntegrateStopped,
             IntegrateRefused, IntegrateApplied, WriteResultFails, BatchFinalizer,
             Recorded, Finalized, VerificationFailed, VerificationRecorded,
             FinalizerFailed, Undo, FollowUp, TakeBackFails, KeepRun
    <3>2. QED
      BY <2>4, <3>1, EndKeepsAlone
  <2>5. CASE UNCHANGED pvars
    <3>1. UNCHANGED <<files, fvars, rvars, bvars, unsettled>>
      BY <2>5 DEF pvars, vars
    <3>2. QED
      BY <3>1 DEF files, fvars, rvars, bvars, trackers, AloneParts, InBatch, Working,
             IsAlone, BeginPlan
  <2>6. QED
    BY <2>1, <2>2, <2>3, <2>4, <2>5
<1>3. QED
  BY <1>1, <1>2, ParallelInvariant, PTL DEF ParallelSpec

\* A stall counter that is not zero counts what the next iteration takes, in
\* every plan, under every limit and whatever fails.
THEOREM ParallelStallsStay == ParallelSpec => []StallsStayOnTheirBatch
<1>1. AloneParts => StallsStayOnTheirBatch
  BY DEF AloneParts, IsAlone, StallsStayOnTheirBatch
<1>2. QED
  BY <1>1, AloneInvariant, PTL

\* As long as an agent's changes wait for their commit, its task runs alone, or
\* is terminal.
THEOREM ParallelUnsettledRunsAlone == ParallelSpec => []UnsettledRunsAlone
<1>1. AloneParts => UnsettledRunsAlone
  BY DEF AloneParts, IsAlone, UnsettledRunsAlone
<1>2. QED
  BY <1>1, AloneInvariant, PTL
=============================================================================
