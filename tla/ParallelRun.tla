---------------------------- MODULE ParallelRun -----------------------------
(***************************************************************************)
(* "vibedrive run" with parallelism (runParallelPlan in                    *)
(* internal/runner/runner.go): an iteration takes a batch of compatible    *)
(* tasks.  A batch of one runs as in SerialRun.  Those of a larger one run *)
(* in workspaces of their own; when all have returned, the run integrates  *)
(* their changes into the root workspace, one task after the other.        *)
(*                                                                         *)
(* Simplifications:                                                        *)
(*  - a worker touches nothing but its own workspace, and integration      *)
(*    begins after the last has returned, so that what a worker returns is *)
(*    chosen when it is integrated;                                        *)
(*  - of a workspace's content the model keeps the tasks of the batch      *)
(*    whose workers' changes are in it;                                    *)
(*  - a task has one worker workspace.  In the code each iteration has its *)
(*    own, and those of earlier ones stay where they are;                  *)
(*  - a plan file that was cut short and is committed leaves head alone.   *)
(***************************************************************************)
EXTENDS SerialRun, ReadyBatch

CONSTANTS
  WorkerResults,  \* what workers return: a status, notes, changes or none
  Failures        \* the operations that may fail

ASSUME ParallelRunAssumption ==
  /\ WorkerResults \subseteq
       [status : ResultStatuses, text : Texts, changes : BOOLEAN]
  /\ Failures \subseteq {"start", "worker", "collect", "apply", "tooLarge", "sync",
                         "writeResult", "recovery", "reverse", "followUp"}

VARIABLES
  batch,      \* the tasks of the iteration
  left,       \* those that are not integrated yet
  bsig,       \* the progress signatures when the batch began
  bpc,        \* what becomes of the task that is being integrated
  work,       \* what its worker returned
  applied,    \* whether its changes were applied to the root workspace
  errors,     \* whether the integration of some task failed
  bkey,       \* the batch that made no progress, and
  bcount,     \* how often (parallelBatchProgressTracker)
  tree,       \* the tasks of the batch whose changes are in the root workspace
  headTree,   \* ... and in its HEAD
  recovery,   \* the tasks with a rejected.patch
  kept,       \* the tasks whose worker's workspace exists
  stranded,   \* history: the tasks whose last worker failed, or left changes the
              \* root workspace did not take
  stopped,    \* history: the tasks whose last worker reported them blocked or
              \* manual
  rejected,   \* history: the tasks that were promised a patch of changes that
              \* did not apply or verify, until a later result is finalized
  unsettled   \* history: the tasks whose agents worked in the root workspace
              \* since the last commit

trackers == <<bkey, bcount>>
promises == <<stranded, stopped, rejected>>
bvars == <<batch, left, bsig, bpc, work, applied, errors, bkey, bcount,
           tree, headTree, recovery, kept, stranded, stopped, rejected>>
pvars == <<vars, bvars, unsettled>>

BatchPhases == {"none", "next", "finalize", "undo", "followUp"}
Recordings == {"failed", "stopped", "unapplied", "unverified"}

ParallelTypeOK ==
  /\ FinalizerTypeOK
  /\ rpc \in RunnerPhases \cup {"batch"}
  /\ batch \subseteq Tasks /\ left \subseteq batch
  /\ bsig \in [Tasks -> Statuses \X Texts]
  /\ bpc \in BatchPhases \cup Recordings
  /\ work \in [status : ResultStatuses, text : Texts, changes : BOOLEAN]
  /\ applied \in BOOLEAN /\ errors \in BOOLEAN
  /\ bkey \subseteq Tasks /\ bcount \in Nat
  /\ tree \subseteq Tasks /\ headTree \subseteq Tasks
  /\ recovery \subseteq Tasks /\ kept \subseteq Tasks
  /\ stranded \subseteq Tasks /\ stopped \subseteq Tasks
  /\ rejected \subseteq Tasks /\ unsettled \subseteq Tasks

NoSignatures == [t \in Tasks |-> <<"todo", EmptyText>>]
NoWork == [status |-> "in_progress", text |-> EmptyText, changes |-> FALSE]

ParallelInit ==
  /\ Init
  /\ batch = {} /\ left = {}
  /\ bsig = NoSignatures
  /\ bpc = "none"
  /\ work = NoWork /\ applied = FALSE /\ errors = FALSE
  /\ bkey = {} /\ bcount = 0
  /\ tree = {} /\ headTree = {}
  /\ recovery = {} /\ kept = {}
  /\ stranded = {} /\ stopped = {} /\ rejected = {} /\ unsettled = {}

-----------------------------------------------------------------------------
\* A batch of one task runs as a serial iteration.
SelectSingle ==
  /\ SelectTask
  /\ IsBatch(plan, {cur'})
  /\ stranded' = stranded \ {cur'}
  /\ stopped' = stopped \ {cur'}
  /\ unsettled' = unsettled \cup {cur'}
  /\ UNCHANGED <<batch, left, bsig, bpc, work, applied, errors, trackers,
                 tree, headTree, recovery, kept, rejected>>

\* Removes the patch of any task.
BugEndSingle ==
  /\ EndIteration \/ EndIterationFails
  /\ recovery' = IF PlanReadable THEN recovery \ {cur} ELSE recovery
  /\ UNCHANGED <<batch, left, bsig, bpc, work, applied, errors, trackers,
                 tree, headTree, kept, promises, unsettled>>

\* Its end removes the recovery patch of a task that is terminal.
EndSingle ==
  /\ EndIteration \/ EndIterationFails
  /\ recovery' = IF PlanReadable /\ plan[cur] \in Terminal
                 THEN recovery \ {cur} ELSE recovery
  /\ UNCHANGED <<batch, left, bsig, bpc, work, applied, errors, trackers,
                 tree, headTree, kept, promises, unsettled>>

\* The rest of a run with one task at a time.
SingleStep ==
  /\ \/ StopBeforeIteration
     \/ InspectOutputs \/ RecheckOutputs \/ RepairPromptFailed \/ RecordUnreviewed
     \/ FinalizeSucceeded \/ FinalizeFailed
  /\ UNCHANGED <<bvars, unsettled>>

SingleAgentStep == AgentStep /\ UNCHANGED <<bvars, unsettled>>

\* A commit stages every change of the root workspace.
Committing == fpc = "commit" /\ fpc' = "exitOK"
Settle == unsettled' = IF Committing THEN {} ELSE unsettled

SingleFinalize == Finalize /\ Settle /\ UNCHANGED bvars

ParallelStart ==
  /\ Start
  /\ bkey' = {} /\ bcount' = 0
  /\ UNCHANGED <<batch, left, bsig, bpc, work, applied, errors,
                 tree, headTree, recovery, kept, promises, unsettled>>

-----------------------------------------------------------------------------
\* What an iteration with a batch leaves to the other actions.
KeepBatch == UNCHANGED <<batch, bsig, trackers>>
KeepRun == UNCHANGED <<rpc, step, issues, sig, stalled, iteration, outcome,
                       runs, fresh, unreviewed>>

BatchReady(S) ==
  /\ rpc = "select"
  /\ ~MaxReached /\ PlanReadable /\ notesParse
  /\ Cardinality(S) > 1 /\ IsBatch(plan, S)

\* runParallelBatch: every task gets a workspace, and the workers run.
StartBatch ==
  \E S \in SUBSET Tasks :
    /\ BatchReady(S)
    /\ rpc' = "batch" /\ bpc' = "next"
    /\ batch' = S /\ left' = S
    /\ bsig' = [t \in Tasks |->
                  IF t \in S THEN Signature(t) ELSE NoSignatures[t]]
    /\ iteration' = IF MaxIterations > 0 THEN iteration + 1 ELSE 0
    /\ verified' = verified \ S
    /\ stranded' = stranded \ S
    /\ stopped' = stopped \ S
    /\ kept' = kept \cup S
    /\ tree' = {} /\ headTree' = {}
    /\ errors' = FALSE
    /\ UNCHANGED <<files, fpc, fplan, fnotes, fresult, ffailed, cur, step,
                   issues, sig, stalled, outcome, runs, fresh,
                   unreviewed, work, applied, trackers, recovery, rejected,
                   unsettled>>

\* Without tmux no worker can run.
BatchCannotStart ==
  /\ "start" \in Failures
  /\ \E S \in SUBSET Tasks : BatchReady(S)
  /\ StopRun("error")
  /\ KeepCopies /\ KeepIteration
  /\ UNCHANGED <<files, fresh, unreviewed, bvars, unsettled>>

\* integrateParallelBatch takes the tasks in the order of the batch.
IsNext(t) ==
  /\ rpc = "batch" /\ bpc = "next"
  /\ t \in left
  /\ \A u \in left \ {t} : Before([x \in Tasks |-> bsig[x][1]], t, u)

Take(t) == cur' = t /\ left' = left \ {t}

NextTask == bpc' = "next" /\ fpc' = "idle"

Integrable(w) == w.status \in {"done", "in_progress"}

\* recordParallelTaskStatus loads plan and notes; its saves and its commit are
\* the finalizer's phases of that name.  next says what the record is about.
Recordable == PlanReadable /\ notesParse

\* Saves the notes as they were.
BugRecord(t, status, text, next) ==
  IF Recordable
  THEN /\ fplan' = [plan EXCEPT ![t] = status]
       /\ fnotes' = notes
       /\ ffailed' = FALSE
       /\ fpc' = "saveNotes" /\ bpc' = next
  ELSE /\ NextTask
       /\ UNCHANGED <<fplan, fnotes, ffailed>>

Record(t, status, text, next) ==
  IF Recordable
  THEN /\ fplan' = [plan EXCEPT ![t] = status]
       /\ fnotes' = [notes EXCEPT ![t] = [status |-> status, text |-> text]]
       /\ ffailed' = FALSE
       /\ fpc' = "saveNotes" /\ bpc' = next
  ELSE /\ NextTask
       /\ UNCHANGED <<fplan, fnotes, ffailed>>

\* A worker that could not be prepared or started, whose steps failed, or that
\* made no progress ...
IntegrateFailure ==
  /\ "worker" \in Failures
  /\ \E t \in Tasks :
       /\ IsNext(t) /\ Take(t)
       /\ Record(t, "in_progress", WithMark(EmptyText, "failed"), "failed")
       /\ stranded' = stranded \cup {t}
  /\ errors' = TRUE
  /\ KeepBatch /\ KeepRun
  /\ UNCHANGED <<files, fresult, verified, work, applied,
                 tree, headTree, recovery, kept, stopped, rejected, unsettled>>

\* ... or whose changes git cannot collect.
IntegrateUncollected ==
  /\ "collect" \in Failures
  /\ \E t \in Tasks, w \in WorkerResults :
       /\ IsNext(t) /\ Take(t)
       /\ Integrable(w)
       /\ Record(t, "in_progress", WithMark(w.text, "uncollected"), "failed")
       /\ stranded' = stranded \cup {t}
  /\ errors' = TRUE
  /\ KeepBatch /\ KeepRun
  /\ UNCHANGED <<files, fresult, verified, work, applied,
                 tree, headTree, recovery, kept, stopped, rejected, unsettled>>

\* A blocked or manual task is recorded; nobody asks for its changes, and its
\* workspace is removed with them, even if the record fails.
IntegrateStopped ==
  /\ \E t \in Tasks, w \in WorkerResults :
       /\ IsNext(t) /\ Take(t)
       /\ w.status \in {"blocked", "manual"}
       /\ Record(t, w.status, w.text, "stopped")
       /\ kept' = IF Recordable THEN kept ELSE kept \ {t}
       /\ stranded' = IF w.changes THEN stranded \cup {t} ELSE stranded
       /\ stopped' = stopped \cup {t}
  /\ errors' = (errors \/ ~Recordable)
  /\ KeepBatch /\ KeepRun
  /\ UNCHANGED <<files, fresult, verified, work, applied,
                 tree, headTree, recovery, rejected, unsettled>>

\* writeParallelRecoveryArtifactWithReason writes the patch first: a failure may
\* leave a patch all the same, or not even an earlier one.
Preserved == IF "recovery" \in Failures THEN BOOLEAN ELSE {TRUE}
Preserve(t, ok) ==
  /\ \/ recovery' = recovery \cup {t}
     \/ ~ok /\ recovery' = recovery \ {t}
  /\ rejected' = IF ok THEN rejected \cup {t} ELSE rejected \ {t}

\* The changes do not apply, or are too large for git and touch what another
\* task changed.  A file sync that is refused in the middle has copied the
\* first files.
IntegrateRefused ==
  /\ "apply" \in Failures
  /\ \E t \in Tasks, w \in WorkerResults :
       /\ IsNext(t) /\ Take(t)
       /\ Integrable(w) /\ w.changes
       /\ Record(t, "in_progress", WithMark(w.text, "unapplied"), "unapplied")
       /\ stranded' = stranded \cup {t}
       /\ \E ok \in Preserved :
            Preserve(t, ok) /\ errors' = (errors \/ ~ok \/ ~Recordable)
       /\ \/ UNCHANGED tree
          \/ "sync" \in Failures /\ tree' = tree \cup {t}
  /\ KeepBatch /\ KeepRun
  /\ UNCHANGED <<files, fresult, verified, work, applied, headTree, kept,
                 stopped, unsettled>>

\* The changes are in the root workspace, as a patch or file by file, ...
Integrated(w) ==
  \/ work' = w
  \/ /\ "tooLarge" \in Failures /\ w.changes
     /\ work' = [w EXCEPT !.text = WithMark(@, "synced")]

\* ... and the root finalizer takes over.
IntegrateApplied ==
  /\ \E t \in Tasks, w \in WorkerResults :
       /\ IsNext(t) /\ Take(t)
       /\ Integrable(w) /\ Integrated(w)
       /\ applied' = w.changes
       /\ tree' = IF w.changes THEN tree \cup {t} ELSE tree
       /\ result' = [result EXCEPT ![t] =
                       [status |-> work'.status, text |-> work'.text]]
  /\ bpc' = "finalize" /\ fpc' = "load"
  /\ KeepBatch /\ KeepRun
  /\ UNCHANGED <<plan, torn, notes, notesParse, review, head, fplan, fnotes,
                 fresult, ffailed, verified, errors, headTree, recovery, kept,
                 promises, unsettled>>

\* Without a result the applied changes stay, and the workspace goes.
WriteResultFails ==
  /\ "writeResult" \in Failures
  /\ \E t \in Tasks, w \in WorkerResults :
       /\ IsNext(t) /\ Take(t)
       /\ Integrable(w)
       /\ tree' = IF w.changes THEN tree \cup {t} ELSE tree
       /\ result' \in {result, [result EXCEPT ![t] = BadFile]}
       /\ kept' = kept \ {t}
  /\ errors' = TRUE
  /\ KeepBatch /\ KeepRun /\ KeepCopies
  /\ UNCHANGED <<plan, torn, notes, notesParse, review, head, fpc, bpc, work,
                 applied, headTree, recovery, promises, unsettled>>

-----------------------------------------------------------------------------
\* The finalizer, and the writes of a record, one file operation at a time.  A
\* commit takes the root workspace as it is.
BatchFinalizer ==
  /\ rpc = "batch"
  /\ FinalizerStep(cur)
  /\ Settle
  /\ headTree' = IF Committing THEN tree ELSE headTree
  /\ KeepBatch /\ KeepRun
  /\ UNCHANGED <<cur, left, bpc, work, applied, errors, tree, recovery, kept,
                 promises>>

KeepFiles == UNCHANGED <<files, fplan, fnotes, fresult, ffailed, verified>>
KeepTask == UNCHANGED <<cur, left, work, applied>>

\* The record is written, or it failed.
Recorded ==
  /\ rpc = "batch"
  /\ bpc \in Recordings \ {"unverified"} /\ fpc \in Exits
  /\ errors' = (errors \/ fpc # "exitOK")
  /\ kept' = IF bpc = "stopped" THEN kept \ {cur} ELSE kept
  /\ NextTask
  /\ KeepFiles /\ KeepTask /\ KeepBatch /\ KeepRun
  /\ UNCHANGED <<tree, headTree, recovery, promises, unsettled>>

\* A task that was finalized needs neither patch nor workspace any more.
Finalized ==
  /\ rpc = "batch" /\ bpc = "finalize" /\ fpc = "exitOK"
  /\ recovery' = recovery \ {cur}
  /\ rejected' = rejected \ {cur}
  /\ kept' = kept \ {cur}
  /\ NextTask
  /\ KeepFiles /\ KeepTask /\ KeepBatch /\ KeepRun
  /\ UNCHANGED <<errors, tree, headTree, stranded, stopped, unsettled>>

\* handleParallelVerificationFailure: the patch is kept for the next attempt,
\* and the task recorded, with the changes still in place.
VerificationFailed ==
  /\ rpc = "batch" /\ bpc = "finalize" /\ fpc = "exitVerify"
  /\ Record(cur, "in_progress",
            WithMark(IF FailureNoted(cur) THEN notes[cur].text ELSE work.text,
                     "unverified"), "unverified")
  /\ \/ applied /\ \E ok \in Preserved : Preserve(cur, ok)
     \/ ~applied /\ UNCHANGED <<recovery, rejected>>
  /\ errors' = (errors \/ ~Recordable)
  /\ stranded' = IF applied THEN stranded \cup {cur} ELSE stranded
  /\ KeepTask /\ KeepBatch /\ KeepRun
  /\ UNCHANGED <<files, fresult, verified, tree, headTree, kept, stopped,
                 unsettled>>

\* Leaves the changes in place.
BugTakeBack ==
  /\ bpc' = "followUp"
  /\ fpc' = "idle"

\* What happens to the changes of a task that is not done after all.
TakeBack ==
  /\ bpc' = IF applied THEN "undo" ELSE "followUp"
  /\ fpc' = "idle"

VerificationRecorded ==
  /\ rpc = "batch" /\ bpc = "unverified" /\ fpc \in Exits
  /\ IF fpc = "exitOK" THEN TakeBack /\ UNCHANGED errors
     ELSE NextTask /\ errors' = TRUE
  /\ KeepFiles /\ KeepTask /\ KeepBatch /\ KeepRun
  /\ UNCHANGED <<tree, headTree, recovery, kept, promises, unsettled>>

\* A finalizer that failed otherwise: the task may be done in the plan by now.
FinalizerFailed ==
  /\ rpc = "batch" /\ bpc = "finalize" /\ fpc = "exitError"
  /\ IF work.status = "done" THEN TakeBack ELSE NextTask
  /\ stranded' = IF work.status = "done" /\ applied THEN stranded \cup {cur}
                 ELSE stranded
  /\ errors' = TRUE
  /\ KeepFiles /\ KeepTask /\ KeepBatch /\ KeepRun
  /\ UNCHANGED <<tree, headTree, recovery, kept, stopped, rejected, unsettled>>

Undo ==
  /\ rpc = "batch" /\ bpc = "undo"
  /\ tree' = tree \ {cur}
  /\ bpc' = "followUp"
  /\ KeepFiles /\ KeepTask /\ KeepBatch /\ KeepRun
  /\ UNCHANGED <<fpc, errors, headTree, recovery, kept, promises, unsettled>>

FollowUp ==
  /\ rpc = "batch" /\ bpc = "followUp"
  /\ head' = IF PlanReadable THEN plan ELSE head
  /\ headTree' = tree
  /\ unsettled' = {}
  /\ NextTask
  /\ KeepCopies /\ KeepTask /\ KeepBatch /\ KeepRun
  /\ UNCHANGED <<plan, torn, notes, notesParse, result, review,
                 errors, tree, recovery, kept, promises>>

\* git refuses to reverse the patch, or to commit.
TakeBackFails ==
  /\ rpc = "batch"
  /\ \/ bpc = "undo" /\ "reverse" \in Failures
     \/ bpc = "followUp" /\ "followUp" \in Failures
  /\ errors' = TRUE
  /\ NextTask
  /\ KeepFiles /\ KeepTask /\ KeepBatch /\ KeepRun
  /\ UNCHANGED <<tree, headTree, recovery, kept, promises, unsettled>>

-----------------------------------------------------------------------------
\* What the iteration knew about its batch ends with it.
ForgetBatch ==
  /\ bpc' = "none"
  /\ batch' = {} /\ left' = {}
  /\ bsig' = NoSignatures
  /\ work' = NoWork /\ applied' = FALSE /\ errors' = FALSE
  /\ tree' = {} /\ headTree' = {}

BatchProgressed ==
  \E t \in batch : plan[t] \in Terminal \/ Signature(t) # bsig[t]

\* Progress does not reset the counter; nothing counts.
BugEndBatchKeeps ==
  /\ rpc = "batch" /\ bpc = "next" /\ left = {}
  /\ ~errors /\ Recordable
  /\ bkey' = IF BatchProgressed THEN bkey ELSE batch
  /\ bcount' = IF BatchProgressed THEN bcount
               ELSE IF bkey = batch THEN bcount + 1 ELSE 1
  /\ IF bcount' >= MaxStalled THEN StopRun("stalled") ELSE GoTo("select")
  /\ ForgetBatch
  /\ KeepCopies /\ KeepIteration
  /\ UNCHANGED <<files, fresh, unreviewed, recovery, kept, promises,
                 unsettled>>
BugEndBatchForgets ==
  /\ rpc = "batch" /\ bpc = "next" /\ left = {}
  /\ ~errors /\ Recordable
  /\ bkey' = {} /\ bcount' = 0
  /\ GoTo("select")
  /\ ForgetBatch
  /\ KeepCopies /\ KeepIteration
  /\ UNCHANGED <<files, fresh, unreviewed, recovery, kept, promises,
                 unsettled>>

\* parallelBatchProgressTracker.observe
EndBatch ==
  /\ rpc = "batch" /\ bpc = "next" /\ left = {}
  /\ ~errors /\ Recordable
  /\ bkey' = IF BatchProgressed THEN {} ELSE batch
  /\ bcount' = IF BatchProgressed THEN 0
               ELSE IF bkey = batch THEN bcount + 1 ELSE 1
  /\ IF bcount' >= MaxStalled THEN StopRun("stalled") ELSE GoTo("select")
  /\ ForgetBatch
  /\ KeepCopies /\ KeepIteration
  /\ UNCHANGED <<files, fresh, unreviewed, recovery, kept, promises,
                 unsettled>>

BatchFails ==
  /\ rpc = "batch" /\ bpc = "next" /\ left = {}
  /\ errors \/ ~Recordable
  /\ StopRun("error")
  /\ ForgetBatch
  /\ KeepCopies /\ KeepIteration
  /\ UNCHANGED <<files, fresh, unreviewed, trackers, recovery, kept,
                 promises, unsettled>>

ParallelCrash ==
  /\ Crash
  /\ ForgetBatch
  /\ UNCHANGED <<trackers, recovery, kept, promises, unsettled>>

BatchStep ==
  \/ StartBatch \/ BatchCannotStart
  \/ IntegrateFailure \/ IntegrateUncollected \/ IntegrateStopped
  \/ IntegrateRefused \/ IntegrateApplied \/ WriteResultFails
  \/ BatchFinalizer \/ Recorded \/ Finalized
  \/ VerificationFailed \/ VerificationRecorded \/ FinalizerFailed
  \/ Undo \/ FollowUp \/ TakeBackFails
  \/ EndBatch \/ BatchFails

ParallelRunnerStep ==
  SelectSingle \/ SingleStep \/ SingleFinalize \/ EndSingle \/ BatchStep

ParallelNext ==
  \/ ParallelRunnerStep \/ SingleAgentStep
  \/ ParallelStart \/ ParallelCrash
  \/ FixNotes /\ UNCHANGED <<bvars, unsettled>>

ParallelSpec == ParallelInit /\ [][ParallelNext]_pvars

\* The runner and the finalizer keep running; prompts return or fail (the
\* fullscreen clients' idle fallback, a process exit, or the step's timeout),
\* and a worker returns because the prompts of its steps do.
ParallelFairSpec ==
  ParallelSpec /\ WF_pvars(ParallelRunnerStep) /\ WF_pvars(SingleAgentStep)

-----------------------------------------------------------------------------
(***************************************************************************)
(* Properties, besides DoneIsVerified and ImplementsQueue of SerialRun     *)
(***************************************************************************)

\* Neither of the two stall counters outlives what it counts: one that is not
\* zero belongs to the batch the next iteration takes, although progress of the
\* other kind resets neither.
StallsStayOnTheirBatch ==
  rpc = "select" =>
    /\ stalled > 0 => IsBatch(plan, {cur})
    /\ bcount > 0 => IsBatch(plan, bkey)

\* What the agents of a task changed in the root workspace stays there until a
\* commit.  Until then, or until the task is terminal, it runs alone: no batch
\* starts without its changes, and no other task commits them.
UnsettledRunsAlone ==
  rpc = "select" =>
    \A t \in unsettled : plan[t] \notin Terminal => IsBatch(plan, {t})

\* After a batch without errors every task of it is on record, in the plan and
\* in the notes alike, and none is back to todo (FEATURES.md:763).
BatchIsRecorded ==
  [][rpc = "batch" /\ rpc' = "select" =>
       \A t \in batch : /\ notes[t] # NoFile /\ notes[t].status = plan[t]
                         /\ plan[t] # "todo" /\ head[t] = plan[t]]_pvars

\* Such a batch leaves nothing of changes that were refused or did not verify,
\* neither in the root workspace nor in the last commit.
RejectedIsUndone ==
  [][rpc = "batch" /\ rpc' = "select" =>
       stranded \cap (tree \cup headTree) = {}]_pvars

\* Changes of a worker that the root workspace did not take stay in the worker's
\* workspace until their task is taken up again, unless the worker itself gave
\* the task up as blocked or manual: its changes are dropped (README.md:460).
WorkspaceIsKept == stranded \subseteq kept \cup stopped

\* A patch that was promised to the task's next coder is there for every further
\* attempt, serial ones and those of later runs, until the task is terminal or
\* the result of a later worker was finalized (FEATURES.md:783-790).
PatchIsKept == \A t \in rejected : plan[t] \in Terminal \/ t \in recovery

\* Both halves of what is promised about work that was not taken.
StrandedIsKept == WorkspaceIsKept /\ PatchIsKept

\* A run that nobody interrupts ends, or it makes progress again and again.
ParallelStopsOrProgresses ==
  \/ <>[](rpc = "off")
  \/ []<><<EndIteration /\ Signature(cur) # sig>>_vars
  \/ []<><<EndBatch /\ BatchProgressed>>_pvars

-----------------------------------------------------------------------------
(***************************************************************************)
(* What the documents say and the code does not do                         *)
(***************************************************************************)

\* FEATURES.md:759: "Completed worker changes are collected and applied back to
\* the root workspace": a task that HEAD calls done is there with its changes.
DoneHasItsChanges ==
  [][rpc = "batch" /\ outcome' = "error" =>
       \A t \in batch : head[t] = "done" => t \notin stranded]_pvars
=============================================================================
