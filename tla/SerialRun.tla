----------------------------- MODULE SerialRun ------------------------------
(***************************************************************************)
(* "vibedrive run" with one task at a time: runPlan and its iterations     *)
(* (runSerialIteration, runSteps, runStep in internal/runner/runner.go),   *)
(* the agents it prompts, the finalizer process it starts, and crashes and *)
(* restarts of the whole.                                                  *)
(*                                                                         *)
(* Simplifications:                                                        *)
(*  - an agent prompt is one step: what the agent writes, and whether the  *)
(*    prompt returns or fails (an error, the step's timeout).  An agent    *)
(*    writes the outputs its step asks for, well formed, malformed or not  *)
(*    at all, and its task's entry in the notes file, which it may break;  *)
(*  - the only exec step is the finalizer: other commands do not touch the *)
(*    files the runner looks at;                                           *)
(*  - the runner and the finalizer it waits for die together (one process  *)
(*    group);                                                              *)
(*  - agent sessions, runtime state, diagnostics and log lines are left    *)
(*    out of this module; a dry run changes nothing.                       *)
(***************************************************************************)
EXTENDS Finalizer, Sequences

CONSTANTS
  Steps,          \* the enabled steps of the tasks' workflow, in order
  AgentResults,   \* the valid task results agents write
  AgentTexts,     \* what agents write into the notes file themselves
  MaxIterations,  \* max_iterations; 0 is unlimited
  MaxStalled,     \* max_stalled_iterations
  MaxRuns         \* bound: how often the user starts a run

Outputs == {"result", "review"}

ASSUME SerialRunAssumption ==
  /\ Steps \in Seq([kind: {"agent", "finalize"}, outs: SUBSET Outputs,
                    continue_on_error: BOOLEAN])
  /\ Len(Steps) > 0
  \* As in every scaffolded workflow, the finalizer comes last.
  /\ \A i \in 1..Len(Steps) : Steps[i].kind = "finalize" => i = Len(Steps)
  /\ AgentResults \subseteq Results
  /\ AgentTexts \subseteq Texts
  /\ MaxIterations \in Nat
  /\ MaxStalled \in Nat \ {0}
  /\ MaxRuns \in Nat

VARIABLES
  rpc,        \* what the runner does next
  cur,        \* the task of the iteration
  step,       \* the step of the workflow it is at; 0 between iterations
  issues,     \* the outputs found wrong before the repair prompt
  sig,        \* the task's progress signature when the iteration began
  stalled,    \* iterations without progress, in a row
  iteration,  \* the number of the iteration; 0 if there is no limit
  outcome,    \* how the last run ended
  runs,       \* how often a run was started
  fresh,      \* history: the task result was written in this iteration
  unreviewed  \* history: the tasks vibedrive put on record as not reviewed, as
              \* long as no agent writes another result for them

rvars == <<rpc, cur, step, issues, sig, stalled, iteration, outcome, runs,
           fresh, unreviewed>>
vars == <<files, fvars, rvars>>

RunnerPhases == {"off", "select", "prompt", "repairNotes", "outputs",
                 "repairOutputs", "recheck", "repairFailed",
                 "recordUnreviewed", "finalize", "endIteration"}
Outcomes == {"none", "complete", "noReady", "maxIterations", "stalled",
             "error", "crashed"}

TypeOK ==
  /\ FinalizerTypeOK
  /\ rpc \in RunnerPhases
  /\ cur \in Tasks
  /\ step \in 0..Len(Steps)
  /\ issues \subseteq Outputs \X {"missing", "invalid"}
  /\ sig \in Statuses \X Texts
  /\ stalled \in Nat
  /\ iteration \in Nat
  /\ outcome \in Outcomes
  /\ runs \in Nat
  /\ fresh \in BOOLEAN
  /\ unreviewed \subseteq Tasks

Init ==
  /\ FinalizerInit
  /\ rpc = "off"
  /\ cur = 1
  /\ step = 0
  /\ issues = {}
  /\ sig = <<"todo", EmptyText>>
  /\ stalled = 0
  /\ iteration = 0
  /\ outcome = "none"
  /\ runs = 0
  /\ fresh = FALSE
  /\ unreviewed = {}

-----------------------------------------------------------------------------
\* taskProgressSignature: the status in the plan and the text of the notes; an
\* entry that is not there reads as an empty one.
NoteText(t) == IF notes[t] = NoFile THEN EmptyText ELSE notes[t].text

BugSignature(t) == <<"todo", NoteText(t)>>

Signature(t) == <<plan[t], NoteText(t)>>

\* Where the runner goes for step i of the workflow, starting the finalizer
\* if that is what the step runs.
GoToStep(i) ==
  LET p == IF i > Len(Steps) THEN "endIteration"
           ELSE IF Steps[i].kind = "agent" THEN "prompt" ELSE "finalize"
  IN /\ step' = IF i > Len(Steps) THEN 0 ELSE i
     /\ rpc' = p
     /\ fpc' = IF p = "finalize" THEN "load" ELSE "idle"
     /\ issues' = {}
     /\ UNCHANGED outcome

GoTo(p) ==
  /\ rpc' = p
  /\ UNCHANGED <<fpc, step, issues, outcome>>

\* The remaining steps are skipped and the iteration ends as if it succeeded.
EndSteps ==
  /\ rpc' = "endIteration"
  /\ step' = 0
  /\ fpc' = "idle"
  /\ issues' = {}
  /\ UNCHANGED outcome

StopRun(o) ==
  /\ rpc' = "off"
  /\ outcome' = o
  /\ step' = 0
  /\ fpc' = "idle"
  /\ issues' = {}

StepFails ==
  IF Steps[step].continue_on_error THEN GoToStep(step + 1) ELSE StopRun("error")

\* What the control of a step leaves alone.
KeepCopies == UNCHANGED <<fplan, fnotes, fresult, ffailed, verified>>
KeepIteration == UNCHANGED <<cur, sig, stalled, iteration, runs>>

-----------------------------------------------------------------------------
\* Run: a new process starts with the iteration and stall counters at zero.
Start ==
  /\ rpc = "off"
  /\ runs < MaxRuns
  /\ rpc' = "select"
  /\ runs' = runs + 1
  /\ stalled' = 0
  /\ iteration' = 0
  /\ outcome' = "none"
  /\ UNCHANGED <<files, fvars, cur, step, issues, sig,
                 fresh, unreviewed>>

MaxReached == MaxIterations > 0 /\ iteration >= MaxIterations

\* runPlan's ways out before an iteration starts.
StopBeforeIteration ==
  /\ rpc = "select"
  /\ \/ MaxReached /\ StopRun("maxIterations")
     \/ ~MaxReached /\ ~PlanReadable /\ StopRun("error")
     \/ ~MaxReached /\ PlanReadable /\ AllTasksDone(plan) /\ StopRun("complete")
     \/ ~MaxReached /\ PlanReadable /\ NoReadyTasks(plan) /\ StopRun("noReady")
     \/ /\ ~MaxReached /\ PlanReadable /\ HasReady(plan)
        /\ ~notesParse
        /\ StopRun("error")
  /\ KeepCopies /\ KeepIteration
  /\ UNCHANGED <<files, fresh, unreviewed>>

\* An iteration starts on the next ready task.
SelectTask ==
  /\ rpc = "select"
  /\ ~MaxReached /\ PlanReadable /\ HasReady(plan) /\ notesParse
  /\ cur' = FindNextReady(plan)
  /\ sig' = Signature(FindNextReady(plan))
  /\ iteration' = IF MaxIterations > 0 THEN iteration + 1 ELSE 0
  /\ verified' = verified \ {FindNextReady(plan)}
  /\ fresh' = FALSE
  /\ GoToStep(1)
  /\ UNCHANGED <<files, fplan, fnotes, fresult, ffailed, stalled, runs, unreviewed>>

-----------------------------------------------------------------------------
\* What a prompted agent may leave in the outputs outs of its task ...
AgentWrites(outs) ==
  /\ \/ UNCHANGED <<result, fresh, unreviewed>>
     \/ /\ "result" \in outs
        /\ \E f \in AgentResults \cup {BadFile} :
             /\ result' = [result EXCEPT ![cur] = f]
             /\ unreviewed' = IF f = BadFile THEN unreviewed ELSE unreviewed \ {cur}
        /\ fresh' = TRUE
  /\ \/ UNCHANGED review
     \/ /\ "review" \in outs
        /\ \E f \in {BadFile, Review} : review' = [review EXCEPT ![cur] = f]

\* ... and in the notes: its task's text, or a file that no longer parses.
AgentEditsNotes ==
  \/ UNCHANGED <<notes, notesParse>>
  \/ notesParse' = FALSE /\ UNCHANGED notes
  \/ /\ notesParse' = TRUE
     /\ \E x \in AgentTexts :
          notes' = [notes EXCEPT ![cur] =
                      [status |-> IF @ = NoFile THEN "in_progress"
                                  ELSE @.status,
                       text |-> x]]

\* runAgentPrompt for a step, and the part of validateTaskNotesAfterAgentStep
\* that sees whether the agent changed and broke the notes.
RunPrompt ==
  /\ rpc = "prompt"
  /\ AgentWrites(Steps[step].outs)
  /\ AgentEditsNotes
  /\ \/ (notesParse' \/ UNCHANGED <<notes, notesParse>>) /\ GoTo("outputs")
     \/ ~notesParse' /\ GoTo("repairNotes")
     \/ StepFails
  /\ UNCHANGED <<plan, torn, head>> /\ KeepCopies /\ KeepIteration

\* The rest of it: one prompt to repair the notes.
RepairNotes ==
  /\ rpc = "repairNotes"
  /\ notesParse' \in BOOLEAN
  /\ \/ notesParse' /\ GoTo("outputs")
     \/ StepFails
  /\ UNCHANGED <<plan, torn, notes, result, review, head,
                 fresh, unreviewed>>
  /\ KeepCopies /\ KeepIteration

\* inspectRequiredOutputs: the step's outputs that are missing or invalid.
Found(o) == IF o = "result" THEN result[cur] ELSE review[cur]
Unfit(o) ==
  Found(o) \notin IF o = "result" THEN Results ELSE {Review, OwnReview}
Problem(o) == IF Found(o) = NoFile THEN "missing" ELSE "invalid"
Issues == {<<o, Problem(o)>> : o \in {p \in Steps[step].outs : Unfit(p)}}

OnlyIssuesOf(o, found) == found # {} /\ \A i \in found : i[1] = o
NoFallback(found) == \A o \in Outputs : \E i \in found : i[1] = o

\* ensureRequiredOutputsAfterStep, up to the repair prompt.
InspectOutputs ==
  /\ rpc = "outputs"
  /\ \/ Issues = {} /\ GoToStep(step + 1)
     \/ /\ Issues # {}
        /\ rpc' = "repairOutputs"
        /\ issues' = Issues
        /\ UNCHANGED <<fpc, step, outcome>>
  /\ KeepCopies /\ KeepIteration
  /\ UNCHANGED <<files, fresh, unreviewed>>

RepairOutputs ==
  /\ rpc = "repairOutputs"
  /\ AgentWrites(Steps[step].outs)
  /\ AgentEditsNotes
  /\ GoTo("recheck") \/ GoTo("repairFailed")
  /\ UNCHANGED <<plan, torn, head>> /\ KeepCopies /\ KeepIteration

\* fallbackTaskResultNotes, writeIncompleteReviewTaskResult.
FallbackText(found) ==
  [msg |-> (CHOOSE i \in found : i[1] = "result")[2], marks |-> {}]
UnreviewedText(f) ==
  WithMark(IF f \in Results THEN f.text ELSE EmptyText, "review")

InProgress(x) == [status |-> "in_progress", text |-> x]

\* writeFallbackReviewAfterRepair: when only the review is wrong, vibedrive's
\* own takes its place, ...
FallbackReview ==
  /\ review' = [review EXCEPT ![cur] = OwnReview]
  /\ GoTo("recordUnreviewed")
  /\ UNCHANGED <<result, fresh, unreviewed>>

\* writeFallbackTaskResultAfterRepair: when only the result is.
FallbackResult(found) ==
  /\ result' = [result EXCEPT ![cur] = InProgress(FallbackText(found))]
  /\ fresh' = TRUE
  /\ UNCHANGED <<review, unreviewed>>

\* After a repair prompt that returned, the outputs are looked at again.
RecheckOutputs ==
  /\ rpc = "recheck"
  /\ \/ /\ Issues = {}
        /\ GoToStep(step + 1)
        /\ UNCHANGED <<result, review, fresh, unreviewed>>
     \/ OnlyIssuesOf("review", Issues) /\ FallbackReview
     \/ /\ OnlyIssuesOf("result", Issues)
        /\ FallbackResult(Issues)
        /\ GoToStep(step + 1)
     \/ NoFallback(Issues) /\ StepFails /\ UNCHANGED <<result, review, fresh, unreviewed>>
  /\ UNCHANGED <<plan, torn, notes, notesParse, head>>
  /\ KeepCopies /\ KeepIteration

\* After one that failed, what counts is what was wrong before it.
RepairPromptFailed ==
  /\ rpc = "repairFailed"
  /\ \/ OnlyIssuesOf("review", issues) /\ FallbackReview
     \/ OnlyIssuesOf("result", issues) /\ FallbackResult(issues) /\ EndSteps
     \/ NoFallback(issues) /\ StepFails /\ UNCHANGED <<result, review, fresh, unreviewed>>
  /\ UNCHANGED <<plan, torn, notes, notesParse, head>>
  /\ KeepCopies /\ KeepIteration

\* Leaves the result as it is.
BugRecordUnreviewed ==
  /\ rpc = "recordUnreviewed"
  /\ unreviewed' = unreviewed \cup {cur}
  /\ GoToStep(step + 1)
  /\ UNCHANGED <<files, fresh>> /\ KeepCopies /\ KeepIteration

\* ... and then the result puts the task on record as not reviewed
\* (writeIncompleteReviewTaskResult), and the workflow goes on.
RecordUnreviewed ==
  /\ rpc = "recordUnreviewed"
  /\ result' = [result EXCEPT ![cur] = InProgress(UnreviewedText(@))]
  /\ fresh' = TRUE
  /\ unreviewed' = unreviewed \cup {cur}
  /\ GoToStep(step + 1)
  /\ UNCHANGED <<plan, torn, notes, notesParse, review, head>>
  /\ KeepCopies /\ KeepIteration

-----------------------------------------------------------------------------
\* The finalizer process works while the runner waits for it.
Finalize ==
  /\ rpc = "finalize"
  /\ FinalizerStep(cur)
  /\ UNCHANGED rvars

FinalizeSucceeded ==
  /\ rpc = "finalize" /\ fpc = "exitOK"
  /\ IF Issues = {} THEN GoToStep(step + 1) ELSE StepFails
  /\ KeepCopies /\ KeepIteration
  /\ UNCHANGED <<files, fresh, unreviewed>>

\* finalizeVerificationFailureRecorded: the runner does not see why the
\* finalizer failed, it looks for the trace of a failed verification.
FailureRecorded(t) ==
  PlanReadable /\ plan[t] = "in_progress" /\ FailureNoted(t)

FinalizeFailed ==
  /\ rpc = "finalize" /\ fpc \in {"exitVerify", "exitError"}
  /\ IF FailureRecorded(cur) THEN EndSteps ELSE StepFails
  /\ KeepCopies /\ KeepIteration
  /\ UNCHANGED <<files, fresh, unreviewed>>

\* The end of runSerialIteration: without progress the run gives up after
\* MaxStalled iterations in a row.
EndIteration ==
  /\ rpc = "endIteration"
  /\ PlanReadable /\ notesParse
  /\ stalled' = IF Signature(cur) = sig THEN stalled + 1 ELSE 0
  /\ IF stalled' >= MaxStalled THEN StopRun("stalled") ELSE GoTo("select")
  /\ KeepCopies
  /\ UNCHANGED <<files, cur, sig, iteration, runs,
                 fresh, unreviewed>>

EndIterationFails ==
  /\ rpc = "endIteration"
  /\ ~PlanReadable \/ ~notesParse
  /\ StopRun("error")
  /\ KeepCopies /\ KeepIteration
  /\ UNCHANGED <<files, fresh, unreviewed>>

\* Everything dies at once.
Crash ==
  /\ rpc # "off"
  /\ StopRun("crashed")
  /\ WritesCutShort
  /\ KeepCopies /\ KeepIteration
  /\ UNCHANGED <<plan, notesParse, result, review, head,
                 fresh, unreviewed>>

\* The user brings unreadable notes back into shape before the next run.
FixNotes ==
  /\ rpc = "off" /\ ~notesParse /\ runs < MaxRuns
  /\ notesParse' = TRUE
  /\ UNCHANGED <<plan, torn, notes, result, review, head, fvars, rvars>>

RunnerStep ==
  \/ StopBeforeIteration \/ SelectTask
  \/ InspectOutputs \/ RecheckOutputs \/ RepairPromptFailed \/ RecordUnreviewed
  \/ Finalize \/ FinalizeSucceeded \/ FinalizeFailed
  \/ EndIteration \/ EndIterationFails

AgentStep == RunPrompt \/ RepairNotes \/ RepairOutputs

Next == RunnerStep \/ AgentStep \/ Start \/ Crash \/ FixNotes

Spec == Init /\ [][Next]_vars

-----------------------------------------------------------------------------
(***************************************************************************)
(* Properties                                                              *)
(***************************************************************************)

\* A task is "done" in the plan, or in the plan that HEAD holds, only if its
\* verify commands passed after its agents last worked on it (README.md:14).
DoneIsVerified ==
  \A t \in Tasks : plan[t] = "done" \/ head[t] = "done" => t \in verified

\* The stall counter counts one item: as long as it is not zero, the task that
\* made no progress is the one the next iteration takes up again.  The counter
\* itself does not know its task.
StallStaysOnItem ==
  rpc = "select" /\ stalled > 0
    => HasReady(plan) /\ FindNextReady(plan) = cur

\* A run gives up for want of a ready task only if the unfinished tasks wait
\* for each other in a circle: some of them each depend on another of them.
StuckOnlyOnCycle ==
  outcome = "noReady"
    => \E S \in SUBSET Unfinished(plan) \ {{}} :
         \A t \in S : Deps[t] \cap S # {}

\* No status moves in the plan before the notes say the same about the task,
\* whatever dies in between: the plan never runs ahead of the notes.
PlanFollowsNotes ==
  [][\A t \in Tasks :
       plan'[t] # plan[t]
         => notes[t] # NoFile /\ notes[t].status = plan'[t]]_vars

\* A task whose failed verification is on record is the next one to run: no
\* other task builds on, or commits, its unverified changes.
RepairFirst ==
  [][\A t \in Tasks :
       (/\ plan[t] = "in_progress" /\ FailureNoted(t)
        /\ rpc = "select" /\ rpc' # "off")
       => cur' = t]_vars

\* Within one run, and unless the finalizer is cut short, a task becomes done
\* only on a task result written in the same iteration: none is left behind for
\* a later one to be mistaken for.
DoneOnFreshResult ==
  [][\A t \in Tasks : plan'[t] = "done" /\ plan[t] # "done" => fresh]_vars

\* Once vibedrive stood in for a silent reviewer, in the review and in the task
\* result, the work it put on record as not reviewed is not marked done: an
\* agent has to report on the task once more, in this run or in a later one
\* (FEATURES.md:691).  Whether that report is reviewed is another matter, see
\* DoneIsReviewed.
UnreviewedIsNotDone ==
  [][\A t \in Tasks :
       plan'[t] = "done" /\ plan[t] # "done" => t \notin unreviewed]_vars

\* The run implements the task queue.
Queue == INSTANCE TaskQueue WITH NumTasks <- NumTasks, Deps <- Deps, plan <- plan
ImplementsQueue == Queue!Spec

-----------------------------------------------------------------------------
(***************************************************************************)
(* What the documents say and the code does not do                         *)
(***************************************************************************)

\* FEATURES.md:691: with a fallback review "the run can continue without marking
\* the task done": no finalizer accepts one for a result it records as done.
DoneIsReviewed ==
  [][fpc = "removeReview" /\ fpc' = "saveNotes" /\ fresult.status = "done"
       => review[cur] # OwnReview]_vars
=============================================================================
