# Formal models of vibedrive

vibedrive drives command line coding agents through a machine-readable plan:
it picks the next ready task, prompts the agents of the task's workflow,
verifies, commits, and goes on until no task is left. These modules model how
it does that, how it talks to the agents, and how a workspace gets its plan, as
state machines; TLC checks them on small instances, and TLAPS proves the central
results for every plan and workflow.

All source paths are relative to `src/`; line numbers refer to the files of
this commit. `PROJECT.json` maps every definition that models code to its lines.

## The system

| component | state it keeps | operations | how it interacts |
|---|---|---|---|
| plan (`internal/plan/plan.go`) | `vibedrive-plan.yaml`: tasks with status, deps, boundaries | Load, Validate, Save, FindNextReady, AnalyzeReadyBatch | read and rewritten whole by runner and finalizer; read by view |
| task notes (`internal/tasknotes`) | `.vibedrive/task-notes.yaml` | Load, Upsert, Save | written by agents, finalizer and parallel runner; half of a task's progress signature |
| finalizer (`internal/automation`) | nothing of its own; task result, review, plan, notes, git index | `vibedrive task finalize` | started by a workflow's last step as a separate process, or called in-process by the parallel runner |
| serial runner (`internal/runner/runner.go`) | iteration, stall counter, current step | runPlan, runSerialIteration, runSteps, runStep | prompts agents, starts the finalizer, looks at files afterwards |
| parallel runner (`runner.go`) | batch, worker results, batch tracker | runParallelPlan, runParallelBatch, integrateParallelBatch | one worktree and artifact directory per worker; integrates sequentially through the finalizer |
| recovery artifacts (`runner.go`) | `.vibedrive/task-runs/recovery/<task>` | write on a failed integration, clear | read by the next coder prompt of the task |
| agent sessions (`runner.go`, `tmux_clients.go`) | each worker's shared sessions and their closers, the pane of each session | runSteps, closeSharedSession, ensureRunTmux, closeRunTmux | opens agents' panes in the run's tmux session; tells the run state |
| runtime state (`internal/runstate`) | `.vibedrive/run-state.json` | UpsertTask, ClearTask, ClearRun, ActiveTasksForPlan | read, changed and written whole by every worker at every step; read by the views |
| agent clients (`internal/runner/tmux_clients.go`, `pkg/agentcli`) | last state seen, transition counters, attempts | start, sendPrompt, wait until idle, close | a tmux pane or a pty with a foreign program in it |
| tmux controller (`internal/tmuxagent`) | session, panes, attached client | Start, OpenClient, NewPane, SendKeys, Capture, Kill | tmux server |
| pty (`pkg/ptyrunner`) | child process, output monitor | Start, Write, Close | agent clients of create, init and restart |
| diagnostics (`internal/diagnostics`) | bounded tails, failure reports | Write, Snapshot, Capture | observes steps that fail |
| create flow (`internal/create`, `create_command.go`) | `.vibedrive/create-state.json`, `DESIGN.md` | menu, stages with author and critic, planning | agents, init |
| init and restart (`internal/bootstrap`, `internal/plan/restart.go`, `internal/scaffold`) | `vibedrive.yaml`, `COMPONENTS.md`, the plan, feedback files | write a first plan; write a new one from the notes | agents, plan, notes |
| config, scaffold, view, render, agentlaunch, `cmd/vibedrive` | none between calls | load, validate, print | - |

**Hard behaviours.** Nothing is transactional: every outcome crosses five or
six files in separate writes, by two processes, and any of them can die in
between, be killed at a step's timeout or fail. The runner learns what the
finalizer did only by looking at the files afterwards. The agents are
unreliable writers of files the runner depends on. Progress is detected by
comparing two strings, counted by a counter that does not know its task. In
parallel mode results of several workers are applied to one working tree, one
after the other, with roll-back when verification fails. What an agent does is
guessed from its window title and its screen, read one after the other while
it works, and keys sent to it may be lost. create, init and restart write their
files in place, can be killed between any two of them, and go by what they find
the next time.

**What makes each part correct.**

- *Selection*: a selected task can run (its dependencies are terminal); the
  choice is sticky, so a started task is taken up again; "no ready tasks" is
  said only about dependency cycles.
- *Finalizer*: done only if verified; a task's status moves only along the
  queue's order; the plan does not run ahead of the notes; a failed
  verification is left for repair, not committed as done.
- *Serial runner*: no leftover result is mistaken for a new one; work on
  record as not reviewed is not marked done; a failed task is repaired before anything else is
  built on it; the run ends or progresses.
- *Parallel runner*: batches of pairwise compatible tasks; one task's failure
  touches no other; rejected work does not stay in the tree; the patch and
  the workspace that the next attempt is promised are there for it.
- *Sessions*: an agent lives as long as the session it belongs to and no longer,
  on every way out of a step, a workflow and a run. *Runtime state*: the views
  show exactly what is being worked on; no worker's update is lost. *Clients*: a
  prompt is given to an idle agent, taken once, reported complete only after its
  turn, and not waited for without end.
- *Create, init, restart*: no command takes what an earlier one left behind for
  its own agents' work; a plan or notes are not thrown away unasked or early.

## Modules

| module | models | EXTENDS |
|---|---|---|
| `TaskPlan` | statuses, dependencies, FindNextReady (`plan.go`) | - |
| `TaskQueue` | abstract specification: what any run may do to the plan; SerialRun and ParallelRun implement it | TaskPlan |
| `Finalizer` | `automation.Finalize`, one file operation per action | TaskPlan |
| `SerialRun` | the serial runner, its agents, crashes and restarts | Finalizer |
| `MCSerialRun` | small instances of SerialRun | SerialRun |
| `PathPatterns` | when two path patterns of a plan overlap (`plan.go`) | - |
| `PathOwnership` | what a pattern owns, as a reference for `PathPatterns` | PathPatterns |
| `ReadyBatch` | which ready tasks may run next to each other; the batch as a set | TaskPlan, PathPatterns |
| `BatchScan` | `AnalyzeReadyBatch`, the two-pass scan that computes it | ReadyBatch |
| `MCBatchScan` | an instance of the scan, then all pairs of short patterns | BatchScan, PathOwnership |
| `ParallelRun` | the parallel runner: batches, integration, roll-back, recovery patches, restarts | SerialRun, ReadyBatch |
| `MCParallelRun` | small instances of ParallelRun | MCSerialRun, ParallelRun |
| `RunState` | the run state file and its mutex (`runstate.go`) | - |
| `AgentSessions` | the sessions, panes and tmux session of a run, with parallel workers | RunState |
| `MCAgentSessions` | two tasks with different workflows | AgentSessions |
| `AgentTurn` | abstract specification: one turn for each prompt, reported after it; TmuxPrompt and PtyPrompt implement it | - |
| `AgentTui` | a fullscreen agent in a terminal, and what both kinds of session keep | - |
| `TmuxPrompt` | the session of an agent in a tmux pane (`tmux_clients.go`) | AgentTui |
| `PtyPrompt` | the session of an agent behind a pseudo terminal (`pkg/agentcli`, `pkg/ptyrunner`) | AgentTui |
| `MCAgentPrompt` | the agents both are checked with, which of them the session can go by, and their fair specification | TmuxPrompt, PtyPrompt |
| `WorkspaceSetup` | create, init and restart (`internal/create`, `internal/bootstrap`) | - |
| `MCWorkspaceSetup` | two stages | WorkspaceSetup |
| `TaskPlanProofs`, `SerialRunProofs`, `ReadyBatchProofs`, `BatchScanProofs`, `ParallelRunProofs`, `AgentSessionsProofs`, `AgentPromptProofs`, `WorkspaceSetupProofs` | theorems | the module they are about, TLAPS |

A task is its position in the plan file. The plan is a function from tasks to
statuses; a readable file is its content, a file whose write was cut short is
named in `torn`. A note or result text is a message the agents chose plus the
marks vibedrive appends (`VerificationFailureNotePrefix`, the missing-review
note): the progress signature compares them, so they must be told apart.

**Finalizer.** `fpc` is the process's position: `load`, `verify`, `apply`
(changes the in-memory copies, removes the result file), `removeReview`,
`saveNotes`, `savePlan`, `commit`, and how it exited. It works on the copies
`fplan` and `fnotes` loaded before the verify commands, as the code does.
`FinAborts` ends it in any phase of `AbortsAt` (an I/O error, a timeout's kill);
in a save it may leave the file empty. `verified` is a history variable: the
tasks whose commands passed since agents last worked on them.

**SerialRun.** `rpc` is the runner's position. `Start` is a new process;
`StopBeforeIteration` holds runPlan's returns and `SelectTask` the start of
runSerialIteration; `RunPrompt`, `RepairNotes`, `InspectOutputs`,
`RepairOutputs`, `RecheckOutputs`, `RepairPromptFailed` and `RecordUnreviewed` are
runStep for an agent step, with validateTaskNotesAfterAgentStep and
ensureRequiredOutputsAfterStep. The fallback for a missing review is two files and
two steps, the review and then the result (`FallbackReview`, `RecordUnreviewed`);
the history variable `unreviewed` holds the tasks put on record as not reviewed, until an
agent reports on them again; `Finalize`, `FinalizeSucceeded` and
`FinalizeFailed` are the exec step that runs the finalizer;
`EndIteration` counts stalls. `GoToStep`, `EndSteps`, `StopRun` and `StepFails`
are the ways runSteps continues. `Crash` may happen at any moment.

**ReadyBatch, BatchScan.** `Joins(t, S)` is `exclusion`: whether nothing keeps a
task out of the tasks selected so far. `IsBatch(st, S)` says which set the scan
must end with, by the order of the scan alone: a ready task is in it exactly if
those taken before it leave room. `BatchScan` is the loop itself, one task of
the plan per step (`NotReady`, `LimitReached`, `Exclude`, `Select`). Patterns are
sequences of names, "/" and "*", since the code compares their text;
`PathOwnership` says which paths a pattern matches, and its two actions choose
the patterns to compare.

**ParallelRun** adds batches to the runner. A batch of one task is a serial
iteration (`SelectSingle`, `SingleStep`, `SingleFinalize`, `EndSingle`). A larger
one begins with `StartBatch`; then `integrateParallelBatch` takes its tasks one
after the other: `IntegrateFailure`, `IntegrateUncollected`, `IntegrateStopped`,
`IntegrateRefused`, `IntegrateApplied` and `WriteResultFails` are what can become
of a worker's result. What the worker returned is chosen there, since nothing
can observe it earlier. `bpc` is the position in the integration: `next`;
`finalize` (the in-process finalizer runs, the actions of `Finalizer`); a
recording (`failed`, `stopped`, `unapplied`, `unverified`), for which
`recordParallelTaskStatus` goes through the finalizer's phases of saving and
committing; `undo` and `followUp`, the roll-back and the commit after it.
`EndBatch` is `parallelBatchProgressTracker`, whose counter `bcount` exists next
to the serial `stalled`. Of the root workspace's content the model keeps the tasks of
the batch whose changes are in it (`tree`) and in HEAD (`headTree`). `recovery` and
`kept` are the recovery patches and the workers' workspaces on disk. The properties
use four history variables: `stranded`, the tasks whose last worker failed or left
changes that the root workspace did not take, for whatever reason; `stopped`,
those whose last worker reported them blocked or manual; `rejected`, those
that were promised a patch; and `unsettled`.

**TaskQueue** says what a run promises whoever executes the tasks: one status
changes at a time, of a task that is not terminal and whose dependencies all
are, and never back to `todo`. `SerialRun` implements it with the plan
file as the queue's state, and so does `ParallelRun`, whose workers' results
reach the plan only through the integration.

**AgentSessions, RunState.** A batch has a worker for each of its tasks, a serial
iteration is a batch of one. `at[t]` is a worker's position in runSteps: `RecordStep`
and `StepRecorded` are the update of the run state before a step; `UseSession`
finds or makes the step's session, fresh or shared; `OpenPane` and `StartAgent`
are the first prompt's NewPane and ensureSession; `RunStep` is the prompt, which
ends well, badly, or with a result that ends the workflow; `EndStep` closes a
fresh session; `CloseShared` is one turn of the deferred loop over the closers;
`BeginClearTask` and `ClearRuntimeTask` the update after it. `pc` is the position
of Run itself: the tmux session is made (`StartTmux`), attached to (`OpenClient`),
removed (`CloseRunTmux`), and then the run's entries are cleared. An update of
the run state is two steps, `Load` and a save, between which the file may not be
read by others: `copies[g]` is what goroutine g has read. `faulty`, `unsaved` and
`unclosed` remember which commands and writes failed, so that the properties can say
what is promised in spite of it.

**AgentTui, TmuxPrompt, PtyPrompt.** The agent starts, may ask for trust, reads
its keys, works a turn for each prompt and redraws its title and its screen, each of
which may lag behind (`late`). The session sees only what a poll reads. `pc` is
the position in a poll, `stage` what is polled for: `startup`, `ready`, `submit`
(Enter was sent, sent again after a while), `finish` and `close`. In a pane
a poll is two tmux commands (`ReadTitle`, then one of the `*Poll` actions on the
screen) with the agent at work between them; behind a pseudo terminal `Pump` feeds a
monitor that the polls read. Each stage has its `*Expires`, the deadline that
may have passed at any poll; `FallBack` is `idle_activity_timeout`.
`AgentTurn` is what the runner counts on, and the counters `asked`, `finished`,
`answered`, `guessed` and `failed` are the refinement mapping's: history
variables that the sessions never read.

**WorkspaceSetup.** `at` is the position of the command that runs, `phase` the
prompt it is at. `ShowMenu` to `WriteState` are create; `Scaffold` to
`RemoveFeedback` init, with `EndInitPhase` deciding what comes after a prompt
from the files alone; `LoadAll` to `CloseRestart` restart; `LaunchAgent`,
`RunPrompt`, `CloseAgent` and `GiveUp` are common to all. A file is the command
that wrote it and whether it is of use; a write in place is a truncation and
a write (`TruncateState` and `WriteState`, `TruncatePlan` and `SavePlan`),
between which `Killed` may strike. `Run` stands for a run of vibedrive, which makes
progress and leaves notes; `RemoveDesign` for the user. The history variable
`heard` holds the phases of the current attempt at a stage whose agents were heard out. `AgentWrites` says which
files a prompt's agent may write: well, emptily, invalidly or not at all.

## Model checking

Every run has `CHECK_DEADLOCK FALSE`, because a run of vibedrive ends.

| run | instance | what it checks |
|---|---|---|
| `serial_crash` | 2 independent tasks, 2 runs, a workflow that ends with its review, every phase may abort, crashes | `TypeOK`, `DoneIsVerified`, `StallStaysOnItem`, `PlanFollowsNotes`, `RepairFirst`, `UnreviewedIsNotDone`, `ImplementsQueue` |
| `serial_default` | 3 tasks, 2 of them in a dependency cycle, the scaffolded 4-step workflow, all result statuses, no crash | `StuckOnlyOnCycle`, `DoneOnFreshResult` |
| `batch_scan` | 6 tasks with every kind of exclusion, limit 3, all statuses; then all patterns of up to 4 symbols, paths of up to 5 | `PairwiseSafe`, `NextIsSelected`, `ScanIsBatch`, `OverlapMeetsOwnership` |
| `parallel_batch` | 2 compatible tasks; refused and oversized changes, failing git, result files and recovery patches, fair | `ParallelTypeOK`, `StallsStayOnTheirBatch`, `BatchIsRecorded`, `RejectedIsUndone`, `ParallelStopsOrProgresses` |
| `parallel_queue` | a batch of 2 and a task that depends on the first, 2 runs, crashes, commits that die, workers that fail, stop, cannot be collected or are refused | `UnsettledRunsAlone`, `DoneIsVerified`, `StrandedIsKept`, `ImplementsQueue` |
| `agent_sessions` | 2 workers, workflows with shared, reused and fresh sessions, 2 iterations, 2 runs, one failure at a time, dying agents | `TypeOK`, `NoStrayAgents`, `RunEndsClean`, `ActiveIsShown`, `ClearedWhenDone` |
| `agent_prompt` | 2 prompts, 3 attempts, claude and codex in a pane and behind a pty, lagging surfaces, deaths, deadlines, fair | `PromptTypeOK`, `CloseEndsAgent`, `ImplementsTurn`, `PastedIntoComposer`, `PromptEnds` |
| `workspace_setup` | 3 commands, 2 stages, kills anywhere, failing writes and removals | `TypeOK`, `OneAgent`, `LastStageIsDone`, `FeedbackIsFresh`, `InitDelivers`, `RestartDelivers`, `NotesOutlivePlan`, `UnforcedKeepsPlan` |
| `serial_review_finding` | 1 task, 2 runs, crashes | violates `DoneIsReviewed` |
| `parallel_sync_finding` | 2 tasks, a file sync refused in the middle | violates `RejectedIsUndone` |
| `parallel_done_finding` | 2 tasks, the commit fails | violates `DoneHasItsChanges` |
| `agent_prompt_finding` | claude in a pane whose title lags | violates `AnswerMeansFinished` |

**Bounds.** `MaxRuns` (how often the user starts a run: 1 or 2, two being what
a restart after a crash needs); `MaxIterations` and `MaxStalled` are the
program's own settings; the stall counter is bounded by `MaxStalled`. Two tasks
are enough for every property that relates a task to another one (an order, a
leftover, a counter that moves), three for a cycle plus a task that waits
for it. One message is enough where notes change by their
status and by vibedrive's marks; `serial_default` has two, so that an
agent may also change the text and nothing else. Initial plans are all
assignments of statuses, as a user may edit the file between runs.

The parallel runs share out the operations that may fail (`Failures`,
`AbortsAt`) by the property they could break: those of the root workspace in
`parallel_batch`, those of the workers in `parallel_queue`, with a restart after
them. Saves that are cut short by an abort are in `serial_crash`; in the
parallel runs only commits abort, and a crash may cut short any save. Two tasks make a batch; a
third that waits for the first, or owns no paths and so runs alone, is there for
the properties about what follows a batch. Their serial iterations have one
agent step and the finalizer, because the steps themselves are checked by the serial runs.
Six tasks hold one of each: an explicit conflict, a shared path, a
shared contract, paths taken from the component, no paths at all, and an unmet
dependency. Four symbols are enough for a glob after a directory and a name that
is the prefix of another one's path.

Two workers are what it takes to interleave updates of the run state; two
iterations, to leave something behind for the next one; two runs, to leave
an entry of a dead process. `MaxFaults` is 1 in the run: one tmux command or removal
that fails in a process, or writes that fail one at a time; the theorems are
about any number of them. Two prompts let the first one's turn be
taken for the second one's; three attempts (the code's numbers are larger) let
Enter be sent again before and after it was read. Three commands are an
interrupted one, the one that finds what it left, and one more after that; two
stages, one interactive and one not, are the two kinds there are.

**Fairness.** `ParallelFairSpec` has weak fairness of the runner (with the
finalizer it waits for, and its workers) and of the agents: the process keeps
running, verify commands and git return, and a prompt returns or fails, because the
clients give up on a silent agent, notice its exit, or hit the step's timeout.
Starting a run, crashing and repairing files by hand are not fair. `PromptSpec`
is where that assumption about prompts comes from: the session's polls, the pump and
the agent (which starts up, reads its keys, ends its turns and redraws) are weakly
fair, and a deadline, looked at again at every poll, is strongly fair. An agent
that dies need not. `PromptEnds` says that every prompt is then answered, guessed
or failed. The other specifications state no fairness; their properties are
about safety.

**Findings.** Four runs show where documents and code part. A fallback review stays
on disk until a finalizer removes it; when that one, or the runner, is killed before, the
next attempt takes it for its reviewer's and the task is recorded as done
(FEATURES.md:691). `UnreviewedIsNotDone` is what remains true: the work on record as
not reviewed is not done until an agent has reported on it again. A file sync refused
in the middle leaves the first files in the root workspace, and the record of the
refusal commits them (README.md:460); `RejectedIsUndone` holds in `parallel_batch`,
where a sync is refused before its first file. When only the commit of a verified task
fails, its changes are taken back while the plan keeps it done
(FEATURES.md:759). And claude's snapshot counts the title's and the screen's state in one
poll: under a title that stays busy after a turn, which a fixture of the repository
records as seen in practice, a prompt whose Enter was not read is reported complete
(docs/contracts/agent-transport.md:71). `ImplementsTurn` holds for the agents `Sound`
describes, all of which `agent_prompt` has:

- in a pane, claude whose title and screen change together. If only one of them
  lags, a poll that counts both finds a turn that never was;
- in a pane, codex whose title and screen lag in any way, but for two cases: one that
  dies in its turn under a title that still says idle is reported complete, and
  after the idle fallback gave up on a turn its idle title may come in time
  for the next prompt;
- behind a pseudo terminal, claude whose title and screen lag in any way, and codex
  whose screen does: the sessions go by the titles, each of which is consumed once,
  and codex's composer on the screen must not come before its idle title.

The excluded agents really break `ImplementsTurn`: TLC finds a prompt answered early
for each of them.

Smaller differences, met while modelling and not given a run of their own:

- A verification that fails twice in the same way counts as a stall; FEATURES.md:332
  calls it progress.
- A worker that ends blocked or manual leaves the recovery patch of an earlier attempt
  behind (FEATURES.md:789).
- The shared sessions of a workflow are closed until the first close fails
  (FEATURES.md:280-281 has all of them closed); the others stay until the run
  ends. `NoStrayAgents` excuses them by `faulty`.
- A run that cannot attach to the tmux session it has created leaves it
  (FEATURES.md:815); `RunEndsClean` excuses it by `unclosed`.
- An init that is killed before the plan's critic was heard leaves a plan that the next
  init takes for finished (FEATURES.md:192), valid or not; `InitDelivers` is about an
  init that writes a plan itself.
- init ignores it when its feedback files cannot be removed at the end
  (bootstrap.go:111-114), so that they may be left (FEATURES.md:194), and the plan it
  accepts may have tasks that are not `todo`. `InitDelivers` promises neither;
  what is left is harmless, as `FeedbackIsFresh` says.
- Without `-force` an old `COMPONENTS.md` passes for the one the agent was to write.
- With `-force` the plan and the components are removed before it is known whether there
  are sources to write new ones from.
- A `create-state.json` cut short by a kill stops create until the user removes it,
  and a restart killed while it saves leaves a plan nobody can read; its notes
  are still there (`NotesOutlivePlan`).
- The views tell a dead process's entries by its process id, and show them
  again when another vibedrive process gets it.

## Proofs

Assumptions: `PlanAssumption` (dependencies name tasks of the plan, as Validate
enforces), `FinalizerAssumption`, `SerialRunAssumption` (a workflow is a
sequence of agent steps whose last one may be the finalizer, as scaffolded),
`ReadyBatchAssumption` (the limit is positive and conflicts are between tasks of the
plan), `PathOwnershipAssumption` (a pattern without globs is short enough to be a
path), `ParallelRunAssumption` (what kinds of results workers return and which
operations may fail), `RunStateAssumption`, `MainAssumption` and `AgentSessionsAssumption` (every
workflow has a step, and no more than `NumSteps`; the driving goroutine is no
worker), `AgentTuiAssumption` (the kinds of agents, at least one Enter),
`WorkspaceSetupAssumption`.

- `TaskPlanProofs`: `NextReadyIsRunnable` and `StartedStaysNext`, the two facts
  about selection everything else uses: what is selected can run, and putting
  it in progress leaves it first.
- `SerialRunProofs`: every property of the serial runs, beginning with `TypeCorrect`;
  the finalizer's steps preserve its type invariant over arbitrary steps of its caller.
  `UnreviewedStaysOpen` is about every workflow. `DoneOnlyOnFreshResult` assumes a single
  run whose finalizer is not cut short; *Limits* says what happens otherwise.
- `ReadyBatchProofs`: `NextIsInBatch`: every set `IsBatch` accepts holds the
  task FindNextReady would return. `OneBatch`: it accepts one set only.
  `StartedStaysAlone`: a task that runs alone still does once it is in progress.
- `BatchScanProofs`: `ScanComputesBatch`, `BatchesAreSafe`,
  `NextIsAlwaysSelected`. The invariant says that what is selected is the batch of
  the tasks scanned so far, in the order of the two passes; the limit needs
  that the tasks before a task are finitely many. `OverlapsMeetOwnership`:
  patterns of any length over any names that own a file in common overlap.
- `ParallelRunProofs`: every property of the passing runs over `MCParallelRun` but the
  liveness property, among them that the parallel runner implements `TaskQueue`.
  `ParallelRejectedIsUndone` assumes that no file sync is refused half way; the run
  `parallel_sync_finding` shows that it needs to.
- `AgentSessionsProofs`: every property of `agent_sessions`, and
  `SessionsFileIsFreed`: the lock of the run state is never left behind.
- `AgentPromptProofs`: every safety property of `agent_prompt`. `PromptTypes` and
  `CloseEnds` are about every kind of agent, however its surfaces lag;
  `TakesTurns` (a session implements `AgentTurn`) and `PastesIntoComposer` about every
  one that is `Sound`, and `SoundSetupsAreSound` says that those of the run are. All four
  are about any number of prompts and of Enter presses.
- `WorkspaceSetupProofs`: every property of `workspace_setup`.

None of the safety properties is inductive by itself.

*SerialRun.* `IInv` adds what the code
never states: the runner's phase and the finalizer's agree with the
workflow step (`StepControl`); while the iteration lasts its task stays
non-terminal and startable until the finalizer saves (`TaskStaysOpen`); the
finalizer's copies equal the files except for the outcome of the one task
(`CopyMatches`), which is why saving a copy that is minutes old overwrites
nothing; a `done` in the copy is verified (`CopyIsVerified`); HEAD is never
ahead of the plan (`HeadBehindPlan`). `TurnInv` adds, for the two properties
about whose turn it is, that the task of an unfinished iteration remains the one
FindNextReady returns, and rests on `StartedStaysNext`. For `UnreviewedIsNotDone`,
`UnreviewedParts` follows the record of a missing review through crashes and
restarts: neither the result on file nor the one the finalizer has loaded says
"done". For
`DoneOnFreshResult`, `FirstRun` says when a result that is not from this
iteration can still lie about: only where the next step writes one or the run ends.
That a run without a ready task has a dependency cycle needs no induction: the unfinished
tasks themselves are the set.

*ParallelRun.* Outside a batch the runner takes steps of `SerialRun`, and `PInv`
there is the invariant of `SerialRunProofs` as it stands: its lemmas are cited, not
repeated. Inside one, `PInv` says which phase of the finalizer goes with which phase of
the integration (`BatchControl`), that the tasks still to be integrated may still start
(`BatchOpen`), that what the finalizer is about to save differs from the plan in the
one task (`BatchCopies`, although several finalizers run one after the other on
one plan), and why the work that the root workspace did not take is still there
(`PatchParts`): a workspace is removed only after its changes were taken or its worker gave
the task up, and a patch only of a task that is terminal, which it then stays.
Two more invariants follow a batch as long as nothing has failed: `RecordParts` says
that the tasks integrated so far are on record everywhere, `UndoParts` that the
tree and HEAD hold nothing of stranded work but that of the task that is being taken
back. `AloneParts` ties the two stall counters and the changes that are not
committed to the batch the next iteration will choose: since the code stores no
choice, this rests on `OneBatch` and `StartedStaysAlone`.

*AgentSessions.* `SessionsInv` has two halves. About the file: a copy that was
read equals the file until it is written back (`CopyInv`), since the mutex is held
from one to the other; so a worker's save changes no entry but its own, and the file
says where each worker is (`ShownInv`). About the panes: a pane, unless tmux failed
in its task's iteration, is the one its session was given last, and its
worker either is in the step of that fresh session or has the shared
session among its closers (`PaneInv`); so whatever way the workflow
ends, the deferred closes reach it. For that a worker that opens a pane needs a
session that has none yet (`SessionInv`). One lemma says that a step of one worker
disturbs the panes of no other (`OwnPanes`), and each action then accounts for its own.

*Agent prompts.* A session never knows what its agent does; it acts on what a title and
a screen looked like, at two moments, one after the other. `PromptInv` says for
each stage what the agent may be doing meanwhile. In a pane (`TmuxInv`): before
the first prompt it looks idle only once it is (`TmuxStartup`); at the paste
it has nothing to do and no title or screen read so far can be taken for a turn
(`TmuxBetween`); while the prompt is waited for, it is typed and the agent looks idle,
or is worked on and looks busy from the poll that noticed it on, or is over
(`TmuxInTurn`), and the start is always counted before the end (`Untouched`), so that both
counters together mean one whole turn. Which surface betrays a working
agent depends on what may lag, hence `Honest` and `BusySurfaces`. Behind a pseudo
terminal (`PtyInv`) what was drawn and is not consumed yet stays in the stream:
`PtyInTurn` says that of the two titles of a turn, busy and idle, the stream and the
monitor together hold exactly those that were drawn, each once, and the second only after
the turn. The stream is of any length; the lemmas on `NoTitle`, `OneTitle` and
`TwoTitles` say what appending to it and taking its head leave of them.

*Path patterns.* A path that a pattern matches begins with the pattern's literal
beginning, and is the pattern if that has no glob (`LiteralsMatch`). Two patterns that match
a path, or a directory above it, so have literal beginnings of which one is a prefix of the other,
which is what pathPatternsOverlap tests (`CommonOverlaps`). `Matches` is a recursive
function over the positions of the pattern, each with the set of positions of the path
from where the rest matches; that it exists (`MatchExists`) and what it holds for a
literal are inductions over a set of numbers (`UpTo`). The values at globs do not matter
for the proof: the analysis never looks past the first glob.

*WorkspaceSetup.* `SetupInv` says at which places a command of each kind can
be and with which phase (`WhereInv`), whose agent is up there (`AgentInv`), and which
files this command has already removed or written there (`InitInv`, `RestartInv`).
A file from an earlier command is ruled out because every one a later step relies on is
removed before its prompt, or compared with what it was before. `StageInv` says which
phases of a stage have come before the one that is at work.

Model-checked only: `ParallelStopsOrProgresses` and `PromptEnds`, liveness properties,
which are out of the prover's reach, as is `ENABLED`.

## Limits

- `UnreviewedIsNotDone` begins when the task result says that the review is missing. A
  process that dies between the fallback review and that record, or a finalizer
  that dies between removing the result and removing the review, leaves a fallback the
  next attempt takes for a review (`serial_review_finding`). In the scaffolded
  workflow the coder addresses the review afterwards, and that step may set the result
  back to done after a fallback review: an agent has then reported again.
- `StrandedIsKept` excuses the changes of a worker that reports its task blocked or
  manual: they are not collected, and go with its workspace, even when the
  report cannot be recorded (runner.go:741-745). A patch is promised only if it
  was written; a later worker's result that is finalized removes it, also when
  that leaves the task in progress.
- `DoneOnFreshResult` holds within one run only: a crash, or an error that ends the run,
  between an agent's step and the finalizer leaves its result behind, and
  the next run accepts it; so does an iteration after a finalizer that was cut short. It is
  still verified before it is recorded.
- One vibedrive process per workspace. The code has no lock: two of them lose each
  other's updates of the run state, the plan and the notes. A finalizer that
  outlives its killed runner is not modelled either.
- Two things the code does are noted here and under the hazards only. A finalizer
  that is killed at its timeout is taken for a recorded failure if an older one is
  on record (`FailureRecorded`). A done task whose commit failed is not committed
  by a later run, which reports completion; the other way round, HEAD saying done
  and the plan not, cannot happen (`HeadBehindPlan`).
- An agent is one step per prompt and writes only the files of its own task. It does
  not edit the plan, which the prompts forbid.
- An unparsable result and one with an unsupported status are one value
  (`BadFile`): the code keeps the notes of the second in the missing-review result.
- Inside a worker nothing is modelled: it runs a serial iteration in a workspace of
  its own, and what the root workspace sees of it is a status, a text and a
  set of changes. Notes a worker could not read count as a failed worker.
- A task has one worker workspace. The code makes one per iteration, and never
  removes those that stay behind.
- The error texts vibedrive writes into notes are one mark per kind of failure.
  If two failures of a kind differ in text, the code sees progress where the model
  sees none; liveness is about the model's stricter notion.
- A commit of a plan file that was cut short leaves `head` alone.
- Which paths a worker changed is not modelled, so neither is a patch that
  conflicts: `IntegrateRefused` may refuse any changes.
- Commands other than the finalizer, log output, prompts' wording and dry runs
  are left out.
- In `AgentSessions` all agents are fullscreen ones in panes. `claude --print` and
  `codex exec` run one process for each prompt and have no session to close. How the
  dashboard is laid out is left out, except that laying it out may fail
  after the pane is there; so is an agent that dies between two tmux commands of a
  layout and takes the pane to be split with it.
- In `AgentTui` a title and a screen are what the classifiers make of them. Of the
  transition counters only "more than when the wait began" is kept. What users type
  into a session themselves is left out.
- `WorkspaceSetup` keeps of a file only what the next command looks at. What a design
  says, how many sources there are and the wording of prompts are left out;
  `init --print-sources` only prints.

## Not modelled

- *Diagnostics*: the capturer copies files when a step fails and nothing reads them
  back; its bounded tails are a pure function of the output.
- *Configuration*: a loader and validator without state; what a run depends on of it
  is constants (`Steps`, `Limit`, `MaxIterations`, `MaxStalled`, `Workflow`).
- *View, rendering, command line*: they print; what the views read of the run state is
  `Shown`. YAML decoding enters as "the file is readable or not".
- *Isolated workspaces*: that a task has one is state of `ParallelRun`; copying files
  into it and its git commands are not.

## Plan

1. Done: `TaskPlan`, `TaskQueue`, `Finalizer`, `SerialRun` and their proofs.
2. Done: `PathPatterns`, `ReadyBatch`, `BatchScan` and their proofs.
3. Done: `ParallelRun` and its proofs.
4. Done: `RunState`, `AgentSessions` and their proofs.
5. Done: `AgentTurn`, `AgentTui`, `TmuxPrompt`, `PtyPrompt` and their proofs.
6. Done: `WorkspaceSetup` and its proofs.
7. To be modelled: two processes in one workspace; what `--print` and `exec` clients
   do when a step's timeout strikes.
