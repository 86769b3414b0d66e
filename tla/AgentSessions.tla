---------------------------- MODULE AgentSessions ---------------------------
(***************************************************************************)
(* The agent sessions of a run (internal/runner: Run, runSteps and the     *)
(* session handling of the tmux clients), the tmux session their panes are *)
(* in and the run state that tells the views about them.  A batch has one  *)
(* worker for each task; a serial iteration is a batch of one.             *)
(*                                                                         *)
(* What is prompted and what becomes of the tasks is left to SerialRun,    *)
(* ParallelRun and AgentTui: a prompt is answered, fails, or ends the      *)
(* workflow early.  All agents are fullscreen ones.  Of the tmux session   *)
(* only the agents' panes are kept, not how they are laid out.             *)
(***************************************************************************)
EXTENDS RunState, Sequences, FiniteSets

CONSTANTS
  Workflow,       \* by task, the enabled steps of its workflow
  Parallelism,    \* EffectiveParallelism()
  MaxIterations,  \* max_iterations
  MaxFaults       \* bound: failures at a time that are still remembered

Agents == {"claude", "codex"}

ASSUME AgentSessionsAssumption ==
  /\ Workflow \in [Tasks -> Seq([agent: Agents, fresh: BOOLEAN, lenient: BOOLEAN])]
  /\ \A t \in Tasks : Len(Workflow[t]) \in 1..NumSteps
  /\ Parallelism \in Nat \ {0}
  /\ MaxIterations \in Nat /\ MaxFaults \in Nat

VARIABLES
  \* tmux
  session,    \* the process has a tmux session
  panes,      \* the agents' panes in it
  \* the process
  pc,         \* what it does next
  iteration,
  \* its workers, by task
  at,         \* what the worker does next
  step,       \* the step it is at
  closers,    \* sharedClosers: the agents it has a shared session of
  pane,       \* for each of its sessions, the pane it was given last
  started,    \* the sessions whose agent is up
  outcome,    \* what the step, and then the workflow, came to
  \* history
  faulty,     \* the iterations of tasks in which a tmux command failed
  unsaved,    \* the tasks whose last entry in the run state failed
  unclosed    \* what could not be removed at the end

tmux == <<session, panes>>
worker == <<at, step, closers, pane, started, outcome>>
history == <<faulty, unsaved, unclosed>>
vars == <<runState, tmux, pc, iteration, worker, history>>

PCs == {"start", "attach", "loop", "kill", "clear", "clearing", "ended"}
Places == {"idle", "record", "recording", "session", "open", "startup",
           "prompt", "endStep", "close", "clear", "clearing"}
Slots == Agents \cup {"fresh"}
NoPane == <<>>
Panes == [iteration: 1..MaxIterations, task: Tasks, step: 1..NumSteps]

TypeOK ==
  /\ RunStateTypeOK
  /\ session \in BOOLEAN /\ panes \subseteq Panes
  /\ pc \in PCs /\ iteration \in 0..MaxIterations
  /\ at \in [Tasks -> Places]
  /\ step \in [Tasks -> 1..NumSteps]
  /\ closers \in [Tasks -> Seq(Agents)]
  /\ pane \in [Tasks -> [Slots -> Panes \cup {NoPane}]]
  /\ started \in [Tasks -> SUBSET Slots]
  /\ outcome \in [Tasks -> {"ok", "stop", "error"}]
  /\ faulty \subseteq (1..MaxIterations) \X Tasks
  /\ unsaved \subseteq Tasks
  /\ unclosed \subseteq {"session", "file"}

Each(x) == [t \in Tasks |-> x]
NoPanes == [s \in Slots |-> NoPane]

Init ==
  /\ RunStateInit
  /\ session = FALSE /\ panes = {}
  /\ pc = "start" /\ iteration = 0
  /\ at = Each("idle") /\ step = Each(1) /\ closers = Each(<<>>)
  /\ pane = Each(NoPanes) /\ started = Each({}) /\ outcome = Each("ok")
  /\ faulty = {} /\ unsaved = {} /\ unclosed = {}

Idle(t) == at[t] = "idle"
AllIdle == \A t \in Tasks : Idle(t)
GoTo(t, place) == at' = [at EXCEPT ![t] = place]
Proceeds == UNCHANGED <<pc, iteration>>

\* Failures, and the marks they leave.
MayFail == Cardinality(faulty) + Cardinality(unsaved) + Cardinality(unclosed) < MaxFaults
TmuxFails(t) ==
  /\ MayFail
  /\ faulty' = faulty \cup {<<iteration, t>>} /\ UNCHANGED <<unsaved, unclosed>>
NotSaved(t) == MayFail /\ SaveFails(t) /\ unsaved' = unsaved \cup {t}
NotClosed(what) == MayFail /\ unclosed' = unclosed \cup {what}

-----------------------------------------------------------------------------
(***************************************************************************)
(* The process                                                             *)
(***************************************************************************)

\* ensureRunTmux.  Without a tmux session the run ends; when there is one that
\* cannot be attached to it ends as well, before its removal is deferred.
StartTmux ==
  /\ pc = "start"
  /\ \/ session' = TRUE /\ pc' = "attach"
     \/ UNCHANGED session /\ pc' = "clear"
  /\ UNCHANGED <<runState, panes, iteration, worker, history>>

OpenClient ==
  /\ pc = "attach"
  /\ \/ pc' = "loop" /\ UNCHANGED unclosed
     \/ pc' = "clear" /\ NotClosed("session")
  /\ UNCHANGED <<runState, tmux, iteration, worker, faulty, unsaved>>

\* One iteration too many.
BugStartIteration(batch) ==
  /\ pc = "loop" /\ AllIdle /\ iteration <= MaxIterations
  /\ batch # {} /\ Cardinality(batch) <= Parallelism
  /\ iteration' = iteration + 1
  /\ at' = [t \in Tasks |-> IF t \in batch THEN "record" ELSE "idle"]
  /\ UNCHANGED <<runState, tmux, pc, step, closers, pane, started, outcome, history>>

\* A worker for each task of the batch; it has no sessions.
StartIteration(batch) ==
  /\ pc = "loop" /\ AllIdle /\ iteration < MaxIterations
  /\ batch # {} /\ Cardinality(batch) <= Parallelism
  /\ iteration' = iteration + 1
  /\ at' = [t \in Tasks |-> IF t \in batch THEN "record" ELSE "idle"]
  /\ UNCHANGED <<runState, tmux, pc, step, closers, pane, started, outcome, history>>

\* An error ends the run past what is left to be closed.
BugEndRun ==
  /\ pc = "loop" /\ AllIdle
  /\ pc' = "clear"
  /\ UNCHANGED <<runState, tmux, iteration, worker, history>>

\* Nothing is left to do, or an error ends the run.
EndRun ==
  /\ pc = "loop" /\ AllIdle
  /\ pc' = "kill"
  /\ UNCHANGED <<runState, tmux, iteration, worker, history>>

\* closeRunTmux
CloseRunTmux ==
  /\ pc = "kill" /\ pc' = "clear"
  /\ \/ session' = FALSE /\ panes' = {} /\ UNCHANGED unclosed
     \/ UNCHANGED tmux /\ NotClosed("session")
  /\ UNCHANGED <<runState, iteration, worker, faulty, unsaved>>

\* clearRuntimeRun
BeginClearRun ==
  /\ pc = "clear" /\ pc' = "clearing"
  /\ Load(Main)
  /\ UNCHANGED <<tmux, iteration, worker, history>>

ClearRuntimeRun ==
  /\ pc = "clearing" /\ pc' = "ended"
  /\ \/ ClearRun /\ UNCHANGED unclosed
     \/ SaveFails(Main) /\ NotClosed("file")
  /\ UNCHANGED <<tmux, iteration, worker, faulty, unsaved>>

-----------------------------------------------------------------------------
(***************************************************************************)
(* A worker in runSteps                                                    *)
(***************************************************************************)

Current(t) == Workflow[t][step[t]]
Slot(t) == IF Current(t).fresh THEN "fresh" ELSE Current(t).agent
NewPane(t) == [iteration |-> iteration, task |-> t, step |-> step[t]]

\* recordRuntimeStep
RecordStep(t) ==
  /\ at[t] = "record" /\ GoTo(t, "recording")
  /\ Load(t)
  /\ Proceeds
  /\ UNCHANGED <<tmux, step, closers, pane, started, outcome, history>>

StepRecorded(t) ==
  /\ at[t] = "recording" /\ GoTo(t, "session")
  /\ \/ UpsertTask(t, step[t]) /\ unsaved' = unsaved \ {t}
     \/ NotSaved(t)
  /\ Proceeds
  /\ UNCHANGED <<tmux, step, closers, pane, started, outcome, faulty, unclosed>>

\* The session of the step, fresh or shared with the steps before; its agent is
\* started with the first prompt.
UseSession(t) ==
  /\ at[t] = "session"
  /\ LET s == Slot(t)
         new == s = "fresh" \/ \A i \in 1..Len(closers[t]) : closers[t][i] # s
     IN /\ pane' = IF new THEN [pane EXCEPT ![t][s] = NoPane] ELSE pane
        /\ started' = IF new THEN [started EXCEPT ![t] = @ \ {s}] ELSE started
        /\ closers' = IF new /\ s # "fresh" THEN [closers EXCEPT ![t] = Append(@, s)]
                      ELSE closers
        /\ GoTo(t, IF ~new /\ s \in started[t] THEN "prompt" ELSE "open")
  /\ Proceeds
  /\ UNCHANGED <<runState, tmux, step, outcome, history>>

\* Controller.NewPane.  When the layout fails, the pane is there and the session
\* does not know it.
OpenPane(t) ==
  /\ at[t] = "open"
  /\ \/ /\ panes' = panes \cup {NewPane(t)}
        /\ pane' = [pane EXCEPT ![t][Slot(t)] = NewPane(t)]
        /\ GoTo(t, "startup") /\ UNCHANGED <<outcome, history>>
     \/ /\ panes' \in {panes, panes \cup {NewPane(t)}}
        /\ TmuxFails(t)
        /\ GoTo(t, "endStep") /\ outcome' = [outcome EXCEPT ![t] = "error"]
        /\ UNCHANGED pane
  /\ Proceeds
  /\ UNCHANGED <<runState, session, step, closers, started>>

\* The session's close: its pane goes, if it is still there and tmux obliges.
PaneCloses(p) == panes' = panes \ {p}
PaneStays(t, p) == p \in panes /\ UNCHANGED panes /\ TmuxFails(t)

\* ensureSession: an agent that does not start up is closed, and errors of that
\* are not looked at.
StartAgent(t) ==
  /\ at[t] = "startup"
  /\ \/ /\ started' = [started EXCEPT ![t] = @ \cup {Slot(t)}]
        /\ GoTo(t, "prompt") /\ UNCHANGED <<panes, outcome, history>>
     \/ /\ \/ PaneCloses(pane[t][Slot(t)]) /\ UNCHANGED history
           \/ PaneStays(t, pane[t][Slot(t)])
        /\ GoTo(t, "endStep") /\ outcome' = [outcome EXCEPT ![t] = "error"]
        /\ UNCHANGED started
  /\ Proceeds
  /\ UNCHANGED <<runState, session, step, closers, pane>>

\* runStep: the step ends, well or not, or with a result on record that ends the
\* workflow.
RunStep(t) ==
  /\ at[t] = "prompt" /\ GoTo(t, "endStep")
  /\ outcome' \in {[outcome EXCEPT ![t] = o] : o \in {"ok", "stop", "error"}}
  /\ Proceeds
  /\ UNCHANGED <<runState, tmux, step, closers, pane, started, history>>

\* Sessions are left to whoever comes after an early end.
BugAfterStep(t, o) ==
  IF o = "stop" THEN GoTo(t, "clear") /\ UNCHANGED step
  ELSE IF (o = "error" /\ ~Current(t).lenient) \/ step[t] = Len(Workflow[t])
  THEN GoTo(t, "close") /\ UNCHANGED step
  ELSE GoTo(t, "record") /\ step' = [step EXCEPT ![t] = @ + 1]

\* What comes after a step that came to o.
AfterStep(t, o) ==
  IF o = "stop" \/ (o = "error" /\ ~Current(t).lenient) \/ step[t] = Len(Workflow[t])
  THEN GoTo(t, "close") /\ UNCHANGED step
  ELSE GoTo(t, "record") /\ step' = [step EXCEPT ![t] = @ + 1]

\* A fresh session is closed with its step; an error of that is one of the step.
EndStep(t) ==
  /\ at[t] = "endStep"
  /\ \/ /\ Current(t).fresh => PaneCloses(pane[t].fresh)
        /\ ~Current(t).fresh => UNCHANGED panes
        /\ AfterStep(t, outcome[t]) /\ UNCHANGED history
     \/ /\ Current(t).fresh /\ PaneStays(t, pane[t].fresh)
        /\ AfterStep(t, IF outcome[t] = "ok" THEN "error" ELSE outcome[t])
  /\ outcome' = [outcome EXCEPT ![t] = "ok"]
  /\ Proceeds
  /\ UNCHANGED <<runState, session, closers, pane, started>>

\* closeSharedSession: from the last one opened to the first, until a close
\* fails.
CloseShared(t) ==
  /\ at[t] = "close" /\ closers[t] # <<>>
  /\ LET last == Len(closers[t])
         p == pane[t][closers[t][last]]
     IN \/ /\ PaneCloses(p) /\ UNCHANGED <<at, history>>
           /\ closers' = [closers EXCEPT ![t] = SubSeq(@, 1, last - 1)]
        \/ PaneStays(t, p) /\ GoTo(t, "clear") /\ UNCHANGED closers
  /\ Proceeds
  /\ UNCHANGED <<runState, session, step, pane, started, outcome>>

AllClosed(t) ==
  /\ at[t] = "close" /\ closers[t] = <<>>
  /\ GoTo(t, "clear")
  /\ Proceeds
  /\ UNCHANGED <<runState, tmux, step, closers, pane, started, outcome, history>>

\* clearRuntimeTask, deferred: after everything else.  The worker is forgotten.
BeginClearTask(t) ==
  /\ at[t] = "clear" /\ GoTo(t, "clearing")
  /\ Load(t)
  /\ Proceeds
  /\ UNCHANGED <<tmux, step, closers, pane, started, outcome, history>>

ClearRuntimeTask(t) ==
  /\ at[t] = "clearing" /\ GoTo(t, "idle")
  /\ step' = [step EXCEPT ![t] = 1] /\ closers' = [closers EXCEPT ![t] = <<>>]
  /\ pane' = [pane EXCEPT ![t] = NoPanes] /\ started' = [started EXCEPT ![t] = {}]
  /\ \/ ClearTask(t) /\ unsaved' = unsaved \ {t}
     \/ NotSaved(t)
  /\ Proceeds
  /\ UNCHANGED <<tmux, outcome, faulty, unclosed>>

-----------------------------------------------------------------------------
\* An agent may leave or die at any time; that of a worker that is idle
\* or a process that is gone is of no consequence.
AgentDies(p) ==
  /\ running /\ ~Idle(p.task)
  /\ PaneCloses(p)
  /\ UNCHANGED <<runState, session, pc, iteration, worker, history>>

\* The process exits, or is killed at any time.  What tmux has of it goes on, and
\* is left out once there is another process.
Exit ==
  /\ EndProcess
  /\ UNCHANGED <<tmux, pc, iteration, worker, history>>

Restart ==
  /\ NextProcess
  /\ pc' = "start" /\ iteration' = 0
  /\ at' = Each("idle") /\ step' = Each(1) /\ closers' = Each(<<>>)
  /\ pane' = Each(NoPanes) /\ started' = Each({}) /\ outcome' = Each("ok")
  /\ faulty' = {} /\ unsaved' = {} /\ unclosed' = {}
  /\ session' = FALSE /\ panes' = {}

ProcessStep ==
  \/ StartTmux \/ OpenClient \/ EndRun
  \/ \E batch \in SUBSET Tasks : StartIteration(batch)
  \/ CloseRunTmux \/ BeginClearRun \/ ClearRuntimeRun

WorkerStep(t) ==
  \/ RecordStep(t) \/ StepRecorded(t) \/ UseSession(t) \/ OpenPane(t)
  \/ StartAgent(t) \/ RunStep(t) \/ EndStep(t)
  \/ CloseShared(t) \/ AllClosed(t) \/ BeginClearTask(t) \/ ClearRuntimeTask(t)

Next ==
  \/ running /\ ProcessStep
  \/ running /\ \E t \in Tasks : WorkerStep(t)
  \/ running /\ Exit
  \/ \E p \in panes : AgentDies(p)
  \/ Restart

Spec == Init /\ [][Next]_vars

-----------------------------------------------------------------------------
(***************************************************************************)
(* Properties                                                              *)
(***************************************************************************)

\* FEATURES.md:280: an agent's pane exists only as long as the worker whose
\* session it is needs it: a fresh one during its step, a shared one until the
\* workflow ends.  Where a tmux command failed in an iteration of a task, its
\* agents may stay until the end of the run.
Held(p) ==
  /\ p.iteration = iteration /\ ~Idle(p.task)
  /\ \E s \in Slots : pane[p.task][s] = p
  /\ Workflow[p.task][p.step].fresh => p.step = step[p.task]
NoStrayAgents ==
  \A p \in panes : Held(p) \/ <<p.iteration, p.task>> \in faulty

\* FEATURES.md:815: a run that ends takes its tmux session and all agents in it
\* along, unless tmux refused.
RunEndsClean ==
  pc = "ended" => (session \/ panes # {} => "session" \in unclosed)

\* FEATURES.md:284: whenever an agent is prompted, the views show its task at
\* that step, however many workers write the file.
AtWork == {"session", "open", "startup", "prompt", "endStep"}
ActiveIsShown ==
  \A t \in Tasks :
    running /\ at[t] \in AtWork /\ t \notin unsaved => Shown[t] = step[t]

\* FEATURES.md:285: nothing is shown of a task whose worker is through, or left
\* in the file by a run that ended.
ClearedWhenDone ==
  /\ \A t \in Tasks : Idle(t) /\ t \notin unsaved => Shown[t] = 0
  /\ pc = "ended" /\ "file" \notin unclosed => \A t \in Tasks : file[run][t] = 0

\* The file is free, or in the hands of one goroutine that is about to write it
\* or to give up: no failure on the way leaves the others waiting.
Writes(g) ==
  IF g = Main THEN pc = "clearing" ELSE at[g] \in {"recording", "clearing"}
FileIsFreed ==
  /\ \A g \in Goroutines : copies[g] # NoCopy => running /\ Writes(g)
  /\ \A g, h \in Goroutines : copies[g] # NoCopy /\ copies[h] # NoCopy => g = h
=============================================================================
