------------------------- MODULE AgentSessionsProofs -------------------------
(***************************************************************************)
(* The safety properties of AgentSessions, for any tasks and workflows, any *)
(* number of workers, iterations and runs, and any failures.               *)
(***************************************************************************)
EXTENDS AgentSessions, TLAPS

\* TypeOK but for the run state, in two parts.
RunTyped ==
  /\ session \in BOOLEAN /\ panes \subseteq Panes
  /\ pc \in PCs /\ iteration \in 0..MaxIterations
  /\ faulty \subseteq (1..MaxIterations) \X Tasks
  /\ unsaved \subseteq Tasks
  /\ unclosed \subseteq {"session", "file"}
WorkerTyped ==
  /\ at \in [Tasks -> Places]
  /\ step \in [Tasks -> 1..NumSteps]
  /\ closers \in [Tasks -> Seq(Agents)]
  /\ pane \in [Tasks -> [Slots -> Panes \cup {NoPane}]]
  /\ started \in [Tasks -> SUBSET Slots]
  /\ outcome \in [Tasks -> {"ok", "stop", "error"}]

\* Workers work in iterations of a run that goes on.
ControlInv ==
  /\ pc # "loop" => AllIdle
  /\ pc \in {"start", "attach"} => iteration = 0
  /\ \A t \in Tasks : ~Idle(t) => iteration # 0

\* A copy of the run state is never out of date; only its own process has
\* written a run's entries.
CopyInv ==
  /\ FileIsFreed
  /\ \A g \in Goroutines : copies[g] # NoCopy => copies[g] = file
  /\ \A r \in Runs : r > run => \A t \in Tasks : file[r][t] = 0

\* ActiveIsShown and ClearedWhenDone, of the file itself.
ShownInv ==
  /\ \A t \in Tasks : running /\ at[t] \in AtWork /\ t \notin unsaved => file[run][t] = step[t]
  /\ \A t \in Tasks : running /\ Idle(t) /\ t \notin unsaved => file[run][t] = 0
  /\ pc = "ended" /\ "file" \notin unclosed => \A t \in Tasks : file[run][t] = 0

\* What is left of the tmux session.
TmuxInv ==
  /\ pc = "start" => ~session
  /\ pc \in {"start", "attach"} => panes = {}
  /\ pc \in {"clear", "clearing", "ended"} =>
       (session \/ panes # {} => "session" \in unclosed)

\* A pane, where no tmux command failed, is that of a session whose agent was
\* started and whose worker is going to close it.
SlotOf(p) ==
  IF Workflow[p.task][p.step].fresh THEN "fresh" ELSE Workflow[p.task][p.step].agent
InUse(p) ==
  /\ p.iteration = iteration /\ p.step <= Len(Workflow[p.task])
  /\ pane[p.task][SlotOf(p)] = p
  /\ SlotOf(p) = "fresh" =>
       p.step = step[p.task] /\ at[p.task] \in {"startup", "prompt", "endStep"}
  /\ SlotOf(p) # "fresh" =>
       /\ at[p.task] \notin {"idle", "clear", "clearing"}
       /\ \E i \in 1..Len(closers[p.task]) : closers[p.task][i] = SlotOf(p)
  /\ \/ SlotOf(p) \in started[p.task]
     \/ at[p.task] = "startup" /\ SlotOf(p) = Slot(p.task)
PaneInv == \A p \in panes : InUse(p) \/ <<p.iteration, p.task>> \in faulty

\* A worker that is about to open a pane or has opened one has a session.
SessionInv ==
  /\ \A t \in Tasks : step[t] <= Len(Workflow[t])
  /\ \A t \in Tasks : at[t] \in {"open", "startup", "prompt"} /\ ~Current(t).fresh =>
       \E i \in 1..Len(closers[t]) : closers[t][i] = Slot(t)
  /\ \A t \in Tasks : at[t] = "open" => Slot(t) \notin started[t]

SessionsInv ==
  /\ RunStateTypeOK /\ RunTyped /\ WorkerTyped
  /\ ControlInv /\ CopyInv /\ ShownInv /\ TmuxInv /\ PaneInv /\ SessionInv

-----------------------------------------------------------------------------
(***************************************************************************)
(* A worker, its step and the session of the step                          *)
(***************************************************************************)

\* A worker is at an enabled step of its workflow, which has a session.
LEMMA StepTyped ==
  ASSUME SessionsInv, NEW t \in Tasks
  PROVE  /\ Current(t) \in [agent: Agents, fresh: BOOLEAN, lenient: BOOLEAN]
         /\ Slot(t) \in Slots
         /\ Current(t).fresh => Slot(t) = "fresh"
         /\ ~Current(t).fresh => Slot(t) \in Agents
<1> DEFINE Step == [agent: Agents, fresh: BOOLEAN, lenient: BOOLEAN]
<1>1. Workflow[t] \in Seq(Step)
  BY AgentSessionsAssumption
<1>2. step[t] \in 1..Len(Workflow[t])
  BY <1>1 DEF SessionsInv, SessionInv, WorkerTyped
<1> HIDE DEF Step
<1>3. Current(t) \in Step
  BY <1>1, <1>2 DEF Current
<1> USE DEF Step
<1> QED BY <1>3 DEF Slot, Slots

\* A pane that a worker at work opens is one of the Panes.
LEMMA PlaceTyped ==
  ASSUME SessionsInv, NEW t \in Tasks, ~Idle(t)
  PROVE  NewPane(t) \in Panes /\ <<iteration, t>> \in (1..MaxIterations) \X Tasks
<1>1. iteration \in 1..MaxIterations
  BY AgentSessionsAssumption DEF SessionsInv, ControlInv, RunTyped
<1>2. step[t] \in 1..NumSteps
  BY DEF SessionsInv, WorkerTyped
<1> QED BY <1>1, <1>2 DEF NewPane, Panes

-----------------------------------------------------------------------------
(***************************************************************************)
(* The updates of the run state                                            *)
(***************************************************************************)

\* Reading the file changes nothing but the reader's copy, the only one.
LEMMA LoadKeeps ==
  ASSUME SessionsInv, NEW g \in Goroutines, Load(g)
  PROVE  /\ RunStateTypeOK' /\ UNCHANGED <<run, running, file>>
         /\ \A h \in Goroutines : copies'[h] # NoCopy => h = g /\ copies'[h] = file
<1> USE DEF SessionsInv, RunStateTypeOK, Load
<1>1. copies' \in [Goroutines -> Files \cup {NoCopy}]
  OBVIOUS
<1> QED BY <1>1

\* A save writes the entries of the run and no others, and no copy is left.
LEMMA SaveKeeps ==
  ASSUME SessionsInv, NEW g \in Goroutines,
         NEW entries \in [Tasks -> 0..NumSteps], Save(g, entries)
  PROVE  /\ RunStateTypeOK' /\ UNCHANGED <<run, running>>
         /\ file' = [file EXCEPT ![run] = entries]
         /\ \A h \in Goroutines : copies'[h] = NoCopy
<1> USE DEF SessionsInv, RunStateTypeOK, CopyInv, FileIsFreed, Save
<1>1. file' = [file EXCEPT ![run] = entries]
  OBVIOUS
<1>2. file' \in Files
  BY <1>1 DEF Files
<1>3. \A h \in Goroutines : copies'[h] = NoCopy
  OBVIOUS
<1>4. copies' \in [Goroutines -> Files \cup {NoCopy}]
  OBVIOUS
<1> QED BY <1>1, <1>2, <1>3, <1>4

\* Nor is one left by a save that fails.
LEMMA SaveFailsKeeps ==
  ASSUME SessionsInv, NEW g \in Goroutines, SaveFails(g)
  PROVE  /\ RunStateTypeOK' /\ UNCHANGED <<run, running, file>>
         /\ \A h \in Goroutines : copies'[h] = NoCopy
<1> USE DEF SessionsInv, RunStateTypeOK, CopyInv, FileIsFreed, SaveFails
<1>1. \A h \in Goroutines : copies'[h] = NoCopy
  OBVIOUS
<1>2. copies' \in [Goroutines -> Files \cup {NoCopy}]
  OBVIOUS
<1> QED BY <1>1, <1>2

\* The entry of a task that a worker writes.
LEMMA EntryKeeps ==
  ASSUME SessionsInv, NEW t \in Tasks, NEW s \in 0..NumSteps,
         Save(t, [Entries(t) EXCEPT ![t] = s])
  PROVE  /\ RunStateTypeOK' /\ UNCHANGED <<run, running>>
         /\ file' = [file EXCEPT ![run] = [file[run] EXCEPT ![t] = s]]
         /\ \A h \in Goroutines : copies'[h] = NoCopy
<1>1. t \in Goroutines
  BY DEF Goroutines
<1>2. Entries(t) = file[run] /\ file[run] \in [Tasks -> 0..NumSteps]
  BY <1>1 DEF Save, Entries, SessionsInv, CopyInv, RunStateTypeOK, Files
<1> QED BY <1>1, <1>2, SaveKeeps

\* Who reads the file and goes on to write it keeps CopyInv ...
LEMMA LoadKeepsCopyInv ==
  ASSUME SessionsInv, NEW g \in Goroutines, Load(g), running' /\ Writes(g)'
  PROVE  CopyInv'
<1>1. UNCHANGED <<run, file>> /\ \A h \in Goroutines : copies'[h] # NoCopy => h = g /\ copies'[h] = file
  BY LoadKeeps
<1>2. FileIsFreed'
  BY <1>1 DEF FileIsFreed
<1>3. \A r \in Runs : r > run' => \A t \in Tasks : file'[r][t] = 0
  BY <1>1 DEF SessionsInv, CopyInv
<1> QED BY <1>1, <1>2, <1>3 DEF CopyInv

\* ... and so does who has written it.
LEMMA WriteKeepsCopyInv ==
  ASSUME SessionsInv, \A h \in Goroutines : copies'[h] = NoCopy, run' = run,
         \A r \in Runs : r # run => file'[r] = file[r]
  PROVE  CopyInv'
<1>1. FileIsFreed'
  BY DEF FileIsFreed
<1>2. \A r \in Runs : r > run' => \A t \in Tasks : file'[r][t] = 0
  BY DEF SessionsInv, CopyInv, RunStateTypeOK, Runs
<1> QED BY <1>1, <1>2 DEF CopyInv

-----------------------------------------------------------------------------
(***************************************************************************)
(* The panes of a worker                                                   *)
(***************************************************************************)

\* The session of a pane.
LEMMA SlotOfTyped ==
  ASSUME SessionsInv, NEW p \in panes
  PROVE  /\ p \in Panes
         /\ InUse(p) => SlotOf(p) \in Slots
         /\ p.step = step[p.task] => SlotOf(p) = Slot(p.task)
<1>1. p \in Panes
  BY DEF SessionsInv, RunTyped
<1>2. InUse(p) => SlotOf(p) \in Slots
  <2> DEFINE Step == [agent: Agents, fresh: BOOLEAN, lenient: BOOLEAN]
  <2> SUFFICES ASSUME InUse(p) PROVE SlotOf(p) \in Slots
    OBVIOUS
  <2>1. Workflow[p.task] \in Seq(Step)
    BY <1>1, AgentSessionsAssumption DEF Panes
  <2>2. p.step \in 1..Len(Workflow[p.task])
    BY <1>1, <2>1, RunStateAssumption DEF Panes, InUse
  <2> HIDE DEF Step
  <2>3. Workflow[p.task][p.step] \in Step
    BY <2>1, <2>2
  <2> USE DEF Step
  <2> QED BY <2>3 DEF SlotOf, Slots
<1>3. p.step = step[p.task] => SlotOf(p) = Slot(p.task)
  BY DEF SlotOf, Slot, Current
<1> QED BY <1>1, <1>2, <1>3

\* A step of one worker has only to look after its own panes.
LEMMA OwnPanes ==
  ASSUME SessionsInv, NEW t \in Tasks,
         iteration' = iteration, faulty \subseteq faulty',
         \A u \in Tasks \ {t} :
           /\ at'[u] = at[u] /\ step'[u] = step[u] /\ closers'[u] = closers[u]
           /\ pane'[u] = pane[u] /\ started'[u] = started[u],
         \A p \in panes' : p \in panes \/ p = NewPane(t),
         \A p \in panes' : p.task = t /\ <<p.iteration, t>> \notin faulty' => InUse(p)'
  PROVE  PaneInv'
<1> SUFFICES ASSUME NEW p \in panes', <<p.iteration, p.task>> \notin faulty', p.task # t
             PROVE  InUse(p)'
  BY DEF PaneInv
<1>1. p \in panes
  BY DEF NewPane
<1>2. p.task \in Tasks \ {t}
  BY <1>1 DEF SessionsInv, RunTyped, Panes
<1>3. InUse(p)
  BY <1>1 DEF SessionsInv, PaneInv
<1>4. Slot(p.task)' = Slot(p.task)
  BY <1>2 DEF Slot, Current
<1>5. \A u \in {p.task} : /\ at'[u] = at[u] /\ step'[u] = step[u] /\ closers'[u] = closers[u]
                          /\ pane'[u] = pane[u] /\ started'[u] = started[u]
  BY <1>2
<1>6. SlotOf(p)' = SlotOf(p)
  BY DEF SlotOf
<1> QED BY <1>3, <1>4, <1>5, <1>6 DEF InUse

\* Before and after a step's session is used, a worker's panes are those of its
\* shared sessions.
LEMMA SharedPanes ==
  ASSUME SessionsInv, NEW p \in panes, <<p.iteration, p.task>> \notin faulty,
         at[p.task] \notin {"startup", "prompt", "endStep"}
  PROVE  /\ p.iteration = iteration /\ pane[p.task][SlotOf(p)] = p
         /\ SlotOf(p) \in Slots \ {"fresh"} /\ SlotOf(p) \in started[p.task]
         /\ at[p.task] \notin {"idle", "clear", "clearing"}
         /\ \E i \in 1..Len(closers[p.task]) : closers[p.task][i] = SlotOf(p)
         /\ InUse(p)
BY SlotOfTyped DEF SessionsInv, PaneInv, InUse

\* All panes are accounted for as before.
LEMMA SamePanes ==
  ASSUME SessionsInv, panes' \subseteq panes,
         UNCHANGED <<iteration, faulty, at, step, closers, pane, started>>
  PROVE  PaneInv'
BY DEF SessionsInv, PaneInv, InUse, SlotOf, Slot, Current

\* The process, tmux and the history keep their types.
LEMMA RunTypeKept == ASSUME SessionsInv, Next PROVE RunTyped'
<1> USE AgentSessionsAssumption, RunStateAssumption, MainAssumption DEF
        SessionsInv, RunTyped, WorkerTyped, ControlInv, Idle, AllIdle, Panes,
        PCs, Places, GoTo, Proceeds, tmux, worker, history, runState
<1>1. CASE running /\ StartTmux
  BY <1>1 DEF StartTmux
<1>2. CASE running /\ OpenClient
  BY <1>2 DEF OpenClient, NotClosed
<1>3. ASSUME running, NEW batch \in SUBSET Tasks, StartIteration(batch) PROVE RunTyped'
  BY <1>3 DEF StartIteration
<1>4. CASE running /\ EndRun
  BY <1>4 DEF EndRun
<1>5. CASE running /\ CloseRunTmux
  BY <1>5 DEF CloseRunTmux, NotClosed
<1>6. CASE running /\ BeginClearRun
  BY <1>6 DEF BeginClearRun
<1>7. CASE running /\ ClearRuntimeRun
  BY <1>7 DEF ClearRuntimeRun, NotClosed
<1>8. ASSUME running, NEW t \in Tasks, RecordStep(t) PROVE RunTyped'
  BY <1>8 DEF RecordStep
<1>9. ASSUME running, NEW t \in Tasks, StepRecorded(t) PROVE RunTyped'
  BY <1>9 DEF StepRecorded, NotSaved
<1>10. ASSUME running, NEW t \in Tasks, UseSession(t) PROVE RunTyped'
  BY <1>10 DEF UseSession
<1>11. ASSUME running, NEW t \in Tasks, OpenPane(t) PROVE RunTyped'
  <2>1. NewPane(t) \in Panes /\ <<iteration, t>> \in (1..MaxIterations) \X Tasks
    BY <1>11, PlaceTyped DEF OpenPane
  <2>2. panes' \subseteq Panes
    BY <1>11, <2>1 DEF OpenPane
  <2>3. /\ faulty' \subseteq (1..MaxIterations) \X Tasks
        /\ UNCHANGED <<unsaved, unclosed>>
    BY <1>11, <2>1 DEF OpenPane, TmuxFails
  <2> QED BY <1>11, <2>2, <2>3 DEF OpenPane
<1>12. ASSUME running, NEW t \in Tasks, StartAgent(t) PROVE RunTyped'
  <2>1. ~Idle(t)
    BY <1>12 DEF StartAgent
  <2>2. /\ panes' \subseteq Panes
        /\ faulty' \subseteq (1..MaxIterations) \X Tasks
        /\ UNCHANGED <<unsaved, unclosed>>
    BY <1>12, <2>1, PlaceTyped DEF StartAgent, PaneCloses, PaneStays, TmuxFails
  <2> QED BY <1>12, <2>2 DEF StartAgent
<1>13. ASSUME running, NEW t \in Tasks, RunStep(t) PROVE RunTyped'
  BY <1>13 DEF RunStep
<1>14. ASSUME running, NEW t \in Tasks, EndStep(t) PROVE RunTyped'
  <2>1. ~Idle(t)
    BY <1>14 DEF EndStep
  <2>2. /\ panes' \subseteq Panes
        /\ faulty' \subseteq (1..MaxIterations) \X Tasks
        /\ UNCHANGED <<unsaved, unclosed>>
    BY <1>14, <2>1, PlaceTyped DEF EndStep, PaneCloses, PaneStays, TmuxFails
  <2> QED BY <1>14, <2>2 DEF EndStep
<1>15. ASSUME running, NEW t \in Tasks, CloseShared(t) PROVE RunTyped'
  <2>1. ~Idle(t)
    BY <1>15 DEF CloseShared
  <2>2. /\ panes' \subseteq Panes
        /\ faulty' \subseteq (1..MaxIterations) \X Tasks
        /\ UNCHANGED <<unsaved, unclosed>>
    BY <1>15, <2>1, PlaceTyped DEF CloseShared, PaneCloses, PaneStays, TmuxFails
  <2> QED BY <1>15, <2>2 DEF CloseShared
<1>16. ASSUME running, NEW t \in Tasks, AllClosed(t) PROVE RunTyped'
  BY <1>16 DEF AllClosed
<1>17. ASSUME running, NEW t \in Tasks, BeginClearTask(t) PROVE RunTyped'
  BY <1>17 DEF BeginClearTask
<1>18. ASSUME running, NEW t \in Tasks, ClearRuntimeTask(t) PROVE RunTyped'
  BY <1>18 DEF ClearRuntimeTask, NotSaved
<1>19. ASSUME NEW p \in panes, AgentDies(p) PROVE RunTyped'
  BY <1>19 DEF AgentDies, PaneCloses
<1>20. CASE running /\ Exit
  BY <1>20 DEF Exit
<1>21. CASE Restart
  <2>1. pc' \in PCs /\ iteration' = 0 /\ session' = FALSE
    BY <1>21 DEF Restart
  <2>2. panes' = {} /\ faulty' = {} /\ unsaved' = {} /\ unclosed' = {}
    BY <1>21 DEF Restart
  <2>3. 0 \in 0..MaxIterations
    OBVIOUS
  <2> QED BY <2>1, <2>2, <2>3, ZenonT(30)
<1> QED BY <1>1, <1>2, <1>3, <1>4, <1>5, <1>6, <1>7, <1>8, <1>9, <1>10, <1>11,
      <1>12, <1>13, <1>14, <1>15, <1>16, <1>17, <1>18, <1>19, <1>20, <1>21 DEF
      Next, ProcessStep, WorkerStep

\* So do the workers.
LEMMA WorkerTypeKept == ASSUME SessionsInv, Next PROVE WorkerTyped'
<1> USE AgentSessionsAssumption, RunStateAssumption, MainAssumption DEF
        SessionsInv, RunTyped, WorkerTyped, ControlInv, SessionInv, Idle,
        Places, Slots, Agents, NoPanes, NoPane, Each, Current, GoTo, Proceeds,
        tmux, worker, history, runState
<1>1. CASE running /\ StartTmux
  BY <1>1 DEF StartTmux
<1>2. CASE running /\ OpenClient
  BY <1>2 DEF OpenClient, NotClosed
<1>3. ASSUME running, NEW batch \in SUBSET Tasks, StartIteration(batch) PROVE WorkerTyped'
  BY <1>3 DEF StartIteration
<1>4. CASE running /\ EndRun
  BY <1>4 DEF EndRun
<1>5. CASE running /\ CloseRunTmux
  BY <1>5 DEF CloseRunTmux, NotClosed
<1>6. CASE running /\ BeginClearRun
  BY <1>6 DEF BeginClearRun
<1>7. CASE running /\ ClearRuntimeRun
  BY <1>7 DEF ClearRuntimeRun, NotClosed
<1>8. ASSUME running, NEW t \in Tasks, RecordStep(t) PROVE WorkerTyped'
  BY <1>8 DEF RecordStep
<1>9. ASSUME running, NEW t \in Tasks, StepRecorded(t) PROVE WorkerTyped'
  BY <1>9 DEF StepRecorded, NotSaved
<1>10. ASSUME running, NEW t \in Tasks, UseSession(t) PROVE WorkerTyped'
  <2>1. Slot(t) \in Slots /\ (Slot(t) # "fresh" => Slot(t) \in Agents)
    BY StepTyped
  <2>2. pane' \in [Tasks -> [Slots -> Panes \cup {NoPane}]]
    BY <1>10, <2>1 DEF UseSession
  <2>3. started' \in [Tasks -> SUBSET Slots]
    BY <1>10, <2>1 DEF UseSession
  <2>4. closers' \in [Tasks -> Seq(Agents)]
    BY <1>10, <2>1 DEF UseSession
  <2>5. at' \in [Tasks -> Places]
    BY <1>10 DEF UseSession
  <2> QED BY <1>10, <2>2, <2>3, <2>4, <2>5 DEF UseSession
<1>11. ASSUME running, NEW t \in Tasks, OpenPane(t) PROVE WorkerTyped'
  <2>1. NewPane(t) \in Panes /\ Slot(t) \in Slots
    BY <1>11, StepTyped, PlaceTyped DEF OpenPane
  <2>2. CASE GoTo(t, "startup") /\ pane' = [pane EXCEPT ![t][Slot(t)] = NewPane(t)]
    BY <1>11, <2>1, <2>2 DEF OpenPane
  <2>3. CASE /\ GoTo(t, "endStep") /\ UNCHANGED pane
             /\ outcome' = [outcome EXCEPT ![t] = "error"]
    BY <1>11, <2>3 DEF OpenPane
  <2> QED BY <1>11, <2>2, <2>3 DEF OpenPane
<1>12. ASSUME running, NEW t \in Tasks, StartAgent(t) PROVE WorkerTyped'
  <2>1. CASE started' = [started EXCEPT ![t] = @ \cup {Slot(t)}] /\ GoTo(t, "prompt")
    <3>1. started' \in [Tasks -> SUBSET Slots]
      BY <2>1, StepTyped
    <3> QED BY <1>12, <2>1, <3>1 DEF StartAgent
  <2>2. CASE /\ GoTo(t, "endStep") /\ UNCHANGED started
             /\ outcome' = [outcome EXCEPT ![t] = "error"]
    BY <1>12, <2>2 DEF StartAgent
  <2> QED BY <1>12, <2>1, <2>2 DEF StartAgent
<1>13. ASSUME running, NEW t \in Tasks, RunStep(t) PROVE WorkerTyped'
  <2>1. PICK o \in {"ok", "stop", "error"} : outcome' = [outcome EXCEPT ![t] = o]
    BY <1>13 DEF RunStep
  <2> QED BY <1>13, <2>1 DEF RunStep
<1>14. ASSUME running, NEW t \in Tasks, EndStep(t) PROVE WorkerTyped'
  <2>1. outcome' \in [Tasks -> {"ok", "stop", "error"}]
    BY <1>14 DEF EndStep
  <2>2. PICK o : AfterStep(t, o)
    BY <1>14 DEF EndStep
  <2>3. \/ GoTo(t, "close") /\ UNCHANGED step
        \/ step[t] # Len(Workflow[t]) /\ GoTo(t, "record") /\ step' = [step EXCEPT ![t] = @ + 1]
    BY <2>2 DEF AfterStep
  <2>4. Len(Workflow[t]) \in 1..NumSteps /\ step[t] <= Len(Workflow[t])
    BY AgentSessionsAssumption
  <2>5. at' \in [Tasks -> Places]
    BY <2>3
  <2>6. step[t] # Len(Workflow[t]) => step[t] + 1 \in 1..NumSteps
    BY <2>4
  <2>7. step' \in [Tasks -> 1..NumSteps]
    <3>1. CASE UNCHANGED step
      BY <3>1
    <3>2. CASE step[t] # Len(Workflow[t]) /\ step' = [step EXCEPT ![t] = @ + 1]
      BY <2>6, <3>2
    <3> QED BY <2>3, <3>1, <3>2
  <2> QED BY <1>14, <2>1, <2>5, <2>7 DEF EndStep
<1>15. ASSUME running, NEW t \in Tasks, CloseShared(t) PROVE WorkerTyped'
  <2>1. at' \in [Tasks -> Places]
    BY <1>15 DEF CloseShared
  <2>2. closers[t] \in Seq(Agents) /\ closers[t] # <<>>
    BY <1>15 DEF CloseShared
  <2>3. SubSeq(closers[t], 1, Len(closers[t]) - 1) \in Seq(Agents)
    BY <2>2
  <2>4. closers' \in [Tasks -> Seq(Agents)]
    BY <1>15, <2>3 DEF CloseShared
  <2> QED BY <1>15, <2>1, <2>4 DEF CloseShared
<1>16. ASSUME running, NEW t \in Tasks, AllClosed(t) PROVE WorkerTyped'
  BY <1>16 DEF AllClosed
<1>17. ASSUME running, NEW t \in Tasks, BeginClearTask(t) PROVE WorkerTyped'
  BY <1>17 DEF BeginClearTask
<1>18. ASSUME running, NEW t \in Tasks, ClearRuntimeTask(t) PROVE WorkerTyped'
  BY <1>18 DEF ClearRuntimeTask, NotSaved
<1>19. ASSUME NEW p \in panes, AgentDies(p) PROVE WorkerTyped'
  BY <1>19 DEF AgentDies, PaneCloses
<1>20. CASE running /\ Exit
  BY <1>20 DEF Exit
<1>21. CASE Restart
  BY <1>21 DEF Restart
<1> QED BY <1>1, <1>2, <1>3, <1>4, <1>5, <1>6, <1>7, <1>8, <1>9, <1>10, <1>11,
      <1>12, <1>13, <1>14, <1>15, <1>16, <1>17, <1>18, <1>19, <1>20, <1>21 DEF
      Next, ProcessStep, WorkerStep

\* Workers are at work in the loop only.
LEMMA ControlKept == ASSUME SessionsInv, Next PROVE ControlInv'
<1> USE AgentSessionsAssumption, RunStateAssumption, MainAssumption DEF
        SessionsInv, RunTyped, WorkerTyped, ControlInv, Idle, AllIdle, Each,
        GoTo, Proceeds, tmux, worker, history, runState
<1>1. CASE running /\ StartTmux
  BY <1>1 DEF StartTmux
<1>2. CASE running /\ OpenClient
  BY <1>2 DEF OpenClient, NotClosed
<1>3. ASSUME running, NEW batch \in SUBSET Tasks, StartIteration(batch) PROVE ControlInv'
  BY <1>3 DEF StartIteration
<1>4. CASE running /\ EndRun
  BY <1>4 DEF EndRun
<1>5. CASE running /\ CloseRunTmux
  BY <1>5 DEF CloseRunTmux, NotClosed
<1>6. CASE running /\ BeginClearRun
  BY <1>6 DEF BeginClearRun
<1>7. CASE running /\ ClearRuntimeRun
  BY <1>7 DEF ClearRuntimeRun, NotClosed
<1>8. ASSUME running, NEW t \in Tasks, RecordStep(t) PROVE ControlInv'
  BY <1>8 DEF RecordStep
<1>9. ASSUME running, NEW t \in Tasks, StepRecorded(t) PROVE ControlInv'
  BY <1>9 DEF StepRecorded, NotSaved
<1>10. ASSUME running, NEW t \in Tasks, UseSession(t) PROVE ControlInv'
  BY <1>10 DEF UseSession
<1>11. ASSUME running, NEW t \in Tasks, OpenPane(t) PROVE ControlInv'
  BY <1>11 DEF OpenPane, TmuxFails, NewPane
<1>12. ASSUME running, NEW t \in Tasks, StartAgent(t) PROVE ControlInv'
  BY <1>12 DEF StartAgent, PaneCloses, PaneStays, TmuxFails
<1>13. ASSUME running, NEW t \in Tasks, RunStep(t) PROVE ControlInv'
  BY <1>13 DEF RunStep
<1>14. ASSUME running, NEW t \in Tasks, EndStep(t) PROVE ControlInv'
  BY <1>14 DEF EndStep, AfterStep, PaneCloses, PaneStays, TmuxFails
<1>15. ASSUME running, NEW t \in Tasks, CloseShared(t) PROVE ControlInv'
  BY <1>15 DEF CloseShared, PaneCloses, PaneStays, TmuxFails
<1>16. ASSUME running, NEW t \in Tasks, AllClosed(t) PROVE ControlInv'
  BY <1>16 DEF AllClosed
<1>17. ASSUME running, NEW t \in Tasks, BeginClearTask(t) PROVE ControlInv'
  BY <1>17 DEF BeginClearTask
<1>18. ASSUME running, NEW t \in Tasks, ClearRuntimeTask(t) PROVE ControlInv'
  BY <1>18 DEF ClearRuntimeTask, NotSaved
<1>19. ASSUME NEW p \in panes, AgentDies(p) PROVE ControlInv'
  BY <1>19 DEF AgentDies, PaneCloses
<1>20. CASE running /\ Exit
  BY <1>20 DEF Exit
<1>21. CASE Restart
  BY <1>21 DEF Restart
<1> QED BY <1>1, <1>2, <1>3, <1>4, <1>5, <1>6, <1>7, <1>8, <1>9, <1>10, <1>11,
      <1>12, <1>13, <1>14, <1>15, <1>16, <1>17, <1>18, <1>19, <1>20, <1>21 DEF
      Next, ProcessStep, WorkerStep

\* The tmux session ends with its run.
LEMMA TmuxKept == ASSUME SessionsInv, Next PROVE TmuxInv'
<1> USE AgentSessionsAssumption, RunStateAssumption, MainAssumption DEF
        SessionsInv, RunTyped, ControlInv, TmuxInv, Idle, AllIdle, GoTo,
        Proceeds, tmux, worker, history, runState
<1>1. CASE running /\ StartTmux
  BY <1>1 DEF StartTmux
<1>2. CASE running /\ OpenClient
  BY <1>2 DEF OpenClient, NotClosed
<1>3. ASSUME running, NEW batch \in SUBSET Tasks, StartIteration(batch) PROVE TmuxInv'
  BY <1>3 DEF StartIteration
<1>4. CASE running /\ EndRun
  BY <1>4 DEF EndRun
<1>5. CASE running /\ CloseRunTmux
  BY <1>5 DEF CloseRunTmux, NotClosed
<1>6. CASE running /\ BeginClearRun
  BY <1>6 DEF BeginClearRun
<1>7. CASE running /\ ClearRuntimeRun
  BY <1>7 DEF ClearRuntimeRun, NotClosed
<1>8. ASSUME running, NEW t \in Tasks, RecordStep(t) PROVE TmuxInv'
  BY <1>8 DEF RecordStep
<1>9. ASSUME running, NEW t \in Tasks, StepRecorded(t) PROVE TmuxInv'
  BY <1>9 DEF StepRecorded, NotSaved
<1>10. ASSUME running, NEW t \in Tasks, UseSession(t) PROVE TmuxInv'
  BY <1>10 DEF UseSession
<1>11. ASSUME running, NEW t \in Tasks, OpenPane(t) PROVE TmuxInv'
  BY <1>11 DEF OpenPane, TmuxFails, NewPane
<1>12. ASSUME running, NEW t \in Tasks, StartAgent(t) PROVE TmuxInv'
  BY <1>12 DEF StartAgent, PaneCloses, PaneStays, TmuxFails
<1>13. ASSUME running, NEW t \in Tasks, RunStep(t) PROVE TmuxInv'
  BY <1>13 DEF RunStep
<1>14. ASSUME running, NEW t \in Tasks, EndStep(t) PROVE TmuxInv'
  BY <1>14 DEF EndStep, AfterStep, PaneCloses, PaneStays, TmuxFails
<1>15. ASSUME running, NEW t \in Tasks, CloseShared(t) PROVE TmuxInv'
  BY <1>15 DEF CloseShared, PaneCloses, PaneStays, TmuxFails
<1>16. ASSUME running, NEW t \in Tasks, AllClosed(t) PROVE TmuxInv'
  BY <1>16 DEF AllClosed
<1>17. ASSUME running, NEW t \in Tasks, BeginClearTask(t) PROVE TmuxInv'
  BY <1>17 DEF BeginClearTask
<1>18. ASSUME running, NEW t \in Tasks, ClearRuntimeTask(t) PROVE TmuxInv'
  BY <1>18 DEF ClearRuntimeTask, NotSaved
<1>19. ASSUME NEW p \in panes, AgentDies(p) PROVE TmuxInv'
  BY <1>19 DEF AgentDies, PaneCloses
<1>20. CASE running /\ Exit
  BY <1>20 DEF Exit
<1>21. CASE Restart
  BY <1>21 DEF Restart
<1> QED BY <1>1, <1>2, <1>3, <1>4, <1>5, <1>6, <1>7, <1>8, <1>9, <1>10, <1>11,
      <1>12, <1>13, <1>14, <1>15, <1>16, <1>17, <1>18, <1>19, <1>20, <1>21 DEF
      Next, ProcessStep, WorkerStep

\* So does the run state.
LEMMA RunStateTypeKept == ASSUME SessionsInv, Next PROVE RunStateTypeOK'
<1> USE AgentSessionsAssumption, RunStateAssumption, MainAssumption DEF
        SessionsInv, NotSaved, GoTo, Proceeds, tmux, worker, history, runState
<1>1. CASE running /\ StartTmux
  BY <1>1 DEF StartTmux, RunStateTypeOK
<1>2. CASE running /\ OpenClient
  BY <1>2 DEF OpenClient, NotClosed, RunStateTypeOK
<1>3. ASSUME running, NEW batch \in SUBSET Tasks, StartIteration(batch) PROVE RunStateTypeOK'
  BY <1>3 DEF StartIteration, RunStateTypeOK
<1>4. CASE running /\ EndRun
  BY <1>4 DEF EndRun, RunStateTypeOK
<1>5. CASE running /\ CloseRunTmux
  BY <1>5 DEF CloseRunTmux, NotClosed, RunStateTypeOK
<1>6. CASE running /\ BeginClearRun
  BY <1>6, LoadKeeps DEF BeginClearRun, Goroutines
<1>7. CASE running /\ ClearRuntimeRun
  <2>1. Main \in Goroutines /\ [u \in Tasks |-> 0] \in [Tasks -> 0..NumSteps]
    BY DEF Goroutines
  <2> QED BY <1>7, <2>1, SaveKeeps, SaveFailsKeeps DEF ClearRuntimeRun, ClearRun
<1>8. ASSUME running, NEW t \in Tasks, RecordStep(t) PROVE RunStateTypeOK'
  BY <1>8, LoadKeeps DEF RecordStep, Goroutines
<1>9. ASSUME running, NEW t \in Tasks, StepRecorded(t) PROVE RunStateTypeOK'
  <2>1. t \in Goroutines
    BY DEF Goroutines
  <2>2. step[t] \in 0..NumSteps
    BY DEF WorkerTyped
  <2> QED BY <1>9, <2>1, <2>2, EntryKeeps, SaveFailsKeeps DEF StepRecorded, UpsertTask
<1>10. ASSUME running, NEW t \in Tasks, UseSession(t) PROVE RunStateTypeOK'
  BY <1>10 DEF UseSession, RunStateTypeOK
<1>11. ASSUME running, NEW t \in Tasks, OpenPane(t) PROVE RunStateTypeOK'
  BY <1>11 DEF OpenPane, TmuxFails, NewPane, RunStateTypeOK
<1>12. ASSUME running, NEW t \in Tasks, StartAgent(t) PROVE RunStateTypeOK'
  BY <1>12 DEF StartAgent, PaneCloses, PaneStays, TmuxFails, RunStateTypeOK
<1>13. ASSUME running, NEW t \in Tasks, RunStep(t) PROVE RunStateTypeOK'
  BY <1>13 DEF RunStep, RunStateTypeOK
<1>14. ASSUME running, NEW t \in Tasks, EndStep(t) PROVE RunStateTypeOK'
  BY <1>14 DEF EndStep, AfterStep, PaneCloses, PaneStays, TmuxFails,
       RunStateTypeOK
<1>15. ASSUME running, NEW t \in Tasks, CloseShared(t) PROVE RunStateTypeOK'
  BY <1>15 DEF CloseShared, PaneCloses, PaneStays, TmuxFails, RunStateTypeOK
<1>16. ASSUME running, NEW t \in Tasks, AllClosed(t) PROVE RunStateTypeOK'
  BY <1>16 DEF AllClosed, RunStateTypeOK
<1>17. ASSUME running, NEW t \in Tasks, BeginClearTask(t) PROVE RunStateTypeOK'
  BY <1>17, LoadKeeps DEF BeginClearTask, Goroutines
<1>18. ASSUME running, NEW t \in Tasks, ClearRuntimeTask(t) PROVE RunStateTypeOK'
  <2>1. t \in Goroutines
    BY DEF Goroutines
  <2>2. 0 \in 0..NumSteps
    OBVIOUS
  <2> QED BY <1>18, <2>1, <2>2, EntryKeeps, SaveFailsKeeps DEF ClearRuntimeTask, ClearTask
<1>19. ASSUME NEW p \in panes, AgentDies(p) PROVE RunStateTypeOK'
  BY <1>19 DEF AgentDies, PaneCloses, RunStateTypeOK
<1>20. CASE running /\ Exit
  BY <1>20 DEF Exit, EndProcess, RunStateTypeOK
<1>21. CASE Restart
  BY <1>21 DEF Restart, NextProcess, RunStateTypeOK, Runs
<1> QED BY <1>1, <1>2, <1>3, <1>4, <1>5, <1>6, <1>7, <1>8, <1>9, <1>10, <1>11,
      <1>12, <1>13, <1>14, <1>15, <1>16, <1>17, <1>18, <1>19, <1>20, <1>21 DEF
      Next, ProcessStep, WorkerStep

\* Whoever has read the file is the only one, and writes it next.
LEMMA CopyKept == ASSUME SessionsInv, Next PROVE CopyInv'
<1> USE AgentSessionsAssumption, RunStateAssumption, MainAssumption DEF
        SessionsInv, RunTyped, WorkerTyped, CopyInv, ControlInv, FileIsFreed,
        Writes, Goroutines, Idle, AllIdle, Each, GoTo, Proceeds, tmux, worker,
        history, runState
<1>1. CASE running /\ StartTmux
  BY <1>1 DEF StartTmux
<1>2. CASE running /\ OpenClient
  BY <1>2 DEF OpenClient, NotClosed
<1>3. ASSUME running, NEW batch \in SUBSET Tasks, StartIteration(batch) PROVE CopyInv'
  BY <1>3 DEF StartIteration
<1>4. CASE running /\ EndRun
  BY <1>4 DEF EndRun
<1>5. CASE running /\ CloseRunTmux
  BY <1>5 DEF CloseRunTmux, NotClosed
<1>6. CASE running /\ BeginClearRun
  <2>1. Load(Main) /\ Main \in Goroutines /\ running' /\ Writes(Main)'
    BY <1>6 DEF BeginClearRun, Load
  <2> QED BY <2>1, LoadKeepsCopyInv
<1>7. CASE running /\ ClearRuntimeRun
  <2>1. Main \in Goroutines /\ [u \in Tasks |-> 0] \in [Tasks -> 0..NumSteps]
    BY DEF Goroutines
  <2>2. /\ \A h \in Goroutines : copies'[h] = NoCopy
        /\ run' = run /\ \A r \in Runs : r # run => file'[r] = file[r]
    BY <1>7, <2>1, SaveKeeps, SaveFailsKeeps DEF ClearRuntimeRun, ClearRun, RunStateTypeOK, Files
  <2> QED BY <2>2, WriteKeepsCopyInv
<1>8. ASSUME running, NEW t \in Tasks, RecordStep(t) PROVE CopyInv'
  <2>1. Load(t) /\ t \in Goroutines /\ running' /\ Writes(t)'
    BY <1>8 DEF RecordStep, Load
  <2> QED BY <2>1, LoadKeepsCopyInv
<1>9. ASSUME running, NEW t \in Tasks, StepRecorded(t) PROVE CopyInv'
  <2>1. CASE UpsertTask(t, step[t])
    <3>1. step[t] \in 0..NumSteps
      OBVIOUS
    <3>2. /\ \A h \in Goroutines : copies'[h] = NoCopy
          /\ run' = run /\ file' = [file EXCEPT ![run] = [file[run] EXCEPT ![t] = step[t]]]
      BY <2>1, <3>1, EntryKeeps DEF UpsertTask
    <3>3. \A r \in Runs : r # run => file'[r] = file[r]
      BY <3>2 DEF RunStateTypeOK, Files
    <3> QED BY <3>2, <3>3, WriteKeepsCopyInv
  <2>2. CASE NotSaved(t)
    BY <2>2, SaveFailsKeeps, WriteKeepsCopyInv DEF NotSaved
  <2> QED BY <1>9, <2>1, <2>2 DEF StepRecorded
<1>10. ASSUME running, NEW t \in Tasks, UseSession(t) PROVE CopyInv'
  BY <1>10 DEF UseSession
<1>11. ASSUME running, NEW t \in Tasks, OpenPane(t) PROVE CopyInv'
  BY <1>11 DEF OpenPane, TmuxFails, NewPane
<1>12. ASSUME running, NEW t \in Tasks, StartAgent(t) PROVE CopyInv'
  BY <1>12 DEF StartAgent, PaneCloses, PaneStays, TmuxFails
<1>13. ASSUME running, NEW t \in Tasks, RunStep(t) PROVE CopyInv'
  BY <1>13 DEF RunStep
<1>14. ASSUME running, NEW t \in Tasks, EndStep(t) PROVE CopyInv'
  <2>1. PICK o : AfterStep(t, o)
    BY <1>14 DEF EndStep
  <2>2. at' = [at EXCEPT ![t] = "close"] \/ at' = [at EXCEPT ![t] = "record"]
    BY <2>1 DEF AfterStep
  <2> QED BY <1>14, <2>2 DEF EndStep
<1>15. ASSUME running, NEW t \in Tasks, CloseShared(t) PROVE CopyInv'
  BY <1>15 DEF CloseShared, PaneCloses, PaneStays, TmuxFails
<1>16. ASSUME running, NEW t \in Tasks, AllClosed(t) PROVE CopyInv'
  BY <1>16 DEF AllClosed
<1>17. ASSUME running, NEW t \in Tasks, BeginClearTask(t) PROVE CopyInv'
  <2>1. Load(t) /\ t \in Goroutines /\ running' /\ Writes(t)'
    BY <1>17 DEF BeginClearTask, Load
  <2> QED BY <2>1, LoadKeepsCopyInv
<1>18. ASSUME running, NEW t \in Tasks, ClearRuntimeTask(t) PROVE CopyInv'
  <2>1. CASE ClearTask(t)
    <3>1. 0 \in 0..NumSteps
      OBVIOUS
    <3>2. /\ \A h \in Goroutines : copies'[h] = NoCopy
          /\ run' = run /\ file' = [file EXCEPT ![run] = [file[run] EXCEPT ![t] = 0]]
      BY <2>1, <3>1, EntryKeeps DEF ClearTask
    <3>3. \A r \in Runs : r # run => file'[r] = file[r]
      BY <3>2 DEF RunStateTypeOK, Files
    <3> QED BY <3>2, <3>3, WriteKeepsCopyInv
  <2>2. CASE NotSaved(t)
    BY <2>2, SaveFailsKeeps, WriteKeepsCopyInv DEF NotSaved
  <2> QED BY <1>18, <2>1, <2>2 DEF ClearRuntimeTask
<1>19. ASSUME NEW p \in panes, AgentDies(p) PROVE CopyInv'
  BY <1>19 DEF AgentDies, PaneCloses
<1>20. CASE running /\ Exit
  BY <1>20 DEF Exit, EndProcess
<1>21. CASE Restart
  <2>1. UNCHANGED <<file, copies>> /\ run' = run + 1 /\ ~running
    BY <1>21 DEF Restart, NextProcess
  <2>2. \A g \in Goroutines : copies'[g] = NoCopy
    BY <2>1
  <2>3. FileIsFreed'
    BY <2>2
  <2>4. \A r \in Runs : r > run' => \A t \in Tasks : file'[r][t] = 0
    BY <2>1 DEF RunStateTypeOK, Runs
  <2> QED BY <2>2, <2>3, <2>4
<1> QED BY <1>1, <1>2, <1>3, <1>4, <1>5, <1>6, <1>7, <1>8, <1>9, <1>10, <1>11,
      <1>12, <1>13, <1>14, <1>15, <1>16, <1>17, <1>18, <1>19, <1>20, <1>21 DEF
      Next, ProcessStep, WorkerStep

\* The file says where the workers are.
LEMMA ShownKept == ASSUME SessionsInv, Next PROVE ShownInv'
<1> USE AgentSessionsAssumption, RunStateAssumption, MainAssumption DEF
        SessionsInv, RunTyped, WorkerTyped, ControlInv, ShownInv, AtWork, Idle,
        AllIdle, Each, GoTo, Proceeds, tmux, worker, history, runState
<1>1. CASE running /\ StartTmux
  BY <1>1 DEF StartTmux
<1>2. CASE running /\ OpenClient
  BY <1>2 DEF OpenClient, NotClosed
<1>3. ASSUME running, NEW batch \in SUBSET Tasks, StartIteration(batch) PROVE ShownInv'
  BY <1>3 DEF StartIteration
<1>4. CASE running /\ EndRun
  BY <1>4 DEF EndRun
<1>5. CASE running /\ CloseRunTmux
  BY <1>5 DEF CloseRunTmux, NotClosed
<1>6. CASE running /\ BeginClearRun
  BY <1>6, LoadKeeps DEF BeginClearRun, Goroutines
<1>7. CASE running /\ ClearRuntimeRun
  <2>1. AllIdle /\ at' = at /\ run' = run /\ unsaved' = unsaved
    BY <1>7 DEF ClearRuntimeRun, ClearRun, Save, SaveFails, NotClosed
  <2>2. CASE ClearRun
    <3>1. Main \in Goroutines /\ [u \in Tasks |-> 0] \in [Tasks -> 0..NumSteps]
      BY DEF Goroutines
    <3>2. file' = [file EXCEPT ![run] = [u \in Tasks |-> 0]]
      BY <2>2, <3>1, SaveKeeps DEF ClearRun
    <3>3. \A u \in Tasks : file'[run][u] = 0
      BY <3>2 DEF RunStateTypeOK, Files
    <3> QED BY <2>1, <3>3
  <2>3. CASE SaveFails(Main) /\ unclosed' = unclosed \cup {"file"}
    BY <2>1, <2>3, SaveFailsKeeps DEF Goroutines
  <2> QED BY <1>7, <2>2, <2>3 DEF ClearRuntimeRun, NotClosed
<1>8. ASSUME running, NEW t \in Tasks, RecordStep(t) PROVE ShownInv'
  <2>1. UNCHANGED <<run, running, file>>
    BY <1>8, LoadKeeps DEF RecordStep, Goroutines
  <2> QED BY <1>8, <2>1 DEF RecordStep
<1>9. ASSUME running, NEW t \in Tasks, StepRecorded(t) PROVE ShownInv'
  <2>1. pc' = "loop" /\ run' = run /\ running' = running /\ step' = step /\ at' = [at EXCEPT ![t] = "session"]
    BY <1>9 DEF StepRecorded, UpsertTask, Save, NotSaved, SaveFails
  <2>2. CASE UpsertTask(t, step[t]) /\ unsaved' = unsaved \ {t}
    <3>1. step[t] \in 0..NumSteps
      OBVIOUS
    <3>2. file' = [file EXCEPT ![run] = [file[run] EXCEPT ![t] = step[t]]]
      BY <2>2, <3>1, EntryKeeps DEF UpsertTask
    <3>3. file'[run][t] = step[t] /\ \A u \in Tasks \ {t} : file'[run][u] = file[run][u]
      BY <3>2 DEF RunStateTypeOK, Files
    <3> QED BY <2>1, <2>2, <3>3
  <2>3. CASE NotSaved(t)
    <3>1. file' = file /\ unsaved' = unsaved \cup {t}
      BY <2>3, SaveFailsKeeps DEF NotSaved, Goroutines
    <3> QED BY <2>1, <3>1
  <2> QED BY <1>9, <2>2, <2>3 DEF StepRecorded
<1>10. ASSUME running, NEW t \in Tasks, UseSession(t) PROVE ShownInv'
  BY <1>10 DEF UseSession
<1>11. ASSUME running, NEW t \in Tasks, OpenPane(t) PROVE ShownInv'
  BY <1>11 DEF OpenPane, TmuxFails, NewPane
<1>12. ASSUME running, NEW t \in Tasks, StartAgent(t) PROVE ShownInv'
  BY <1>12 DEF StartAgent, PaneCloses, PaneStays, TmuxFails
<1>13. ASSUME running, NEW t \in Tasks, RunStep(t) PROVE ShownInv'
  BY <1>13 DEF RunStep
<1>14. ASSUME running, NEW t \in Tasks, EndStep(t) PROVE ShownInv'
  <2>1. PICK o : AfterStep(t, o)
    BY <1>14 DEF EndStep
  <2>2. at' = [at EXCEPT ![t] = "close"] \/ at' = [at EXCEPT ![t] = "record"]
    BY <2>1 DEF AfterStep
  <2>3. \A u \in Tasks \ {t} : step'[u] = step[u]
    BY <2>1 DEF AfterStep
  <2>4. UNCHANGED <<run, running, file, pc, unsaved>>
    BY <1>14 DEF EndStep, TmuxFails, PaneStays
  <2>5. at[t] = "endStep"
    BY <1>14 DEF EndStep
  <2> QED BY <2>2, <2>3, <2>4, <2>5
<1>15. ASSUME running, NEW t \in Tasks, CloseShared(t) PROVE ShownInv'
  BY <1>15 DEF CloseShared, PaneCloses, PaneStays, TmuxFails
<1>16. ASSUME running, NEW t \in Tasks, AllClosed(t) PROVE ShownInv'
  BY <1>16 DEF AllClosed
<1>17. ASSUME running, NEW t \in Tasks, BeginClearTask(t) PROVE ShownInv'
  <2>1. UNCHANGED <<run, running, file>>
    BY <1>17, LoadKeeps DEF BeginClearTask, Goroutines
  <2> QED BY <1>17, <2>1 DEF BeginClearTask
<1>18. ASSUME running, NEW t \in Tasks, ClearRuntimeTask(t) PROVE ShownInv'
  <2>1. pc' = "loop" /\ run' = run /\ running' = running /\ at' = [at EXCEPT ![t] = "idle"]
    BY <1>18 DEF ClearRuntimeTask, ClearTask, Save, NotSaved, SaveFails
  <2>2. \A u \in Tasks \ {t} : step'[u] = step[u]
    BY <1>18 DEF ClearRuntimeTask
  <2>3. CASE ClearTask(t) /\ unsaved' = unsaved \ {t}
    <3>1. 0 \in 0..NumSteps
      OBVIOUS
    <3>2. file' = [file EXCEPT ![run] = [file[run] EXCEPT ![t] = 0]]
      BY <2>3, <3>1, EntryKeeps DEF ClearTask
    <3>3. file'[run][t] = 0 /\ \A u \in Tasks \ {t} : file'[run][u] = file[run][u]
      BY <3>2 DEF RunStateTypeOK, Files
    <3> QED BY <2>1, <2>2, <2>3, <3>3
  <2>4. CASE NotSaved(t)
    <3>1. file' = file /\ unsaved' = unsaved \cup {t}
      BY <2>4, SaveFailsKeeps DEF NotSaved, Goroutines
    <3> QED BY <2>1, <2>2, <3>1
  <2> QED BY <1>18, <2>3, <2>4 DEF ClearRuntimeTask
<1>19. ASSUME NEW p \in panes, AgentDies(p) PROVE ShownInv'
  BY <1>19 DEF AgentDies, PaneCloses
<1>20. CASE running /\ Exit
  BY <1>20 DEF Exit, EndProcess
<1>21. CASE Restart
  BY <1>21 DEF Restart, NextProcess, CopyInv, RunStateTypeOK, Runs
<1> QED BY <1>1, <1>2, <1>3, <1>4, <1>5, <1>6, <1>7, <1>8, <1>9, <1>10, <1>11,
      <1>12, <1>13, <1>14, <1>15, <1>16, <1>17, <1>18, <1>19, <1>20, <1>21 DEF
      Next, ProcessStep, WorkerStep

\* A worker has the session of its step.
LEMMA SessionKept == ASSUME SessionsInv, Next PROVE SessionInv'
<1> USE AgentSessionsAssumption, RunStateAssumption, MainAssumption DEF
        SessionsInv, WorkerTyped, SessionInv, Each, Current, Slot, NoPane,
        NoPanes, GoTo, Proceeds, tmux, worker, history, runState
<1>1. CASE running /\ StartTmux
  BY <1>1 DEF StartTmux
<1>2. CASE running /\ OpenClient
  BY <1>2 DEF OpenClient, NotClosed
<1>3. ASSUME running, NEW batch \in SUBSET Tasks, StartIteration(batch) PROVE SessionInv'
  BY <1>3 DEF StartIteration
<1>4. CASE running /\ EndRun
  BY <1>4 DEF EndRun
<1>5. CASE running /\ CloseRunTmux
  BY <1>5 DEF CloseRunTmux, NotClosed
<1>6. CASE running /\ BeginClearRun
  BY <1>6 DEF BeginClearRun
<1>7. CASE running /\ ClearRuntimeRun
  BY <1>7 DEF ClearRuntimeRun, NotClosed
<1>8. ASSUME running, NEW t \in Tasks, RecordStep(t) PROVE SessionInv'
  BY <1>8 DEF RecordStep
<1>9. ASSUME running, NEW t \in Tasks, StepRecorded(t) PROVE SessionInv'
  BY <1>9 DEF StepRecorded, NotSaved
<1>10. ASSUME running, NEW t \in Tasks, UseSession(t) PROVE SessionInv'
  <2> DEFINE s == Slot(t)
             new == s = "fresh" \/ \A i \in 1..Len(closers[t]) : closers[t][i] # s
  <2>1. s \in Slots /\ (~Current(t).fresh => s \in Agents)
    BY StepTyped
  <2>2. step' = step /\ at' = [at EXCEPT ![t] = IF ~new /\ s \in started[t] THEN "prompt" ELSE "open"]
    BY <1>10 DEF UseSession
  <2>3. \A u \in Tasks \ {t} : closers'[u] = closers[u] /\ started'[u] = started[u]
    BY <1>10 DEF UseSession
  <2>4. at'[t] = "open" => s \notin started'[t]
    BY <1>10, <2>2 DEF UseSession
  <2>5. ~Current(t).fresh => \E i \in 1..Len(closers'[t]) : closers'[t][i] = s
    <3>1. CASE new /\ s # "fresh"
      <4>1. closers'[t] = Append(closers[t], s) /\ closers[t] \in Seq(Agents) /\ s \in Agents
        BY <1>10, <2>1, <3>1 DEF UseSession
      <4>2. Len(closers'[t]) = Len(closers[t]) + 1 /\ closers'[t][Len(closers[t]) + 1] = s
        BY <4>1
      <4> QED BY <4>1, <4>2
    <3>2. CASE ~new
      BY <1>10, <3>2 DEF UseSession
    <3>3. CASE s = "fresh"
      BY <2>1, <3>3 DEF Agents
    <3> QED BY <3>1, <3>2, <3>3
  <2>6. ASSUME NEW u \in Tasks, at'[u] \in {"open", "startup", "prompt"}
        PROVE  /\ ~Current(u).fresh => \E i \in 1..Len(closers'[u]) : closers'[u][i] = Slot(u)
               /\ at'[u] = "open" => Slot(u) \notin started'[u]
    <3>1. CASE u = t
      BY <2>4, <2>5, <2>6, <3>1
    <3>2. CASE u # t
      <4>1. at'[u] = at[u] /\ closers'[u] = closers[u] /\ started'[u] = started[u]
        BY <2>2, <2>3, <3>2
      <4> QED BY <2>6, <4>1
    <3> QED BY <3>1, <3>2
  <2>7. \A u \in Tasks : Current(u)' = Current(u) /\ Slot(u)' = Slot(u)
    BY <2>2
  <2>8. \A u \in Tasks : step'[u] <= Len(Workflow[u])
    BY <2>2
  <2> HIDE DEF s, new, Current, Slot
  <2> QED BY <2>6, <2>7, <2>8
<1>11. ASSUME running, NEW t \in Tasks, OpenPane(t) PROVE SessionInv'
  BY <1>11 DEF OpenPane, TmuxFails, NewPane
<1>12. ASSUME running, NEW t \in Tasks, StartAgent(t) PROVE SessionInv'
  BY <1>12 DEF StartAgent, PaneCloses, PaneStays, TmuxFails
<1>13. ASSUME running, NEW t \in Tasks, RunStep(t) PROVE SessionInv'
  BY <1>13 DEF RunStep
<1>14. ASSUME running, NEW t \in Tasks, EndStep(t) PROVE SessionInv'
  <2>1. PICK o : AfterStep(t, o)
    BY <1>14 DEF EndStep
  <2>2. \/ /\ at' = [at EXCEPT ![t] = "close"] /\ UNCHANGED step
        \/ /\ step[t] # Len(Workflow[t]) /\ step' = [step EXCEPT ![t] = @ + 1]
           /\ at' = [at EXCEPT ![t] = "record"]
    BY <2>1 DEF AfterStep
  <2>3. step[t] <= Len(Workflow[t]) /\ Len(Workflow[t]) \in 1..NumSteps /\ step[t] \in 1..NumSteps
    BY AgentSessionsAssumption
  <2>4. \A u \in Tasks \ {t} : step'[u] = step[u] /\ at'[u] = at[u]
    BY <2>2
  <2>5. step'[t] <= Len(Workflow[t]) /\ at'[t] \in {"close", "record"}
    BY <2>2, <2>3
  <2>6. UNCHANGED <<closers, started>>
    BY <1>14 DEF EndStep
  <2>7. \A u \in Tasks \ {t} : Current(u)' = Current(u) /\ Slot(u)' = Slot(u)
    BY <2>4
  <2>8. \A u \in Tasks : step'[u] <= Len(Workflow[u])
    BY <2>4, <2>5
  <2>9. ASSUME NEW u \in Tasks, at'[u] \in {"open", "startup", "prompt"}
        PROVE  /\ ~Current(u)'.fresh => \E i \in 1..Len(closers'[u]) : closers'[u][i] = Slot(u)'
               /\ at'[u] = "open" => Slot(u)' \notin started'[u]
    <3>1. u # t
      BY <2>5, <2>9
    <3> QED BY <2>4, <2>6, <2>7, <2>9, <3>1
  <2> QED BY <2>8, <2>9
<1>15. ASSUME running, NEW t \in Tasks, CloseShared(t) PROVE SessionInv'
  BY <1>15 DEF CloseShared, PaneCloses, PaneStays, TmuxFails
<1>16. ASSUME running, NEW t \in Tasks, AllClosed(t) PROVE SessionInv'
  BY <1>16 DEF AllClosed
<1>17. ASSUME running, NEW t \in Tasks, BeginClearTask(t) PROVE SessionInv'
  BY <1>17 DEF BeginClearTask
<1>18. ASSUME running, NEW t \in Tasks, ClearRuntimeTask(t) PROVE SessionInv'
  BY <1>18 DEF ClearRuntimeTask, NotSaved
<1>19. ASSUME NEW p \in panes, AgentDies(p) PROVE SessionInv'
  BY <1>19 DEF AgentDies, PaneCloses
<1>20. CASE running /\ Exit
  BY <1>20 DEF Exit
<1>21. CASE Restart
  BY <1>21 DEF Restart
<1> QED BY <1>1, <1>2, <1>3, <1>4, <1>5, <1>6, <1>7, <1>8, <1>9, <1>10, <1>11,
      <1>12, <1>13, <1>14, <1>15, <1>16, <1>17, <1>18, <1>19, <1>20, <1>21 DEF
      Next, ProcessStep, WorkerStep

\* A worker's panes are those it is going to close.
LEMMA PaneKept == ASSUME SessionsInv, Next PROVE PaneInv'
<1> USE AgentSessionsAssumption, RunStateAssumption, MainAssumption DEF
        SessionsInv, WorkerTyped, ControlInv, Idle, AllIdle, GoTo, Proceeds,
        tmux, worker, history, runState
<1>1. CASE running /\ StartTmux
  BY <1>1, SamePanes DEF StartTmux
<1>2. CASE running /\ OpenClient
  BY <1>2, SamePanes DEF OpenClient, NotClosed
<1>3. ASSUME running, NEW batch \in SUBSET Tasks, StartIteration(batch) PROVE PaneInv'
  <2>1. ASSUME NEW p \in panes PROVE <<p.iteration, p.task>> \in faulty
    <3>1. Idle(p.task)
      BY <1>3, SlotOfTyped DEF StartIteration, Panes
    <3> QED BY <3>1, SharedPanes
  <2> QED BY <1>3, <2>1 DEF StartIteration, PaneInv
<1>4. CASE running /\ EndRun
  BY <1>4, SamePanes DEF EndRun
<1>5. CASE running /\ CloseRunTmux
  BY <1>5, SamePanes DEF CloseRunTmux, NotClosed
<1>6. CASE running /\ BeginClearRun
  BY <1>6, SamePanes DEF BeginClearRun
<1>7. CASE running /\ ClearRuntimeRun
  BY <1>7, SamePanes DEF ClearRuntimeRun, NotClosed
<1>8. ASSUME running, NEW t \in Tasks, RecordStep(t) PROVE PaneInv'
  <2>1. /\ iteration' = iteration /\ faulty \subseteq faulty'
        /\ \A u \in Tasks \ {t} :
             /\ at'[u] = at[u] /\ step'[u] = step[u] /\ closers'[u] = closers[u]
             /\ pane'[u] = pane[u] /\ started'[u] = started[u]
        /\ \A p \in panes' : p \in panes \/ p = NewPane(t)
    BY <1>8 DEF RecordStep
  <2>2. ASSUME NEW p \in panes', p.task = t, <<p.iteration, t>> \notin faulty'
        PROVE  InUse(p)'
    BY <1>8, <2>2, SharedPanes DEF RecordStep, InUse, SlotOf
  <2> QED BY <2>1, <2>2, OwnPanes
<1>9. ASSUME running, NEW t \in Tasks, StepRecorded(t) PROVE PaneInv'
  <2>1. /\ iteration' = iteration /\ faulty \subseteq faulty'
        /\ \A u \in Tasks \ {t} :
             /\ at'[u] = at[u] /\ step'[u] = step[u] /\ closers'[u] = closers[u]
             /\ pane'[u] = pane[u] /\ started'[u] = started[u]
        /\ \A p \in panes' : p \in panes \/ p = NewPane(t)
    BY <1>9 DEF StepRecorded, NotSaved
  <2>2. ASSUME NEW p \in panes', p.task = t, <<p.iteration, t>> \notin faulty'
        PROVE  InUse(p)'
    BY <1>9, <2>2, SharedPanes DEF StepRecorded, NotSaved, InUse, SlotOf
  <2> QED BY <2>1, <2>2, OwnPanes
<1>10. ASSUME running, NEW t \in Tasks, UseSession(t) PROVE PaneInv'
  <2>1. /\ iteration' = iteration /\ faulty \subseteq faulty'
        /\ \A u \in Tasks \ {t} :
             /\ at'[u] = at[u] /\ step'[u] = step[u] /\ closers'[u] = closers[u]
             /\ pane'[u] = pane[u] /\ started'[u] = started[u]
        /\ \A p \in panes' : p \in panes \/ p = NewPane(t)
    BY <1>10 DEF UseSession
  <2>2. ASSUME NEW p \in panes', p.task = t, <<p.iteration, t>> \notin faulty'
        PROVE  InUse(p)'
    <3> DEFINE s == Slot(t)
               new == s = "fresh" \/ \A i \in 1..Len(closers[t]) : closers[t][i] # s
    <3>1. p \in panes /\ SlotOf(p)' = SlotOf(p) /\ s \in Slots
      BY <1>10, StepTyped DEF UseSession, SlotOf
    <3>2. /\ p.iteration = iteration /\ pane[t][SlotOf(p)] = p
          /\ SlotOf(p) \in Slots \ {"fresh"} /\ SlotOf(p) \in started[t]
          /\ p.step <= Len(Workflow[t])
      BY <1>10, <2>2, <3>1, SharedPanes DEF UseSession, InUse
    <3>3. PICK i \in 1..Len(closers[t]) : closers[t][i] = SlotOf(p)
      BY <1>10, <2>2, <3>1, SharedPanes DEF UseSession
    <3>4. at'[t] \in {"prompt", "open"}
      BY <1>10 DEF UseSession
    <3>5. pane'[t][SlotOf(p)] = p
      BY <1>10, <3>1, <3>2, <3>3 DEF UseSession
    <3>6. SlotOf(p) \in started'[t]
      BY <1>10, <3>1, <3>2, <3>3 DEF UseSession
    <3>7. i \in 1..Len(closers'[t]) /\ closers'[t][i] = SlotOf(p)
      <4>1. closers[t] \in Seq(Agents)
        OBVIOUS
      <4>2. CASE closers' = closers
        BY <3>3, <4>2
      <4>3. CASE closers' = [closers EXCEPT ![t] = Append(@, s)]
        BY <3>3, <4>1, <4>3
      <4> QED BY <1>10, <4>2, <4>3 DEF UseSession
    <3> HIDE DEF s, new
    <3> QED BY <2>1, <2>2, <3>1, <3>2, <3>4, <3>5, <3>6, <3>7 DEF InUse
  <2> QED BY <2>1, <2>2, OwnPanes
<1>11. ASSUME running, NEW t \in Tasks, OpenPane(t) PROVE PaneInv'
  <2>1. /\ iteration' = iteration /\ faulty \subseteq faulty'
        /\ \A u \in Tasks \ {t} :
             /\ at'[u] = at[u] /\ step'[u] = step[u] /\ closers'[u] = closers[u]
             /\ pane'[u] = pane[u] /\ started'[u] = started[u]
        /\ \A p \in panes' : p \in panes \/ p = NewPane(t)
    BY <1>11 DEF OpenPane, TmuxFails, NewPane
  <2>2. ASSUME NEW p \in panes', p.task = t, <<p.iteration, t>> \notin faulty'
        PROVE  InUse(p)'
    <3>1. SlotOf(p)' = SlotOf(p) /\ Slot(t)' = Slot(t) /\ Slot(t) \in Slots
      BY <1>11, StepTyped DEF OpenPane, SlotOf, Slot, Current
    <3>2. p.iteration # iteration \/ faulty' = faulty
      BY <1>11, <2>2 DEF OpenPane, TmuxFails
    <3>3. CASE p \in panes
      <4>1. /\ p.iteration = iteration /\ pane[t][SlotOf(p)] = p
            /\ SlotOf(p) \in Slots \ {"fresh"} /\ SlotOf(p) \in started[t]
            /\ p.step <= Len(Workflow[t])
            /\ \E i \in 1..Len(closers[t]) : closers[t][i] = SlotOf(p)
        BY <1>11, <2>1, <2>2, <3>3, SharedPanes DEF OpenPane, InUse
      <4>2. SlotOf(p) # Slot(t) /\ SlotOf(p) \in Slots
        BY <1>11, <4>1 DEF OpenPane, SessionInv
      <4>3. pane'[t][SlotOf(p)] = p /\ at'[t] \in {"startup", "endStep"}
        BY <1>11, <3>1, <4>1, <4>2 DEF OpenPane
      <4> QED BY <1>11, <2>2, <3>1, <4>1, <4>3 DEF OpenPane, InUse
    <3>4. CASE p = NewPane(t) /\ p.iteration = iteration
      <4>1. SlotOf(p) = Slot(t) /\ p.step = step[t]
        BY <3>4 DEF NewPane, SlotOf, Slot, Current
      <4>2. pane'[t][Slot(t)] = p /\ at'[t] = "startup"
        BY <1>11, <2>2, <3>1, <3>4 DEF OpenPane, TmuxFails
      <4>3. Slot(t) # "fresh" => \E i \in 1..Len(closers[t]) : closers[t][i] = Slot(t)
        BY <1>11, StepTyped DEF OpenPane, SessionInv
      <4>4. p.step <= Len(Workflow[t])
        BY <4>1 DEF SessionInv
      <4> QED BY <1>11, <2>2, <3>1, <3>4, <4>1, <4>2, <4>3, <4>4 DEF OpenPane, InUse
    <3> QED BY <2>1, <3>3, <3>4 DEF NewPane
  <2> QED BY <2>1, <2>2, OwnPanes
<1>12. ASSUME running, NEW t \in Tasks, StartAgent(t) PROVE PaneInv'
  <2>1. /\ iteration' = iteration /\ faulty \subseteq faulty'
        /\ \A u \in Tasks \ {t} :
             /\ at'[u] = at[u] /\ step'[u] = step[u] /\ closers'[u] = closers[u]
             /\ pane'[u] = pane[u] /\ started'[u] = started[u]
        /\ \A p \in panes' : p \in panes \/ p = NewPane(t)
    BY <1>12 DEF StartAgent, PaneCloses, PaneStays, TmuxFails
  <2>2. ASSUME NEW p \in panes', p.task = t, <<p.iteration, t>> \notin faulty'
        PROVE  InUse(p)'
    <3>1. p \in panes /\ SlotOf(p)' = SlotOf(p) /\ Slot(t)' = Slot(t)
      BY <1>12 DEF StartAgent, PaneCloses, PaneStays, SlotOf, Slot, Current
    <3>2. InUse(p) /\ p.iteration = iteration
      BY <1>12, <2>1, <2>2, <3>1 DEF PaneInv, InUse
    <3>3. p.step = step[t] => SlotOf(p) = Slot(t)
      BY <2>2, <3>1, SlotOfTyped
    <3>4. Slot(t) \in Slots
      BY StepTyped
    <3>5. CASE started' = [started EXCEPT ![t] = @ \cup {Slot(t)}] /\ GoTo(t, "prompt")
      BY <1>12, <2>2, <3>1, <3>2, <3>5 DEF StartAgent, InUse
    <3>6. CASE PaneCloses(pane[t][Slot(t)]) /\ UNCHANGED started /\ GoTo(t, "endStep")
      <4>1. SlotOf(p) # Slot(t)
        BY <2>2, <3>2, <3>6 DEF PaneCloses, InUse
      <4> QED BY <1>12, <2>2, <3>1, <3>2, <3>3, <3>6, <4>1 DEF StartAgent, InUse
    <3> QED BY <1>12, <2>2, <3>2, <3>5, <3>6 DEF StartAgent, PaneStays, TmuxFails
  <2> QED BY <2>1, <2>2, OwnPanes
<1>13. ASSUME running, NEW t \in Tasks, RunStep(t) PROVE PaneInv'
  <2>1. /\ iteration' = iteration /\ faulty \subseteq faulty'
        /\ \A u \in Tasks \ {t} :
             /\ at'[u] = at[u] /\ step'[u] = step[u] /\ closers'[u] = closers[u]
             /\ pane'[u] = pane[u] /\ started'[u] = started[u]
        /\ \A p \in panes' : p \in panes \/ p = NewPane(t)
    BY <1>13 DEF RunStep
  <2>2. ASSUME NEW p \in panes', p.task = t, <<p.iteration, t>> \notin faulty'
        PROVE  InUse(p)'
    <3>1. InUse(p) /\ SlotOf(p)' = SlotOf(p)
      BY <1>13, <2>2 DEF RunStep, PaneInv, SlotOf
    <3> QED BY <1>13, <2>2, <3>1 DEF RunStep, InUse
  <2> QED BY <2>1, <2>2, OwnPanes
<1>14. ASSUME running, NEW t \in Tasks, EndStep(t) PROVE PaneInv'
  <2>0. PICK o : AfterStep(t, o)
    BY <1>14 DEF EndStep
  <2>1. /\ iteration' = iteration /\ faulty \subseteq faulty'
        /\ \A u \in Tasks \ {t} :
             /\ at'[u] = at[u] /\ step'[u] = step[u] /\ closers'[u] = closers[u]
             /\ pane'[u] = pane[u] /\ started'[u] = started[u]
        /\ \A p \in panes' : p \in panes \/ p = NewPane(t)
    BY <1>14, <2>0 DEF EndStep, AfterStep, PaneCloses, PaneStays, TmuxFails
  <2>2. ASSUME NEW p \in panes', p.task = t, <<p.iteration, t>> \notin faulty'
        PROVE  InUse(p)'
    <3>1. p \in panes /\ SlotOf(p)' = SlotOf(p)
      BY <1>14 DEF EndStep, PaneCloses, PaneStays, SlotOf
    <3>2. InUse(p) /\ p.iteration = iteration /\ at[t] = "endStep"
      BY <1>14, <2>1, <2>2, <3>1 DEF EndStep, PaneInv, InUse
    <3>3. SlotOf(p) = "fresh" => Current(t).fresh
      BY <2>2, <3>1, <3>2, SlotOfTyped, StepTyped DEF InUse, Agents
    <3>4. SlotOf(p) # "fresh"
      BY <1>14, <2>2, <3>1, <3>2, <3>3 DEF EndStep, PaneCloses, PaneStays, TmuxFails, InUse
    <3>5. at'[t] \in {"close", "record"}
      BY <2>0 DEF AfterStep
    <3> QED BY <1>14, <2>1, <2>2, <3>1, <3>2, <3>4, <3>5 DEF EndStep, InUse
  <2> QED BY <2>1, <2>2, OwnPanes
<1>15. ASSUME running, NEW t \in Tasks, CloseShared(t) PROVE PaneInv'
  <2>1. /\ iteration' = iteration /\ faulty \subseteq faulty'
        /\ \A u \in Tasks \ {t} :
             /\ at'[u] = at[u] /\ step'[u] = step[u] /\ closers'[u] = closers[u]
             /\ pane'[u] = pane[u] /\ started'[u] = started[u]
        /\ \A p \in panes' : p \in panes \/ p = NewPane(t)
    BY <1>15 DEF CloseShared, PaneCloses, PaneStays, TmuxFails
  <2>2. ASSUME NEW p \in panes', p.task = t, <<p.iteration, t>> \notin faulty'
        PROVE  InUse(p)'
    <3>1. p \in panes /\ SlotOf(p)' = SlotOf(p)
      BY <1>15 DEF CloseShared, PaneCloses, PaneStays, SlotOf
    <3>2. /\ p.iteration = iteration /\ pane[t][SlotOf(p)] = p
          /\ SlotOf(p) # "fresh" /\ SlotOf(p) \in started[t]
          /\ p.step <= Len(Workflow[t])
      BY <1>15, <2>1, <2>2, <3>1, SharedPanes DEF CloseShared, InUse
    <3>3. PICK i \in 1..Len(closers[t]) : closers[t][i] = SlotOf(p)
      BY <1>15, <2>1, <2>2, <3>1, SharedPanes DEF CloseShared
    <3>4. /\ panes' = panes \ {pane[t][closers[t][Len(closers[t])]]}
          /\ at' = at /\ closers' = [closers EXCEPT ![t] = SubSeq(@, 1, Len(closers[t]) - 1)]
      BY <1>15, <2>2, <3>2 DEF CloseShared, PaneCloses, PaneStays, TmuxFails
    <3>5. i # Len(closers[t])
      BY <3>2, <3>3, <3>4
    <3>6. closers[t] \in Seq(Agents)
      OBVIOUS
    <3>7. i \in 1..Len(closers'[t]) /\ closers'[t][i] = SlotOf(p)
      BY <3>3, <3>4, <3>5, <3>6
    <3> QED BY <1>15, <2>1, <2>2, <3>1, <3>2, <3>4, <3>7 DEF CloseShared, InUse
  <2> QED BY <2>1, <2>2, OwnPanes
<1>16. ASSUME running, NEW t \in Tasks, AllClosed(t) PROVE PaneInv'
  <2>1. /\ iteration' = iteration /\ faulty \subseteq faulty'
        /\ \A u \in Tasks \ {t} :
             /\ at'[u] = at[u] /\ step'[u] = step[u] /\ closers'[u] = closers[u]
             /\ pane'[u] = pane[u] /\ started'[u] = started[u]
        /\ \A p \in panes' : p \in panes \/ p = NewPane(t)
    BY <1>16 DEF AllClosed
  <2>2. ASSUME NEW p \in panes', p.task = t, <<p.iteration, t>> \notin faulty'
        PROVE  InUse(p)'
    <3>1. closers[t] = <<>> /\ p \in panes /\ <<p.iteration, t>> \notin faulty
      BY <1>16, <2>2 DEF AllClosed
    <3>2. at[t] = "close"
      BY <1>16 DEF AllClosed
    <3>3. \E i \in 1..Len(closers[t]) : closers[t][i] = SlotOf(p)
      BY <2>2, <3>1, <3>2, SharedPanes
    <3>4. Len(closers[t]) = 0
      BY <3>1
    <3> QED BY <3>3, <3>4
  <2> QED BY <2>1, <2>2, OwnPanes
<1>17. ASSUME running, NEW t \in Tasks, BeginClearTask(t) PROVE PaneInv'
  <2>1. /\ iteration' = iteration /\ faulty \subseteq faulty'
        /\ \A u \in Tasks \ {t} :
             /\ at'[u] = at[u] /\ step'[u] = step[u] /\ closers'[u] = closers[u]
             /\ pane'[u] = pane[u] /\ started'[u] = started[u]
        /\ \A p \in panes' : p \in panes \/ p = NewPane(t)
    BY <1>17 DEF BeginClearTask
  <2>2. ASSUME NEW p \in panes', p.task = t, <<p.iteration, t>> \notin faulty'
        PROVE  InUse(p)'
    BY <1>17, <2>2, SharedPanes DEF BeginClearTask
  <2> QED BY <2>1, <2>2, OwnPanes
<1>18. ASSUME running, NEW t \in Tasks, ClearRuntimeTask(t) PROVE PaneInv'
  <2>1. /\ iteration' = iteration /\ faulty \subseteq faulty'
        /\ \A u \in Tasks \ {t} :
             /\ at'[u] = at[u] /\ step'[u] = step[u] /\ closers'[u] = closers[u]
             /\ pane'[u] = pane[u] /\ started'[u] = started[u]
        /\ \A p \in panes' : p \in panes \/ p = NewPane(t)
    BY <1>18 DEF ClearRuntimeTask, NotSaved
  <2>2. ASSUME NEW p \in panes', p.task = t, <<p.iteration, t>> \notin faulty'
        PROVE  InUse(p)'
    BY <1>18, <2>2, SharedPanes DEF ClearRuntimeTask, NotSaved
  <2> QED BY <2>1, <2>2, OwnPanes
<1>19. ASSUME NEW p \in panes, AgentDies(p) PROVE PaneInv'
  BY <1>19, SamePanes DEF AgentDies, PaneCloses
<1>20. CASE running /\ Exit
  BY <1>20, SamePanes DEF Exit
<1>21. CASE Restart
  BY <1>21 DEF Restart, PaneInv
<1> QED BY <1>1, <1>2, <1>3, <1>4, <1>5, <1>6, <1>7, <1>8, <1>9, <1>10, <1>11,
      <1>12, <1>13, <1>14, <1>15, <1>16, <1>17, <1>18, <1>19, <1>20, <1>21 DEF
      Next, ProcessStep, WorkerStep
-----------------------------------------------------------------------------
(***************************************************************************)
(* The inductive invariant, and what follows from it                       *)
(***************************************************************************)

\* It holds before the first process.
LEMMA SessionsInit == Init => SessionsInv
<1> SUFFICES ASSUME Init PROVE SessionsInv
  OBVIOUS
<1> USE AgentSessionsAssumption, RunStateAssumption, MainAssumption DEF Init, Each, Idle, AllIdle
<1>1. RunStateTypeOK
  BY DEF RunStateTypeOK, RunStateInit, Runs, Files
<1>2. RunTyped
  <2>1. pc \in PCs /\ iteration \in 0..MaxIterations
    BY DEF PCs
  <2>3. session \in BOOLEAN
    OBVIOUS
  <2>2. panes = {} /\ faulty = {} /\ unsaved = {} /\ unclosed = {}
    OBVIOUS
  <2> QED BY <2>1, <2>2, <2>3 DEF RunTyped
<1>3. WorkerTyped
  BY DEF WorkerTyped, Places, NoPanes
<1>4. ControlInv /\ TmuxInv /\ PaneInv /\ SessionInv
  BY DEF ControlInv, TmuxInv, PaneInv, SessionInv
<1>5. CopyInv
  BY DEF CopyInv, FileIsFreed, RunStateInit, Runs
<1>6. ShownInv
  BY DEF ShownInv, RunStateInit, AtWork, Runs
<1> QED BY <1>1, <1>2, <1>3, <1>4, <1>5, <1>6 DEF SessionsInv

\* And while nothing happens.
LEMMA SessionsStutter == ASSUME SessionsInv, UNCHANGED vars PROVE SessionsInv'
<1> USE DEF vars, runState, tmux, worker, history, SessionsInv, Idle, AllIdle
<1>1. RunStateTypeOK' /\ RunTyped' /\ WorkerTyped'
  BY DEF RunStateTypeOK, RunTyped, WorkerTyped
<1>2. ControlInv' /\ ShownInv' /\ TmuxInv'
  BY DEF ControlInv, ShownInv, TmuxInv
<1>3. CopyInv'
  BY DEF CopyInv, FileIsFreed, Writes
<1>4. PaneInv'
  BY SamePanes
<1>5. SessionInv'
  BY DEF SessionInv, Slot, Current
<1> QED BY <1>1, <1>2, <1>3, <1>4, <1>5

\* However the workers of a batch, tmux, dying agents, kills and restarts are
\* interleaved and whatever fails: the conjuncts of SessionsInv hold.
THEOREM SessionsInvariant == Spec => []SessionsInv
<1>1. SessionsInv /\ [Next]_vars => SessionsInv'
  <2>1. ASSUME SessionsInv, Next PROVE SessionsInv'
    BY <2>1, RunStateTypeKept, RunTypeKept, WorkerTypeKept, ControlKept, CopyKept,
       ShownKept, TmuxKept, PaneKept, SessionKept DEF SessionsInv
  <2> QED BY <2>1, SessionsStutter
<1> QED BY SessionsInit, <1>1, PTL DEF Spec

\* The variables have their types.
THEOREM SessionsTypeCorrect == Spec => []TypeOK
<1>1. SessionsInv => TypeOK
  BY DEF SessionsInv, RunTyped, WorkerTyped, TypeOK
<1> QED BY <1>1, SessionsInvariant, PTL

\* An agent's pane is one that a worker at work holds, or tmux failed in that
\* iteration of the task (FEATURES.md:280).
THEOREM SessionsNoStrayAgents == Spec => []NoStrayAgents
<1>1. SessionsInv => NoStrayAgents
  <2> SUFFICES ASSUME SessionsInv, NEW p \in panes, <<p.iteration, p.task>> \notin faulty
               PROVE  Held(p)
    BY DEF NoStrayAgents
  <2>1. p \in Panes /\ InUse(p)
    BY DEF SessionsInv, PaneInv, RunTyped
  <2>2. SlotOf(p) \in Slots
    BY <2>1, SlotOfTyped
  <2>3. ~Idle(p.task)
    BY <2>1 DEF InUse, Idle
  <2>4. Workflow[p.task][p.step].fresh => p.step = step[p.task]
    BY <2>1 DEF InUse, SlotOf
  <2> QED BY <2>1, <2>2, <2>3, <2>4 DEF Held, InUse
<1> QED BY <1>1, SessionsInvariant, PTL

\* A run that ends takes its tmux session along, unless tmux refused
\* (FEATURES.md:815).
THEOREM SessionsRunEndsClean == Spec => []RunEndsClean
<1>1. SessionsInv => RunEndsClean
  BY DEF SessionsInv, TmuxInv, RunEndsClean
<1> QED BY <1>1, SessionsInvariant, PTL

\* Whoever is prompted is shown at its step (FEATURES.md:284).
THEOREM SessionsActiveIsShown == Spec => []ActiveIsShown
<1>1. SessionsInv => ActiveIsShown
  BY DEF SessionsInv, ShownInv, ActiveIsShown, Shown
<1> QED BY <1>1, SessionsInvariant, PTL

\* Nothing is shown of an idle task, and a run that ended has left no entry
\* (FEATURES.md:285).
THEOREM SessionsClearedWhenDone == Spec => []ClearedWhenDone
<1>1. SessionsInv => ClearedWhenDone
  BY DEF SessionsInv, ShownInv, ClearedWhenDone, Shown
<1> QED BY <1>1, SessionsInvariant, PTL

\* The lock of the run state is never left to a goroutine that is not going to
\* give it back, and never given to two.
THEOREM SessionsFileIsFreed == Spec => []FileIsFreed
<1>1. SessionsInv => FileIsFreed
  BY DEF SessionsInv, CopyInv
<1> QED BY <1>1, SessionsInvariant, PTL
==============================================================================
