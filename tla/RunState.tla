------------------------------ MODULE RunState ------------------------------
(***************************************************************************)
(* .vibedrive/run-state.json (internal/runstate): which step of which task *)
(* each vibedrive process is at, for the views.  Every update reads the    *)
(* whole file, changes its copy and renames a new file over the old one,   *)
(* under a mutex of the process.                                           *)
(*                                                                         *)
(* One process runs at a time, one after another, and no two of them have  *)
(* the same process id.  What the file says of a step is its index.        *)
(***************************************************************************)
EXTENDS Naturals

CONSTANTS
  Tasks,
  NumSteps,  \* steps of the workflow
  MaxRuns    \* bound: processes, one after another

ASSUME RunStateAssumption ==
  /\ NumSteps \in Nat
  /\ MaxRuns \in Nat \ {0}

CONSTANT Main   \* the goroutine that drives the workers

ASSUME MainAssumption == Main \notin Tasks

VARIABLES
  run,      \* the process, by number
  running,  \* it is alive
  file,     \* by run and task, the step recorded; 0 without an entry
  copies    \* what a goroutine read and has not written back

runState == <<run, running, file, copies>>

Runs == 1..MaxRuns
Files == [Runs -> [Tasks -> 0..NumSteps]]
NoCopy == <<>>
Goroutines == Tasks \cup {Main}

RunStateTypeOK ==
  /\ run \in Runs /\ running \in BOOLEAN
  /\ file \in Files
  /\ copies \in [Goroutines -> Files \cup {NoCopy}]

RunStateInit ==
  /\ run = 1 /\ running = TRUE
  /\ file = [r \in Runs |-> [t \in Tasks |-> 0]]
  /\ copies = [g \in Goroutines |-> NoCopy]

\* Without the mutex.
BugLoad(g) ==
  /\ copies[g] = NoCopy
  /\ copies' = [copies EXCEPT ![g] = file]
  /\ UNCHANGED <<run, running, file>>

\* The first half of an update: the mutex and Load.
Load(g) ==
  /\ \A h \in Goroutines : copies[h] = NoCopy
  /\ copies' = [copies EXCEPT ![g] = file]
  /\ UNCHANGED <<run, running, file>>

\* The second half: the run's entries become those given, and the mutex is
\* released.
Save(g, entries) ==
  /\ copies[g] # NoCopy
  /\ file' = [copies[g] EXCEPT ![run] = entries]
  /\ copies' = [copies EXCEPT ![g] = NoCopy]
  /\ UNCHANGED <<run, running>>

Entries(g) == copies[g][run]
UpsertTask(t, s) == Save(t, [Entries(t) EXCEPT ![t] = s])
ClearTask(t) == Save(t, [Entries(t) EXCEPT ![t] = 0])
ClearRun == Save(Main, [t \in Tasks |-> 0])

\* Nothing can be read or written; the runner goes on with a warning.
SaveFails(g) ==
  /\ copies[g] # NoCopy
  /\ copies' = [copies EXCEPT ![g] = NoCopy]
  /\ UNCHANGED <<run, running, file>>

\* Those of the process before it, too, whether it cleared them or died.
BugShown ==
  [t \in Tasks |-> IF run = 1 \/ file[run][t] # 0 THEN file[run][t]
                   ELSE file[run - 1][t]]

\* ActiveTasksForPlan: the entries of processes that are alive.
Shown == IF running THEN file[run] ELSE [t \in Tasks |-> 0]

\* A process that ends or dies takes its copies along; the next one starts.
EndProcess ==
  /\ running' = FALSE
  /\ copies' = [g \in Goroutines |-> NoCopy]
  /\ UNCHANGED <<run, file>>
NextProcess ==
  /\ ~running /\ run < MaxRuns
  /\ run' = run + 1 /\ running' = TRUE
  /\ UNCHANGED <<file, copies>>
=============================================================================
