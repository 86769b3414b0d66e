------------------------------ MODULE TaskPlan ------------------------------
(***************************************************************************)
(* The machine plan (internal/plan/plan.go): task statuses, dependencies   *)
(* and the choice of the next task to run.  A task is its position in the  *)
(* plan file, because every search of the code scans the file in order; a  *)
(* plan is the function from tasks to statuses.  Titles, prompts, commands *)
(* and the other descriptive fields are left out; Validate's promise that  *)
(* every dependency names a task of the plan is the assumption below.  The *)
(* code does not reject dependency cycles, and neither does the model.     *)
(***************************************************************************)
EXTENDS Naturals

CONSTANTS
  NumTasks,   \* how many tasks the plan file lists
  Deps        \* Deps[t]: the tasks that t's deps field names

Tasks == 1..NumTasks

ASSUME PlanAssumption ==
  /\ NumTasks \in Nat \ {0}
  /\ Deps \in [Tasks -> SUBSET Tasks]

Statuses == {"todo", "in_progress", "blocked", "done", "manual"}

\* Task.IsTerminal: a task nobody will work on again.
Terminal == {"done", "blocked", "manual"}

\* Forgets the dependencies nobody started; takes only "done" for met.
BugUnmetDeps(st, t) == {d \in Deps[t] : st[d] = "in_progress"}
BugUnmetDepsDone(st, t) == {d \in Deps[t] : st[d] # "done"}

\* unmetDependencyIDs: any terminal status will do, a blocked dependency is met.
UnmetDeps(st, t) == {d \in Deps[t] : st[d] \notin Terminal}

\* findReadyTaskByStatus: the ready tasks that have status s ...
ReadyWith(st, s) == {t \in Tasks : st[t] = s /\ UnmetDeps(st, t) = {}}

\* ... of which the scan returns the first in file order.
First(S) == CHOOSE t \in S : \A u \in S : t <= u

Unfinished(st) == {t \in Tasks : st[t] \notin Terminal}

HasReady(st) == ReadyWith(st, "in_progress") \cup ReadyWith(st, "todo") # {}

\* The two scans in the wrong order.
BugFindNextReady(st) ==
  IF ReadyWith(st, "todo") # {}
  THEN First(ReadyWith(st, "todo"))
  ELSE First(ReadyWith(st, "in_progress"))

\* FindNextReady, where it returns a task: in_progress goes before todo.
FindNextReady(st) ==
  IF ReadyWith(st, "in_progress") # {}
  THEN First(ReadyWith(st, "in_progress"))
  ELSE First(ReadyWith(st, "todo"))

\* FindNextReady's two errors.
AllTasksDone(st) == ~HasReady(st) /\ Unfinished(st) = {}
NoReadyTasks(st) == ~HasReady(st) /\ Unfinished(st) # {}
=============================================================================
