----------------------------- MODULE TaskQueue ------------------------------
(***************************************************************************)
(* What a vibedrive run promises about the plan, whoever executes the      *)
(* tasks and whatever crashes: statuses change one task at a time, only of *)
(* a task that is not terminal and whose dependencies all are, and never   *)
(* back to todo.  The serial and the parallel runner implement this.       *)
(***************************************************************************)
EXTENDS TaskPlan

VARIABLE plan   \* plan[t]: the status the plan file records for t

Init == plan \in [Tasks -> Statuses]

\* The outcome s of an attempt at t is recorded.
Record(t, s) ==
  /\ plan[t] \notin Terminal
  /\ \A d \in Deps[t] : plan[d] \in Terminal
  /\ plan' = [plan EXCEPT ![t] = s]

Next == \E t \in Tasks, s \in Statuses \ {"todo"} : Record(t, s)

Spec == Init /\ [][Next]_plan
=============================================================================
