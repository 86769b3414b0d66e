----------------------------- MODULE BatchScan ------------------------------
(***************************************************************************)
(* AnalyzeReadyBatch in internal/plan/plan.go scans the plan twice,        *)
(* started tasks first, and takes every ready task that is compatible with *)
(* those it has taken.  It also reports why it left a task out; the        *)
(* reasons are only printed and are left out here.                         *)
(***************************************************************************)
EXTENDS ReadyBatch

VARIABLES
  plan,      \* the plan that is analyzed
  pass,      \* the status the scan looks for; "end" after both passes
  pos,       \* the task it looks at
  selected   \* the tasks taken so far

scan == <<plan, pass, pos, selected>>

ScanTypeOK ==
  /\ plan \in [Tasks -> Statuses]
  /\ pass \in {"in_progress", "todo", "end"}
  /\ pos \in Tasks
  /\ selected \in SUBSET Tasks

\* Any plan that can be loaded.
ScanInit ==
  /\ plan \in [Tasks -> Statuses]
  /\ pass = "in_progress"
  /\ pos = 1
  /\ selected = {}

\* The two nested loops.
Advance ==
  /\ pos' = IF pos = NumTasks THEN 1 ELSE pos + 1
  /\ pass' = IF pos < NumTasks THEN pass
             ELSE IF pass = "in_progress" THEN "todo" ELSE "end"
  /\ UNCHANGED plan

\* A task of another status, or one that waits for its dependencies.
NotReady ==
  /\ pass # "end"
  /\ plan[pos] # pass \/ UnmetDeps(plan, pos) # {}
  /\ UNCHANGED selected
  /\ Advance

LimitReached ==
  /\ pass # "end"
  /\ plan[pos] = pass /\ UnmetDeps(plan, pos) = {}
  /\ Cardinality(selected) >= Limit
  /\ UNCHANGED selected
  /\ Advance

\* Leaves the pass instead of going on with the next task.
BugExclude ==
  /\ pass # "end"
  /\ plan[pos] = pass /\ UnmetDeps(plan, pos) = {}
  /\ Cardinality(selected) < Limit
  /\ ~Joins(pos, selected)
  /\ pos' = 1
  /\ pass' = IF pass = "in_progress" THEN "todo" ELSE "end"
  /\ UNCHANGED <<plan, selected>>

Exclude ==
  /\ pass # "end"
  /\ plan[pos] = pass /\ UnmetDeps(plan, pos) = {}
  /\ Cardinality(selected) < Limit
  /\ ~Joins(pos, selected)
  /\ UNCHANGED selected
  /\ Advance

Select ==
  /\ pass # "end"
  /\ plan[pos] = pass /\ UnmetDeps(plan, pos) = {}
  /\ Cardinality(selected) < Limit
  /\ Joins(pos, selected)
  /\ selected' = selected \cup {pos}
  /\ Advance

ScanNext == NotReady \/ LimitReached \/ Exclude \/ Select

ScanSpec == ScanInit /\ [][ScanNext]_scan

-----------------------------------------------------------------------------
(***************************************************************************)
(* Properties                                                              *)
(***************************************************************************)

\* Any two tasks that are selected together, not only each with the first, own
\* paths, share none of them and no contract, and do not list each other as
\* conflicts (README.md:458).
PairwiseSafe ==
  \A t, u \in selected : t # u =>
    /\ HasOwnership(t) /\ ~Overlap(Owns(t), Owns(u))
    /\ ~Overlap(Contracts[t], Contracts[u])
    /\ ~ConflictsExplicitly(t, u)

\* The task a serial run would take is in the batch, and there is a batch
\* whenever a task is ready: with parallelism on, no plan gets stuck for its
\* missing metadata, and runParallelPlan's last error cannot happen.
NextIsSelected ==
  pass = "end" =>
    /\ selected # {} <=> HasReady(plan)
    /\ HasReady(plan) => FindNextReady(plan) \in selected

\* The scan computes the batch.
ScanIsBatch == pass = "end" => IsBatch(plan, selected)
=============================================================================
