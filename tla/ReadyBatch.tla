----------------------------- MODULE ReadyBatch -----------------------------
(***************************************************************************)
(* Which ready tasks may run at the same time (readyBatchState in          *)
(* internal/plan/plan.go), and the batch as a set.  BatchScan is the scan  *)
(* that computes it.                                                       *)
(***************************************************************************)
EXTENDS TaskPlan, PathPatterns, FiniteSets

CONSTANTS
  Limit,          \* parallelism
  OwnsPaths,      \* the tasks' owns_paths
  OwnedPaths,     \* owned_paths of the tasks' components
  Contracts,      \* the tasks' provides_contracts
  ConflictsWith   \* the tasks' conflicts_with

ASSUME ReadyBatchAssumption ==
  /\ Limit \in Nat \ {0}
  /\ ConflictsWith \in [Tasks -> SUBSET Tasks]

\* metadataFor: a task without paths of its own has its component's.
Owns(t) == IF OwnsPaths[t] # {} THEN OwnsPaths[t] ELSE OwnedPaths[t]
HasOwnership(t) == Owns(t) # {}

ConflictsExplicitly(t, u) == u \in ConflictsWith[t] \/ t \in ConflictsWith[u]

\* Compares paths with one of the selected tasks only; asks the first task
\* for ownership, too.
BugJoinsOne(t, S) ==
  S # {} =>
    /\ \A u \in S : ~ConflictsExplicitly(t, u)
    /\ HasOwnership(t)
    /\ \E u \in S : HasOwnership(u) /\ ~Overlap(Owns(t), Owns(u))
                      /\ ~Overlap(Contracts[t], Contracts[u])
BugJoinsOwned(t, S) ==
  /\ HasOwnership(t)
  /\ \A u \in S : /\ ~ConflictsExplicitly(t, u)
                  /\ HasOwnership(u) /\ ~Overlap(Owns(t), Owns(u))
                  /\ ~Overlap(Contracts[t], Contracts[u])

\* exclusion: whether nothing keeps t from joining the selected tasks S.  The
\* first task needs no ownership.
Joins(t, S) ==
  S # {} =>
    /\ \A u \in S : ~ConflictsExplicitly(t, u)
    /\ HasOwnership(t)
    /\ \A u \in S : HasOwnership(u)
    /\ \A u \in S : ~Overlap(Owns(t), Owns(u)) /\ ~Overlap(Contracts[t], Contracts[u])

-----------------------------------------------------------------------------
Ready(st) == ReadyWith(st, "in_progress") \cup ReadyWith(st, "todo")

\* Started tasks come last.
BugBefore(st, t, u) ==
  IF st[t] = st[u] THEN t < u ELSE st[t] = "todo"

\* The order of the scan, and of everything done with a batch later.
Before(st, t, u) ==
  IF st[t] = st[u] THEN t < u ELSE st[t] = "in_progress"

\* What the scan computes, without the scan: a ready task is taken if and only
\* if those taken before it leave room for it.
IsBatch(st, S) ==
  /\ S \subseteq Ready(st)
  /\ \A t \in Ready(st) :
       LET earlier == {u \in S : Before(st, u, t)}
       IN t \in S <=> Cardinality(earlier) < Limit /\ Joins(t, earlier)

=============================================================================
