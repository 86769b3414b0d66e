-------------------------- MODULE ReadyBatchProofs --------------------------
(***************************************************************************)
(* Facts about batches, for every plan, every metadata and every limit.    *)
(***************************************************************************)
EXTENDS ReadyBatch, TaskPlanProofs, FiniteSetTheorems

\* The scan's order is total and strict (the two loops of AnalyzeReadyBatch).
LEMMA ScanOrder ==
  ASSUME NEW st \in [Tasks -> Statuses], NEW t \in Ready(st), NEW u \in Ready(st)
  PROVE  /\ t \in Tasks /\ st[t] \in {"in_progress", "todo"}
         /\ ~(Before(st, t, u) /\ Before(st, u, t))
         /\ t # u => Before(st, t, u) \/ Before(st, u, t)
         /\ ~Before(st, t, t)
  BY PlanAssumption DEF Ready, ReadyWith, Before, Tasks

\* Whether two tasks overlap does not depend on which is asked
\* (firstOverlappingPattern, conflictsExplicitly).
LEMMA OverlapSymmetric ==
  /\ \A left, right : Overlap(left, right) <=> Overlap(right, left)
  /\ \A t, u : ConflictsExplicitly(t, u) <=> ConflictsExplicitly(u, t)
<1>1. \A l, r : PatternsOverlap(l, r) => PatternsOverlap(r, l)
  BY Zenon DEF PatternsOverlap
<1>2. QED
  BY <1>1, Zenon DEF Overlap, ConflictsExplicitly

\* The task a serial run would take is in every batch (FindNextReady and
\* AnalyzeReadyBatch agree on what comes first).
THEOREM NextIsInBatch ==
  ASSUME NEW st \in [Tasks -> Statuses], NEW S, IsBatch(st, S)
  PROVE  /\ S # {} <=> HasReady(st)
         /\ HasReady(st) => FindNextReady(st) \in S
<1>1. S # {} => HasReady(st)
  BY DEF IsBatch, Ready, HasReady
<1>2. ASSUME HasReady(st) PROVE FindNextReady(st) \in S
  <2> DEFINE n == FindNextReady(st)
             I == ReadyWith(st, "in_progress")
             J == ReadyWith(st, "todo")
  <2>1. I \subseteq Tasks /\ J \subseteq Tasks
    BY DEF ReadyWith
  <2>2. n \in Ready(st) /\ \A u \in Ready(st) : ~Before(st, u, n)
    <3>1. CASE I # {}
      <4>1. n \in I /\ \A u \in I : n <= u
        BY <2>1, <3>1, FirstFound DEF FindNextReady
      <4>2. st[n] = "in_progress" /\ \A u \in J : st[u] = "todo"
        BY <4>1 DEF ReadyWith
      <4>3. \A u \in I : st[u] = "in_progress" /\ u \in Nat /\ n \in Nat
        BY <2>1, <4>1, PlanAssumption DEF ReadyWith, Tasks
      <4>4. QED
        BY <4>1, <4>2, <4>3 DEF Ready, Before
    <3>2. CASE I = {}
      <4>1. n \in J /\ \A u \in J : n <= u
        BY <1>2, <2>1, <3>2, FirstFound DEF FindNextReady, HasReady
      <4>2. \A u \in J : st[u] = "todo" /\ u \in Nat /\ n \in Nat
        BY <2>1, <4>1, PlanAssumption DEF ReadyWith, Tasks
      <4>3. QED
        BY <3>2, <4>1, <4>2 DEF Ready, Before
    <3>3. QED
      BY <3>1, <3>2
  <2>3. {u \in S : Before(st, u, n)} = {}
    BY <2>2 DEF IsBatch
  <2>4. Cardinality({}) < Limit /\ Joins(n, {})
    BY FS_EmptySet, ReadyBatchAssumption DEF Joins
  <2>5. QED
    BY <2>2, <2>3, <2>4 DEF IsBatch
<1>3. QED
  BY <1>1, <1>2

\* Of any tasks that are ready one comes first.
LEMMA FirstReady ==
  ASSUME NEW st \in [Tasks -> Statuses], NEW D, D \subseteq Ready(st), D # {}
  PROVE  \E t \in D : \A u \in D : ~Before(st, u, t)
<1> DEFINE I == {t \in D : st[t] = "in_progress"}
<1>1. D \subseteq Tasks /\ Tasks \subseteq Nat
      /\ \A t \in D : st[t] \in {"in_progress", "todo"}
  BY ScanOrder, PlanAssumption DEF Tasks
<1>2. CASE I # {}
  <2>1. PICK f \in I : \A u \in I : f <= u
    BY <1>1, <1>2, FirstFound
  <2>2. \A u \in D : ~Before(st, u, f)
    BY <1>1, <2>1 DEF Before
  <2>3. QED
    BY <2>1, <2>2
<1>3. CASE I = {}
  <2>1. PICK f \in D : \A u \in D : f <= u
    BY <1>1, FirstFound
  <2>2. \A u \in D : ~Before(st, u, f)
    BY <1>1, <1>3, <2>1 DEF Before
  <2>3. QED
    BY <2>1, <2>2
<1>4. QED
  BY <1>2, <1>3

\* A plan has one batch: the choice of AnalyzeReadyBatch depends on nothing but
\* the plan and its metadata.
THEOREM OneBatch ==
  ASSUME NEW st \in [Tasks -> Statuses], NEW S, NEW T, IsBatch(st, S), IsBatch(st, T)
  PROVE  S = T
<1> SUFFICES ASSUME S # T PROVE FALSE
  OBVIOUS
<1> DEFINE D == (S \ T) \cup (T \ S)
<1>1. D \subseteq Ready(st) /\ D # {}
  BY DEF IsBatch
<1>2. PICK t \in D : \A u \in D : ~Before(st, u, t)
  <2> HIDE DEF D
  <2>1. QED
    BY <1>1, FirstReady
<1>3. {u \in S : Before(st, u, t)} = {u \in T : Before(st, u, t)}
  BY <1>2
<1>4. t \in S <=> t \in T
  BY <1>1, <1>2, <1>3 DEF IsBatch
<1>5. QED
  BY <1>2, <1>4

\* A task that runs alone still does when it has been started: the order of the
\* scan, and with it what keeps the others out, does not change.
THEOREM StartedStaysAlone ==
  ASSUME NEW st \in [Tasks -> Statuses], NEW t, IsBatch(st, {t}),
         NEW st2, st2 = [st EXCEPT ![t] = "in_progress"]
  PROVE  IsBatch(st2, {t})
<1>1. /\ t \in Ready(st) /\ t \in Tasks /\ st[t] \in {"in_progress", "todo"}
  BY ScanOrder DEF IsBatch
<1>2. Ready(st2) = Ready(st)
  <2>1. \A u \in Tasks : UnmetDeps(st2, u) = UnmetDeps(st, u)
    <3>1. \A d \in Tasks : st2[d] \in Terminal <=> st[d] \in Terminal
      BY <1>1 DEF Terminal
    <3>2. QED
      BY <3>1, PlanAssumption DEF UnmetDeps
  <2>2. QED
    BY <1>1, <2>1 DEF Ready, ReadyWith
<1>3. ASSUME NEW u \in Ready(st), u # t PROVE Before(st, t, u)
  <2>1. SUFFICES ASSUME ~Before(st, t, u) PROVE FALSE
    OBVIOUS
  <2>2. {v \in {t} : Before(st, v, u)} = {}
    BY <2>1
  <2>3. Cardinality({}) < Limit /\ Joins(u, {})
    BY FS_EmptySet, ReadyBatchAssumption DEF Joins
  <2>4. QED
    BY <1>3, <2>2, <2>3 DEF IsBatch
<1>4. ASSUME NEW u \in Ready(st)
      PROVE  {v \in {t} : Before(st2, v, u)} = {v \in {t} : Before(st, v, u)}
  <2>1. CASE u = t
    BY <1>1, <2>1, PlanAssumption DEF Before, Tasks
  <2>2. CASE u # t
    <3>1. Before(st, t, u) /\ u \in Tasks /\ st[u] \in {"in_progress", "todo"}
      BY <1>3, <2>2, ScanOrder
    <3>2. Before(st2, t, u)
      BY <1>1, <2>2, <3>1 DEF Before
    <3>3. QED
      BY <3>1, <3>2
  <2>3. QED
    BY <2>1, <2>2
<1>5. QED
  BY <1>1, <1>2, <1>4 DEF IsBatch
=============================================================================
