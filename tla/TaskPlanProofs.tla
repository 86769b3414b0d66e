--------------------------- MODULE TaskPlanProofs ---------------------------
(***************************************************************************)
(* Facts about the choice of the next task, for every plan.                *)
(***************************************************************************)
EXTENDS TaskPlan, WellFoundedInduction, TLAPS

\* A scan in file order that finds anything finds the first such task
\* (findReadyTaskByStatus).
LEMMA FirstFound ==
  ASSUME NEW S, S \subseteq Tasks, S # {}
  PROVE  First(S) \in S /\ \A u \in S : First(S) <= u
<1>1. PICK t \in S : \A u \in S : ~(<<u, t>> \in OpToRel(<, Nat))
  <2>1. S \subseteq Nat
    BY PlanAssumption DEF Tasks
  <2>2. IsWellFoundedOn(OpToRel(<, Nat), Nat)
    BY NatLessThanWellFounded
  <2>3. QED
    BY <2>1, <2>2, WFMin
<1>2. \A u \in S : t <= u
  <2>1. \A u \in S : u \in Nat /\ t \in Nat
    BY PlanAssumption DEF Tasks
  <2>2. \A u \in S : ~(u < t)
    BY <1>1, <2>1 DEF OpToRel
  <2>3. QED
    BY <2>1, <2>2
<1>3. QED
  BY <1>2 DEF First

\* FindNextReady never returns a task that is terminal, or one that waits for
\* another: the runner starts only tasks the plan allows to start.
THEOREM NextReadyIsRunnable ==
  ASSUME NEW st \in [Tasks -> Statuses], HasReady(st)
  PROVE  /\ FindNextReady(st) \in Tasks
         /\ st[FindNextReady(st)] \in {"in_progress", "todo"}
         /\ \A d \in Deps[FindNextReady(st)] : st[d] \in Terminal
<1>1. \A s : ReadyWith(st, s) \subseteq Tasks
  BY DEF ReadyWith
<1>2. FindNextReady(st) \in ReadyWith(st, "in_progress") \cup ReadyWith(st, "todo")
  <2>1. CASE ReadyWith(st, "in_progress") # {}
    BY <1>1, <2>1, FirstFound DEF FindNextReady
  <2>2. CASE ReadyWith(st, "in_progress") = {}
    BY <1>1, <2>2, FirstFound DEF FindNextReady, HasReady
  <2>3. QED
    BY <2>1, <2>2
<1>3. QED
  BY <1>2 DEF ReadyWith, UnmetDeps

\* A task that was next stays next when it is put in progress: the choice of
\* findReadyTaskByStatus sticks to what it started.
THEOREM StartedStaysNext ==
  ASSUME NEW st \in [Tasks -> Statuses], HasReady(st),
         NEW st2, st2 = [st EXCEPT ![FindNextReady(st)] = "in_progress"]
  PROVE  HasReady(st2) /\ FindNextReady(st2) = FindNextReady(st)
<1> DEFINE t == FindNextReady(st)
<1>1. /\ t \in Tasks /\ st[t] \in {"in_progress", "todo"}
      /\ \A d \in Deps[t] : st[d] \in Terminal
  BY NextReadyIsRunnable
<1>2. CASE st[t] = "in_progress"
  <2>1. st2 = st
    BY <1>1, <1>2
  <2>2. QED
    BY <2>1
<1>3. CASE st[t] # "in_progress"
  <2>1. ReadyWith(st, "in_progress") = {}
    <3>1. SUFFICES ASSUME ReadyWith(st, "in_progress") # {} PROVE FALSE
      OBVIOUS
    <3>2. ReadyWith(st, "in_progress") \subseteq Tasks
      BY DEF ReadyWith
    <3>3. t \in ReadyWith(st, "in_progress")
      BY <3>1, <3>2, FirstFound DEF FindNextReady
    <3>4. QED
      BY <1>3, <3>3 DEF ReadyWith
  <2>2. \A u \in Tasks : UnmetDeps(st2, u) = UnmetDeps(st, u)
    <3>1. \A d \in Tasks : st2[d] \in Terminal <=> st[d] \in Terminal
      BY <1>1 DEF Terminal
    <3>2. \A u \in Tasks : Deps[u] \subseteq Tasks
      BY PlanAssumption
    <3>3. QED
      BY <3>1, <3>2 DEF UnmetDeps
  <2>3. UnmetDeps(st, t) = {}
    BY <1>1 DEF UnmetDeps
  <2>4. ReadyWith(st2, "in_progress") = {t}
    <3>1. t \in ReadyWith(st2, "in_progress")
      BY <1>1, <2>2, <2>3 DEF ReadyWith
    <3>2. ASSUME NEW u \in ReadyWith(st2, "in_progress"), u # t PROVE FALSE
      <4>1. u \in Tasks /\ st[u] = "in_progress" /\ UnmetDeps(st, u) = {}
        BY <1>1, <2>2, <3>2 DEF ReadyWith
      <4>2. QED
        BY <2>1, <4>1 DEF ReadyWith
    <3>3. QED
      BY <3>1, <3>2
  <2>5. First({t}) = t
    BY <1>1, FirstFound
  <2>6. QED
    BY <2>4, <2>5 DEF HasReady, FindNextReady
<1>4. QED
  BY <1>2, <1>3
=============================================================================
