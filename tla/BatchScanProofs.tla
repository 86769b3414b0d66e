-------------------------- MODULE BatchScanProofs ---------------------------
(***************************************************************************)
(* The batch analysis selects what it should, for every plan, every        *)
(* metadata and every limit; and its comparison of path patterns never     *)
(* misses two that own a file in common.                                   *)
(***************************************************************************)
EXTENDS MCBatchScan, ReadyBatchProofs

\* The tasks whose turn in the scan has been.
Scanned ==
  {t \in Ready(plan) :
     \/ pass = "end"
     \/ plan[t] = pass /\ t < pos
     \/ plan[t] = "in_progress" /\ pass = "todo"}

Earlier(t) == {u \in selected : Before(plan, u, t)}

\* What the scan has decided is what IsBatch asks for.
ScanInv ==
  /\ ScanTypeOK
  /\ selected \subseteq Scanned
  /\ \A t \in Scanned :
       t \in selected <=> Cardinality(Earlier(t)) < Limit /\ Joins(t, Earlier(t))

LEMMA ScanInvInit == ScanInit => ScanInv
<1> SUFFICES ASSUME ScanInit PROVE ScanInv
  OBVIOUS
<1>1. ScanTypeOK
  BY PlanAssumption DEF ScanInit, ScanTypeOK, Tasks
<1>2. Scanned = {}
  BY PlanAssumption DEF ScanInit, Scanned, Ready, ReadyWith, Tasks
<1>3. QED
  BY <1>1, <1>2 DEF ScanInit, ScanInv

\* How the scan moves on: the task at pos, and nobody else, has had its turn.
LEMMA AdvanceScans ==
  ASSUME ScanTypeOK, Advance, pass # "end"
  PROVE  /\ plan' = plan
         /\ pass' \in {"in_progress", "todo", "end"} /\ pos' \in Tasks
         /\ Scanned' = IF pos \in Ready(plan) /\ plan[pos] = pass
                       THEN Scanned \cup {pos} ELSE Scanned
<1>1. plan' = plan /\ pass' \in {"in_progress", "todo", "end"} /\ pos' \in Tasks
  BY PlanAssumption DEF ScanTypeOK, Advance, Tasks
<1>2. \A t \in Ready(plan) : t \in 1..NumTasks /\ plan[t] \in {"in_progress", "todo"}
  BY DEF Ready, ReadyWith, Tasks
<1>3. Ready(plan)' = Ready(plan)
  BY <1>1 DEF Ready, ReadyWith, UnmetDeps
<1>4. ASSUME NEW t \in Ready(plan)
      PROVE  t \in Scanned' <=> t \in Scanned \/ (t = pos /\ plan[pos] = pass)
  <2>1. t \in 1..NumTasks /\ plan[t] \in {"in_progress", "todo"} /\ pos \in 1..NumTasks
        /\ NumTasks \in Nat
    BY <1>2, PlanAssumption DEF ScanTypeOK, Tasks
  <2>2. t \in Scanned <=> \/ plan[t] = pass /\ t < pos
                          \/ plan[t] = "in_progress" /\ pass = "todo"
    BY DEF Scanned
  <2>3. t \in Scanned' <=> \/ pass' = "end"
                           \/ plan[t] = pass' /\ t < pos'
                           \/ plan[t] = "in_progress" /\ pass' = "todo"
    BY <1>1, <1>3 DEF Scanned
  <2>4. CASE pos = NumTasks
    BY <2>1, <2>2, <2>3, <2>4 DEF Advance, ScanTypeOK
  <2>5. CASE pos # NumTasks
    BY <2>1, <2>2, <2>3, <2>5 DEF Advance, ScanTypeOK
  <2>6. QED
    BY <2>4, <2>5
<1>5. Scanned \subseteq Ready(plan) /\ Scanned' \subseteq Ready(plan)
  BY <1>3 DEF Scanned
<1>6. QED
  BY <1>1, <1>4, <1>5

\* Everything scanned comes before the task at pos.
LEMMA ScannedBefore ==
  ASSUME ScanTypeOK, pass # "end", pos \in Ready(plan), plan[pos] = pass
  PROVE  \A t \in Scanned : Before(plan, t, pos) /\ ~Before(plan, pos, t)
  BY PlanAssumption DEF ScanTypeOK, Scanned, Ready, ReadyWith, Before, Tasks

LEMMA ScanInvStep == ScanInv /\ [ScanNext]_scan => ScanInv'
<1> SUFFICES ASSUME ScanInv, [ScanNext]_scan PROVE ScanInv'
  OBVIOUS
<1> USE DEF ScanInv
<1>1. CASE UNCHANGED scan
  BY <1>1 DEF scan, ScanTypeOK, Scanned, Ready, ReadyWith, UnmetDeps, Earlier
<1>2. CASE ScanNext
  <2>1. Advance /\ pass # "end"
    BY <1>2 DEF ScanNext, NotReady, LimitReached, Exclude, Select
  <2>2. /\ plan' = plan
        /\ pass' \in {"in_progress", "todo", "end"} /\ pos' \in Tasks
        /\ Scanned' = IF pos \in Ready(plan) /\ plan[pos] = pass
                      THEN Scanned \cup {pos} ELSE Scanned
    BY <2>1, AdvanceScans
  <2>3. CASE NotReady
    <3>1. ~(pos \in Ready(plan) /\ plan[pos] = pass)
      BY <2>3 DEF NotReady, Ready, ReadyWith
    <3>2. Scanned' = Scanned /\ selected' = selected
      BY <2>2, <2>3, <3>1 DEF NotReady
    <3>3. \A t : Earlier(t)' = Earlier(t)
      BY <2>2, <3>2 DEF Earlier
    <3>4. QED
      BY <2>2, <3>2, <3>3 DEF ScanTypeOK
  <2>4. CASE LimitReached \/ Exclude \/ Select
    <3>1. pos \in Ready(plan) /\ plan[pos] = pass /\ pos \in Tasks
      BY <2>4 DEF LimitReached, Exclude, Select, Ready, ReadyWith, ScanTypeOK
    <3>2. Scanned' = Scanned \cup {pos}
      BY <2>2, <3>1
    <3>3. \A t \in Scanned : Before(plan, t, pos) /\ ~Before(plan, pos, t)
      BY <2>1, <3>1, ScannedBefore
    <3>4. ~Before(plan, pos, pos) /\ pos \notin selected
      <4>1. ~Before(plan, pos, pos)
        BY PlanAssumption, <3>1 DEF Before, Tasks
      <4>2. QED
        BY <3>3, <4>1
    <3>5. Earlier(pos) = selected
      BY <3>3 DEF Earlier
    <3>6. \A t \in Scanned \cup {pos} : Earlier(t)' = Earlier(t)
      <4>1. selected' = selected \/ selected' = selected \cup {pos}
        BY <2>4 DEF LimitReached, Exclude, Select
      <4>2. QED
        BY <2>2, <3>3, <3>4, <4>1 DEF Earlier
    <3>7. IsFiniteSet(selected) /\ Cardinality(selected) \in Nat /\ Limit \in Nat
      <4>1. IsFiniteSet(Tasks)
        BY PlanAssumption, FS_Interval DEF Tasks
      <4>2. QED
        BY <4>1, FS_Subset, FS_CardinalityType, ReadyBatchAssumption DEF ScanTypeOK
    <3>8. pos \in selected' <=> Cardinality(selected) < Limit /\ Joins(pos, selected)
      BY <2>4, <3>4, <3>7 DEF LimitReached, Exclude, Select
    <3>9. \A t \in Scanned : t \in selected' <=> t \in selected
      <4>1. pos \notin Scanned
        BY <3>3, <3>4
      <4>2. QED
        BY <2>4, <4>1 DEF LimitReached, Exclude, Select
    <3>10. selected' \subseteq Scanned' /\ selected' \subseteq Tasks
      BY <2>4, <3>1, <3>2 DEF LimitReached, Exclude, Select, ScanTypeOK
    <3>11. \A t \in Scanned' :
             t \in selected' <=> /\ Cardinality(Earlier(t)') < Limit
                                 /\ Joins(t, Earlier(t)')
      BY <3>2, <3>5, <3>6, <3>8, <3>9
    <3>12. ScanTypeOK'
      BY <2>2, <3>10 DEF ScanTypeOK
    <3>13. \A t : Joins(t, Earlier(t))' <=> Joins(t, Earlier(t)')
      BY DEF Joins
    <3>14. QED
      BY <3>10, <3>11, <3>12, <3>13
  <2>5. QED
    BY <1>2, <2>3, <2>4 DEF ScanNext
<1>3. QED
  BY <1>1, <1>2

LEMMA ScanInvariant == ScanSpec => []ScanInv
  BY ScanInvInit, ScanInvStep, PTL DEF ScanSpec

\* The two scans of AnalyzeReadyBatch take exactly the tasks that those taken
\* before them leave room for.
THEOREM ScanComputesBatch == ScanSpec => []ScanIsBatch
<1>1. ScanInv => ScanIsBatch
  <2> SUFFICES ASSUME ScanInv, pass = "end" PROVE IsBatch(plan, selected)
    BY DEF ScanIsBatch
  <2>1. Scanned = Ready(plan)
    BY DEF Scanned
  <2>2. QED
    BY <2>1 DEF ScanInv, IsBatch, Earlier
<1>2. QED
  BY <1>1, ScanInvariant, PTL

\* Any two tasks that run at the same time are compatible, whatever the plan
\* says about them (readyBatchState.exclusion).
THEOREM BatchesAreSafe == ScanSpec => []PairwiseSafe
<1>1. ScanInv => PairwiseSafe
  <2> SUFFICES ASSUME ScanInv, NEW t \in selected, NEW u \in selected, t # u
               PROVE  /\ HasOwnership(t) /\ ~Overlap(Owns(t), Owns(u))
                      /\ ~Overlap(Contracts[t], Contracts[u])
                      /\ ~ConflictsExplicitly(t, u)
    BY DEF PairwiseSafe
  <2>1. t \in Ready(plan) /\ u \in Ready(plan) /\ t \in Scanned /\ u \in Scanned
    BY DEF ScanInv, Scanned
  <2>2. Before(plan, t, u) \/ Before(plan, u, t)
    BY <2>1, ScanOrder DEF ScanInv, ScanTypeOK
  <2>3. Joins(t, Earlier(t)) /\ Joins(u, Earlier(u))
    BY <2>1 DEF ScanInv
  <2>4. CASE Before(plan, u, t)
    <3>1. u \in Earlier(t)
      BY <2>4 DEF Earlier
    <3>2. QED
      BY <2>3, <3>1 DEF Joins
  <2>5. CASE Before(plan, t, u)
    <3>1. t \in Earlier(u)
      BY <2>5 DEF Earlier
    <3>2. /\ HasOwnership(t) /\ ~ConflictsExplicitly(u, t)
          /\ ~Overlap(Owns(u), Owns(t)) /\ ~Overlap(Contracts[u], Contracts[t])
      BY <2>3, <3>1 DEF Joins
    <3>3. QED
      BY <3>2, OverlapSymmetric
  <2>6. QED
    BY <2>2, <2>4, <2>5
<1>2. QED
  BY <1>1, ScanInvariant, PTL

\* The scan selects the next task, and selects some task whenever one is ready.
THEOREM NextIsAlwaysSelected == ScanSpec => []NextIsSelected
<1>1. ScanInv /\ ScanIsBatch => NextIsSelected
  BY NextIsInBatch DEF NextIsSelected, ScanIsBatch, ScanInv, ScanTypeOK
<1>2. QED
  BY <1>1, ScanInvariant, ScanComputesBatch, PTL

-----------------------------------------------------------------------------
(* The comparison of path patterns and the files they stand for. *)

\* Counting up to n: induction over a set of numbers, so that it can be cited.
LEMMA UpTo ==
  ASSUME NEW S, NEW n \in Nat, 0 \in S,
         \A k \in 0..(n - 1) : k \in S => k + 1 \in S
  PROVE  \A k \in 0..n : k \in S
<1> DEFINE T == {k \in 0..n : k \notin S}
<1>1. SUFFICES ASSUME T # {} PROVE FALSE
  OBVIOUS
<1>2. T \subseteq Nat
  OBVIOUS
<1>3. PICK k \in T : \A m \in T : ~(<<m, k>> \in OpToRel(<, Nat))
  <2> HIDE DEF T
  <2>1. IsWellFoundedOn(OpToRel(<, Nat), Nat)
    BY NatLessThanWellFounded
  <2>2. QED
    BY <1>1, <1>2, <2>1, WFMin
<1>4. \A m \in T : ~(m < k)
  <2>1. \A m \in T : m \in Nat /\ k \in Nat
    BY <1>2
  <2> HIDE DEF T
  <2>2. QED
    BY <1>3, <2>1 DEF OpToRel
<1>5. k \in 1..n /\ k \notin S
  OBVIOUS
<1>6. k - 1 \in S
  BY <1>4, <1>5
<1>7. QED
  BY <1>5, <1>6

\* What a position matches depends on the positions after it only.
LEMMA MatchFromRest ==
  ASSUME NEW p, NEW y, Len(p) \in Nat, NEW f, NEW g, NEW i \in 1..Len(p) + 1,
         \A j \in 1..Len(p) + 1 : j > i => f[j] = g[j]
  PROVE  MatchFrom(p, y, f, i) = MatchFrom(p, y, g, i)
<1>1. CASE i > Len(p)
  BY <1>1 DEF MatchFrom, DoubleStar
<1>2. CASE DoubleStar(p, i)
  <2>1. f[i + 2] = g[i + 2] /\ (i + 2 <= Len(p) => f[i + 3] = g[i + 3])
    BY <1>2 DEF DoubleStar
  <2>2. QED
    BY <1>2, <2>1 DEF MatchFrom, DoubleStar
<1>3. CASE i <= Len(p) /\ ~DoubleStar(p, i)
  <2>1. f[i + 1] = g[i + 1]
    BY <1>3
  <2>2. QED
    BY <1>3, <2>1 DEF MatchFrom
<1>4. QED
  BY <1>1, <1>2, <1>3

\* The function in the definition of Matches.
TheMatch(p, y) == CHOOSE f : f = [i \in 1..Len(p) + 1 |-> MatchFrom(p, y, f, i)]

\* It exists: a function that is right for the last k positions, rebuilt from
\* itself, is right for the last k + 1.
LEMMA MatchExists ==
  ASSUME NEW p, NEW y, Len(p) \in Nat
  PROVE  TheMatch(p, y) = [i \in 1..Len(p) + 1 |-> MatchFrom(p, y, TheMatch(p, y), i)]
<1> DEFINE D == 1..Len(p) + 1
           Upon(f) == [i \in D |-> MatchFrom(p, y, f, i)]
           Right(f, i) == f[i] = MatchFrom(p, y, f, i)
           S == {k \in Nat : \E f : f = [i \in D |-> f[i]]
                                    /\ \A i \in D : Len(p) + 1 - i <= k => Right(f, i)}
<1>1. 0 \in S
  <2>1. \A i \in D : Len(p) + 1 - i <= 0 => Right(Upon(<<>>), i)
    <3>1. SUFFICES ASSUME NEW i \in D, i = Len(p) + 1 PROVE Right(Upon(<<>>), i)
      OBVIOUS
    <3>2. MatchFrom(p, y, <<>>, i) = MatchFrom(p, y, Upon(<<>>), i)
      BY <3>1, MatchFromRest
    <3>3. QED
      BY <3>2
  <2>2. Upon(<<>>) = [i \in D |-> Upon(<<>>)[i]]
    OBVIOUS
  <2>3. QED
    BY <2>1, <2>2
<1>2. ASSUME NEW k \in 0..(Len(p) - 1), k \in S PROVE k + 1 \in S
  <2>1. PICK f : \A i \in D : Len(p) + 1 - i <= k => Right(f, i)
    BY <1>2
  <2>2. \A i \in D : Len(p) + 1 - i <= k + 1 => Right(Upon(f), i)
    <3>1. SUFFICES ASSUME NEW i \in D, Len(p) + 1 - i <= k + 1 PROVE Right(Upon(f), i)
      OBVIOUS
    <3>2. \A j \in D : j > i => f[j] = Upon(f)[j]
      BY <2>1, <3>1
    <3>3. MatchFrom(p, y, f, i) = MatchFrom(p, y, Upon(f), i)
      BY <3>2, MatchFromRest
    <3>4. QED
      BY <3>3
  <2>3. Upon(f) = [i \in D |-> Upon(f)[i]]
    OBVIOUS
  <2>4. k + 1 \in Nat
    OBVIOUS
  <2>5. \E g : g = [i \in D |-> g[i]] /\ \A i \in D : Len(p) + 1 - i <= k + 1 => Right(g, i)
    <3> HIDE DEF Upon, Right, D
    <3>1. QED
      BY <2>2, <2>3
  <2>6. QED
    BY <2>4, <2>5
<1>3. Len(p) \in S
  <2> HIDE DEF S
  <2>1. \A k \in 0..Len(p) : k \in S
    BY <1>1, <1>2, UpTo
  <2>2. QED
    BY <2>1
<1>4. PICK f : f = [i \in D |-> f[i]] /\ \A i \in D : Right(f, i)
  BY <1>3
<1>5. f = [i \in D |-> MatchFrom(p, y, f, i)]
  BY <1>4
<1>6. QED
  BY <1>5 DEF TheMatch

LEMMA MatchesIs ==
  ASSUME NEW p, NEW y
  PROVE  Matches(p, y) <=> 1 \in TheMatch(p, y)[1]
BY Zenon DEF Matches, TheMatch

\* The first k symbols have no glob.
Literal(p, k) == \A i \in 1..k : p[i] # "*"

\* The two ways a literal part of a pattern matches: symbol by symbol, and the
\* end by the end.
LEMMA MatchesEnd ==
  ASSUME NEW p, NEW y, NEW f, Len(p) \in Nat
  PROVE  MatchFrom(p, y, f, Len(p) + 1) = {Len(y) + 1}
<1>1. Len(p) + 1 > Len(p) /\ ~DoubleStar(p, Len(p) + 1) /\ ~(Len(p) + 1 <= Len(p))
  BY DEF DoubleStar
<1>2. QED
  BY <1>1 DEF MatchFrom

LEMMA MatchesLiteral ==
  ASSUME NEW p, NEW y, NEW f, Len(p) \in Nat, NEW i \in 1..Len(p), p[i] # "*"
  PROVE  MatchFrom(p, y, f, i) = {j \in 1..Len(y) : y[j] = p[i] /\ j + 1 \in f[i + 1]}
<1>1. ~(i > Len(p)) /\ ~DoubleStar(p, i)
  BY DEF DoubleStar
<1>2. QED
  BY <1>1 DEF MatchFrom

\* A path that matches begins with the literal beginning of the pattern, and is
\* it when the pattern is nothing else.
LEMMA LiteralsMatch ==
  ASSUME NEW S, NEW p \in Seq(S), NEW U, NEW y \in Seq(U), NEW n \in 0..Len(p), Literal(p, n),
         Matches(p, y)
  PROVE  /\ n <= Len(y) /\ \A i \in 1..n : y[i] = p[i]
         /\ n = Len(p) => Len(y) = n
<1> DEFINE M == TheMatch(p, y)
           Q == {k \in Nat : k <= Len(y) /\ (\A i \in 1..k : y[i] = p[i]) /\ k + 1 \in M[k + 1]}
<1>1. Len(p) \in Nat /\ Len(y) \in Nat
  OBVIOUS
<1>2. \A i \in 1..Len(p) + 1 : M[i] = MatchFrom(p, y, M, i)
  BY <1>1, MatchExists
<1>3. 1 \in M[1]
  BY MatchesIs
<1> HIDE DEF M
<1>4. 0 \in Q
  BY <1>1, <1>3
<1>5. ASSUME NEW k \in 0..(n - 1), k \in Q PROVE k + 1 \in Q
  <2>1. p[k + 1] # "*" /\ k + 1 \in 1..Len(p)
    BY <1>1 DEF Literal
  <2>2. PICK i \in 1..Len(p) : i = k + 1
    BY <2>1
  <2>3. M[i] = {j \in 1..Len(y) : y[j] = p[i] /\ j + 1 \in M[i + 1]}
    <3>1. p[i] # "*"
      BY <2>1, <2>2
    <3>2. M[i] = MatchFrom(p, y, M, i)
      BY <1>1, <1>2
    <3>3. QED
      BY <1>1, <3>1, <3>2, MatchesLiteral
  <2>4. i \in 1..Len(y) /\ y[i] = p[i] /\ i + 1 \in M[i + 1]
    BY <1>5, <2>2, <2>3
  <2>5. QED
    BY <1>1, <1>5, <2>2, <2>4
<1>6. n \in Q
  <2> HIDE DEF Q
  <2>1. n \in Nat
    BY <1>1
  <2>2. \A k \in 0..n : k \in Q
    BY <1>4, <1>5, <2>1, UpTo
  <2>3. QED
    BY <2>1, <2>2
<1>7. n = Len(p) => M[n + 1] = {Len(y) + 1}
  BY <1>1, <1>2, MatchesEnd
<1>8. QED
  BY <1>1, <1>6, <1>7

\* A pattern without a glob matches itself.
LEMMA MatchesItself ==
  ASSUME NEW S, NEW p \in Seq(S), Literal(p, Len(p)), p # <<>>
  PROVE  Matches(p, p)
<1> DEFINE M == TheMatch(p, p)
           L == Len(p) + 1
           Q == {k \in Nat : k <= Len(p) /\ L - k \in M[L - k]}
<1>1. Len(p) \in Nat
  OBVIOUS
<1>2. \A i \in 1..L : M[i] = MatchFrom(p, p, M, i)
  BY <1>1, MatchExists
<1> HIDE DEF M
<1>3. 0 \in Q
  BY <1>1, <1>2, MatchesEnd
<1>4. ASSUME NEW k \in 0..(Len(p) - 1), k \in Q PROVE k + 1 \in Q
  <2>1. PICK i \in 1..Len(p) : i = L - (k + 1)
    BY <1>1
  <2>2. p[i] # "*" /\ i + 1 = L - k
    BY <1>1, <2>1 DEF Literal
  <2>3. M[i] = {j \in 1..Len(p) : p[j] = p[i] /\ j + 1 \in M[i + 1]}
    BY <1>1, <1>2, <2>2, MatchesLiteral
  <2>4. i + 1 \in M[i + 1]
    BY <1>4, <2>2
  <2>5. QED
    BY <1>1, <2>1, <2>3, <2>4
<1>5. Len(p) \in Q
  <2> HIDE DEF Q
  <2>1. \A k \in 0..Len(p) : k \in Q
    BY <1>1, <1>3, <1>4, UpTo
  <2>2. QED
    BY <1>1, <2>1
<1>6. 1 \in M[1]
  BY <1>1, <1>5
<1>7. QED
  BY <1>6, MatchesIs DEF M

\* What the library says of the smallest number, of prefixes and of short
\* sequences, as far as it is needed.
LEMMA SmallestIs ==
  ASSUME NEW I \in SUBSET Nat, I # {}
  PROVE  Min(I) \in I /\ \A i \in I : Min(I) <= i
<1>1. PICK k \in I : \A m \in I : ~(<<m, k>> \in OpToRel(<, Nat))
  BY NatLessThanWellFounded, WFMin
<1>2. \A m \in I : k <= m
  <2>1. \A m \in I : m \in Nat /\ k \in Nat
    OBVIOUS
  <2>2. \A m \in I : ~(m < k)
    BY <1>1, <2>1 DEF OpToRel
  <2>3. QED
    BY <2>1, <2>2
<1>3. QED
  BY <1>2 DEF Min

\* literalPathPrefix returns a literal beginning, and all of a pattern without
\* a glob.
LEMMA LiteralPrefixIs ==
  ASSUME NEW S, NEW p \in Seq(S)
  PROVE  \E n \in 0..Len(p) :
           /\ LiteralPrefix(p) = SubSeq(p, 1, n) /\ Literal(p, n)
           /\ ~HasGlob(p) => n = Len(p)
<1> DEFINE I == {i \in 1..Len(p) : p[i] = "*"}
<1>1. HasGlob(p) <=> I # {}
  BY DEF HasGlob, ToSet
<1>2. CASE ~HasGlob(p)
  <2>1. Len(p) \in 0..Len(p) /\ SubSeq(p, 1, Len(p)) = p /\ Literal(p, Len(p))
    BY <1>1, <1>2 DEF Literal
  <2>2. QED
    BY <1>2, <2>1 DEF LiteralPrefix
<1>3. CASE HasGlob(p)
  <2>1. SelectInSeq(p, LAMBDA x : x = "*") = Min(I)
    BY <1>1, <1>3 DEF SelectInSeq
  <2>2. Min(I) \in I /\ \A i \in I : Min(I) <= i
    BY <1>1, <1>3, SmallestIs
  <2>3. LiteralPrefix(p) = SubSeq(p, 1, Min(I) - 1)
    BY <1>3, <2>1 DEF LiteralPrefix
  <2>4. Min(I) - 1 \in 0..Len(p) /\ Literal(p, Min(I) - 1)
    <3> DEFINE m == Min(I)
    <3>1. m \in I /\ \A i \in I : m <= i
      BY <2>2
    <3> HIDE DEF m
    <3>2. m - 1 \in 0..Len(p) /\ Literal(p, m - 1)
      BY <3>1 DEF Literal
    <3>3. QED
      BY <3>2 DEF m
  <2>5. QED
    BY <1>3, <2>3, <2>4
<1>4. QED
  BY <1>2, <1>3

LEMMA PrefixIs ==
  ASSUME NEW S, NEW s \in Seq(S), NEW U, NEW t \in Seq(U)
  PROVE  IsPrefix(s, t) <=> Len(s) <= Len(t) /\ \A i \in 1..Len(s) : s[i] = t[i]
BY DEF IsPrefix

LEMMA SeqOfIs ==
  ASSUME NEW S, NEW n \in Nat, NEW p
  PROVE  p \in SeqOf(S, n) <=> p \in Seq(S) /\ Len(p) <= n
<1>1. ASSUME p \in SeqOf(S, n) PROVE p \in Seq(S) /\ Len(p) <= n
  <2>1. PICK m \in 0..n : p \in [1..m -> S]
    BY <1>1 DEF SeqOf
  <2>2. m \in Nat /\ p \in Seq(S) /\ Len(p) = m
    BY <2>1
  <2>3. QED
    BY <2>2
<1>2. ASSUME p \in Seq(S), Len(p) <= n PROVE p \in SeqOf(S, n)
  <2>1. Len(p) \in 0..n /\ p \in [1..Len(p) -> S]
    BY <1>2
  <2>2. QED
    BY <2>1 DEF SeqOf
<1>3. QED
  BY <1>1, <1>2

\* Two patterns that match the beginnings of a path, n and m symbols long.
LEMMA CommonOverlaps ==
  ASSUME NEW S, NEW l \in Seq(S), NEW r \in Seq(S), NEW U, NEW x \in Seq(U),
         NEW n \in 1..Len(x), NEW m \in 1..Len(x), n <= m,
         n = Len(x) \/ x[n + 1] = "/",
         \/ Matches(l, SubSeq(x, 1, n)) /\ Matches(r, SubSeq(x, 1, m))
         \/ Matches(r, SubSeq(x, 1, n)) /\ Matches(l, SubSeq(x, 1, m))
  PROVE  PatternsOverlap(l, r)
<1> DEFINE y == SubSeq(x, 1, n)
           z == SubSeq(x, 1, m)
<1>1. /\ Len(x) \in Nat
      /\ y \in Seq(U) /\ Len(y) = n /\ \A i \in 1..n : y[i] = x[i]
      /\ z \in Seq(U) /\ Len(z) = m /\ \A i \in 1..m : z[i] = x[i]
  OBVIOUS
<1>2. (Matches(l, y) /\ Matches(r, z)) \/ (Matches(r, y) /\ Matches(l, z))
  OBVIOUS
<1> HIDE DEF y, z
<1>3. CASE HasGlob(l) \/ HasGlob(r)
  <2>1. PICK a \in 0..Len(l) : LiteralPrefix(l) = SubSeq(l, 1, a) /\ Literal(l, a)
    BY LiteralPrefixIs
  <2>2. PICK b \in 0..Len(r) : LiteralPrefix(r) = SubSeq(r, 1, b) /\ Literal(r, b)
    BY LiteralPrefixIs
  <2> DEFINE u == LiteralPrefix(l)
             v == LiteralPrefix(r)
  <2>3. /\ u \in Seq(S) /\ Len(u) = a /\ \A i \in 1..a : u[i] = l[i]
        /\ v \in Seq(S) /\ Len(v) = b /\ \A i \in 1..b : v[i] = r[i]
    BY <2>1, <2>2
  <2>4. /\ a <= Len(x) /\ \A i \in 1..a : x[i] = l[i]
        /\ b <= Len(x) /\ \A i \in 1..b : x[i] = r[i]
    <3>1. CASE Matches(l, y) /\ Matches(r, z)
      <4>1. a <= Len(y) /\ \A i \in 1..a : y[i] = l[i]
        BY <1>1, <2>1, <3>1, LiteralsMatch
      <4>2. b <= Len(z) /\ \A i \in 1..b : z[i] = r[i]
        BY <1>1, <2>2, <3>1, LiteralsMatch
      <4>3. QED
        BY <1>1, <4>1, <4>2
    <3>2. CASE Matches(r, y) /\ Matches(l, z)
      <4>1. a <= Len(z) /\ \A i \in 1..a : z[i] = l[i]
        BY <1>1, <2>1, <3>2, LiteralsMatch
      <4>2. b <= Len(y) /\ \A i \in 1..b : y[i] = r[i]
        BY <1>1, <2>2, <3>2, LiteralsMatch
      <4>3. QED
        BY <1>1, <4>1, <4>2
    <3>3. QED
      BY <1>2, <3>1, <3>2
  <2> HIDE DEF u, v
  <2>5. IsPrefix(u, v) \/ IsPrefix(v, u)
    <3>1. CASE a <= b
      <4>1. Len(u) <= Len(v) /\ \A i \in 1..Len(u) : u[i] = v[i]
        BY <2>3, <2>4, <3>1
      <4>2. QED
        BY <2>3, <4>1, PrefixIs
    <3>2. CASE b <= a
      <4>1. Len(v) <= Len(u) /\ \A i \in 1..Len(v) : v[i] = u[i]
        BY <2>3, <2>4, <3>2
      <4>2. QED
        BY <2>3, <4>1, PrefixIs
    <3>3. QED
      BY <3>1, <3>2
  <2>6. QED
    BY <1>3, <2>5 DEF PatternsOverlap, u, v
<1>4. CASE ~HasGlob(l) /\ ~HasGlob(r)
  <2>1. Literal(l, Len(l)) /\ Literal(r, Len(r))
    BY <1>4 DEF HasGlob, ToSet, Literal
  <2>2. ASSUME NEW p \in Seq(S), NEW w \in Seq(U), Literal(p, Len(p)), Matches(p, w)
        PROVE  Len(w) = Len(p) /\ \A i \in 1..Len(p) : w[i] = p[i]
    BY <2>2, LiteralsMatch
  <2>3. ASSUME NEW p \in Seq(S), NEW q \in Seq(S), Literal(p, Len(p)), Literal(q, Len(q)),
               Matches(p, y), Matches(q, z)
        PROVE  PathContains(p, q)
    <3>1. Len(p) = n /\ \A i \in 1..n : x[i] = p[i]
      BY <1>1, <2>2, <2>3
    <3>2. Len(q) = m /\ \A i \in 1..m : x[i] = q[i]
      BY <1>1, <2>2, <2>3
    <3>3. CASE n = m
      BY <3>1, <3>2, <3>3 DEF PathContains
    <3>4. CASE n # m
      <4>1. n + 1 <= m /\ x[n + 1] = "/"
        BY <1>1, <3>4
      <4> DEFINE d == p \o <<"/">>
      <4>2. d \in Seq(S \cup {"/"}) /\ Len(d) = n + 1 /\ d[n + 1] = "/"
            /\ \A i \in 1..n : d[i] = p[i]
        BY <3>1
      <4> HIDE DEF d
      <4>3. IsPrefix(d, q)
        <5>1. Len(d) <= Len(q)
          BY <3>2, <4>1, <4>2
        <5>2. \A i \in 1..Len(d) : d[i] = q[i]
          BY <3>1, <3>2, <4>1, <4>2
        <5>3. QED
          BY <4>2, <5>1, <5>2, PrefixIs
      <4>4. QED
        BY <4>3 DEF PathContains, d
    <3>5. QED
      BY <3>3, <3>4
  <2>4. PathContains(l, r) \/ PathContains(r, l)
    BY <1>2, <2>1, <2>3
  <2>5. QED
    BY <1>4, <2>4 DEF PatternsOverlap
<1>5. QED
  BY <1>3, <1>4

\* Patterns, paths and what a pattern owns, one by one.
LEMMA PatternsAre ==
  ASSUME NEW p \in Patterns
  PROVE  p \in Seq(Names \cup {"/", "*"}) /\ Len(p) <= MaxPattern /\ Clean(p)
BY PathOwnershipAssumption, SeqOfIs DEF Patterns

LEMMA PathsAre ==
  ASSUME NEW x
  PROVE  x \in Paths <=> x \in Seq(Names \cup {"/"}) /\ Len(x) <= MaxPath /\ Clean(x)
BY PathOwnershipAssumption, SeqOfIs DEF Paths

LEMMA OwnedIs ==
  ASSUME NEW p \in Patterns, NEW x
  PROVE  x \in Owned[p] <=>
           /\ x \in Paths
           /\ \E n \in 1..Len(x) : (n = Len(x) \/ x[n + 1] = "/") /\ Matches(p, SubSeq(x, 1, n))
BY Zenon DEF Owned

\* Patterns that own a file in common overlap.
LEMMA OwnersOverlap ==
  ASSUME NEW l \in Patterns, NEW r \in Patterns, Owned[l] \cap Owned[r] # {}
  PROVE  PatternsOverlap(l, r)
<1> DEFINE S == Names \cup {"/", "*"}
           U == Names \cup {"/"}
<1>1. PICK x : x \in Owned[l] /\ x \in Owned[r]
  OBVIOUS
<1>2. PICK n \in 1..Len(x) : (n = Len(x) \/ x[n + 1] = "/") /\ Matches(l, SubSeq(x, 1, n))
  BY <1>1, OwnedIs
<1>3. PICK m \in 1..Len(x) : (m = Len(x) \/ x[m + 1] = "/") /\ Matches(r, SubSeq(x, 1, m))
  BY <1>1, OwnedIs
<1>4. l \in Seq(S) /\ r \in Seq(S) /\ x \in Seq(U)
  BY <1>1, OwnedIs, PathsAre, PatternsAre
<1> HIDE DEF S, U
<1>5. CASE n <= m
  BY <1>2, <1>3, <1>4, <1>5, CommonOverlaps
<1>6. CASE m <= n
  BY <1>2, <1>3, <1>4, <1>6, CommonOverlaps
<1>7. QED
  BY <1>5, <1>6

\* A pattern without a glob owns what it is the path of, and all below it.
LEMMA OwnsBelow ==
  ASSUME NEW l \in Patterns, NEW r \in Patterns, ~HasGlob(l), ~HasGlob(r), PathContains(l, r)
  PROVE  r \in Owned[l]
<1>1. /\ l \in Seq(Names \cup {"/", "*"}) /\ l # <<>>
      /\ r \in Seq(Names \cup {"/", "*"}) /\ Len(r) <= MaxPattern /\ Clean(r)
  BY PatternsAre DEF Clean
<1>2. Literal(l, Len(l)) /\ \A i \in 1..Len(r) : r[i] # "*"
  BY <1>1 DEF HasGlob, ToSet, Literal
<1>3. r \in Paths
  <2>1. r \in Seq(Names \cup {"/"})
    BY <1>1, <1>2
  <2>2. Len(r) <= MaxPath
    BY <1>1, PathOwnershipAssumption
  <2>3. QED
    BY <1>1, <2>1, <2>2, PathsAre
<1>4. Matches(l, l)
  BY <1>1, <1>2, MatchesItself
<1>5. Len(l) \in 1..Len(r) /\ SubSeq(r, 1, Len(l)) = l /\ (Len(l) = Len(r) \/ r[Len(l) + 1] = "/")
  <2>1. CASE l = r
    BY <1>1, <2>1
  <2>2. CASE IsPrefix(l \o <<"/">>, r)
    <3> DEFINE d == l \o <<"/">>
    <3>1. d \in Seq(Names \cup {"/", "*"}) /\ Len(d) = Len(l) + 1 /\ d[Len(l) + 1] = "/"
          /\ \A i \in 1..Len(l) : d[i] = l[i]
      BY <1>1
    <3>2. IsPrefix(d, r)
      BY <2>2
    <3> HIDE DEF d
    <3>3. Len(d) <= Len(r) /\ \A i \in 1..Len(d) : d[i] = r[i]
      BY <1>1, <3>1, <3>2, PrefixIs
    <3>4. Len(l) \in 1..Len(r) /\ r[Len(l) + 1] = "/" /\ \A i \in 1..Len(l) : r[i] = l[i]
      BY <1>1, <3>1, <3>3
    <3>5. SubSeq(r, 1, Len(l)) = l
      BY <1>1, <3>4
    <3>6. QED
      BY <3>4, <3>5
  <2>3. QED
    BY <2>1, <2>2 DEF PathContains
<1>6. QED
  BY <1>3, <1>4, <1>5, OwnedIs

\* Without globs, the longer of two overlapping patterns is a file of both.
LEMMA ExactWithoutGlobs ==
  ASSUME NEW l \in Patterns, NEW r \in Patterns, ~HasGlob(l), ~HasGlob(r), PatternsOverlap(l, r)
  PROVE  Owned[l] \cap Owned[r] # {}
<1>1. PathContains(l, r) \/ PathContains(r, l)
  BY DEF PatternsOverlap, PathContains, Universal, HasGlob, ToSet
<1>2. PathContains(l, l) /\ PathContains(r, r)
  BY DEF PathContains
<1>3. QED
  BY <1>1, <1>2, OwnsBelow

\* The patterns compared are patterns of the plan.
Chosen ==
  /\ left \in Patterns \cup {<<>>} /\ right \in Patterns \cup {<<>>}
  /\ right # <<>> => left # <<>>

\* Whatever the names and however long the patterns: two that own a file in
\* common overlap for pathPatternsOverlap, so no batch holds two tasks that may
\* write the same file; and without globs nothing else overlaps.
THEOREM OverlapsMeetOwnership == Spec => []OverlapMeetsOwnership
<1>1. Init => Chosen
  BY DEF Init, NothingCompared, Chosen
<1>2. Chosen /\ [Next]_<<scan, left, right>> => Chosen'
  <2> SUFFICES ASSUME Chosen, [Next]_<<scan, left, right>> PROVE Chosen'
    OBVIOUS
  <2>1. CASE UNCHANGED <<left, right>>
    BY <2>1 DEF Chosen
  <2>2. CASE ChooseLeft
    BY <2>2 DEF Chosen, ChooseLeft
  <2>3. CASE Compare
    BY <2>3 DEF Chosen, Compare
  <2>4. QED
    BY <2>1, <2>2, <2>3 DEF Next
<1>3. Chosen => OverlapMeetsOwnership
  BY OwnersOverlap, ExactWithoutGlobs DEF Chosen, OverlapMeetsOwnership
<1>4. QED
  BY <1>1, <1>2, <1>3, PTL DEF Spec
=============================================================================
