---------------------------- MODULE MCBatchScan -----------------------------
(***************************************************************************)
(* A plan of six tasks for the batch analysis: 1 and 2 work next to each   *)
(* other, 3 inside the directory of 2, 4 names no paths, 5 has those of    *)
(* its component, shares a contract with 1 and is named as a conflict by   *)
(* 2, 6 waits for 3 and owns what starts as a path of 5 does.  The          *)
(* comparison of patterns itself is checked on all short patterns.         *)
(***************************************************************************)
EXTENDS BatchScan, PathOwnership

DepsOf == [t \in 1..6 |-> IF t = 6 THEN {3} ELSE {}]

OwnsPathsOf == <<{<<"a", "b">>}, {<<"b">>}, {<<"b", "/", "a">>}, {}, {}, {<<"c", "*">>}>>
OwnedPathsOf == <<{}, {}, {}, {}, {<<"a", "/", "b">>, <<"c">>}, {<<"c">>}>>
ContractsOf == <<{<<"k">>}, {}, {}, {<<"m">>}, {<<"k">>}, {}>>
ConflictsOf == <<{}, {5}, {}, {}, {}, {}>>

\* Any two short patterns are compared after the scan of a plan with nothing to
\* do.
Init == ScanInit /\ NothingCompared
Next ==
  \/ ScanNext /\ UNCHANGED <<left, right>>
  \/ /\ pass = "end"
     /\ \A t \in Tasks : plan[t] = "done"
     /\ ChooseLeft \/ Compare
     /\ UNCHANGED scan
Spec == Init /\ [][Next]_<<scan, left, right>>
=============================================================================
