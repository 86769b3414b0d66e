--------------------------- MODULE MCParallelRun ----------------------------
(***************************************************************************)
(* Small instances of ParallelRun: tasks 1 and 2 may run next to each      *)
(* other; 3, if there is one, names no paths and runs alone.               *)
(***************************************************************************)
EXTENDS MCSerialRun, ParallelRun

OwnsPathsOf == [t \in Tasks |-> CASE t = 1 -> {<<"a">>} [] t = 2 -> {<<"b">>} [] t = 3 -> {}]
NoPaths == [t \in Tasks |-> {}]
NoConflicts == [t \in Tasks |-> {}]

Result(s, c) == [status |-> s, text |-> Text("a"), changes |-> c]

ThreeResults == {Result("done", TRUE), Result("in_progress", TRUE), Result("blocked", TRUE)}

NoFailures == {}
SyncOnly == {"apply", "sync"}
\* What can go wrong in the root workspace, and before it.
RootFailures == {"apply", "tooLarge", "reverse", "followUp", "writeResult", "recovery"}
WorkerFailures == {"start", "worker", "collect", "apply"}
Fan3 == [t \in 1..3 |-> IF t = 3 THEN {1} ELSE {}]
=============================================================================
