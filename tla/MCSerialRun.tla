---------------------------- MODULE MCSerialRun -----------------------------
(***************************************************************************)
(* Small instances of SerialRun for TLC.                                   *)
(***************************************************************************)
EXTENDS SerialRun

Text(m) == [msg |-> m, marks |-> {}]

Agent(o) == [kind |-> "agent", outs |-> {o}, continue_on_error |-> FALSE]
FinalizeStep == [kind |-> "finalize", outs |-> {}, continue_on_error |-> FALSE]

\* The scaffolded workflow: execute, peer-review, address-peer-review, finalize.
DefaultSteps == <<Agent("result"), Agent("review"), Agent("result"), FinalizeStep>>

\* Without the coder's second turn.
ReviewedSteps == <<Agent("result"), Agent("review"), FinalizeStep>>

\* One agent, whose errors the workflow ignores.
LenientSteps ==
  <<[kind |-> "agent", outs |-> {"result"}, continue_on_error |-> TRUE], FinalizeStep>>

ShortSteps == <<Agent("result"), FinalizeStep>>

TwoResults == {[status |-> "done", text |-> Text("a")],
               [status |-> "in_progress", text |-> Text("a")]}

AllResults == {[status |-> s, text |-> Text("a")] : s \in ResultStatuses}
                \cup {[status |-> "in_progress", text |-> Text("")]}

NoTexts == {}
OneText == {Text("a")}
AnyPhase == Phases
CommitOnly == {"commit"}
SomeResult == {[status |-> "done", text |-> Text("a")]}
NoPhase == {}
BothTasks == Tasks

NoDeps1 == [t \in 1..1 |-> {}]
Independent2 == [t \in 1..2 |-> {}]
\* 1 waits for 2, 2 and 3 for each other.
Knot3 == [t \in 1..3 |-> CASE t = 1 -> {2} [] t = 2 -> {3} [] t = 3 -> {2}]
=============================================================================
