--------------------------- MODULE MCAgentSessions --------------------------
(***************************************************************************)
(* Constants for AgentSessions.                                            *)
(***************************************************************************)
EXTENDS AgentSessions, TLC

CONSTANTS t1, t2

S(a, f, l) == [agent |-> a, fresh |-> f, lenient |-> l]

\* One workflow with a shared session of each agent; one whose shared session is
\* used again after a step with a fresh one.
Workflows == (t1 :> <<S("codex", FALSE, FALSE), S("claude", FALSE, FALSE)>>)
          @@ (t2 :> <<S("claude", FALSE, FALSE), S("claude", TRUE, TRUE), S("claude", FALSE, FALSE)>>)
=============================================================================
