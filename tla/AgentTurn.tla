----------------------------- MODULE AgentTurn ------------------------------
(***************************************************************************)
(* What the runner counts on when it prompts an agent: a prompt is handed  *)
(* over while the agent has nothing to do, the agent takes one turn for    *)
(* it, and only then is the prompt reported complete.  The other ways out  *)
(* are a failure and, where idle_activity_timeout is set, a guess.         *)
(***************************************************************************)
EXTENDS Naturals

VARIABLES
  asked,     \* prompts handed over to the agent
  finished,  \* turns the agent brought to an end
  answered,  \* prompts reported complete
  guessed,   \* prompts reported complete for want of any activity, and a user's
             \* own sessions that ended
  failed     \* prompts reported as failed

turn == <<asked, finished, answered, guessed, failed>>

Init == turn = <<0, 0, 0, 0, 0>>

Open == answered + guessed + failed < asked

Ask ==
  /\ ~Open /\ finished = asked
  /\ asked' = asked + 1
  /\ UNCHANGED <<finished, answered, guessed, failed>>

Finish ==
  /\ finished < asked
  /\ finished' = finished + 1
  /\ UNCHANGED <<asked, answered, guessed, failed>>

Answer ==
  /\ Open /\ finished = asked
  /\ answered' = answered + 1
  /\ UNCHANGED <<asked, finished, guessed, failed>>

Guess ==
  /\ Open
  /\ guessed' = guessed + 1
  /\ UNCHANGED <<asked, finished, answered, failed>>

Fail ==
  /\ Open
  /\ failed' = failed + 1
  /\ UNCHANGED <<asked, finished, answered, guessed>>

Next == Ask \/ Finish \/ Answer \/ Guess \/ Fail

Spec == Init /\ [][Next]_turn
=============================================================================
