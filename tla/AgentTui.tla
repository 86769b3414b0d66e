------------------------------ MODULE AgentTui ------------------------------
(***************************************************************************)
(* A fullscreen agent in a terminal, and what every session that prompts   *)
(* it keeps: TmuxPrompt and PtyPrompt are the two ways to drive one.       *)
(*                                                                         *)
(* Simplifications:                                                        *)
(*  - a title or a screen is what the classifiers make of it;              *)
(*  - of the transition counters only "more than at the start of the wait" *)
(*    is kept, which is all the code asks of them;                         *)
(*  - a deadline may be found expired at any poll.                         *)
(***************************************************************************)
EXTENDS Naturals, Sequences

CONSTANTS
  Setups,      \* the agents, and which surfaces they may be late to redraw
  MaxAttempts, \* tmuxSubmitMaxAttempts, submitMaxAttempts
  MaxPrompts   \* bound: prompts sent in one session

Surfaces == {"title", "screen"}

ASSUME AgentTuiAssumption ==
  /\ Setups \subseteq [transport: {"tmux", "pty"}, agent: {"claude", "codex"},
                       late: SUBSET Surfaces, patience: BOOLEAN,
                       interactive: BOOLEAN, mortal: BOOLEAN]
  /\ MaxAttempts \in Nat \ {0}
  /\ MaxPrompts \in Nat

VARIABLES
  setup,     \* the agent at hand; patience: idle_activity_timeout is set,
             \* interactive: the prompt is for a user's own session with it,
             \* mortal: it may die at any time
  \* the agent
  phase,     \* what it is doing
  title,     \* the title its terminal shows
  screen,    \* the screen its terminal shows
  typed,     \* what was pasted and is not submitted
  keys,      \* the keys it has not read
  \* the session
  pc,        \* what the session does next
  stage,     \* what it polls for
  state,     \* currentState
  idled,     \* idleTransitions went up since the wait began
  busied,    \* busyTransitions did
  trusting,  \* a trust prompt is on the screen last seen
  dialog,    \* a trust prompt was detected and not confirmed yet
  attempt,   \* Enter presses for the prompt
  \* history: see AgentTurn
  asked, finished, answered, guessed, failed

agentVars == <<phase, title, screen, typed, keys, finished>>
seen == <<state, idled, busied, trusting>>
outcomes == <<answered, guessed, failed>>
tuiVars == <<setup, agentVars, pc, stage, seen, dialog, attempt, asked, outcomes>>

Phases == {"starting", "trust", "idle", "working", "gone"}
Titles == {"host", "idle", "busy"}
Screens == {"other", "trust", "ready", "working"}
Stages == {"startup", "ready", "submit", "finish", "close"}
PCs == {"title", "screen", "again", "wait", "next", "paste", "enter", "exit",
        "close", "closeWait", "closed", "leaked"}

TuiTypeOK ==
  /\ setup \in Setups
  /\ phase \in Phases
  /\ title \in Titles
  /\ screen \in Screens
  /\ typed \in SUBSET {"prompt", "exit"}
  /\ keys \in Seq({"Enter", "C-d"})
  /\ pc \in PCs
  /\ stage \in Stages
  /\ state \in {"none", "idle", "busy"}
  /\ idled \in BOOLEAN /\ busied \in BOOLEAN
  /\ trusting \in BOOLEAN /\ dialog \in BOOLEAN
  /\ attempt \in 0..MaxAttempts
  /\ asked \in Nat /\ finished \in Nat
  /\ answered \in Nat /\ guessed \in Nat /\ failed \in Nat

\* A new terminal and a new session.
TuiInit ==
  /\ setup \in Setups
  /\ phase = "starting" /\ title = "host" /\ screen = "other"
  /\ typed = {} /\ keys = <<>>
  /\ stage = "startup"
  /\ idled = FALSE /\ busied = FALSE
  /\ trusting = FALSE /\ dialog = FALSE
  /\ attempt = 0
  /\ asked = 0 /\ finished = 0 /\ answered = 0 /\ guessed = 0 /\ failed = 0

-----------------------------------------------------------------------------
(***************************************************************************)
(* The agent                                                               *)
(***************************************************************************)

TitleOf(p) ==
  CASE p = "idle" -> "idle" [] p = "working" -> "busy" [] OTHER -> "host"
ScreenOf(p) ==
  CASE p = "idle" -> "ready" [] p = "working" -> "working"
    [] p = "trust" -> "trust" [] OTHER -> "other"

\* It turns to p and redraws what it does not redraw late.
Becomes(p) ==
  /\ phase' = p
  /\ title' = IF "title" \in setup.late THEN title ELSE TitleOf(p)
  /\ screen' = IF "screen" \in setup.late THEN screen ELSE ScreenOf(p)

SessionWaits == UNCHANGED <<setup, pc, stage, seen, dialog, attempt, asked, outcomes>>

StartUp ==
  /\ phase = "starting"
  /\ Becomes("trust") \/ Becomes("idle")
  /\ UNCHANGED <<typed, keys, finished>> /\ SessionWaits

FinishTurn ==
  /\ phase = "working"
  /\ Becomes("idle")
  /\ finished' = finished + 1
  /\ UNCHANGED <<typed, keys>> /\ SessionWaits

\* Enter confirms the trust dialog, or submits what is typed; C-d ends an agent
\* with nothing typed.  A key may be lost on an agent not ready for it.
ReadKey ==
  /\ phase # "gone" /\ keys # <<>>
  /\ keys' = Tail(keys)
  /\ \/ UNCHANGED <<phase, title, screen, typed>>
     \/ Head(keys) = "Enter" /\ phase = "trust" /\ Becomes("idle") /\ UNCHANGED typed
     \/ /\ phase = "idle"
        /\ \/ Head(keys) = "Enter" /\ typed = {"exit"}
           \/ Head(keys) = "C-d" /\ typed = {}
        /\ Becomes("gone") /\ typed' = {}
     \/ /\ Head(keys) = "Enter" /\ phase = "idle" /\ "prompt" \in typed
        /\ Becomes("working") /\ typed' = {}
  /\ UNCHANGED finished /\ SessionWaits

\* What was drawn late is drawn in the end; the waits ask the pane for it.
Redraw ==
  /\ phase # "gone"
  /\ \/ title # TitleOf(phase) /\ title' = TitleOf(phase) /\ UNCHANGED screen
     \/ screen # ScreenOf(phase) /\ screen' = ScreenOf(phase) /\ UNCHANGED title
  /\ UNCHANGED <<phase, typed, keys, finished>> /\ SessionWaits

\* It dies, or its user leaves it.
Exit ==
  /\ setup.mortal /\ phase # "gone"
  /\ Becomes("gone")
  /\ UNCHANGED <<typed, keys, finished>> /\ SessionWaits

AgentStep == StartUp \/ FinishTurn \/ ReadKey \/ Redraw

-----------------------------------------------------------------------------
(***************************************************************************)
(* What the steps of a session are made of                                 *)
(***************************************************************************)

Gone == phase = "gone"

AgentWorks == UNCHANGED <<setup, phase, title, screen, finished>>
NoKeys == UNCHANGED <<typed, keys>>
Counts == UNCHANGED <<asked, outcomes>>

Goto(p) == pc' = p /\ UNCHANGED stage
Send(key) == keys' = Append(keys, key) /\ UNCHANGED typed

\* A step that failed: the session is closed.
GiveUp == pc' = "close" /\ stage' = "close" /\ NoKeys

\* The prompt failed, after it was pasted or before.
FailPrompt ==
  /\ GiveUp
  /\ failed' = IF asked > answered + guessed + failed THEN failed + 1 ELSE failed
  /\ UNCHANGED <<asked, answered, guessed>>

\* The prompt goes into the composer; the wait for it begins.
TypePrompt ==
  /\ typed' = typed \cup {"prompt"} /\ UNCHANGED keys
  /\ asked' = asked + 1 /\ UNCHANGED outcomes
  /\ pc' = "enter" /\ stage' = "submit"

-----------------------------------------------------------------------------
(***************************************************************************)
(* Properties                                                              *)
(***************************************************************************)

\* A prompt is handed to an agent with nothing to do, the agent takes a single
\* turn for it however often Enter is pressed, and the prompt is reported
\* complete only after that turn (agent-transport.md:71).
Turn == INSTANCE AgentTurn WITH
  asked <- asked, finished <- finished, answered <- answered,
  guessed <- guessed, failed <- failed
ImplementsTurn == Turn!Spec

\* The prompt is pasted into the composer of an agent that is idle; never into
\* the trust dialog or into a running turn, not even after the idle fallback
\* took a silent turn for finished.
PastedIntoComposer == [][asked' # asked => phase = "idle"]_tuiVars

\* Closing a session leaves no agent behind unless the kill itself failed
\* (agent-transport.md:78).
CloseEndsAgent == pc = "closed" => phase = "gone"

\* A prompt that was asked for is answered or fails; only a user's own session
\* may go on for ever.
Settled == pc \in {"next", "exit", "closed", "leaked"}
PromptEnds == ~Settled ~> Settled

-----------------------------------------------------------------------------
(***************************************************************************)
(* What the documents say and the code does not do                         *)
(***************************************************************************)

\* agent-transport.md:71: a step completes when "the submitted prompt has
\* finished and the session is ready for the next prompt".
AnswerMeansFinished == [][answered' # answered => finished = asked]_tuiVars
=============================================================================
