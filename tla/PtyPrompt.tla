------------------------------ MODULE PtyPrompt -----------------------------
(***************************************************************************)
(* An agent behind a pseudo terminal and the session that prompts it       *)
(* (pkg/agentcli, pkg/ptyrunner), for create, init and restart.  A pump    *)
(* reads the agent's output into a monitor while the session polls the     *)
(* monitor's counters, so what they say may be old.                        *)
(*                                                                         *)
(* The text seen last is the ready screen or the trust dialog for as long  *)
(* as the monitor's tail holds it: it is forgotten at some later output.   *)
(* What users type themselves, and cancelled contexts, are left out.       *)
(***************************************************************************)
EXTENDS AgentTui

VARIABLES
  stream,   \* the agent's titles and screens the pump has not read
  ready     \* readyScreen

ptyVars == <<tuiVars, stream, ready>>

PtyTypeOK == TuiTypeOK /\ stream \in Seq(Titles \cup Screens) /\ ready \in BOOLEAN

PtyInit ==
  /\ TuiInit
  /\ setup.transport = "pty"
  /\ pc = "wait" /\ state = "none"
  /\ stream = <<>> /\ ready = FALSE

-----------------------------------------------------------------------------
(***************************************************************************)
(* The agent's output                                                      *)
(***************************************************************************)

\* What changed on the terminal goes into the stream, title first.
Emits ==
  stream' = IF phase' = "gone" THEN stream
            ELSE stream \o (IF title' # title THEN <<title'>> ELSE <<>>)
                        \o (IF screen' # screen THEN <<screen'>> ELSE <<>>)

PtyAgent == AgentStep /\ Emits /\ UNCHANGED ready
PtyExit == Exit /\ Emits /\ UNCHANGED ready

\* classifyTitle: any title that is not the idle one is busy.
PtyTitleSays(t) == IF t = "idle" THEN "idle" ELSE "busy"

\* titleMonitor.Consume: every title counts, also one that says the same again.
ConsumeTitle(t) ==
  /\ state' = PtyTitleSays(t)
  /\ idled' = (idled \/ state' = "idle")
  /\ busied' = (busied \/ state' = "busy")
  /\ UNCHANGED <<trusting, dialog, ready>>

ConsumeScreen(s) ==
  /\ \/ trusting' = (s = "trust")
     \/ trusting' = (trusting \/ s = "trust")
  /\ \/ ready' = (s = "ready")
     \/ ready' = (ready \/ s = "ready")
  /\ dialog' = (dialog \/ (trusting' /\ ~trusting))
  /\ UNCHANGED <<state, idled, busied>>

\* startOutputPump
Pump ==
  /\ stream # <<>>
  /\ stream' = Tail(stream)
  /\ IF Head(stream) \in Titles THEN ConsumeTitle(Head(stream))
     ELSE ConsumeScreen(Head(stream))
  /\ UNCHANGED <<setup, agentVars, pc, stage, attempt, asked, outcomes>>

-----------------------------------------------------------------------------
(***************************************************************************)
(* The session                                                             *)
(***************************************************************************)

MonitorKeeps == UNCHANGED <<state, trusting, stream, ready>>
WaitKeeps == UNCHANGED <<idled, busied>>

\* codex's readyForPrompt; claude goes by the title alone.
Started ==
  IF setup.agent = "claude" THEN idled ELSE ready \/ (state = "idle" /\ busied)

\* completeStartup.  Claude is started once it was seen idle; codex confirms a
\* dialog first.
PtyStartupPoll ==
  /\ pc = "wait" /\ stage = "startup"
  /\ \/ /\ dialog /\ ~Gone /\ (setup.agent = "claude" => ~Started)
        /\ Send("Enter") /\ dialog' = FALSE
        /\ Goto(IF Started THEN "next" ELSE "wait")
     \/ /\ Started /\ (dialog => setup.agent = "claude")
        /\ Goto("next") /\ NoKeys /\ UNCHANGED dialog
  /\ AgentWorks /\ Counts /\ MonitorKeeps /\ WaitKeeps /\ UNCHANGED attempt

\* SendPrompt, SendInteractivePrompt: the counters are read, nothing is waited
\* for.
PtySendPrompt ==
  /\ pc = "next" /\ asked < MaxPrompts
  /\ Goto("paste")
  /\ idled' = FALSE /\ busied' = FALSE
  /\ AgentWorks /\ NoKeys /\ Counts /\ MonitorKeeps /\ UNCHANGED <<dialog, attempt>>

PtyPaste ==
  /\ pc = "paste"
  /\ ~Gone /\ TypePrompt
  /\ attempt' = 0
  /\ AgentWorks /\ MonitorKeeps /\ WaitKeeps /\ UNCHANGED dialog

PtyPressEnter ==
  /\ pc = "enter"
  /\ ~Gone /\ Send("Enter") /\ Goto("wait")
  /\ attempt' = attempt + 1
  /\ AgentWorks /\ Counts /\ MonitorKeeps /\ WaitKeeps /\ UNCHANGED dialog

\* waitForBusyTransition; an interactive prompt then waits for the agent's exit.
PtySubmitPoll ==
  /\ pc = "wait" /\ stage = "submit" /\ busied
  /\ pc' = IF setup.interactive THEN "exit" ELSE "wait"
  /\ stage' = "finish"
  /\ AgentWorks /\ NoKeys /\ Counts /\ MonitorKeeps /\ WaitKeeps
  /\ UNCHANGED <<dialog, attempt>>

\* One Enter after another, whatever the agent shows.
PtySubmitExpires ==
  /\ pc = "wait" /\ stage = "submit" /\ ~busied
  /\ \/ attempt < MaxAttempts /\ Goto("enter") /\ NoKeys /\ Counts
     \/ attempt = MaxAttempts /\ FailPrompt
  /\ AgentWorks /\ MonitorKeeps /\ WaitKeeps /\ UNCHANGED <<dialog, attempt>>

\* waitForIdleTransition
PtyFinishPoll ==
  /\ pc = "wait" /\ stage = "finish"
  /\ busied /\ idled
  /\ Goto("next") /\ answered' = answered + 1
  /\ AgentWorks /\ NoKeys /\ MonitorKeeps /\ WaitKeeps
  /\ UNCHANGED <<dialog, attempt, asked, guessed, failed>>

\* The process has ended: any wait for it, and any write to it, fails.
PtyEnded ==
  /\ Gone /\ pc \in {"wait", "paste", "enter"}
  /\ FailPrompt
  /\ AgentWorks /\ MonitorKeeps /\ WaitKeeps /\ UNCHANGED <<dialog, attempt>>

PtyStartupExpires ==
  /\ pc = "wait" /\ stage = "startup"
  /\ GiveUp
  /\ AgentWorks /\ Counts /\ MonitorKeeps /\ WaitKeeps /\ UNCHANGED <<dialog, attempt>>

\* waitForExit: what the user's session came to is its exit code.
LeaveSession ==
  /\ pc = "exit" /\ Gone
  /\ \/ /\ guessed' = guessed + 1 /\ Goto("next") /\ NoKeys
        /\ UNCHANGED <<asked, answered, failed>>
     \/ FailPrompt
  /\ AgentWorks /\ MonitorKeeps /\ WaitKeeps /\ UNCHANGED <<dialog, attempt>>

-----------------------------------------------------------------------------
PtyCloseSession ==
  /\ pc = "next"
  /\ GiveUp
  /\ AgentWorks /\ Counts /\ MonitorKeeps /\ WaitKeeps /\ UNCHANGED <<dialog, attempt>>

\* Session.Close: the exit sequence ...
PtyClose ==
  /\ pc = "close"
  /\ \/ /\ ~Gone /\ setup.agent = "claude"
        /\ typed' = typed \cup {"exit"} /\ keys' = Append(keys, "Enter")
        /\ Goto("closeWait")
     \/ ~Gone /\ setup.agent = "codex" /\ Send("C-d") /\ Goto("closeWait")
     \/ Gone /\ NoKeys /\ Goto("closed")
  /\ AgentWorks /\ Counts /\ MonitorKeeps /\ WaitKeeps /\ UNCHANGED <<dialog, attempt>>

PtyCloseSeen ==
  /\ pc = "closeWait" /\ Gone
  /\ Goto("closed")
  /\ AgentWorks /\ NoKeys /\ Counts /\ MonitorKeeps /\ WaitKeeps
  /\ UNCHANGED <<dialog, attempt>>

\* ... and a kill that is waited for when its time is up.
PtyCloseExpires ==
  /\ pc = "closeWait" /\ ~Gone
  /\ Goto("closed") /\ phase' = "gone"
  /\ UNCHANGED <<setup, title, screen, finished>>
  /\ NoKeys /\ Counts /\ MonitorKeeps /\ WaitKeeps /\ UNCHANGED <<dialog, attempt>>

PtySession ==
  \/ PtyStartupPoll \/ PtyPaste \/ PtyPressEnter \/ PtySubmitPoll \/ PtyFinishPoll
  \/ PtyEnded \/ LeaveSession \/ PtyClose \/ PtyCloseSeen

PtyExpires == PtyStartupExpires \/ PtySubmitExpires \/ PtyCloseExpires

PtyRequests == PtySendPrompt \/ PtyCloseSession

PtyNext == Pump \/ PtySession \/ PtyExpires \/ PtyRequests \/ PtyAgent \/ PtyExit

PtySpec == PtyInit /\ [][PtyNext]_ptyVars
=============================================================================
