----------------------------- MODULE TmuxPrompt -----------------------------
(***************************************************************************)
(* An agent in a tmux pane and the session that prompts it                 *)
(* (internal/runner/tmux_clients.go): startup with its trust dialog,       *)
(* sendPrompt, and close.  The session sees the agent only by polling the  *)
(* pane's title and then its screen, two tmux commands with the agent at   *)
(* work between them.                                                      *)
(*                                                                         *)
(* Empty prompts, diagnostics and a failing tmux are left out, except that *)
(* a pane that is gone fails every command, and that the last kill may     *)
(* fail.                                                                   *)
(***************************************************************************)
EXTENDS AgentTui

VARIABLE seenTitle   \* the title of the poll it is in the middle of

tmuxVars == <<tuiVars, seenTitle>>
sessionVars == <<seenTitle, seen, dialog, attempt>>

TmuxTypeOK == TuiTypeOK /\ seenTitle \in Titles

\* codex is taken to be busy until it is seen idle.
TmuxInit ==
  /\ TuiInit
  /\ setup.transport = "tmux"
  /\ pc = "title"
  /\ seenTitle = "host"
  /\ state = IF setup.agent = "codex" THEN "busy" ELSE "none"

-----------------------------------------------------------------------------
(***************************************************************************)
(* The session                                                             *)
(***************************************************************************)

Shown == IF Gone THEN "other" ELSE screen   \* a failed capture classifies as nothing

\* classifyClaudeTmuxTitle, classifyTitle: only the idle title is idle.
TitleSays == IF seenTitle = "idle" THEN "idle" ELSE "busy"

\* claude.ScreenState, codex.ScreenState
ScreenSays ==
  CASE Shown = "ready" -> <<"idle">> [] Shown = "working" -> <<"busy">> [] OTHER -> <<>>

\* The states that snapshot records, in order: for claude what the title says
\* and then what the screen says ...
ClaudeRecords == <<TitleSays>> \o ScreenSays

\* ... for codex the one it decides on: a ready screen does not count under a
\* title with a spinner.
CodexRecords ==
  CASE Shown = "trust" -> <<>>
    [] Shown = "ready" /\ seenTitle = "busy" -> <<"busy">>
    [] Shown = "other" -> <<TitleSays>>
    [] OTHER -> ScreenSays

SnapshotRecords == IF setup.agent = "claude" THEN ClaudeRecords ELSE CodexRecords

\* Whether the snapshot's observedState is "idle"; codex's title alone is no
\* observation.
ObservedIdle ==
  IF setup.agent = "claude"
  THEN Shown = "ready" \/ (Shown = "other" /\ seenTitle = "idle")
  ELSE Shown = "ready" /\ seenTitle # "busy"

\* recordState for each of them.
Record(states) ==
  LET walk == <<state>> \o states
      TurnedTo(x) == \E i \in 1..Len(states) : walk[i + 1] = x /\ walk[i] # x
  IN /\ state' = walk[Len(walk)]
     /\ idled' = (idled \/ TurnedTo("idle"))
     /\ busied' = (busied \/ TurnedTo("busy"))

\* The second half of snapshot.
Snapshot ==
  /\ Record(SnapshotRecords)
  /\ trusting' = (Shown = "trust")

\* The first half of snapshot; a pane that is gone has no title.
ReadTitle ==
  /\ pc = "title"
  /\ \/ ~Gone /\ seenTitle' = title /\ Goto("screen") /\ NoKeys /\ Counts
     \/ Gone /\ FailPrompt /\ UNCHANGED seenTitle
  /\ AgentWorks /\ UNCHANGED <<seen, dialog, attempt>>

\* completeStartup.  Claude is started once it was seen idle, whatever else is
\* on the screen; for codex a dialog goes first.
StartupPoll ==
  /\ pc = "screen" /\ stage = "startup"
  /\ Snapshot
  /\ LET asks == Shown = "trust" /\ ~trusting
         claude == setup.agent = "claude"
     IN \/ /\ IF claude THEN idled' ELSE ~asks /\ state' = "idle"
           /\ Goto("next") /\ NoKeys
        \/ /\ asks /\ (claude => ~idled')
           /\ Send("Enter") /\ Goto(IF claude THEN "wait" ELSE "title")
        \/ /\ ~asks /\ (IF claude THEN ~idled' ELSE state' # "idle")
           /\ Goto(IF claude THEN "wait" ELSE "again") /\ NoKeys
  /\ AgentWorks /\ Counts /\ UNCHANGED <<seenTitle, dialog, attempt>>

\* The ready screen, which stays in codex's scrollback, also ends its startup.
StartupCapture ==
  /\ pc = "again"
  /\ IF Shown \in {"ready", "working"} THEN Record(<<"idle">>) /\ Goto("next")
     ELSE UNCHANGED <<state, idled, busied>> /\ Goto("wait")
  /\ AgentWorks /\ NoKeys /\ Counts /\ UNCHANGED <<seenTitle, trusting, dialog, attempt>>

StartupExpires ==
  /\ pc = "wait" /\ stage = "startup"
  /\ GiveUp
  /\ AgentWorks /\ Counts /\ UNCHANGED sessionVars

\* The ticker, and the check for a dead pane before it.
Tick ==
  /\ pc = "wait"
  /\ \/ ~Gone /\ Goto("title") /\ NoKeys /\ Counts
     \/ Gone /\ FailPrompt
  /\ AgentWorks /\ UNCHANGED sessionVars

-----------------------------------------------------------------------------
\* RunPrompt on a started session.
SendPrompt ==
  /\ pc = "next" /\ asked < MaxPrompts
  /\ pc' = "title" /\ stage' = "ready"
  /\ AgentWorks /\ NoKeys /\ Counts /\ UNCHANGED sessionVars

\* Goes by what was recorded before.
BugReadyPoll ==
  /\ pc = "screen" /\ stage = "ready"
  /\ Snapshot
  /\ ObservedIdle \/ state = "idle"
  /\ Goto("paste")
  /\ AgentWorks /\ NoKeys /\ Counts /\ UNCHANGED <<seenTitle, dialog, attempt>>

\* waitForTmuxSubmitReady: the poll says idle, or else the last state recorded
\* is.  What the prompt waits for afterwards is counted from here.
ReadyPoll ==
  /\ pc = "screen" /\ stage = "ready"
  /\ Snapshot
  /\ ObservedIdle \/ state' = "idle"
  /\ Goto("paste")
  /\ AgentWorks /\ NoKeys /\ Counts /\ UNCHANGED <<seenTitle, dialog, attempt>>

NotReadyPoll ==
  /\ pc = "screen" /\ stage = "ready"
  /\ Snapshot
  /\ ~ObservedIdle /\ state' # "idle"
  /\ Goto("wait")
  /\ AgentWorks /\ NoKeys /\ Counts /\ UNCHANGED <<seenTitle, dialog, attempt>>

ReadyExpires ==
  /\ pc = "screen" /\ stage = "ready"
  /\ Snapshot
  /\ ~ObservedIdle /\ state' # "idle"
  /\ FailPrompt
  /\ AgentWorks /\ UNCHANGED <<seenTitle, dialog, attempt>>

\* The transitions before the prompt count too.
BugPaste ==
  /\ pc = "paste"
  /\ ~Gone /\ TypePrompt
  /\ attempt' = 0
  /\ AgentWorks /\ UNCHANGED <<seenTitle, seen, dialog>>

\* submitPrompt: the prompt goes into the composer and then the first Enter.
Paste ==
  /\ pc = "paste"
  /\ \/ ~Gone /\ TypePrompt
     \/ Gone /\ FailPrompt
  /\ idled' = FALSE /\ busied' = FALSE /\ attempt' = 0
  /\ AgentWorks /\ UNCHANGED <<seenTitle, state, trusting, dialog>>

PressEnter ==
  /\ pc = "enter"
  /\ attempt' = attempt + 1
  /\ \/ ~Gone /\ Send("Enter") /\ Goto("title") /\ Counts
     \/ Gone /\ FailPrompt
  /\ AgentWorks /\ UNCHANGED <<seenTitle, seen, dialog>>

\* The wait for the end counts from where the wait for the start ended.
BugSubmitPoll ==
  /\ pc = "screen" /\ stage = "submit"
  /\ SnapshotRecords # <<>>
  /\ state' = SnapshotRecords[Len(SnapshotRecords)] /\ UNCHANGED trusting
  /\ idled' = FALSE /\ busied' = FALSE
  /\ IF state' = "busy" THEN pc' = "title" /\ stage' = "finish" ELSE Goto("wait")
  /\ AgentWorks /\ NoKeys /\ Counts /\ UNCHANGED <<seenTitle, dialog, attempt>>

\* waitForTmuxBusy
SubmitPoll ==
  /\ pc = "screen" /\ stage = "submit"
  /\ Snapshot
  /\ IF busied' THEN pc' = "title" /\ stage' = "finish" ELSE Goto("wait")
  /\ AgentWorks /\ NoKeys /\ Counts /\ UNCHANGED <<seenTitle, dialog, attempt>>

\* Retries without end.
BugSubmitExpires ==
  /\ pc = "screen" /\ stage = "submit"
  /\ Snapshot /\ ~busied'
  /\ \/ ObservedIdle /\ pc' = "enter" /\ UNCHANGED stage /\ NoKeys /\ Counts
     \/ ~ObservedIdle /\ FailPrompt
  /\ AgentWorks /\ UNCHANGED <<seenTitle, dialog, attempt>>

\* The retry interval is over: Enter again, but only on an agent that is seen
\* to accept input, and MaxAttempts times at most.
SubmitExpires ==
  /\ pc = "screen" /\ stage = "submit"
  /\ Snapshot /\ ~busied'
  /\ \/ ObservedIdle /\ attempt < MaxAttempts /\ Goto("enter") /\ NoKeys /\ Counts
     \/ ~ObservedIdle /\ FailPrompt
     \/ attempt = MaxAttempts /\ FailPrompt
  /\ AgentWorks /\ UNCHANGED <<seenTitle, dialog, attempt>>

\* waitForTmuxIdle: busy and idle since the prompt went in, in whatever order.
FinishPoll ==
  /\ pc = "screen" /\ stage = "finish"
  /\ Snapshot
  /\ \/ /\ busied' /\ idled'
        /\ Goto("next") /\ answered' = answered + 1
        /\ UNCHANGED <<asked, guessed, failed>>
     \/ ~(busied' /\ idled') /\ Goto("wait") /\ Counts
  /\ AgentWorks /\ NoKeys /\ UNCHANGED <<seenTitle, dialog, attempt>>

\* The same screen for idle_activity_timeout: the agent is taken to be idle.
FallBack ==
  /\ pc = "screen" /\ stage = "finish" /\ setup.patience
  /\ busied /\ ~idled
  /\ state' = "idle" /\ trusting' = (Shown = "trust")
  /\ Goto("next") /\ guessed' = guessed + 1
  /\ AgentWorks /\ NoKeys
  /\ UNCHANGED <<seenTitle, idled, busied, dialog, attempt, asked, answered, failed>>

-----------------------------------------------------------------------------
\* The runner is through with the session, at the latest after a failure.
CloseSession ==
  /\ pc = "next"
  /\ GiveUp
  /\ AgentWorks /\ Counts /\ UNCHANGED sessionVars

\* close: claude is told to exit, codex's input ends.
Close ==
  /\ pc = "close"
  /\ \/ /\ ~Gone /\ setup.agent = "claude"
        /\ typed' = typed \cup {"exit"} /\ keys' = Append(keys, "Enter")
        /\ Goto("closeWait")
     \/ ~Gone /\ setup.agent = "codex" /\ Send("C-d") /\ Goto("closeWait")
     \/ Gone /\ NoKeys /\ Goto("closed")
  /\ AgentWorks /\ Counts /\ UNCHANGED sessionVars

\* waitForTmuxClose
CloseSeen ==
  /\ pc = "closeWait" /\ Gone
  /\ Goto("closed")
  /\ AgentWorks /\ NoKeys /\ Counts /\ UNCHANGED sessionVars

\* Waits and does not kill.
BugCloseExpires ==
  /\ pc = "closeWait"
  /\ Goto("closed") /\ UNCHANGED phase
  /\ UNCHANGED <<setup, title, screen, finished>>
  /\ NoKeys /\ Counts /\ UNCHANGED sessionVars

\* forceKillTmuxPane, whose failure is an error of the step.
CloseExpires ==
  /\ pc = "closeWait"
  /\ \/ Goto("closed") /\ phase' = "gone"
     \/ Goto("leaked") /\ UNCHANGED phase
  /\ UNCHANGED <<setup, title, screen, finished>>
  /\ NoKeys /\ Counts /\ UNCHANGED sessionVars

Session ==
  \/ ReadTitle \/ StartupPoll \/ StartupCapture \/ Tick
  \/ ReadyPoll \/ NotReadyPoll \/ Paste \/ PressEnter \/ SubmitPoll
  \/ FinishPoll \/ Close \/ CloseSeen

Expires == StartupExpires \/ ReadyExpires \/ SubmitExpires \/ CloseExpires

Requests == SendPrompt \/ CloseSession

TmuxAgent == AgentStep /\ UNCHANGED seenTitle

TmuxNext ==
  \/ Session \/ Expires \/ FallBack \/ Requests
  \/ TmuxAgent
  \/ Exit /\ UNCHANGED seenTitle

TmuxSpec == TmuxInit /\ [][TmuxNext]_tmuxVars
=============================================================================
