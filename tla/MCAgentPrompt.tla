---------------------------- MODULE MCAgentPrompt ---------------------------
(***************************************************************************)
(* The agents for TmuxPrompt and PtyPrompt.                                *)
(***************************************************************************)
EXTENDS TmuxPrompt, PtyPrompt

Agent(t, a, l) == [transport |-> t, agent |-> a, late |-> l, patience |-> FALSE,
                   interactive |-> FALSE, mortal |-> FALSE]
Mortal(s) == [s EXCEPT !.mortal = TRUE]
Patient(s) == [s EXCEPT !.patience = TRUE]
Interactive(s) == [s EXCEPT !.interactive = TRUE]

\* The agents whose surfaces the session can go by.  In a pane, claude's title
\* and screen have to change together; codex's may lag in any way, but for the
\* title of one that may die, or whose turns the idle fallback may cut short.
\* Behind a pseudo terminal claude's may lag in any way, and codex's screen.
Sound(s) ==
  IF s.transport = "tmux"
  THEN \/ s.late = {}
       \/ s.agent = "codex" /\ "title" \notin s.late
       \/ s.agent = "codex" /\ ~s.mortal /\ ~s.patience
  ELSE s.agent = "claude" \/ "title" \notin s.late

\* All of them: an agent that may die may also live, and one with the idle
\* fallback may go without it.
PtySetups ==
  {Mortal(Agent("pty", "claude", l)) : l \in SUBSET Surfaces}
    \cup {Mortal(Agent("pty", "codex", l)) : l \in SUBSET {"screen"}}
SoundSetups ==
  {Agent("tmux", "codex", l) : l \in {{"title"}, Surfaces}}
    \cup {Patient(Mortal(Agent("tmux", "codex", l))) : l \in SUBSET {"screen"}}
    \cup {Patient(Mortal(Agent("tmux", "claude", {})))}
    \cup PtySetups \cup {Interactive(s) : s \in PtySetups}

\* The state of the fixture ready-screen-stale-busy-title.
StaleTitle == {Agent("tmux", "claude", {"title"})}

InPane == setup.transport = "tmux" /\ UNCHANGED <<stream, ready>>
BehindPty == setup.transport = "pty" /\ UNCHANGED seenTitle

vars == <<tuiVars, seenTitle, stream, ready>>

PromptInit ==
  \/ TmuxInit /\ stream = <<>> /\ ready = FALSE
  \/ PtyInit /\ seenTitle = "host"

PromptNext == (TmuxNext /\ InPane) \/ (PtyNext /\ BehindPty)

\* The state of both transports' sessions and their agents stays within its types.
PromptTypeOK == TmuxTypeOK /\ PtyTypeOK

\* The session polls on, and finds a deadline expired that it looks at again
\* and again.  The agent reads its keys, finishes its turns and redraws.
Shows == (InPane /\ UNCHANGED seenTitle) \/ (BehindPty /\ Emits /\ UNCHANGED ready)

PromptSpec ==
  /\ PromptInit /\ [][PromptNext]_vars
  /\ WF_vars(Session /\ InPane) /\ SF_vars(Expires /\ InPane)
  /\ WF_vars(Pump /\ BehindPty)
  /\ WF_vars(PtySession /\ BehindPty) /\ SF_vars(PtyExpires /\ BehindPty)
  /\ WF_vars(StartUp /\ Shows) /\ WF_vars(FinishTurn /\ Shows)
  /\ WF_vars(ReadKey /\ Shows) /\ WF_vars(Redraw /\ Shows)
=============================================================================
