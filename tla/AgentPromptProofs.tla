-------------------------- MODULE AgentPromptProofs -------------------------
(***************************************************************************)
(* Prompting an agent in a tmux pane or behind a pseudo terminal.          *)
(*                                                                         *)
(* The state stays within its types and a closed session has left nobody   *)
(* behind, whatever the agent does with its title and its screen.  That a  *)
(* prompt meets an idle agent and is reported complete only after its turn *)
(* needs an agent whose surfaces the session can go by: Sound.             *)
(*                                                                         *)
(* The invariant has one part per stage of a session.  A part says what    *)
(* the agent may be doing while the session is there, and what title and   *)
(* screen it then shows: the session acts on what they looked like at the  *)
(* last poll, and between the two reads of a poll the agent goes on.       *)
(***************************************************************************)
EXTENDS MCAgentPrompt, TLAPS

-----------------------------------------------------------------------------
(***************************************************************************)
(* Types                                                                   *)
(***************************************************************************)

\* What holds of every agent: there is an Enter left where one is sent, and a
\* session that is closed has left nobody behind.
Safe ==
  /\ PromptTypeOK
  /\ pc = "enter" => attempt < MaxAttempts
  /\ CloseEndsAgent

LEMMA InitSafe == ASSUME PromptInit PROVE Safe
<1>1. TuiInit /\ pc \in PCs /\ state \in {"none", "idle", "busy"}
  BY DEF PromptInit, TmuxInit, PtyInit, PCs
<1>2. keys = <<>> /\ stream = <<>>
  BY DEF PromptInit, TmuxInit, PtyInit, TuiInit
<1>3. keys \in Seq({"Enter", "C-d"}) /\ stream \in Seq(Titles \cup Screens)
  BY <1>2
<1>4. seenTitle \in Titles /\ ready \in BOOLEAN /\ pc \notin {"enter", "closed"}
  BY DEF PromptInit, TmuxInit, PtyInit, Titles
<1>5. MaxAttempts \in Nat
  BY AgentTuiAssumption
<1>6. TuiTypeOK
  <2>1. setup \in Setups /\ phase \in Phases /\ title \in Titles /\ screen \in Screens
    BY <1>1 DEF TuiInit, Phases, Titles, Screens
  <2>2. typed \in SUBSET {"prompt", "exit"} /\ stage \in Stages
    BY <1>1 DEF TuiInit, Stages
  <2>3. /\ idled \in BOOLEAN /\ busied \in BOOLEAN /\ trusting \in BOOLEAN
        /\ dialog \in BOOLEAN
    BY <1>1 DEF TuiInit
  <2>4. /\ attempt \in 0..MaxAttempts
        /\ asked \in Nat /\ finished \in Nat
        /\ answered \in Nat /\ guessed \in Nat /\ failed \in Nat
    BY <1>1, <1>5 DEF TuiInit
  <2> QED BY <1>1, <1>3, <2>1, <2>2, <2>3, <2>4 DEF TuiTypeOK
<1> QED BY <1>3, <1>4, <1>6 DEF Safe, PromptTypeOK, TmuxTypeOK, PtyTypeOK, CloseEndsAgent

LEMMA AgentStepSafe ==
  ASSUME Safe, AgentStep \/ Exit
  PROVE  TuiTypeOK' /\ SessionWaits /\ (phase = "gone" => phase' = "gone")
<1> USE DEF Safe, PromptTypeOK, TmuxTypeOK, TuiTypeOK
<1>1. SessionWaits
  BY DEF AgentStep, StartUp, FinishTurn, ReadKey, Redraw, Exit
<1>2. phase' \in Phases /\ (phase = "gone" => phase' = "gone")
  BY DEF AgentStep, StartUp, FinishTurn, ReadKey, Redraw, Exit, Becomes, Phases
<1>3. title' \in Titles /\ screen' \in Screens
  BY DEF AgentStep, StartUp, FinishTurn, ReadKey, Redraw, Exit, Becomes, Titles,
         Screens, TitleOf, ScreenOf
<1>4. typed' \in SUBSET {"prompt", "exit"}
  BY DEF AgentStep, StartUp, FinishTurn, ReadKey, Redraw, Exit
<1>5. keys' \in Seq({"Enter", "C-d"})
  BY DEF AgentStep, StartUp, FinishTurn, ReadKey, Redraw, Exit
<1>6. finished' \in Nat
  BY DEF AgentStep, StartUp, FinishTurn, ReadKey, Redraw, Exit
<1> QED
  BY <1>1, <1>2, <1>3, <1>4, <1>5, <1>6 DEF SessionWaits, seen, outcomes

-----------------------------------------------------------------------------
(***************************************************************************)
(* What a poll of the pane makes of what it sees                           *)
(***************************************************************************)

Sights == {"none", "idle", "busy"}

LEMMA RecordsNothing ==
  ASSUME Record(<<>>), idled \in BOOLEAN, busied \in BOOLEAN
  PROVE  state' = state /\ idled' = idled /\ busied' = busied
BY DEF Record

LEMMA RecordsOne ==
  ASSUME NEW x, Record(<<x>>)
  PROVE  /\ state' = x
         /\ idled' \in BOOLEAN /\ busied' \in BOOLEAN
         /\ idled' <=> idled \/ (x = "idle" /\ state # "idle")
         /\ busied' <=> busied \/ (x = "busy" /\ state # "busy")
<1> DEFINE walk == <<state>> \o <<x>>
           TurnedTo(y) == \E i \in 1..Len(<<x>>) : walk[i + 1] = y /\ walk[i] # y
<1>1. Len(walk) = 2 /\ walk[1] = state /\ walk[2] = x
  OBVIOUS
<1>2. ASSUME NEW y PROVE TurnedTo(y) <=> x = y /\ state # y
  BY <1>1
<1>3. /\ state' = walk[Len(walk)]
      /\ idled' = (idled \/ TurnedTo("idle"))
      /\ busied' = (busied \/ TurnedTo("busy"))
  BY DEF Record
<1> HIDE DEF walk, TurnedTo
<1>4. idled' \in BOOLEAN /\ busied' \in BOOLEAN
  BY <1>3
<1>5. idled' <=> idled \/ (x = "idle" /\ state # "idle")
  BY <1>2, <1>3
<1>6. busied' <=> busied \/ (x = "busy" /\ state # "busy")
  BY <1>2, <1>3
<1> QED BY <1>1, <1>3, <1>4, <1>5, <1>6

LEMMA RecordsTwo ==
  ASSUME NEW x, NEW y, Record(<<x>> \o <<y>>)
  PROVE  /\ state' = y
         /\ idled' \in BOOLEAN /\ busied' \in BOOLEAN
         /\ idled' <=> idled \/ (x = "idle" /\ state # "idle") \/ (y = "idle" /\ x # "idle")
         /\ busied' <=> busied \/ (x = "busy" /\ state # "busy") \/ (y = "busy" /\ x # "busy")
<1> DEFINE states == <<x>> \o <<y>>
           walk == <<state>> \o states
           TurnedTo(z) == \E i \in 1..Len(states) : walk[i + 1] = z /\ walk[i] # z
<1>1. Len(states) = 2 /\ Len(walk) = 3 /\ walk[1] = state /\ walk[2] = x /\ walk[3] = y
  OBVIOUS
<1> HIDE DEF states, walk
<1>2. ASSUME NEW z PROVE TurnedTo(z) <=> (x = z /\ state # z) \/ (y = z /\ x # z)
  <2>1. 1..Len(states) = {1, 2}
    BY <1>1
  <2>2. TurnedTo(z) <=> (walk[1 + 1] = z /\ walk[1] # z) \/ (walk[2 + 1] = z /\ walk[2] # z)
    BY <2>1
  <2> QED BY <1>1, <2>2
<1> USE DEF states, walk
<1>3. /\ state' = walk[Len(walk)]
      /\ idled' = (idled \/ TurnedTo("idle"))
      /\ busied' = (busied \/ TurnedTo("busy"))
  BY DEF Record
<1> HIDE DEF walk, TurnedTo
<1>4. idled' \in BOOLEAN /\ busied' \in BOOLEAN
  BY <1>3
<1>5. idled' <=> idled \/ (x = "idle" /\ state # "idle") \/ (y = "idle" /\ x # "idle")
  BY <1>2, <1>3
<1>6. busied' <=> busied \/ (x = "busy" /\ state # "busy") \/ (y = "busy" /\ x # "busy")
  BY <1>2, <1>3
<1> QED BY <1>1, <1>3, <1>4, <1>5, <1>6

\* What the snapshot ends on.
ClaudeSees ==
  CASE Shown = "ready" -> "idle" [] Shown = "working" -> "busy" [] OTHER -> TitleSays
CodexSees ==
  CASE Shown = "trust" -> state
    [] Shown = "ready" -> IF seenTitle = "busy" THEN "busy" ELSE "idle"
    [] Shown = "working" -> "busy"
    [] OTHER -> TitleSays

LEMMA ClaudeSnapshot ==
  ASSUME TmuxTypeOK, setup.agent = "claude", Snapshot
  PROVE  /\ state' = ClaudeSees /\ state' \in Sights
         /\ idled' \in BOOLEAN /\ busied' \in BOOLEAN
         /\ idled' <=> \/ idled \/ (TitleSays = "idle" /\ state # "idle")
                       \/ Shown = "ready" /\ TitleSays # "idle"
         /\ busied' <=> \/ busied \/ (TitleSays = "busy" /\ state # "busy")
                        \/ Shown = "working" /\ TitleSays # "busy"
<1>1. TitleSays \in {"idle", "busy"} /\ Shown \in Screens
  BY DEF TitleSays, Shown, TmuxTypeOK, TuiTypeOK, Screens
<1>2. Record(ClaudeRecords)
  BY DEF Snapshot, SnapshotRecords
<1>3. CASE Shown = "ready"
  BY <1>1, <1>2, <1>3, RecordsTwo DEF ClaudeRecords, ScreenSays, ClaudeSees, Sights
<1>4. CASE Shown = "working"
  BY <1>1, <1>2, <1>4, RecordsTwo DEF ClaudeRecords, ScreenSays, ClaudeSees, Sights
<1>5. CASE Shown \in {"other", "trust"}
  <2>1. ScreenSays = <<>> /\ ClaudeRecords = <<TitleSays>>
    <3>1. ScreenSays = <<>>
      BY <1>5 DEF ScreenSays
    <3> QED BY <3>1 DEF ClaudeRecords
  <2> QED BY <1>1, <1>2, <1>5, <2>1, RecordsOne DEF ClaudeSees, Sights
<1> QED BY <1>1, <1>3, <1>4, <1>5 DEF Screens

LEMMA CodexSnapshot ==
  ASSUME TmuxTypeOK, setup.agent # "claude", Snapshot
  PROVE  /\ state' = CodexSees /\ state' \in Sights
         /\ idled' \in BOOLEAN /\ busied' \in BOOLEAN
         /\ idled' <=> idled \/ (CodexSees = "idle" /\ state # "idle")
         /\ busied' <=> busied \/ (CodexSees = "busy" /\ state # "busy")
<1>1. TitleSays \in {"idle", "busy"} /\ Shown \in Screens
  BY DEF TitleSays, Shown, TmuxTypeOK, TuiTypeOK, Screens
<1>2. Record(CodexRecords)
  BY DEF Snapshot, SnapshotRecords
<1>3. CASE Shown = "trust"
  <2>1. CodexRecords = <<>> /\ CodexSees = state
    BY <1>3 DEF CodexRecords, CodexSees
  <2> QED BY <1>2, <2>1, RecordsNothing DEF TmuxTypeOK, TuiTypeOK, Sights
<1>4. CASE Shown # "trust"
  <2>1. CodexRecords = <<CodexSees>> /\ CodexSees \in {"idle", "busy"}
    BY <1>1, <1>4 DEF CodexRecords, CodexSees, ScreenSays, Screens
  <2> QED BY <1>2, <2>1, RecordsOne DEF Sights
<1> QED BY <1>3, <1>4

-----------------------------------------------------------------------------
(***************************************************************************)
(* Types, step by step                                                     *)
(***************************************************************************)

LEMMA SnapshotTypes ==
  ASSUME TmuxTypeOK, Snapshot
  PROVE  /\ state' \in Sights /\ idled' \in BOOLEAN /\ busied' \in BOOLEAN
         /\ trusting' \in BOOLEAN
BY ClaudeSnapshot, CodexSnapshot DEF Snapshot

LEMMA FailPromptTypes ==
  ASSUME TuiTypeOK, FailPrompt
  PROVE  /\ pc' = "close" /\ stage' = "close"
         /\ typed' = typed /\ keys' = keys
         /\ asked' = asked /\ answered' = answered /\ guessed' = guessed
         /\ failed' \in Nat
BY DEF FailPrompt, GiveUp, NoKeys, TuiTypeOK

LEMMA SendTypes ==
  ASSUME TuiTypeOK, NEW k \in {"Enter", "C-d"}
  PROVE  Append(keys, k) \in Seq({"Enter", "C-d"})
BY DEF TuiTypeOK

ControlTypes ==
  /\ pc \in PCs /\ stage \in Stages
  /\ typed \in SUBSET {"prompt", "exit"} /\ keys \in Seq({"Enter", "C-d"})
CountTypes ==
  /\ asked \in Nat /\ answered \in Nat /\ guessed \in Nat /\ failed \in Nat
  /\ attempt \in 0..MaxAttempts /\ (pc = "enter" => attempt < MaxAttempts)
SightTypes ==
  /\ state \in Sights /\ idled \in BOOLEAN /\ busied \in BOOLEAN
  /\ trusting \in BOOLEAN /\ dialog \in BOOLEAN
  /\ seenTitle \in Titles /\ stream \in Seq(Titles \cup Screens) /\ ready \in BOOLEAN

LEMMA PartsSafe ==
  ASSUME Safe, ControlTypes', CountTypes', SightTypes', AgentWorks, pc' # "closed"
  PROVE  Safe'
BY DEF Safe, PromptTypeOK, TmuxTypeOK, PtyTypeOK, TuiTypeOK, CloseEndsAgent, AgentWorks,
       ControlTypes, CountTypes, SightTypes, Sights

LEMMA TmuxStepSafe ==
  ASSUME Safe, InPane, TmuxNext
  PROVE  Safe'
<1> USE DEF Safe, PromptTypeOK, TmuxTypeOK, PtyTypeOK, TuiTypeOK, CloseEndsAgent,
            InPane, PCs, Stages, AgentWorks, NoKeys, Counts, Goto, Send, GiveUp,
            outcomes, seen, sessionVars, Gone, Phases, ControlTypes, CountTypes,
            SightTypes, Sights
<1>0. MaxAttempts \in Nat \ {0}
  BY AgentTuiAssumption
<1> USE <1>0
<1>1. CASE ReadTitle
  <2>1. ControlTypes'
    BY <1>1, FailPromptTypes DEF ReadTitle
  <2>2. CountTypes'
    BY <1>1, FailPromptTypes DEF ReadTitle
  <2>3. SightTypes' /\ AgentWorks /\ pc' # "closed"
    BY <1>1, FailPromptTypes DEF ReadTitle
  <2> QED BY <2>1, <2>2, <2>3, PartsSafe
<1>2. CASE StartupPoll
  <2>1. ControlTypes'
    BY <1>2, SendTypes, SnapshotTypes DEF StartupPoll
  <2>2. CountTypes'
    BY <1>2, SendTypes, SnapshotTypes DEF StartupPoll
  <2>3. SightTypes' /\ AgentWorks /\ pc' # "closed"
    BY <1>2, SendTypes, SnapshotTypes DEF StartupPoll
  <2> QED BY <2>1, <2>2, <2>3, PartsSafe
<1>3. CASE StartupCapture
  BY <1>3, RecordsOne DEF StartupCapture
<1>4. CASE StartupExpires
  BY <1>4 DEF StartupExpires
<1>5. CASE Tick
  <2>1. ControlTypes'
    BY <1>5, FailPromptTypes DEF Tick
  <2>2. CountTypes'
    BY <1>5, FailPromptTypes DEF Tick
  <2>3. SightTypes' /\ AgentWorks /\ pc' # "closed"
    BY <1>5, FailPromptTypes DEF Tick
  <2> QED BY <2>1, <2>2, <2>3, PartsSafe
<1>6. CASE SendPrompt
  BY <1>6 DEF SendPrompt
<1>7. CASE ReadyPoll
  BY <1>7, SnapshotTypes DEF ReadyPoll
<1>8. CASE NotReadyPoll
  BY <1>8, SnapshotTypes DEF NotReadyPoll
<1>9. CASE ReadyExpires
  BY <1>9, FailPromptTypes, SnapshotTypes DEF ReadyExpires
<1>10. CASE Paste
  <2>1. ControlTypes'
    BY <1>10, FailPromptTypes DEF Paste, TypePrompt
  <2>2. CountTypes'
    BY <1>10, FailPromptTypes DEF Paste, TypePrompt
  <2>3. SightTypes' /\ AgentWorks /\ pc' # "closed"
    BY <1>10, FailPromptTypes DEF Paste, TypePrompt
  <2> QED BY <2>1, <2>2, <2>3, PartsSafe
<1>11. CASE PressEnter
  <2>1. ControlTypes'
    BY <1>11, SendTypes, FailPromptTypes DEF PressEnter
  <2>2. CountTypes'
    BY <1>11, SendTypes, FailPromptTypes DEF PressEnter
  <2>3. SightTypes' /\ AgentWorks /\ pc' # "closed"
    BY <1>11, SendTypes, FailPromptTypes DEF PressEnter
  <2> QED BY <2>1, <2>2, <2>3, PartsSafe
<1>12. CASE SubmitPoll
  BY <1>12, SnapshotTypes DEF SubmitPoll
<1>13. CASE SubmitExpires
  <2>1. ControlTypes'
    BY <1>13, FailPromptTypes, SnapshotTypes DEF SubmitExpires
  <2>2. CountTypes'
    BY <1>13, FailPromptTypes, SnapshotTypes DEF SubmitExpires
  <2>3. SightTypes' /\ AgentWorks /\ pc' # "closed"
    BY <1>13, FailPromptTypes, SnapshotTypes DEF SubmitExpires
  <2> QED BY <2>1, <2>2, <2>3, PartsSafe
<1>14. CASE FinishPoll
  BY <1>14, SnapshotTypes DEF FinishPoll
<1>15. CASE FallBack
  BY <1>15 DEF FallBack
<1>16. CASE CloseSession
  BY <1>16 DEF CloseSession
<1>17. CASE Close /\ Gone
  BY <1>17 DEF Close
<1>18. CASE Close /\ ~Gone
  <2>1. ControlTypes'
    BY <1>18, SendTypes DEF Close
  <2>2. CountTypes'
    BY <1>18, SendTypes DEF Close
  <2>3. SightTypes' /\ AgentWorks /\ pc' # "closed"
    BY <1>18, SendTypes DEF Close
  <2> QED BY <2>1, <2>2, <2>3, PartsSafe
<1>19. CASE CloseSeen
  BY <1>19 DEF CloseSeen
<1>20. CASE CloseExpires
  BY <1>20 DEF CloseExpires
<1>21. CASE TmuxAgent \/ (Exit /\ UNCHANGED seenTitle)
  BY <1>21, AgentStepSafe DEF TmuxAgent, SessionWaits
<1> QED
  BY <1>1, <1>2, <1>3, <1>4, <1>5, <1>6, <1>7, <1>8, <1>9, <1>10, <1>11, <1>12, <1>13,
     <1>14, <1>15, <1>16, <1>17, <1>18, <1>19, <1>20, <1>21
  DEF TmuxNext, Session, Expires, Requests

LEMMA EmitsTypes ==
  ASSUME stream \in Seq(Titles \cup Screens), title' \in Titles, screen' \in Screens, Emits
  PROVE  stream' \in Seq(Titles \cup Screens)
<1> DEFINE Output == Titles \cup Screens
           first == IF title' # title THEN <<title'>> ELSE <<>>
           second == IF screen' # screen THEN <<screen'>> ELSE <<>>
<1>1. stream \in Seq(Output) /\ title' \in Output /\ screen' \in Output
  OBVIOUS
<1> HIDE DEF Output
<1>2. <<>> \in Seq(Output) /\ <<title'>> \in Seq(Output) /\ <<screen'>> \in Seq(Output)
  BY <1>1
<1>3. first \in Seq(Output) /\ second \in Seq(Output)
  BY <1>2
<1>4. stream' = stream \/ stream' = (stream \o first) \o second
  BY DEF Emits
<1> HIDE DEF first, second
<1>5. stream \o first \in Seq(Output)
  BY <1>1, <1>3
<1>6. (stream \o first) \o second \in Seq(Output)
  BY <1>3, <1>5
<1>7. stream' \in Seq(Output)
  BY <1>1, <1>4, <1>6
<1> QED BY <1>7 DEF Output

LEMMA PumpTypes ==
  ASSUME PtyTypeOK, Pump
  PROVE  /\ stream' \in Seq(Titles \cup Screens) /\ ready' \in BOOLEAN
         /\ state' \in Sights /\ idled' \in BOOLEAN /\ busied' \in BOOLEAN
         /\ trusting' \in BOOLEAN /\ dialog' \in BOOLEAN
<1>1. stream' \in Seq(Titles \cup Screens)
  BY DEF Pump, PtyTypeOK
<1>2. CASE ConsumeTitle(Head(stream))
  BY <1>1, <1>2 DEF ConsumeTitle, PtyTitleSays, PtyTypeOK, TuiTypeOK, Sights
<1>3. CASE ConsumeScreen(Head(stream))
  BY <1>1, <1>3 DEF ConsumeScreen, PtyTypeOK, TuiTypeOK, Sights
<1> QED BY <1>2, <1>3 DEF Pump

LEMMA PtyStepSafe ==
  ASSUME Safe, BehindPty, PtyNext
  PROVE  Safe'
<1> USE DEF Safe, PromptTypeOK, TmuxTypeOK, PtyTypeOK, TuiTypeOK, CloseEndsAgent,
            BehindPty, PCs, Stages, AgentWorks, NoKeys, Counts, Goto, Send, GiveUp,
            outcomes, Gone, Phases, MonitorKeeps, WaitKeeps, ControlTypes, CountTypes,
            SightTypes, Sights
<1>0. MaxAttempts \in Nat \ {0}
  BY AgentTuiAssumption
<1> USE <1>0
<1>1. CASE Pump
  BY <1>1, PumpTypes DEF Pump, agentVars
<1>2. CASE PtyStartupPoll
  <2>1. ControlTypes'
    BY <1>2, SendTypes DEF PtyStartupPoll
  <2>2. CountTypes'
    BY <1>2, SendTypes DEF PtyStartupPoll
  <2>3. SightTypes' /\ AgentWorks /\ pc' # "closed"
    BY <1>2, SendTypes DEF PtyStartupPoll
  <2> QED BY <2>1, <2>2, <2>3, PartsSafe
<1>3. CASE PtyStartupExpires
  BY <1>3 DEF PtyStartupExpires
<1>4. CASE PtySendPrompt
  BY <1>4 DEF PtySendPrompt
<1>5. CASE PtyPaste
  <2>1. ControlTypes'
    BY <1>5 DEF PtyPaste, TypePrompt
  <2>2. CountTypes'
    BY <1>5 DEF PtyPaste, TypePrompt
  <2>3. SightTypes' /\ AgentWorks /\ pc' # "closed"
    BY <1>5 DEF PtyPaste, TypePrompt
  <2> QED BY <2>1, <2>2, <2>3, PartsSafe
<1>6. CASE PtyPressEnter
  <2>1. ControlTypes'
    BY <1>6, SendTypes DEF PtyPressEnter
  <2>2. CountTypes'
    BY <1>6, SendTypes DEF PtyPressEnter
  <2>3. SightTypes' /\ AgentWorks /\ pc' # "closed"
    BY <1>6, SendTypes DEF PtyPressEnter
  <2> QED BY <2>1, <2>2, <2>3, PartsSafe
<1>7. CASE PtySubmitPoll
  BY <1>7 DEF PtySubmitPoll
<1>8. CASE PtySubmitExpires
  <2>1. ControlTypes'
    BY <1>8, FailPromptTypes DEF PtySubmitExpires
  <2>2. CountTypes'
    BY <1>8, FailPromptTypes DEF PtySubmitExpires
  <2>3. SightTypes' /\ AgentWorks /\ pc' # "closed"
    BY <1>8, FailPromptTypes DEF PtySubmitExpires
  <2> QED BY <2>1, <2>2, <2>3, PartsSafe
<1>9. CASE PtyFinishPoll
  BY <1>9 DEF PtyFinishPoll
<1>10. CASE LeaveSession
  <2>1. ControlTypes'
    BY <1>10, FailPromptTypes DEF LeaveSession
  <2>2. CountTypes'
    BY <1>10, FailPromptTypes DEF LeaveSession
  <2>3. SightTypes' /\ AgentWorks /\ pc' # "closed"
    BY <1>10, FailPromptTypes DEF LeaveSession
  <2> QED BY <2>1, <2>2, <2>3, PartsSafe
<1>11. CASE PtyEnded
  BY <1>11, FailPromptTypes DEF PtyEnded
<1>12. CASE PtyCloseSession
  BY <1>12 DEF PtyCloseSession
<1>13. CASE PtyClose /\ Gone
  BY <1>13 DEF PtyClose
<1>14. CASE PtyClose /\ ~Gone
  <2>1. ControlTypes'
    BY <1>14, SendTypes DEF PtyClose
  <2>2. CountTypes'
    BY <1>14, SendTypes DEF PtyClose
  <2>3. SightTypes' /\ AgentWorks /\ pc' # "closed"
    BY <1>14, SendTypes DEF PtyClose
  <2> QED BY <2>1, <2>2, <2>3, PartsSafe
<1>15. CASE PtyCloseSeen
  BY <1>15 DEF PtyCloseSeen
<1>16. CASE PtyCloseExpires
  BY <1>16 DEF PtyCloseExpires
<1>17. CASE PtyAgent \/ PtyExit
  <2>1. (AgentStep \/ Exit) /\ Emits /\ UNCHANGED ready
    BY <1>17 DEF PtyAgent, PtyExit
  <2> QED BY <2>1, AgentStepSafe, EmitsTypes DEF SessionWaits
<1> QED
  BY <1>1, <1>2, <1>3, <1>4, <1>5, <1>6, <1>7, <1>8, <1>9, <1>10, <1>11, <1>12, <1>13,
     <1>14, <1>15, <1>16, <1>17
  DEF PtyNext, PtySession, PtyExpires, PtyRequests

LEMMA NextSafe == ASSUME Safe, [PromptNext]_vars PROVE Safe'
<1>1. CASE TmuxNext /\ InPane
  BY <1>1, TmuxStepSafe
<1>2. CASE PtyNext /\ BehindPty
  BY <1>2, PtyStepSafe
<1>3. CASE UNCHANGED vars
  BY <1>3
  DEF vars, tuiVars, agentVars, seen, outcomes, Safe, PromptTypeOK, TmuxTypeOK,
      PtyTypeOK, TuiTypeOK, CloseEndsAgent
<1> QED BY <1>1, <1>2, <1>3 DEF PromptNext

LEMMA SpecSafe == PromptSpec => []Safe
BY InitSafe, NextSafe, PTL DEF PromptSpec

\* The state of an agent and of the session that prompts it stays within its
\* types, in a tmux pane (tmux_clients.go) and behind a pseudo terminal (tui.go),
\* for every kind of agent.
THEOREM PromptTypes == PromptSpec => []PromptTypeOK
BY SpecSafe, PTL DEF Safe

\* Closing a session ends its agent: the exit command, the wait and the kill of
\* close leave nobody behind unless the kill itself failed, for every kind of
\* agent and wherever in a prompt the session was when it gave up.
THEOREM CloseEnds == PromptSpec => []CloseEndsAgent
BY SpecSafe, PTL DEF Safe

-----------------------------------------------------------------------------
(***************************************************************************)
(* What holds of either transport's session                                *)
(***************************************************************************)

\* A prompt was pasted and has no outcome yet.
Waiting == stage \in {"submit", "finish"} /\ pc \notin {"next", "paste"}

\* Every prompt that was asked for but the one waited for has its outcome.
Counted == asked = answered + guessed + failed + (IF Waiting THEN 1 ELSE 0)

\* The agent took a turn for every prompt and finished it, but the one typed or worked on.
Taken ==
  /\ finished <= asked
  /\ phase # "gone" =>
       asked = finished + (IF phase = "working" \/ "prompt" \in typed THEN 1 ELSE 0)
  /\ "prompt" \in typed => phase \in {"idle", "gone"}

\* Only the close sends what ends an agent.
NoFarewell ==
  stage # "close" =>
    /\ "exit" \notin typed /\ \A i \in 1..Len(keys) : keys[i] = "Enter"
    /\ ~setup.mortal => phase # "gone"

\* What is not redrawn late tells what the agent does.
Honest ==
  phase # "gone" =>
    /\ "title" \notin setup.late => title = TitleOf(phase)
    /\ "screen" \notin setup.late => screen = ScreenOf(phase)

Common ==
  /\ Counted /\ Taken /\ NoFarewell /\ Honest
  /\ pc = "enter" => stage = "submit"
  /\ stage = "startup" => asked = 0
  /\ stage = "close" <=> pc \in {"close", "closeWait", "closed", "leaked"}

-----------------------------------------------------------------------------
(***************************************************************************)
(* What holds of a session with an agent in a tmux pane                    *)
(***************************************************************************)

\* Where the session can be at each stage.
TmuxControl ==
  /\ setup.transport = "tmux"
  /\ stage = "startup" => pc \in {"title", "screen", "again", "wait", "next"}
  /\ stage = "ready" => pc \in {"title", "screen", "wait", "paste"}
  /\ stage = "submit" => pc \in {"title", "screen", "wait", "enter"} /\ ~busied
  /\ stage = "finish" => pc \in {"title", "screen", "wait", "next"} /\ (pc # "next" => busied)

\* No poll takes these surfaces for a busy agent's.
IdleSurfaces ==
  \/ screen = "ready" /\ title # "busy"
  \/ screen = "other" /\ title = "idle"

\* Before the first prompt the agent has had nothing to work on: it looks idle
\* only once it is, and the wait for its start ends on surfaces that say so.
TmuxStartup ==
  stage = "startup" /\ phase # "gone" =>
    /\ phase # "working" /\ "prompt" \notin typed
    /\ title # "busy" /\ seenTitle # "busy" /\ screen # "working"
    /\ phase \in {"starting", "trust"} =>
         /\ title = "host" /\ seenTitle = "host" /\ screen \in {"other", "trust"}
         /\ ~idled /\ state # "idle" /\ pc # "next"
    /\ seenTitle = "idle" => title = "idle"
    /\ setup.agent = "codex" /\ state = "idle" => IdleSurfaces
    /\ pc = "next" => IdleSurfaces

\* Between prompts nothing is typed, and only an agent whose turn the idle
\* fallback took for finished may still work; what is read of it is no older
\* than its title, so that the paste finds it idle.
TmuxBetween ==
  (stage = "ready" \/ pc = "next") /\ phase # "gone" =>
    /\ "prompt" \notin typed /\ phase \in {"idle", "working"}
    /\ phase = "working" => setup.patience
    /\ screen # "trust" /\ (screen = "other" => title # "host")
    /\ pc = "screen" =>
          /\ title = "busy" => seenTitle = "busy"
          /\ seenTitle = "idle" => title = "idle"
    /\ pc = "paste" => phase = "idle" /\ IdleSurfaces /\ state = "idle"

\* A poll takes these for a busy agent's, the one whose title is already read
\* too.
BusySurfaces ==
  \/ setup.agent = "codex" /\ screen = "working"
  \/ title = "busy" /\ (pc = "screen" => seenTitle = "busy")

\* The wait notices the turn's start before it notices its end.
Untouched == Waiting /\ ~busied => state = "idle" /\ ~idled

\* While a prompt is waited for: it is typed and the agent looks idle, or the
\* agent works on it and looks busy from the poll that noticed it on, or the
\* turn is over.
TmuxInTurn ==
  Waiting /\ phase # "gone" =>
    /\ phase \in {"idle", "working"}
    /\ screen # "trust"
    /\ screen = "other" => title # "host" /\ (pc = "screen" => seenTitle # "host")
    /\ "prompt" \in typed =>
         /\ ~busied /\ ~idled /\ state = "idle" /\ IdleSurfaces
         /\ pc = "screen" => seenTitle # "busy" /\ (setup.agent = "claude" => seenTitle = "idle")
    /\ phase = "working" =>
         /\ ~idled
         /\ IF busied THEN state = "busy" /\ BusySurfaces ELSE state = "idle"
         /\ pc = "screen" /\ seenTitle = "busy" => title = "busy"
         /\ pc = "screen" /\ stage = "finish" /\ "title" \notin setup.late => seenTitle = "busy"

\* An agent that died in its turn was never seen idle after it.
TmuxGone ==
  Waiting /\ phase = "gone" =>
    /\ idled => finished = asked
    /\ pc = "screen" /\ stage = "finish" /\ seenTitle = "idle" => finished = asked

TmuxInv ==
  /\ Common /\ TmuxControl /\ TmuxStartup /\ TmuxBetween /\ Untouched /\ TmuxInTurn /\ TmuxGone

-----------------------------------------------------------------------------
(***************************************************************************)
(* Steps keep the invariant of a session in a pane                         *)
(***************************************************************************)

LEMMA SetupType ==
  ASSUME Safe
  PROVE  /\ setup.transport \in {"tmux", "pty"} /\ setup.agent \in {"claude", "codex"}
         /\ setup.late \in SUBSET Surfaces
         /\ setup.patience \in BOOLEAN /\ setup.interactive \in BOOLEAN
         /\ setup.mortal \in BOOLEAN
BY AgentTuiAssumption DEF Safe, PromptTypeOK, TmuxTypeOK, TuiTypeOK

\* The agent goes on by itself, at whatever point the session is.
LEMMA AgentKeepsCommon ==
  ASSUME Safe, Common, AgentStep \/ Exit
  PROVE  Common'
<1> USE DEF Common, Safe, PromptTypeOK, TmuxTypeOK, TuiTypeOK
<1>1. SessionWaits
  BY AgentStepSafe
<1>2. /\ Counted' /\ (pc' = "enter" => stage' = "submit")
      /\ stage' = "startup" => asked' = 0
      /\ stage' = "close" <=> pc' \in {"close", "closeWait", "closed", "leaked"}
  BY <1>1 DEF SessionWaits, outcomes, Counted, Waiting
<1>3. CASE StartUp
  BY <1>1, <1>2, <1>3
  DEF StartUp, Becomes, SessionWaits, Taken, NoFarewell, Honest, TitleOf, ScreenOf
<1>4. CASE FinishTurn
  BY <1>1, <1>2, <1>4
  DEF FinishTurn, Becomes, SessionWaits, Taken, NoFarewell, Honest, TitleOf, ScreenOf
<1>5. CASE ReadKey
  <2>1. keys \in Seq({"Enter", "C-d"}) /\ keys # <<>> /\ keys' = Tail(keys)
    BY <1>5 DEF ReadKey
  <2>2. /\ Len(keys) > 0 /\ Head(keys) = keys[1] /\ Len(keys') = Len(keys) - 1
        /\ \A i \in 1..Len(keys') : keys'[i] = keys[i + 1]
    BY <2>1
  <2>3. stage # "close" => Head(keys) = "Enter" /\ \A i \in 1..Len(keys') : keys'[i] = "Enter"
    BY <2>2 DEF NoFarewell
  <2>4. CASE UNCHANGED <<phase, title, screen, typed>>
    BY <1>1, <1>2, <1>5, <2>3, <2>4
    DEF ReadKey, SessionWaits, Taken, NoFarewell, Honest, TitleOf, ScreenOf
  <2>5. CASE phase = "trust" /\ Becomes("idle") /\ UNCHANGED typed
    BY <1>1, <1>2, <1>5, <2>3, <2>5
    DEF ReadKey, Becomes, SessionWaits, Taken, NoFarewell, Honest, TitleOf, ScreenOf
  <2>6. CASE Becomes("gone") /\ (Head(keys) = "C-d" \/ typed = {"exit"}) /\ typed' = {}
    BY <1>1, <1>2, <1>5, <2>3, <2>6
    DEF ReadKey, Becomes, SessionWaits, Taken, NoFarewell, Honest
  <2>7. CASE phase = "idle" /\ "prompt" \in typed /\ Becomes("working") /\ typed' = {}
    BY <1>1, <1>2, <1>5, <2>3, <2>7
    DEF ReadKey, Becomes, SessionWaits, Taken, NoFarewell, Honest, TitleOf, ScreenOf
  <2> QED BY <1>5, <2>4, <2>5, <2>6, <2>7 DEF ReadKey
<1>6. CASE Redraw
  BY <1>1, <1>2, <1>6
  DEF Redraw, Becomes, SessionWaits, Taken, NoFarewell, Honest, TitleOf, ScreenOf
<1>7. CASE Exit
  BY <1>1, <1>2, <1>7
  DEF Exit, Becomes, SessionWaits, Taken, NoFarewell, Honest, TitleOf, ScreenOf
<1> QED BY <1>3, <1>4, <1>5, <1>6, <1>7 DEF AgentStep

LEMMA AgentKeepsTmux ==
  ASSUME Safe, Sound(setup), TmuxInv, AgentStep \/ Exit, seenTitle' = seenTitle
  PROVE  TmuxInv'
<1> USE DEF TmuxInv, Safe, PromptTypeOK, TmuxTypeOK, TuiTypeOK, Titles, Screens, Phases,
            Common, Taken, NoFarewell, Honest, TmuxControl, TmuxStartup, TmuxBetween,
            Untouched, TmuxInTurn, TmuxGone, IdleSurfaces, BusySurfaces, Waiting, Sound,
            Becomes, SessionWaits, TitleOf, ScreenOf, seen, outcomes
<1>0. SessionWaits /\ Common'
  BY AgentStepSafe, AgentKeepsCommon
<1>1. setup.late = {} => "title" \notin setup.late /\ "screen" \notin setup.late
  OBVIOUS
<1> USE <1>0, <1>1, SetupType
<1>2. CASE StartUp
  BY <1>2 DEF StartUp
<1>3. CASE FinishTurn
  BY <1>3 DEF FinishTurn
<1>4. CASE ReadKey
  BY <1>4 DEF ReadKey
<1>5. CASE Redraw
  BY <1>5 DEF Redraw
<1>6. CASE Exit
  BY <1>6 DEF Exit
<1> QED BY <1>2, <1>3, <1>4, <1>5, <1>6 DEF AgentStep

LEMMA FailCounts ==
  ASSUME Safe, Counted, FailPrompt
  PROVE  Counted'
<1>1. pc' = "close" /\ asked' = asked /\ answered' = answered /\ guessed' = guessed
  BY DEF FailPrompt, GiveUp
<1>2. ~Waiting'
  BY <1>1 DEF FailPrompt, GiveUp, Waiting
<1>3. CASE Waiting
  BY <1>1, <1>2, <1>3 DEF FailPrompt, Counted, Safe, PromptTypeOK, TmuxTypeOK, TuiTypeOK
<1>4. CASE ~Waiting
  BY <1>1, <1>2, <1>4 DEF FailPrompt, Counted, Safe, PromptTypeOK, TmuxTypeOK, TuiTypeOK
<1> QED BY <1>3, <1>4

LEMMA EnterOnly ==
  ASSUME Safe, NoFarewell, stage # "close"
  PROVE  \A i \in 1..Len(Append(keys, "Enter")) : Append(keys, "Enter")[i] = "Enter"
BY DEF Safe, PromptTypeOK, TmuxTypeOK, TuiTypeOK, NoFarewell

\* A session that gives up leaves every prompt with its outcome.
LEMMA CommonGivesUp ==
  ASSUME Safe, Common, AgentWorks, GiveUp,
         (Counts /\ ~Waiting) \/ FailPrompt
  PROVE  Common' /\ stage' = "close"
<1> USE DEF AgentWorks, GiveUp, NoKeys, Counts, outcomes, Common
<1>1. Counted'
  BY FailCounts DEF Counted, Waiting
<1>2. UNCHANGED asked
  BY DEF FailPrompt
<1> QED
  BY <1>1, <1>2 DEF Taken, NoFarewell, Honest, TitleOf, ScreenOf

LEMMA TmuxCloses ==
  ASSUME Common', stage' = "close", setup'.transport = "tmux"
  PROVE  TmuxInv'
BY DEF TmuxInv, Common, TmuxControl, TmuxStartup, TmuxBetween, Untouched, TmuxInTurn,
       TmuxGone, Waiting

LEMMA TmuxSessionCloses ==
  ASSUME Safe, TmuxInv,
         StartupExpires \/ CloseSession \/ Close \/ CloseSeen \/ CloseExpires
  PROVE  TmuxInv'
<1> USE DEF TmuxInv, Safe, PromptTypeOK, TmuxTypeOK, TuiTypeOK, TmuxControl, Common,
            sessionVars, seen, Counts, outcomes, AgentWorks, NoKeys, Goto
<1>1. CASE StartupExpires \/ CloseSession
  <2>1. AgentWorks /\ GiveUp /\ Counts /\ ~Waiting
    BY <1>1 DEF StartupExpires, CloseSession, Waiting
  <2> QED BY <2>1, CommonGivesUp, TmuxCloses
<1>2. CASE Close \/ CloseSeen
  <2>1. Common' /\ stage' = "close"
    BY <1>2
    DEF Close, CloseSeen, Counted, Taken, NoFarewell, Honest, Waiting, Send, TitleOf,
        ScreenOf, Gone
  <2>2. setup' = setup
    BY <1>2 DEF Close, CloseSeen
  <2> QED BY <2>1, <2>2, TmuxCloses
<1>3. CASE CloseExpires
  <2>1. Common' /\ stage' = "close" /\ setup' = setup
    BY <1>3
    DEF CloseExpires, Counted, Taken, NoFarewell, Honest, Waiting, TitleOf, ScreenOf
  <2> QED BY <2>1, TmuxCloses
<1> QED BY <1>1, <1>2, <1>3

LEMMA TmuxSessionFails ==
  ASSUME Safe, TmuxInv, AgentWorks, FailPrompt
  PROVE  TmuxInv'
BY CommonGivesUp, TmuxCloses DEF TmuxInv, TmuxControl, AgentWorks, FailPrompt

\* The session's own steps: what a poll sees is right about the agent.
LEMMA TmuxSessionKeeps ==
  ASSUME Safe, Sound(setup), TmuxInv, Session \/ Expires \/ FallBack \/ Requests
  PROVE  TmuxInv'
<1>0. ReadTitle \/ Tick \/ ReadyExpires \/ Paste \/ PressEnter \/ SubmitExpires => AgentWorks
  BY DEF ReadTitle, Tick, ReadyExpires, Paste, PressEnter, SubmitExpires
<1>1. CASE FailPrompt /\ AgentWorks
  BY <1>1, TmuxSessionFails
<1>2. CASE StartupExpires \/ CloseSession \/ Close \/ CloseSeen \/ CloseExpires
  BY <1>2, TmuxSessionCloses
<1> USE DEF TmuxInv, Safe, PromptTypeOK, TmuxTypeOK, TuiTypeOK, Stages, PCs, Titles,
            Screens, Phases, Common, Counted, Taken, NoFarewell, Honest, TmuxControl,
            TmuxStartup, TmuxBetween, Untouched, TmuxInTurn, TmuxGone, IdleSurfaces,
            BusySurfaces, Waiting, Sound, AgentWorks, NoKeys, Counts, Goto, Send, Gone,
            Shown, TitleSays, TitleOf, ScreenOf, outcomes, sessionVars, seen
<1> USE SetupType
<1>3. CASE ReadTitle /\ ~FailPrompt
  BY <1>3 DEF ReadTitle
<1>4. CASE Tick /\ ~FailPrompt
  BY <1>4 DEF Tick
<1>5. CASE StartupPoll
  <2> USE DEF StartupPoll, Snapshot
  <2>1. Common'
    BY <1>5, EnterOnly
  <2>2. CASE setup.agent = "claude"
    <3>1. TmuxStartup'
      <4>1. CASE phase = "idle"
        BY <1>5, <2>2, <4>1
      <4>2. CASE phase \in {"starting", "trust"}
        BY <1>5, <2>2, <4>2, ClaudeSnapshot DEF ClaudeSees
      <4> QED BY <1>5, <4>1, <4>2
    <3>2. TmuxControl' /\ TmuxBetween' /\ Untouched' /\ TmuxInTurn' /\ TmuxGone'
      BY <1>5, <2>2, ClaudeSnapshot DEF ClaudeSees
    <3> QED BY <2>1, <3>1, <3>2
  <2>3. CASE setup.agent # "claude"
    <3>1. TmuxControl' /\ TmuxStartup' /\ TmuxBetween' /\ Untouched' /\ TmuxInTurn' /\ TmuxGone'
      BY <1>5, <2>3, CodexSnapshot DEF CodexSees
    <3> QED BY <2>1, <3>1
  <2> QED BY <2>2, <2>3
<1>6. CASE StartupCapture
  BY <1>6, RecordsOne DEF StartupCapture
<1>7. CASE SendPrompt
  BY <1>7 DEF SendPrompt
<1>8. CASE ReadyPoll \/ NotReadyPoll
  BY <1>8, ClaudeSnapshot, CodexSnapshot
  DEF ReadyPoll, NotReadyPoll, Snapshot, ClaudeSees, CodexSees, ObservedIdle
<1>9. CASE Paste /\ ~FailPrompt
  BY <1>9 DEF Paste, TypePrompt
<1>10. CASE PressEnter /\ ~FailPrompt
  BY <1>10, EnterOnly DEF PressEnter
<1>11. CASE SubmitPoll
  BY <1>11, ClaudeSnapshot, CodexSnapshot DEF SubmitPoll, Snapshot, ClaudeSees, CodexSees
<1>12. CASE SubmitExpires /\ ~FailPrompt
  BY <1>12, ClaudeSnapshot, CodexSnapshot
  DEF SubmitExpires, Snapshot, ClaudeSees, CodexSees, ObservedIdle
<1>13. CASE FinishPoll
  BY <1>13, ClaudeSnapshot, CodexSnapshot DEF FinishPoll, Snapshot, ClaudeSees, CodexSees
<1>14. CASE FallBack
  BY <1>14 DEF FallBack
<1> QED
  BY <1>0, <1>1, <1>2, <1>3, <1>4, <1>5, <1>6, <1>7, <1>8, <1>9, <1>10, <1>11, <1>12,
     <1>13, <1>14
  DEF Session, Expires, Requests, ReadyExpires

-----------------------------------------------------------------------------
(***************************************************************************)
(* The output of an agent behind a pseudo terminal that is not consumed yet *)
(***************************************************************************)

\* The titles in it: none; t alone; t and then u.
NoTitle(s) == \A i \in 1..Len(s) : s[i] \notin Titles
OneTitle(s, t) ==
  \E i \in 1..Len(s) : s[i] = t /\ \A j \in 1..Len(s) : j # i => s[j] \notin Titles
TwoTitles(s, t, u) ==
  \E i, j \in 1..Len(s) :
    /\ i < j /\ s[i] = t /\ s[j] = u
    /\ \A k \in 1..Len(s) : k \notin {i, j} => s[k] \notin Titles
\* The idle title comes before the screen that shows the composer.
ReadyAfterIdle(s) ==
  \A j \in 1..Len(s) : s[j] = "ready" => \E i \in 1..(j - 1) : s[i] = "idle"

Output == Titles \cup Screens

LEMMA AppendIs ==
  ASSUME NEW s \in Seq(Output), NEW x \in Output
  PROVE  /\ Append(s, x) \in Seq(Output) /\ Len(Append(s, x)) = Len(s) + 1
         /\ Append(s, x)[Len(s) + 1] = x /\ \A i \in 1..Len(s) : Append(s, x)[i] = s[i]
OBVIOUS

LEMMA AppendScreen ==
  ASSUME NEW s \in Seq(Output), NEW x \in Screens
  PROVE  /\ NoTitle(s) => NoTitle(Append(s, x))
         /\ \A t : OneTitle(s, t) => OneTitle(Append(s, x), t)
         /\ \A t, u : TwoTitles(s, t, u) => TwoTitles(Append(s, x), t, u)
<1> DEFINE r == Append(s, x)
<1>1. x \in Output /\ x \notin Titles
  BY DEF Output, Titles, Screens
<1>2. /\ Len(s) \in Nat /\ Len(r) = Len(s) + 1
      /\ r[Len(s) + 1] = x /\ \A i \in 1..Len(s) : r[i] = s[i]
  BY <1>1, AppendIs
<1> HIDE DEF r
<1>3. NoTitle(s) => NoTitle(r)
  BY <1>1, <1>2 DEF NoTitle
<1>4. ASSUME NEW t, OneTitle(s, t) PROVE OneTitle(r, t)
  <2>1. PICK i \in 1..Len(s) : s[i] = t /\ \A j \in 1..Len(s) : j # i => s[j] \notin Titles
    BY <1>4 DEF OneTitle
  <2>2. i \in 1..Len(r) /\ r[i] = t /\ \A j \in 1..Len(r) : j # i => r[j] \notin Titles
    BY <1>1, <1>2, <2>1
  <2> QED BY <2>2 DEF OneTitle
<1>5. ASSUME NEW t, NEW u, TwoTitles(s, t, u) PROVE TwoTitles(r, t, u)
  <2>1. PICK i \in 1..Len(s), j \in 1..Len(s) :
          /\ i < j /\ s[i] = t /\ s[j] = u
          /\ \A k \in 1..Len(s) : k \notin {i, j} => s[k] \notin Titles
    BY <1>5 DEF TwoTitles
  <2>2. /\ i \in 1..Len(r) /\ j \in 1..Len(r) /\ r[i] = t /\ r[j] = u
        /\ \A k \in 1..Len(r) : k \notin {i, j} => r[k] \notin Titles
    BY <1>1, <1>2, <2>1
  <2> QED BY <2>1, <2>2 DEF TwoTitles
<1> QED BY <1>3, <1>4, <1>5 DEF r

LEMMA AppendTitle ==
  ASSUME NEW s \in Seq(Output), NEW x \in Titles
  PROVE  /\ NoTitle(s) => OneTitle(Append(s, x), x)
         /\ \A t : OneTitle(s, t) => TwoTitles(Append(s, x), t, x)
<1> DEFINE r == Append(s, x)
<1>1. x \in Output
  BY DEF Output
<1>2. /\ Len(s) \in Nat /\ Len(r) = Len(s) + 1
      /\ r[Len(s) + 1] = x /\ \A i \in 1..Len(s) : r[i] = s[i]
  BY <1>1, AppendIs
<1> HIDE DEF r
<1>3. ASSUME NoTitle(s) PROVE OneTitle(r, x)
  <2>1. Len(s) + 1 \in 1..Len(r) /\ \A j \in 1..Len(r) : j # Len(s) + 1 => r[j] \notin Titles
    BY <1>2, <1>3 DEF NoTitle
  <2> QED BY <1>2, <2>1 DEF OneTitle
<1>4. ASSUME NEW t, OneTitle(s, t) PROVE TwoTitles(r, t, x)
  <2>1. PICK i \in 1..Len(s) : s[i] = t /\ \A j \in 1..Len(s) : j # i => s[j] \notin Titles
    BY <1>4 DEF OneTitle
  <2>2. /\ i \in 1..Len(r) /\ Len(s) + 1 \in 1..Len(r) /\ i < Len(s) + 1
        /\ r[i] = t /\ \A k \in 1..Len(r) : k \notin {i, Len(s) + 1} => r[k] \notin Titles
    BY <1>2, <2>1
  <2> QED BY <1>2, <2>2 DEF TwoTitles
<1> QED BY <1>3, <1>4 DEF r

LEMMA AppendReady ==
  ASSUME NEW s \in Seq(Output), NEW x \in Output, ReadyAfterIdle(s),
         x = "ready" => \E i \in 1..Len(s) : s[i] = "idle"
  PROVE  ReadyAfterIdle(Append(s, x))
<1> DEFINE r == Append(s, x)
<1>2. /\ Len(s) \in Nat /\ Len(r) = Len(s) + 1
      /\ r[Len(s) + 1] = x /\ \A i \in 1..Len(s) : r[i] = s[i]
  BY AppendIs
<1> HIDE DEF r
<1>3. ASSUME NEW j \in 1..Len(r), r[j] = "ready" PROVE \E i \in 1..(j - 1) : r[i] = "idle"
  <2>1. CASE j = Len(s) + 1
    BY <1>2, <1>3, <2>1
  <2>2. CASE j # Len(s) + 1
    <3>1. j \in 1..Len(s) /\ s[j] = "ready"
      BY <1>2, <1>3, <2>2
    <3>2. PICK i \in 1..(j - 1) : s[i] = "idle"
      BY <3>1 DEF ReadyAfterIdle
    <3>3. i \in 1..Len(s) /\ r[i] = "idle"
      BY <1>2, <3>1, <3>2
    <3> QED BY <3>3
  <2> QED BY <2>1, <2>2
<1> QED BY <1>3 DEF r, ReadyAfterIdle

\* The monitor takes the head.
LEMMA TailIs ==
  ASSUME NEW s \in Seq(Output), s # <<>>
  PROVE  /\ Head(s) \in Output /\ Head(s) = s[1] /\ Len(s) \in Nat \ {0}
         /\ Tail(s) \in Seq(Output) /\ Len(Tail(s)) = Len(s) - 1
         /\ \A i \in 1..Len(Tail(s)) : Tail(s)[i] = s[i + 1]
OBVIOUS

LEMMA TailTitles ==
  ASSUME NEW s \in Seq(Output), s # <<>>
  PROVE  /\ NoTitle(s) => Head(s) \notin Titles /\ NoTitle(Tail(s))
         /\ \A t : OneTitle(s, t) => \/ Head(s) = t /\ NoTitle(Tail(s))
                                     \/ Head(s) \notin Titles /\ OneTitle(Tail(s), t)
         /\ \A t, u : TwoTitles(s, t, u) =>
                        \/ Head(s) = t /\ OneTitle(Tail(s), u)
                        \/ Head(s) \notin Titles /\ TwoTitles(Tail(s), t, u)
<1> DEFINE r == Tail(s)
           h == Head(s)
<1>1. /\ h = s[1] /\ Len(s) \in Nat \ {0} /\ Len(r) = Len(s) - 1
      /\ \A i \in 1..Len(r) : r[i] = s[i + 1]
  BY TailIs
<1> HIDE DEF r, h
<1>2. ASSUME NoTitle(s) PROVE h \notin Titles /\ NoTitle(r)
  BY <1>1, <1>2 DEF NoTitle
<1>3. ASSUME NEW t, OneTitle(s, t)
      PROVE  (h = t /\ NoTitle(r)) \/ (h \notin Titles /\ OneTitle(r, t))
  <2>1. PICK i \in 1..Len(s) : s[i] = t /\ \A j \in 1..Len(s) : j # i => s[j] \notin Titles
    BY <1>3 DEF OneTitle
  <2>2. CASE i = 1
    BY <1>1, <2>1, <2>2 DEF NoTitle
  <2>3. CASE i # 1
    <3>1. i - 1 \in 1..Len(r) /\ r[i - 1] = t /\ h \notin Titles
      BY <1>1, <2>1, <2>3
    <3>2. \A j \in 1..Len(r) : j # i - 1 => r[j] \notin Titles
      BY <1>1, <2>1
    <3> QED BY <3>1, <3>2 DEF OneTitle
  <2> QED BY <2>2, <2>3
<1>4. ASSUME NEW t, NEW u, TwoTitles(s, t, u)
      PROVE  (h = t /\ OneTitle(r, u)) \/ (h \notin Titles /\ TwoTitles(r, t, u))
  <2>1. PICK i \in 1..Len(s), j \in 1..Len(s) :
          /\ i < j /\ s[i] = t /\ s[j] = u
          /\ \A k \in 1..Len(s) : k \notin {i, j} => s[k] \notin Titles
    BY <1>4 DEF TwoTitles
  <2>2. j - 1 \in 1..Len(r) /\ r[j - 1] = u
    BY <1>1, <2>1
  <2>3. CASE i = 1
    <3>1. \A k \in 1..Len(r) : k # j - 1 => r[k] \notin Titles
      BY <1>1, <2>1, <2>3
    <3> QED BY <1>1, <2>1, <2>2, <2>3, <3>1 DEF OneTitle
  <2>4. CASE i # 1
    <3>1. i - 1 \in 1..Len(r) /\ r[i - 1] = t /\ i - 1 < j - 1 /\ h \notin Titles
      BY <1>1, <2>1, <2>4
    <3>2. \A k \in 1..Len(r) : k \notin {i - 1, j - 1} => r[k] \notin Titles
      BY <1>1, <2>1
    <3> QED BY <2>2, <3>1, <3>2 DEF TwoTitles
  <2> QED BY <2>3, <2>4
<1> QED BY <1>2, <1>3, <1>4 DEF r, h

LEMMA TailReady ==
  ASSUME NEW s \in Seq(Output), s # <<>>, ReadyAfterIdle(s)
  PROVE  Head(s) # "ready" /\ (Head(s) # "idle" => ReadyAfterIdle(Tail(s)))
<1> DEFINE r == Tail(s)
<1>1. /\ Head(s) = s[1] /\ Len(s) \in Nat \ {0} /\ Len(r) = Len(s) - 1
      /\ \A i \in 1..Len(r) : r[i] = s[i + 1]
  BY TailIs
<1> HIDE DEF r
<1>2. Head(s) # "ready"
  BY <1>1 DEF ReadyAfterIdle
<1>3. ASSUME Head(s) # "idle", NEW j \in 1..Len(r), r[j] = "ready"
      PROVE  \E i \in 1..(j - 1) : r[i] = "idle"
  <2>1. j + 1 \in 1..Len(s) /\ s[j + 1] = "ready"
    BY <1>1, <1>3
  <2>2. PICK i \in 1..j : s[i] = "idle"
    BY <2>1 DEF ReadyAfterIdle
  <2>3. i - 1 \in 1..(j - 1) /\ r[i - 1] = "idle"
    BY <1>1, <1>3, <2>1, <2>2
  <2> QED BY <2>3
<1> QED BY <1>2, <1>3 DEF r, ReadyAfterIdle

-----------------------------------------------------------------------------
(***************************************************************************)
(* What holds of a session with an agent behind a pseudo terminal          *)
(***************************************************************************)

\* Where the session can be at each stage.
PtyControl ==
  /\ setup.transport = "pty"
  /\ stage = "startup" => pc \in {"wait", "next", "paste"}
  /\ stage # "ready"
  /\ stage = "submit" => pc \in {"enter", "wait"}
  /\ stage = "finish" => pc \in {"wait", "exit", "next", "paste"}

\* Every title is consumed, and the last one said idle.
Consumed == NoTitle(stream) /\ state = "idle" /\ title = "idle"

\* The first idle title is drawn, then in the stream, then consumed; codex shows
\* its composer no earlier.
PtyStartup ==
  stage = "startup" /\ phase # "gone" =>
    /\ phase # "working" /\ "prompt" \notin typed /\ ~busied
    /\ \/ NoTitle(stream) /\ state = "none" /\ title = "host" /\ ~idled
       \/ OneTitle(stream, "idle") /\ state = "none" /\ title = "idle" /\ ~idled
       \/ Consumed
    /\ phase \in {"starting", "trust"} => title = "host" /\ screen # "ready"
    /\ setup.agent = "codex" =>
         /\ ready => Consumed
         /\ ~Consumed => ReadyAfterIdle(stream)

\* Between prompts the stream holds no title the next wait could take for its
\* own.
PtyBetween ==
  pc \in {"next", "paste"} /\ phase # "gone" =>
    /\ phase = "idle" /\ "prompt" \notin typed /\ Consumed
    /\ pc = "paste" => ~busied /\ ~idled

\* Of the two titles of a turn, busy and then idle, none is drawn yet; the first
\* is; both are.  What is drawn is in the stream until it is consumed.
NotShown == NoTitle(stream) /\ state = "idle" /\ ~busied /\ ~idled
StartShown ==
  \/ OneTitle(stream, "busy") /\ state = "idle" /\ ~busied /\ ~idled
  \/ NoTitle(stream) /\ state = "busy" /\ busied /\ ~idled
EndShown ==
  \/ TwoTitles(stream, "busy", "idle") /\ state = "idle" /\ ~busied /\ ~idled
  \/ OneTitle(stream, "idle") /\ state = "busy" /\ busied /\ ~idled
  \/ NoTitle(stream) /\ state = "idle" /\ busied /\ idled

\* The idle title of a turn is drawn only when the turn is over.
PtyInTurn ==
  Waiting =>
    /\ phase \in {"idle", "working", "gone"}
    /\ \/ NotShown /\ (phase # "gone" => title = "idle")
       \/ StartShown /\ (phase # "gone" => title = "busy" /\ "prompt" \notin typed)
       \/ EndShown /\ finished = asked /\ (phase # "gone" => title = "idle" /\ phase = "idle")

PtyInv == Common /\ PtyControl /\ PtyStartup /\ PtyBetween /\ PtyInTurn

-----------------------------------------------------------------------------
(***************************************************************************)
(* Steps keep the invariant of a session behind a pseudo terminal          *)
(***************************************************************************)

\* What goes into the stream: the title if it changed, and then the screen.
Drawn == IF title' # title THEN Append(stream, title') ELSE stream

LEMMA EmitsDrawn ==
  ASSUME Safe, Safe', Emits
  PROVE  /\ Drawn \in Seq(Output)
         /\ phase' = "gone" => stream' = stream
         /\ phase' # "gone" =>
              stream' = IF screen' # screen THEN Append(Drawn, screen') ELSE Drawn
<1> DEFINE one == IF title' # title THEN <<title'>> ELSE <<>>
           two == IF screen' # screen THEN <<screen'>> ELSE <<>>
<1>1. stream \in Seq(Output) /\ title' \in Output
  BY DEF Safe, PromptTypeOK, PtyTypeOK, TuiTypeOK, Output
<1>2. Drawn \in Seq(Output)
  BY <1>1, AppendIs DEF Drawn
<1>3. stream \o one = Drawn
  BY <1>1 DEF Drawn
<1>4. Drawn \o two = IF screen' # screen THEN Append(Drawn, screen') ELSE Drawn
  BY <1>2
<1>5. stream' = IF phase' = "gone" THEN stream ELSE (stream \o one) \o two
  BY DEF Emits
<1> HIDE DEF one, two
<1> QED BY <1>2, <1>3, <1>4, <1>5

LEMMA EmitsTitles ==
  ASSUME Safe, Safe', Emits
  PROVE  /\ phase' = "gone" => stream' = stream
         /\ phase' # "gone" /\ title' = title =>
              /\ NoTitle(stream) => NoTitle(stream')
              /\ \A t : OneTitle(stream, t) => OneTitle(stream', t)
              /\ \A t, u : TwoTitles(stream, t, u) => TwoTitles(stream', t, u)
         /\ phase' # "gone" /\ title' # title =>
              /\ NoTitle(stream) => OneTitle(stream', title')
              /\ \A t : OneTitle(stream, t) => TwoTitles(stream', t, title')
<1>1. stream \in Seq(Output) /\ title' \in Titles /\ screen' \in Screens
  BY DEF Safe, PromptTypeOK, PtyTypeOK, TuiTypeOK, Output
<1>2. /\ NoTitle(Drawn) => NoTitle(Append(Drawn, screen'))
      /\ \A t : OneTitle(Drawn, t) => OneTitle(Append(Drawn, screen'), t)
      /\ \A t, u : TwoTitles(Drawn, t, u) => TwoTitles(Append(Drawn, screen'), t, u)
  BY <1>1, EmitsDrawn, AppendScreen
<1>3. /\ NoTitle(stream) => OneTitle(Append(stream, title'), title')
      /\ \A t : OneTitle(stream, t) => TwoTitles(Append(stream, title'), t, title')
  BY <1>1, AppendTitle
<1>4. CASE title' = title
  <2>1. Drawn = stream
    BY <1>4 DEF Drawn
  <2> QED BY <1>2, <1>4, <2>1, EmitsDrawn
<1>5. CASE title' # title
  <2>1. Drawn = Append(stream, title')
    BY <1>5 DEF Drawn
  <2> QED BY <1>2, <1>3, <1>5, <2>1, EmitsDrawn
<1> QED BY <1>4, <1>5

LEMMA EmitsReady ==
  ASSUME Safe, Safe', Emits, ReadyAfterIdle(stream),
         \/ screen' \in {screen, "other", "trust", "working"}
         \/ title' = "idle" /\ title # "idle"
         \/ OneTitle(stream, "idle")
  PROVE  ReadyAfterIdle(stream')
<1>1. stream \in Seq(Output) /\ title' \in Output /\ screen' \in Output /\ title' # "ready"
  BY DEF Safe, PromptTypeOK, PtyTypeOK, TuiTypeOK, Output, Titles
<1>2. ReadyAfterIdle(Drawn)
  BY <1>1, AppendReady DEF Drawn
<1>3. ASSUME screen' # screen, screen' = "ready"
      PROVE  \E i \in 1..Len(Drawn) : Drawn[i] = "idle"
  <2>1. CASE title' = "idle" /\ title # "idle"
    <3>1. Len(stream) + 1 \in 1..Len(Drawn) /\ Drawn[Len(stream) + 1] = "idle"
      BY <1>1, <2>1, AppendIs DEF Drawn
    <3> QED BY <3>1
  <2>2. CASE OneTitle(stream, "idle")
    <3>1. PICK i \in 1..Len(stream) : stream[i] = "idle"
      BY <2>2 DEF OneTitle
    <3>2. i \in 1..Len(Drawn) /\ Drawn[i] = "idle"
      BY <1>1, <3>1, AppendIs DEF Drawn
    <3> QED BY <3>2
  <2> QED BY <1>3, <2>1, <2>2
<1>4. screen' # screen => ReadyAfterIdle(Append(Drawn, screen'))
  BY <1>1, <1>2, <1>3, EmitsDrawn, AppendReady
<1> QED BY <1>2, <1>4, EmitsDrawn

LEMMA AgentKeepsPty ==
  ASSUME Safe, Safe', Sound(setup), PtyInv, AgentStep \/ Exit, Emits, UNCHANGED ready
  PROVE  PtyInv'
<1> USE DEF PtyInv, Safe, PromptTypeOK, TmuxTypeOK, TuiTypeOK, SessionWaits, seen,
            outcomes, PtyControl, PtyStartup, PtyBetween, PtyInTurn, Consumed, NotShown,
            StartShown, EndShown, Waiting, Becomes, Common, Honest, Taken, NoFarewell,
            Sound, TitleOf, ScreenOf, Titles, Screens, Phases
<1>0. SessionWaits /\ Common'
  BY AgentStepSafe, AgentKeepsCommon
<1> USE <1>0, SetupType, EmitsTitles, EmitsReady
<1>1. CASE StartUp
  <2>1. PtyStartup'
    BY <1>1 DEF StartUp
  <2> QED BY <1>1, <2>1 DEF StartUp
<1>2. CASE FinishTurn
  BY <1>2 DEF FinishTurn
<1>3. CASE ReadKey
  BY <1>3 DEF ReadKey
<1>4. CASE Redraw
  BY <1>4 DEF Redraw
<1>5. CASE Exit
  BY <1>5 DEF Exit
<1> QED BY <1>1, <1>2, <1>3, <1>4, <1>5 DEF AgentStep

LEMMA PtyCloses ==
  ASSUME Common', stage' = "close", setup'.transport = "pty"
  PROVE  PtyInv'
BY DEF PtyInv, Common, PtyControl, PtyStartup, PtyBetween, PtyInTurn, Waiting

LEMMA PtySessionCloses ==
  ASSUME Safe, PtyInv,
         \/ FailPrompt /\ AgentWorks
         \/ PtyStartupExpires \/ PtyCloseSession \/ PtyClose \/ PtyCloseSeen \/ PtyCloseExpires
  PROVE  PtyInv'
<1> USE DEF PtyInv, Safe, PromptTypeOK, TmuxTypeOK, TuiTypeOK, PtyControl, Common,
            Counts, outcomes, AgentWorks, NoKeys, Goto
<1>1. CASE FailPrompt /\ AgentWorks
  BY <1>1, CommonGivesUp, PtyCloses DEF FailPrompt
<1>2. CASE PtyStartupExpires \/ PtyCloseSession
  <2>1. AgentWorks /\ GiveUp /\ Counts /\ ~Waiting
    BY <1>2 DEF PtyStartupExpires, PtyCloseSession, Waiting
  <2> QED BY <2>1, CommonGivesUp, PtyCloses
<1>3. CASE PtyClose \/ PtyCloseSeen
  <2>1. Common' /\ stage' = "close"
    BY <1>3
    DEF PtyClose, PtyCloseSeen, Counted, Taken, NoFarewell, Honest, Waiting, Send,
        TitleOf, ScreenOf, Gone
  <2>2. setup' = setup
    BY <1>3 DEF PtyClose, PtyCloseSeen
  <2> QED BY <2>1, <2>2, PtyCloses
<1>4. CASE PtyCloseExpires
  <2>1. Common' /\ stage' = "close" /\ setup' = setup
    BY <1>4
    DEF PtyCloseExpires, Counted, Taken, NoFarewell, Honest, Waiting, TitleOf, ScreenOf
  <2> QED BY <2>1, PtyCloses
<1> QED BY <1>1, <1>2, <1>3, <1>4

LEMMA PtySessionKeeps ==
  ASSUME Safe, Sound(setup), PtyInv, Pump \/ PtySession \/ PtyExpires \/ PtyRequests
  PROVE  PtyInv'
<1>0. PtyEnded \/ PtySubmitExpires \/ LeaveSession => AgentWorks
  BY DEF PtyEnded, PtySubmitExpires, LeaveSession
<1>1. CASE FailPrompt /\ AgentWorks
  BY <1>1, PtySessionCloses
<1>2. CASE PtyStartupExpires \/ PtyCloseSession \/ PtyClose \/ PtyCloseSeen \/ PtyCloseExpires
  BY <1>2, PtySessionCloses
<1> USE DEF PtyInv, Safe, PromptTypeOK, TmuxTypeOK, TuiTypeOK, Stages, Titles, Screens,
            Phases, Common, Counted, Taken, NoFarewell, Honest, PtyControl, PtyStartup,
            PtyBetween, PtyInTurn, Consumed, NotShown, StartShown, EndShown, Waiting,
            Sound, TitleOf, ScreenOf, AgentWorks, NoKeys, Counts, Goto, Send, Gone,
            outcomes, MonitorKeeps, WaitKeeps
<1> USE SetupType
<1>3. CASE Pump
  <2>1. stream \in Seq(Output)
    BY DEF PtyTypeOK, Output
  <2> USE DEF Pump, agentVars
  <2>2. Common' /\ PtyControl'
    BY <1>3
  <2>3. CASE Head(stream) \in Titles
    BY <1>3, <2>1, <2>2, <2>3, TailTitles, TailReady DEF ConsumeTitle, PtyTitleSays
  <2>4. CASE Head(stream) \notin Titles
    BY <1>3, <2>1, <2>2, <2>4, TailTitles, TailReady DEF ConsumeScreen
  <2> QED BY <2>3, <2>4
<1>4. CASE PtyStartupPoll
  BY <1>4, EnterOnly DEF PtyStartupPoll, Started
<1>5. CASE PtySendPrompt
  BY <1>5 DEF PtySendPrompt
<1>6. CASE PtyPaste
  BY <1>6 DEF PtyPaste, TypePrompt
<1>7. CASE PtyPressEnter
  BY <1>7, EnterOnly DEF PtyPressEnter
<1>8. CASE PtySubmitPoll
  BY <1>8 DEF PtySubmitPoll
<1>9. CASE PtySubmitExpires /\ ~FailPrompt
  BY <1>9 DEF PtySubmitExpires
<1>10. CASE PtyFinishPoll
  BY <1>10 DEF PtyFinishPoll
<1>11. CASE LeaveSession /\ ~FailPrompt
  <2>1. /\ guessed' = guessed + 1 /\ pc' = "next" /\ stage' = stage
        /\ UNCHANGED <<asked, answered, failed>> /\ pc = "exit" /\ Gone
    BY <1>11 DEF LeaveSession
  <2>2. Common'
    BY <1>11, <2>1 DEF LeaveSession
  <2> QED BY <1>11, <2>1, <2>2 DEF LeaveSession
<1> QED
  BY <1>0, <1>1, <1>2, <1>3, <1>4, <1>5, <1>6, <1>7, <1>8, <1>9, <1>10, <1>11
  DEF PtySession, PtyExpires, PtyRequests, PtyEnded

-----------------------------------------------------------------------------
(***************************************************************************)
(* The invariant of the specification                                      *)
(***************************************************************************)

PromptInv == Safe /\ IF setup.transport = "tmux" THEN TmuxInv ELSE PtyInv

\* The agents of the run agent_prompt meet the theorems' hypothesis.
LEMMA SoundSetupsAreSound == \A s \in SoundSetups : Sound(s)
<1> SUFFICES ASSUME NEW s \in SoundSetups PROVE Sound(s)
  OBVIOUS
<1> USE DEF Agent, Mortal, Patient, Interactive, Sound
<1>1. CASE \E l \in {{"title"}, Surfaces} : s = Agent("tmux", "codex", l)
  BY <1>1
<1>2. CASE \E l \in SUBSET {"screen"} : s = Patient(Mortal(Agent("tmux", "codex", l)))
  BY <1>2
<1>3. CASE s = Patient(Mortal(Agent("tmux", "claude", {})))
  BY <1>3
<1>4. ASSUME NEW p \in PtySetups
      PROVE  p.transport = "pty" /\ Sound(p) /\ Sound(Interactive(p))
  <2>1. CASE \E l \in SUBSET Surfaces : p = Mortal(Agent("pty", "claude", l))
    BY <2>1
  <2>2. CASE \E l \in SUBSET {"screen"} : p = Mortal(Agent("pty", "codex", l))
    BY <2>2
  <2> QED BY <1>4, <2>1, <2>2 DEF PtySetups
<1> QED BY <1>1, <1>2, <1>3, <1>4 DEF SoundSetups

LEMMA InitInv == ASSUME PromptInit PROVE PromptInv
<1> USE DEF TuiInit
<1>1. Safe
  BY InitSafe
<1>2. Common
  BY DEF PromptInit, TmuxInit, PtyInit, Common, Counted, Waiting, Taken, NoFarewell,
         Honest, TitleOf, ScreenOf
<1>3. CASE TmuxInit
  <2>1. TmuxControl /\ TmuxStartup
    BY <1>3 DEF TmuxInit, TmuxControl, TmuxStartup
  <2>2. TmuxBetween /\ Untouched /\ TmuxInTurn /\ TmuxGone
    BY <1>3 DEF TmuxInit, TmuxBetween, Untouched, TmuxInTurn, TmuxGone, Waiting
  <2> QED BY <1>1, <1>2, <1>3, <2>1, <2>2 DEF PromptInv, TmuxInv, TmuxInit
<1>4. CASE PtyInit /\ stream = <<>>
  <2>1. NoTitle(stream) /\ ReadyAfterIdle(stream)
    BY <1>4 DEF NoTitle, ReadyAfterIdle
  <2>2. PtyControl /\ PtyStartup /\ PtyBetween /\ PtyInTurn
    BY <1>4, <2>1 DEF PtyInit, PtyControl, PtyStartup, PtyBetween, PtyInTurn, Waiting
  <2> QED BY <1>1, <1>2, <1>4, <2>2 DEF PromptInv, PtyInv, PtyInit
<1> QED BY <1>3, <1>4 DEF PromptInit, PtyInit

LEMMA NextInv ==
  ASSUME \A s \in Setups : Sound(s), PromptInv, [PromptNext]_vars
  PROVE  PromptInv'
<1>1. Safe /\ Safe' /\ Sound(setup)
  BY NextSafe DEF PromptInv, Safe, PromptTypeOK, TmuxTypeOK, TuiTypeOK
<1>2. CASE TmuxNext /\ InPane
  <2>1. TmuxInv
    BY <1>2 DEF PromptInv, InPane
  <2>2. TmuxInv'
    BY <1>1, <1>2, <2>1, AgentKeepsTmux, TmuxSessionKeeps DEF TmuxNext, TmuxAgent
  <2> QED BY <1>1, <2>2 DEF PromptInv, TmuxInv, TmuxControl
<1>3. CASE PtyNext /\ BehindPty
  <2>1. PtyInv
    BY <1>3 DEF PromptInv, BehindPty
  <2>2. PtyInv'
    BY <1>1, <1>3, <2>1, AgentKeepsPty, PtySessionKeeps DEF PtyNext, PtyAgent, PtyExit
  <2> QED BY <1>1, <2>2 DEF PromptInv, PtyInv, PtyControl
<1>4. CASE UNCHANGED vars
  <2> USE <1>4 DEF vars, tuiVars, agentVars, seen, outcomes, Waiting
  <2>1. Common => Common'
    BY DEF Common, Counted, Taken, NoFarewell, Honest, TitleOf, ScreenOf
  <2>2. TmuxInv => TmuxInv'
    BY <2>1
    DEF TmuxInv, TmuxControl, TmuxStartup, TmuxBetween, Untouched, TmuxInTurn, TmuxGone,
        IdleSurfaces, BusySurfaces
  <2>3. PtyInv => PtyInv'
    BY <2>1
    DEF PtyInv, PtyControl, PtyStartup, PtyBetween, PtyInTurn, Consumed, NotShown,
        StartShown, EndShown
  <2> QED BY <1>1, <2>2, <2>3 DEF PromptInv
<1> QED BY <1>2, <1>3, <1>4 DEF PromptNext

LEMMA SpecInv ==
  ASSUME \A s \in Setups : Sound(s)
  PROVE  PromptSpec => []PromptInv
BY InitInv, NextInv, PTL DEF PromptSpec

-----------------------------------------------------------------------------
(***************************************************************************)
(* The prompt meets an idle agent                                          *)
(***************************************************************************)

\* A prompt is handed over by the paste alone, and the paste finds the agent
\* idle.
LEMMA AskIsPaste ==
  ASSUME PromptInv, PromptNext, asked' # asked
  PROVE  pc = "paste" /\ ~Gone /\ TypePrompt /\ UNCHANGED finished
<1>1. CASE TmuxNext
  BY <1>1
  DEF TmuxNext, Session, Expires, FallBack, Requests, TmuxAgent, AgentStep,
      SessionWaits, StartUp, FinishTurn, ReadKey, Redraw, Exit, ReadTitle, StartupPoll,
      StartupCapture, Tick, ReadyPoll, NotReadyPoll, Paste, PressEnter, SubmitPoll,
      FinishPoll, Close, CloseSeen, StartupExpires, ReadyExpires, SubmitExpires,
      CloseExpires, SendPrompt, CloseSession, Counts, FailPrompt, AgentWorks
<1>2. CASE PtyNext
  BY <1>2
  DEF PtyNext, Pump, PtySession, PtyExpires, PtyRequests, PtyAgent, PtyExit, AgentStep,
      SessionWaits, StartUp, FinishTurn, ReadKey, Redraw, Exit, PtyStartupPoll,
      PtyPaste, PtyPressEnter, PtySubmitPoll, PtyFinishPoll, PtyEnded, LeaveSession,
      PtyClose, PtyCloseSeen, PtyStartupExpires, PtySubmitExpires, PtyCloseExpires,
      PtySendPrompt, PtyCloseSession, Counts, FailPrompt, AgentWorks
<1> QED BY <1>1, <1>2 DEF PromptNext

LEMMA PasteIsIdle ==
  ASSUME PromptInv, pc = "paste", ~Gone
  PROVE  phase = "idle" /\ "prompt" \notin typed
<1>1. stage # "close"
  BY DEF PromptInv, TmuxInv, PtyInv, Common
<1>2. CASE TmuxInv
  BY <1>1, <1>2
  DEF PromptInv, Safe, PromptTypeOK, TmuxTypeOK, TuiTypeOK, Stages, TmuxInv,
      TmuxControl, TmuxBetween, Gone
<1>3. CASE PtyInv
  BY <1>3 DEF PtyInv, PtyBetween, Gone
<1> QED BY <1>2, <1>3 DEF PromptInv

\* The paste of submitPrompt reaches an agent that is idle, never a trust dialog
\* and never a turn that is still running, although the agent goes on between
\* the poll that saw it idle and the paste.  For every kind of agent whose surfaces the
\* session can go by, any number of prompts and of Enter presses.
THEOREM PastesIntoComposer ==
  ASSUME \A s \in Setups : Sound(s)
  PROVE  PromptSpec => PastedIntoComposer
<1>1. ASSUME PromptInv, [PromptNext]_vars
      PROVE  [asked' # asked => phase = "idle"]_tuiVars
  BY <1>1, AskIsPaste, PasteIsIdle DEF vars, tuiVars
<1> QED BY <1>1, SpecInv, PTL DEF PromptSpec, PastedIntoComposer

-----------------------------------------------------------------------------
(***************************************************************************)
(* Every step is a step of AgentTurn or leaves it as it is                 *)
(***************************************************************************)

TurnSame == UNCHANGED <<asked, finished, answered, guessed, failed>>

LEMMA OpenIsWaiting ==
  ASSUME Safe, Counted
  PROVE  Turn!Open <=> Waiting
BY DEF Turn!Open, Counted, Safe, PromptTypeOK, TmuxTypeOK, TuiTypeOK

LEMMA FailIsFail ==
  ASSUME Safe, FailPrompt, UNCHANGED finished
  PROVE  Turn!Fail \/ TurnSame
BY DEF FailPrompt, Turn!Fail, Turn!Open, TurnSame, Safe, PromptTypeOK, TmuxTypeOK,
       TuiTypeOK

LEMMA AgentIsFinish ==
  ASSUME Safe, Common, AgentStep \/ Exit
  PROVE  Turn!Finish \/ TurnSame
<1> USE DEF SessionWaits, outcomes, TurnSame
<1>1. CASE FinishTurn
  BY <1>1
  DEF FinishTurn, Turn!Finish, Common, Taken, Safe, PromptTypeOK, TmuxTypeOK, TuiTypeOK
<1>2. CASE StartUp \/ ReadKey \/ Redraw \/ Exit
  BY <1>2 DEF StartUp, ReadKey, Redraw, Exit
<1> QED BY <1>1, <1>2 DEF AgentStep

LEMMA PasteIsAsk ==
  ASSUME PromptInv, pc = "paste", ~Gone, TypePrompt, UNCHANGED finished
  PROVE  Turn!Ask
<1>1. Safe /\ Common
  BY DEF PromptInv, TmuxInv, PtyInv
<1>2. finished = asked
  BY <1>1, PasteIsIdle DEF Common, Taken, Safe, PromptTypeOK, TmuxTypeOK, TuiTypeOK
<1>3. ~Turn!Open
  BY <1>1, OpenIsWaiting DEF Waiting, Common
<1> QED BY <1>2, <1>3 DEF Turn!Ask, TypePrompt, outcomes

\* The poll that sees the agent idle again after it was busy is the only one that
\* reports a prompt complete, and by then the turn is over.
LEMMA FinishPollIsAnswer ==
  ASSUME Safe, Sound(setup), TmuxInv, FinishPoll
  PROVE  Turn!Answer \/ TurnSame
<1>1. CASE ~(busied' /\ idled')
  BY <1>1 DEF FinishPoll, Counts, outcomes, AgentWorks, TurnSame
<1>2. CASE busied' /\ idled'
  <2>1. Turn!Open
    BY OpenIsWaiting DEF FinishPoll, Waiting, TmuxInv, Common
  <2>2. finished = asked
    <3> USE DEF TmuxInv, Common, Taken, Waiting, Gone, Safe, PromptTypeOK, TmuxTypeOK,
                TuiTypeOK
    <3>1. CASE phase = "gone"
      BY <1>2, <3>1, ClaudeSnapshot, CodexSnapshot
      DEF FinishPoll, TmuxGone, Shown, ClaudeSees, CodexSees, TitleSays
    <3>2. CASE phase # "gone"
      <4>1. busied
        BY DEF FinishPoll, TmuxControl
      <4>2. phase \in {"idle", "working"} /\ "prompt" \notin typed
        BY <3>2, <4>1 DEF FinishPoll, TmuxInTurn
      <4>3. phase # "working"
        BY <1>2, <3>2, <4>1, SetupType, ClaudeSnapshot, CodexSnapshot
        DEF FinishPoll, TmuxInTurn, Shown, ClaudeSees, CodexSees, TitleSays,
            BusySurfaces, Sound, Honest, TitleOf, ScreenOf, TmuxControl
      <4> QED BY <3>2, <4>2, <4>3
    <3> QED BY <3>1, <3>2
  <2> QED BY <1>2, <2>1, <2>2 DEF FinishPoll, Turn!Answer, AgentWorks
<1> QED BY <1>1, <1>2

LEMMA TmuxIsTurn ==
  ASSUME PromptInv, Sound(setup), TmuxInv, TmuxNext
  PROVE  Turn!Next \/ TurnSame
<1> USE DEF Turn!Next, Counts, AgentWorks, outcomes, Goto
<1>0. Safe /\ Common /\ Counted
  BY DEF PromptInv, TmuxInv, Common
<1>1. CASE AgentStep \/ Exit
  BY <1>0, <1>1, AgentIsFinish
<1>2. CASE Paste
  BY <1>0, <1>2, PasteIsAsk, FailIsFail DEF Paste
<1>3. CASE FinishPoll
  BY <1>0, <1>3, FinishPollIsAnswer
<1>4. CASE FallBack
  BY <1>0, <1>4, OpenIsWaiting DEF FallBack, Waiting, Turn!Guess
<1>5. CASE ReadTitle \/ Tick \/ PressEnter
  BY <1>0, <1>5, FailIsFail DEF ReadTitle, Tick, PressEnter, TurnSame
<1>6. CASE ReadyExpires \/ SubmitExpires
  BY <1>0, <1>6, FailIsFail DEF ReadyExpires, SubmitExpires, TurnSame
<1>7. CASE StartupPoll \/ StartupCapture \/ ReadyPoll \/ NotReadyPoll \/ SubmitPoll
  BY <1>7 DEF StartupPoll, StartupCapture, ReadyPoll, NotReadyPoll, SubmitPoll, TurnSame
<1>8. CASE Close \/ CloseSeen \/ StartupExpires \/ CloseExpires \/ Requests
  BY <1>8
  DEF Close, CloseSeen, StartupExpires, CloseExpires, Requests, SendPrompt,
      CloseSession, TurnSame
<1> QED
  BY <1>1, <1>2, <1>3, <1>4, <1>5, <1>6, <1>7, <1>8
  DEF TmuxNext, Session, Expires, TmuxAgent

LEMMA PtyIsTurn ==
  ASSUME PromptInv, PtyInv, PtyNext
  PROVE  Turn!Next \/ TurnSame
<1> USE DEF Turn!Next, Counts, AgentWorks, outcomes, Goto
<1>0. Safe /\ Common /\ Counted
  BY DEF PromptInv, PtyInv, Common
<1>1. CASE AgentStep \/ Exit
  BY <1>0, <1>1, AgentIsFinish
<1>2. CASE PtyPaste
  BY <1>0, <1>2, PasteIsAsk DEF PtyPaste
<1>3. CASE PtyFinishPoll
  <2>1. Turn!Open
    BY <1>0, <1>3, OpenIsWaiting DEF PtyFinishPoll, Waiting
  <2>2. finished = asked
    BY <1>3 DEF PtyFinishPoll, PtyInv, PtyInTurn, Waiting, NotShown, StartShown, EndShown
  <2> QED BY <1>3, <2>1, <2>2 DEF PtyFinishPoll, Turn!Answer
<1>4. CASE LeaveSession
  <2>1. PtyControl /\ Common
    BY DEF PtyInv
  <2>2. Turn!Open
    BY <1>0, <1>4, <2>1, OpenIsWaiting
    DEF LeaveSession, Waiting, PtyControl, Common, Safe, PromptTypeOK, TmuxTypeOK,
        TuiTypeOK, Stages
  <2> QED BY <1>0, <1>4, <2>2, FailIsFail DEF LeaveSession, Turn!Guess
<1>5. CASE PtyEnded \/ PtySubmitExpires
  BY <1>0, <1>5, FailIsFail DEF PtyEnded, PtySubmitExpires, TurnSame
<1>6. CASE Pump \/ PtyStartupPoll \/ PtyPressEnter \/ PtySubmitPoll \/ PtyRequests
  BY <1>6
  DEF Pump, PtyStartupPoll, PtyPressEnter, PtySubmitPoll, PtyRequests, PtySendPrompt,
      PtyCloseSession, agentVars, TurnSame
<1>7. CASE PtyClose \/ PtyCloseSeen \/ PtyStartupExpires \/ PtyCloseExpires
  BY <1>7 DEF PtyClose, PtyCloseSeen, PtyStartupExpires, PtyCloseExpires, TurnSame
<1> QED
  BY <1>1, <1>2, <1>3, <1>4, <1>5, <1>6, <1>7
  DEF PtyNext, PtySession, PtyExpires, PtyAgent, PtyExit

\* A session keeps what AgentTurn promises the runner: a prompt is handed to an
\* agent with nothing to do, it gets one turn however often Enter is pressed and
\* it is reported complete only once that turn is over; what else may happen to
\* it is a failure or, with idle_activity_timeout or in a user's own session, a
\* guess.  For every kind of agent whose surfaces the session can go by.
THEOREM TakesTurns ==
  ASSUME \A s \in Setups : Sound(s)
  PROVE  PromptSpec => ImplementsTurn
<1>1. ASSUME PromptInit PROVE Turn!Init
  BY <1>1 DEF PromptInit, TmuxInit, PtyInit, TuiInit, Turn!Init, Turn!turn
<1>2. ASSUME PromptInv, [PromptNext]_vars PROVE [Turn!Next]_Turn!turn
  <2>1. Sound(setup)
    BY <1>2 DEF PromptInv, Safe, PromptTypeOK, TmuxTypeOK, TuiTypeOK
  <2>2. CASE TmuxNext /\ InPane
    BY <1>2, <2>1, <2>2, TmuxIsTurn DEF PromptInv, InPane, TurnSame, Turn!turn
  <2>3. CASE PtyNext /\ BehindPty
    BY <1>2, <2>3, PtyIsTurn DEF PromptInv, BehindPty, TurnSame, Turn!turn
  <2>4. CASE UNCHANGED vars
    BY <2>4 DEF vars, tuiVars, agentVars, outcomes, Turn!turn
  <2> QED BY <1>2, <2>2, <2>3, <2>4 DEF PromptNext
<1> QED BY <1>1, <1>2, SpecInv, PTL DEF PromptSpec, ImplementsTurn, Turn!Spec
=============================================================================
