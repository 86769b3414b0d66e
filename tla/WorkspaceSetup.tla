--------------------------- MODULE WorkspaceSetup ---------------------------
(***************************************************************************)
(* What becomes of a workspace's files before and between runs: create     *)
(* (cmd/vibedrive/create_command.go, internal/create), init and restart    *)
(* (internal/bootstrap), each of which prompts agents one after another    *)
(* and believes only what it finds in the files afterwards.                *)
(*                                                                         *)
(* Commands come one after another, and any of them may be killed between  *)
(* two of its steps.  No file is written atomically: it is empty first.    *)
(* An agent writes what its prompt names, well, badly or not at all.  Of a *)
(* file only that is kept which the next command looks at.                 *)
(***************************************************************************)
EXTENDS Naturals, FiniteSets

CONSTANTS
  Stages,      \* of create
  MaxCommands  \* bound: commands, one after another

VARIABLES
  \* the workspace
  design,      \* DESIGN.md is there
  lastStage,   \* in create-state.json
  config,      \* vibedrive.yaml
  components,  \* COMPONENTS.md
  feedback,    \* the critic's files, by what they criticise
  plan,        \* vibedrive-plan.yaml
  notes,       \* task-notes.yaml is there
  \* the command
  command,     \* by number
  kind,
  forced,      \* -force
  at,          \* what it does next
  phase,       \* of its prompts
  stage,       \* of create
  offered,     \* DESIGN.md was there when the menu was shown
  agents,      \* the phases whose agent is up
  result,
  \* history
  heard,       \* the phases of the stage whose agents were heard out
  unclosed     \* an agent of this command could not be closed

files == <<design, lastStage, config, components, feedback, plan, notes>>
process == <<command, kind, forced, at, phase, stage, offered, agents, result>>
history == <<heard, unclosed>>
vars == <<files, process, history>>

ASSUME WorkspaceSetupAssumption ==
  /\ MaxCommands \in Nat
  /\ "none" \notin Stages /\ "cut" \notin Stages

Commands == 1..MaxCommands
Subjects == {"components", "plan"}
StagePhases == {"author", "critic", "followUp"}
InitPhases == {"components", "componentsCritic", "componentsRevision",
               "plan", "planCritic", "planRevision"}
RestartPhases == {"replan", "review"}
Phases == StagePhases \cup InitPhases \cup RestartPhases
Places == {"idle", "menu", "choose", "stageConfig", "state", "writeState", "confirm",
           "scaffold", "writeConfig", "config", "removePlan", "removeComponents",
           "sources", "clearFeedback",
           "launch", "prompt", "close", "giveUp", "check",
           "load", "restartPrompt", "reload", "savePlan", "writePlan", "removeNotes",
           "deferred"}

\* The command that wrote a file, if it is there, and whether it can be used:
\* it is not empty, or a valid plan.
Written == [by: {0} \cup Commands, good: BOOLEAN]
Absent == [by |-> 0, good |-> FALSE]
Plans == [by: {0} \cup Commands, good: BOOLEAN, progress: BOOLEAN]
NoPlan == [by |-> 0, good |-> FALSE, progress |-> FALSE]

TypeOK ==
  /\ design \in BOOLEAN /\ notes \in BOOLEAN
  /\ lastStage \in Stages \cup {"none", "cut"}
  /\ config \in {"none", "cut", "good"}
  /\ components \in Written /\ feedback \in [Subjects -> Written] /\ plan \in Plans
  /\ command \in {0} \cup Commands
  /\ kind \in {"none", "create", "init", "restart"} /\ forced \in BOOLEAN
  /\ at \in Places /\ phase \in Phases \cup {"none"}
  /\ stage \in Stages \cup {"none"} /\ offered \in BOOLEAN
  /\ agents \subseteq Phases
  /\ result \in {"none", "ok", "skipped", "error"}
  /\ heard \subseteq StagePhases /\ unclosed \in BOOLEAN

Init ==
  /\ design \in BOOLEAN /\ lastStage = "none" /\ config = "none"
  /\ components = Absent /\ feedback = [s \in Subjects |-> Absent]
  /\ plan = NoPlan /\ notes = FALSE
  /\ command = 0 /\ kind = "none" /\ forced = FALSE
  /\ at = "idle" /\ phase = "none" /\ stage = "none" /\ offered = FALSE
  /\ agents = {} /\ result = "none"
  /\ heard = {} /\ unclosed = FALSE

\* Steps of a command: to the next place, the end, or what is deferred to it.
GoTo(place) == at' = place /\ UNCHANGED result
Return(r) == at' = "idle" /\ result' = r
Defer(r) == at' = "deferred" /\ result' = r
StartPhase(p) == phase' = p /\ at' = "launch" /\ UNCHANGED result
SameCommand == UNCHANGED <<command, kind, forced>>

-----------------------------------------------------------------------------
(***************************************************************************)
(* create                                                                  *)
(***************************************************************************)

\* The menu is made for the files as they are, and then waits for an answer.
ShowMenu ==
  /\ at = "menu"
  /\ IF lastStage = "cut" THEN Return("error") /\ UNCHANGED offered
     ELSE GoTo("choose") /\ offered' = design
  /\ SameCommand
  /\ UNCHANGED <<files, phase, stage, agents, history>>

ChooseStage(s) ==
  /\ at = "choose" /\ GoTo("stageConfig") /\ stage' = s /\ heard' = {}
  /\ SameCommand
  /\ UNCHANGED <<files, phase, offered, agents, unclosed>>

\* Carries on with -force.
BugChoosePlanning ==
  /\ at = "choose" /\ offered
  /\ GoTo("scaffold") /\ forced' = TRUE
  /\ UNCHANGED <<files, command, kind, phase, stage, offered, agents, history>>

\* The rest of the command is init, with DESIGN.md its only source.
ChoosePlanning ==
  /\ at = "choose" /\ offered
  /\ GoTo("scaffold") /\ forced' = FALSE
  /\ UNCHANGED <<files, command, kind, phase, stage, offered, agents, history>>

ChooseStop ==
  /\ at = "choose" /\ Return("ok")
  /\ SameCommand
  /\ UNCHANGED <<files, phase, stage, offered, agents, history>>

\* A stage does without a configuration, not with one that cannot be read.
LoadStageConfig ==
  /\ at = "stageConfig"
  /\ IF config = "cut" THEN Return("error") /\ UNCHANGED phase ELSE StartPhase("author")
  /\ SameCommand
  /\ UNCHANGED <<files, stage, offered, agents, history>>

\* create.Write, after the author and again after the follow-up.
TruncateState ==
  /\ at = "state" /\ GoTo("writeState") /\ lastStage' = "cut"
  /\ SameCommand
  /\ UNCHANGED <<design, config, components, feedback, plan, notes>>
  /\ UNCHANGED <<phase, stage, offered, agents, history>>

\* Writes the wrong name.
BugWriteState ==
  /\ at = "writeState"
  /\ \/ /\ lastStage' = phase
        /\ GoTo(IF phase = "author" THEN "confirm" ELSE "menu")
     \/ Return("error") /\ UNCHANGED lastStage
  /\ SameCommand
  /\ UNCHANGED <<design, config, components, feedback, plan, notes>>
  /\ UNCHANGED <<phase, stage, offered, agents, history>>

\* The menu is shown again after the follow-up.
WriteState ==
  /\ at = "writeState"
  /\ \/ /\ lastStage' = stage
        /\ GoTo(IF phase = "author" THEN "confirm" ELSE "menu")
     \/ Return("error") /\ UNCHANGED lastStage
  /\ SameCommand
  /\ UNCHANGED <<design, config, components, feedback, plan, notes>>
  /\ UNCHANGED <<phase, stage, offered, agents, history>>

ConfirmCritic ==
  /\ at = "confirm"
  /\ \/ StartPhase("critic")
     \/ GoTo("menu") /\ UNCHANGED phase
     \/ Return("error") /\ UNCHANGED phase
  /\ SameCommand
  /\ UNCHANGED <<files, stage, offered, agents, history>>

-----------------------------------------------------------------------------
(***************************************************************************)
(* init, up to the first prompt                                            *)
(***************************************************************************)

\* scaffold.Write
Scaffold ==
  /\ at = "scaffold"
  /\ IF forced \/ config = "none" THEN GoTo("writeConfig") /\ config' = "cut"
     ELSE GoTo("config") /\ UNCHANGED config
  /\ SameCommand
  /\ UNCHANGED <<design, lastStage, components, feedback, plan, notes>>
  /\ UNCHANGED <<phase, stage, offered, agents, history>>

WriteConfig ==
  /\ at = "writeConfig"
  /\ \/ config' = "good" /\ GoTo("config")
     \/ UNCHANGED config /\ Return("error")
  /\ SameCommand
  /\ UNCHANGED <<design, lastStage, components, feedback, plan, notes>>
  /\ UNCHANGED <<phase, stage, offered, agents, history>>

\* config.Load, and whether there is anything to do.
LoadConfig ==
  /\ at = "config"
  /\ IF config # "good" THEN Return("error")
     ELSE IF forced THEN GoTo("removePlan")
     ELSE IF plan.by # 0 THEN Return("skipped")
     ELSE GoTo("sources")
  /\ SameCommand
  /\ UNCHANGED <<files, phase, stage, offered, agents, history>>

RemovePlan ==
  /\ at = "removePlan"
  /\ \/ plan' = NoPlan /\ GoTo("removeComponents")
     \/ UNCHANGED plan /\ Return("error")
  /\ SameCommand
  /\ UNCHANGED <<design, lastStage, config, components, feedback, notes>>
  /\ UNCHANGED <<phase, stage, offered, agents, history>>

\* Leaves what is there to be improved.
BugRemoveComponents ==
  /\ at = "removeComponents"
  /\ \/ UNCHANGED components /\ GoTo("sources")
     \/ UNCHANGED components /\ Return("error")
  /\ SameCommand
  /\ UNCHANGED <<design, lastStage, config, feedback, plan, notes>>
  /\ UNCHANGED <<phase, stage, offered, agents, history>>

RemoveComponents ==
  /\ at = "removeComponents"
  /\ \/ components' = Absent /\ GoTo("sources")
     \/ UNCHANGED components /\ Return("error")
  /\ SameCommand
  /\ UNCHANGED <<design, lastStage, config, feedback, plan, notes>>
  /\ UNCHANGED <<phase, stage, offered, agents, history>>

\* resolveSources: create's DESIGN.md may be gone since the menu was shown.
ResolveSources ==
  /\ at = "sources"
  /\ \/ (kind = "create" => design) /\ GoTo("clearFeedback")
     \/ (kind = "create" => ~design) /\ Return("error")
  /\ SameCommand
  /\ UNCHANGED <<files, phase, stage, offered, agents, history>>

Without(subjects) == [s \in Subjects |-> IF s \in subjects THEN Absent ELSE feedback[s]]

\* Only the last of the two files.
BugClearFeedback ==
  /\ at = "clearFeedback"
  /\ \/ feedback' = Without({"plan"}) /\ StartPhase("components")
     \/ UNCHANGED <<feedback, phase>> /\ Return("error")
  /\ SameCommand
  /\ UNCHANGED <<design, lastStage, config, components, plan, notes>>
  /\ UNCHANGED <<stage, offered, agents, history>>

\* What an earlier init left of its critics, one file after the other.
ClearFeedback ==
  /\ at = "clearFeedback"
  /\ \/ feedback' = Without(Subjects) /\ StartPhase("components")
     \/ /\ \E gone \in {{}, {"components"}} : feedback' = Without(gone)
        /\ Return("error") /\ UNCHANGED phase
  /\ SameCommand
  /\ UNCHANGED <<design, lastStage, config, components, plan, notes>>
  /\ UNCHANGED <<stage, offered, agents, history>>

-----------------------------------------------------------------------------
(***************************************************************************)
(* One agent for each phase of create and init (runPhase,                  *)
(* runBootstrapPhase)                                                      *)
(***************************************************************************)

\* A stage is recorded although its author failed.
BugGiveUp == IF phase \in InitPhases THEN Defer("error") ELSE GoTo("state")

\* What a command does after an error of a phase: init has feedback to remove.
GiveUp == IF phase \in InitPhases THEN Defer("error") ELSE Return("error")

LaunchAgent ==
  /\ at = "launch"
  /\ \/ agents' = agents \cup {phase} /\ GoTo("prompt")
     \/ UNCHANGED agents /\ GiveUp
  /\ SameCommand
  /\ UNCHANGED <<files, phase, stage, offered, history>>

\* What the prompts of the phases have their agents write, and nothing else.
AuthorsDesign ==
  /\ design' \in {design, TRUE} /\ UNCHANGED <<components, feedback, plan>>
Reads == UNCHANGED <<design, components, feedback, plan>>
WritesComponents ==
  /\ components' \in {components} \cup [by: {command}, good: BOOLEAN]
  /\ UNCHANGED <<design, feedback, plan>>
Criticises(subject) ==
  /\ \E f \in {feedback[subject]} \cup [by: {command}, good: BOOLEAN] :
       feedback' = [feedback EXCEPT ![subject] = f]
  /\ UNCHANGED <<design, components, plan>>
\* Of the plan nobody looks at the statuses.
WritesPlan ==
  /\ plan' \in {plan} \cup [by: {command}, good: BOOLEAN, progress: BOOLEAN]
  /\ UNCHANGED <<design, components, feedback>>

AgentWrites ==
  \/ phase \in {"author", "followUp"} /\ AuthorsDesign
  \/ phase = "critic" /\ Reads
  \/ phase \in {"components", "componentsRevision"} /\ WritesComponents
  \/ phase = "componentsCritic" /\ Criticises("components")
  \/ phase = "planCritic" /\ Criticises("plan")
  \/ phase \in {"plan", "planRevision"} /\ WritesPlan

RunPrompt ==
  /\ at = "prompt"
  /\ AgentWrites
  /\ GoTo("close") \/ GoTo("giveUp")
  /\ SameCommand
  /\ UNCHANGED <<lastStage, config, notes, phase, stage, offered, agents, history>>

\* After an error the agent is not closed.
BugCloseAgent ==
  /\ at \in {"close", "giveUp"}
  /\ \/ /\ agents' = IF at = "close" THEN agents \ {phase} ELSE agents
        /\ UNCHANGED unclosed
        /\ IF at = "close" THEN GoTo("check") ELSE GiveUp
     \/ UNCHANGED agents /\ unclosed' = TRUE /\ GiveUp
  /\ SameCommand
  /\ UNCHANGED <<files, phase, stage, offered, heard>>

\* Closed in any case; that this fails is an error as well.
CloseAgent ==
  /\ at \in {"close", "giveUp"}
  /\ \/ /\ agents' = agents \ {phase} /\ UNCHANGED unclosed
        /\ IF at = "close" THEN GoTo("check") ELSE GiveUp
     \/ UNCHANGED agents /\ unclosed' = TRUE /\ GiveUp
  /\ SameCommand
  /\ UNCHANGED <<files, phase, stage, offered, heard>>

\* requireNonEmptyFile, requireValidPlan
Delivered(p) ==
  /\ p \in {"components", "componentsRevision"} => components.good
  /\ p = "componentsCritic" => feedback["components"].good
  /\ p = "planCritic" => feedback["plan"].good
  /\ p \in {"plan", "planRevision"} => plan.good

NextPhase ==
  [components |-> "componentsCritic", componentsCritic |-> "componentsRevision",
   componentsRevision |-> "plan", plan |-> "planCritic", planCritic |-> "planRevision"]

\* A stage is done without a look at what was written.
EndStagePhase ==
  /\ at = "check" /\ phase \in StagePhases
  /\ heard' = heard \cup {phase}
  /\ IF phase = "critic" THEN StartPhase("followUp") ELSE GoTo("state") /\ UNCHANGED phase
  /\ SameCommand
  /\ UNCHANGED <<files, stage, offered, agents, unclosed>>

EndInitPhase ==
  /\ at = "check" /\ phase \in InitPhases
  /\ IF ~Delivered(phase) THEN Defer("error") /\ UNCHANGED phase
     ELSE IF phase = "planRevision" THEN Defer("ok") /\ UNCHANGED phase
     ELSE StartPhase(NextPhase[phase])
  /\ SameCommand
  /\ UNCHANGED <<files, stage, offered, agents, history>>

\* Whether a file could be removed is not looked at.
RemoveFeedback ==
  /\ at = "deferred" /\ phase \in InitPhases
  /\ \E gone \in SUBSET Subjects : feedback' = Without(gone)
  /\ GoTo("idle")
  /\ SameCommand
  /\ UNCHANGED <<design, lastStage, config, components, plan, notes>>
  /\ UNCHANGED <<phase, stage, offered, agents, history>>

-----------------------------------------------------------------------------
(***************************************************************************)
(* restart                                                                 *)
(***************************************************************************)

\* Everything is read before anything is prompted; a source that is missing or
\* an agent that cannot be had ends the command.
LoadAll ==
  /\ at = "load"
  /\ \/ config = "good" /\ plan.good /\ GoTo("restartPrompt") /\ phase' = "replan"
     \/ Return("error") /\ UNCHANGED phase
  /\ SameCommand
  /\ UNCHANGED <<files, stage, offered, agents, history>>

\* The agent is told to reset the plan, and may not.
RewritesPlan ==
  plan' \in {plan} \cup [by: {command}, good: BOOLEAN, progress: BOOLEAN]

\* Both prompts go to the same agent.
RunRestartPrompt ==
  /\ at = "restartPrompt"
  /\ agents' = {"replan"}
  /\ RewritesPlan
  /\ \/ GoTo(IF phase = "replan" THEN "restartPrompt" ELSE "reload") /\ phase' = "review"
     \/ Defer("error") /\ UNCHANGED phase
  /\ SameCommand
  /\ UNCHANGED <<design, lastStage, config, components, feedback, notes>>
  /\ UNCHANGED <<stage, offered, history>>

ReloadPlan ==
  /\ at = "reload"
  /\ IF plan.good THEN GoTo("savePlan") ELSE Defer("error")
  /\ SameCommand
  /\ UNCHANGED <<files, phase, stage, offered, agents, history>>

\* ResetProgress and Save
TruncatePlan ==
  /\ at = "savePlan" /\ GoTo("writePlan")
  /\ plan' = [plan EXCEPT !.good = FALSE]
  /\ SameCommand
  /\ UNCHANGED <<design, lastStage, config, components, feedback, notes>>
  /\ UNCHANGED <<phase, stage, offered, agents, history>>

\* Goes on without a plan.
BugSavePlan ==
  /\ at = "writePlan" /\ GoTo("removeNotes")
  /\ plan' \in {plan, [plan EXCEPT !.good = TRUE, !.progress = FALSE]}
  /\ SameCommand
  /\ UNCHANGED <<design, lastStage, config, components, feedback, notes>>
  /\ UNCHANGED <<phase, stage, offered, agents, history>>

\* Trusts the agent to have reset the plan.
BugKeepProgress ==
  /\ at = "writePlan"
  /\ \/ GoTo("removeNotes") /\ plan' = [plan EXCEPT !.good = TRUE]
     \/ Defer("error") /\ UNCHANGED plan
  /\ SameCommand
  /\ UNCHANGED <<design, lastStage, config, components, feedback, notes>>
  /\ UNCHANGED <<phase, stage, offered, agents, history>>

SavePlan ==
  /\ at = "writePlan"
  /\ \/ GoTo("removeNotes") /\ plan' = [plan EXCEPT !.good = TRUE, !.progress = FALSE]
     \/ Defer("error") /\ UNCHANGED plan
  /\ SameCommand
  /\ UNCHANGED <<design, lastStage, config, components, feedback, notes>>
  /\ UNCHANGED <<phase, stage, offered, agents, history>>

RemoveNotes ==
  /\ at = "removeNotes"
  /\ \/ Defer("ok") /\ notes' = FALSE
     \/ Defer("error") /\ UNCHANGED notes
  /\ SameCommand
  /\ UNCHANGED <<design, lastStage, config, components, feedback, plan>>
  /\ UNCHANGED <<phase, stage, offered, agents, history>>

\* Whether the agent could be closed is not looked at.
CloseRestart ==
  /\ at = "deferred" /\ phase \in RestartPhases
  /\ GoTo("idle")
  /\ \/ agents' = {} /\ UNCHANGED unclosed
     \/ UNCHANGED agents /\ unclosed' = TRUE
  /\ SameCommand
  /\ UNCHANGED <<files, phase, stage, offered, heard>>

-----------------------------------------------------------------------------
(***************************************************************************)
(* The user                                                                *)
(***************************************************************************)

Start(k, f, place) ==
  /\ at = "idle" /\ command < MaxCommands
  /\ command' = command + 1 /\ kind' = k /\ forced' = f
  /\ at' = place /\ phase' = "none" /\ stage' = "none" /\ offered' = FALSE
  /\ agents' = {} /\ result' = "none"
  /\ heard' = {} /\ unclosed' = FALSE
  /\ UNCHANGED files

\* Ctrl-C or a crash: the agents go with their terminal.
Killed ==
  /\ at # "idle" /\ Return("error") /\ agents' = {}
  /\ SameCommand
  /\ UNCHANGED <<files, phase, stage, offered, history>>

\* `vibedrive run`, as far as it goes: notes are saved before the plan.
Run ==
  /\ at = "idle" /\ config = "good" /\ plan.good
  /\ notes' = TRUE
  /\ plan' \in {plan, [plan EXCEPT !.progress = TRUE]}
  /\ result' = "none"
  /\ SameCommand
  /\ UNCHANGED <<design, lastStage, config, components, feedback>>
  /\ UNCHANGED <<at, phase, stage, offered, agents, history>>

\* The user takes DESIGN.md away while a menu waits.
RemoveDesign ==
  /\ at = "choose" /\ design /\ design' = FALSE
  /\ UNCHANGED <<lastStage, config, components, feedback, plan, notes>>
  /\ UNCHANGED <<process, history>>

CreateStep ==
  \/ ShowMenu \/ ChoosePlanning \/ ChooseStop \/ \E s \in Stages : ChooseStage(s)
  \/ LoadStageConfig \/ TruncateState \/ WriteState \/ ConfirmCritic
InitStep ==
  \/ Scaffold \/ WriteConfig \/ LoadConfig \/ RemovePlan \/ RemoveComponents
  \/ ResolveSources \/ ClearFeedback \/ EndInitPhase \/ RemoveFeedback
AgentStep == LaunchAgent \/ RunPrompt \/ CloseAgent \/ EndStagePhase
RestartStep ==
  \/ LoadAll \/ RunRestartPrompt \/ ReloadPlan \/ TruncatePlan \/ SavePlan
  \/ RemoveNotes \/ CloseRestart
UserStep ==
  \/ Start("create", FALSE, "menu") \/ Start("restart", FALSE, "load")
  \/ \E f \in BOOLEAN : Start("init", f, "scaffold")
  \/ Killed \/ Run \/ RemoveDesign

Next == CreateStep \/ InitStep \/ AgentStep \/ RestartStep \/ UserStep
Spec == Init /\ [][Next]_vars

-----------------------------------------------------------------------------
(***************************************************************************)
(* Properties                                                              *)
(***************************************************************************)

\* README.md:151: there is one agent at a time, the one of the phase, and a
\* command that ended has left none that could be closed.
OneAgent ==
  /\ agents \subseteq {IF phase \in RestartPhases THEN "replan" ELSE phase}
  /\ at \in {"idle", "launch"} => (agents # {} => unclosed)

\* FEATURES.md:100: create records the stage that was chosen, when its author
\* has been heard out since, and again only after its critic and the follow-up.
LastStageIsDone ==
  [][lastStage' # lastStage /\ lastStage' \in Stages
     => /\ lastStage' = stage /\ {"author", phase} \subseteq heard
        /\ phase = "followUp" => "critic" \in heard]_vars

\* FEATURES.md:200, 203: what an author revises for is what this init's critic
\* wrote, whatever earlier ones left behind.
FeedbackIsFresh ==
  at = "prompt" =>
    /\ phase = "componentsRevision" => feedback["components"] = [by |-> command, good |-> TRUE]
    /\ phase = "planRevision" => feedback["plan"] = [by |-> command, good |-> TRUE]

\* FEATURES.md:179-193: an init that says it succeeded has written a valid plan
\* itself, not found one; with -force, for components of its own.  Its feedback
\* files may be left, which FeedbackIsFresh makes harmless, and the statuses of
\* the plan are what the agents wrote.
Succeeded(p) == at = "idle" /\ result = "ok" /\ phase = p
InitDelivers ==
  Succeeded("planRevision") =>
    /\ plan.by = command /\ plan.good
    /\ components.good /\ (forced => components.by = command)

\* FEATURES.md:251-253: after a restart that says it succeeded the plan can be
\* run from its start, and there are no notes.
RestartDelivers ==
  Succeeded("review") => plan.good /\ ~plan.progress /\ ~notes

\* FEATURES.md:730: the notes of a run go only when the plan that was to learn
\* from them is ready to be run again.
NotesOutlivePlan == [][notes /\ ~notes' => plan.good /\ ~plan.progress]_vars

\* FEATURES.md:191-192: without -force, init and create leave alone a plan they
\* find.
UnforcedKeepsPlan ==
  [][/\ at # "idle" /\ plan.by \notin {0, command}
     /\ kind = "create" \/ (kind = "init" /\ ~forced)
     => plan' = plan]_vars
=============================================================================
