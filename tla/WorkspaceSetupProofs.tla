------------------------ MODULE WorkspaceSetupProofs ------------------------
(***************************************************************************)
(* The properties of WorkspaceSetup, for any stages and any number of      *)
(* commands.                                                               *)
(***************************************************************************)
EXTENDS WorkspaceSetup, TLAPS

AgentPlaces == {"launch", "prompt", "close", "giveUp", "check"}
StatePlaces == {"state", "writeState", "confirm"}
RestartPlaces == {"restartPrompt", "reload", "savePlan", "writePlan", "removeNotes"}

\* TypeOK in two parts.
FilesTyped ==
  /\ design \in BOOLEAN /\ notes \in BOOLEAN
  /\ lastStage \in Stages \cup {"none", "cut"}
  /\ config \in {"none", "cut", "good"}
  /\ components \in Written /\ feedback \in [Subjects -> Written] /\ plan \in Plans
ProcessTyped ==
  /\ command \in {0} \cup Commands
  /\ kind \in {"none", "create", "init", "restart"} /\ forced \in BOOLEAN
  /\ at \in Places /\ phase \in Phases \cup {"none"}
  /\ stage \in Stages \cup {"none"} /\ offered \in BOOLEAN
  /\ agents \subseteq Phases
  /\ result \in {"none", "ok", "skipped", "error"}
  /\ heard \subseteq StagePhases /\ unclosed \in BOOLEAN

\* What the command is at its places.
WhereInv ==
  /\ at # "idle" => command # 0
  /\ at \in AgentPlaces => phase \in StagePhases \cup InitPhases
  /\ at \in AgentPlaces /\ phase \in StagePhases => stage \in Stages
  /\ at \in StatePlaces \cup {"stageConfig"} => stage \in Stages
  /\ at \in StatePlaces => phase \in {"author", "followUp"} /\ phase \in heard
  /\ at \in RestartPlaces => phase \in RestartPhases
  /\ at \in {"reload", "savePlan", "writePlan", "removeNotes"} => phase = "review"
  /\ at = "load" => phase = "none"
  /\ at \in {"menu", "choose", "stageConfig"} => phase \in StagePhases \cup {"none"}
  /\ at = "deferred" => phase \in InitPhases \cup RestartPhases
  /\ at \in RestartPlaces \cup {"load"} => kind = "restart"
  /\ kind = "create" => ~forced
  /\ at \in {"removePlan", "removeComponents"} => forced

\* Agents are up from the launch to the close.
AgentInv ==
  /\ at \in {"prompt", "close", "giveUp"} => agents \subseteq {phase}
  /\ at \notin {"prompt", "close", "giveUp", "deferred", "idle"} \cup RestartPlaces
       => agents = {}
  /\ at \in RestartPlaces => agents \subseteq {"replan"}
  /\ at \in {"deferred", "idle"} =>
       agents \subseteq {IF phase \in RestartPhases THEN "replan" ELSE phase}
  /\ at = "idle" \/ (at = "deferred" /\ phase \in InitPhases) => agents = {} \/ unclosed

\* What init has by the time it is in a phase.
InInit == at \in AgentPlaces /\ phase \in InitPhases
Blank(file) == file.by = 0 /\ ~file.good
InitInv ==
  /\ at \in {"removeComponents", "sources", "clearFeedback"} => Blank(plan) /\ ~plan.progress
  /\ at \in {"sources", "clearFeedback"} /\ forced => Blank(components)
  /\ InInit =>
       /\ \A s \in Subjects : Blank(feedback[s]) \/ feedback[s].by = command
       /\ forced => Blank(components) \/ components.by = command
       /\ Blank(plan) \/ plan.by = command
       /\ phase = "componentsRevision" => feedback["components"].good
       /\ phase = "planRevision" => feedback["plan"].good
       /\ phase \in {"plan", "planCritic", "planRevision"} => components.good
  /\ at \in {"deferred", "idle"} /\ phase = "planRevision" /\ result = "ok" =>
       /\ plan.by = command /\ plan.good
       /\ components.good /\ (forced => components.by = command)
  /\ InitDelivers

\* What restart has.
RestartInv ==
  /\ plan.by = 0 => Blank(plan) /\ ~plan.progress
  /\ at \in {"savePlan", "writePlan"} => plan.by # 0
  /\ at = "removeNotes" => plan.good /\ ~plan.progress
  /\ at \in {"deferred", "idle"} /\ phase = "review" /\ result = "ok" =>
       plan.good /\ ~plan.progress /\ ~notes

\* A stage's phases come one after the other.
StageInv ==
  /\ at \in AgentPlaces /\ phase \in {"critic", "followUp"} => "author" \in heard
  /\ at \in AgentPlaces /\ phase = "followUp" => "critic" \in heard
  /\ at \in StatePlaces => "author" \in heard
  /\ at \in StatePlaces /\ phase = "followUp" => "critic" \in heard

SetupInv ==
  FilesTyped /\ ProcessTyped /\ WhereInv /\ AgentInv /\ InitInv /\ RestartInv /\ StageInv

\* The files keep their types.
LEMMA FilesTypeKept == ASSUME SetupInv, Next PROVE FilesTyped'
<1> USE WorkspaceSetupAssumption DEF SetupInv, FilesTyped, GoTo, Return, Defer,
        StartPhase, SameCommand, files, process, history
<1> Absent \in Written /\ NoPlan \in Plans
  BY DEF Absent, NoPlan, Written, Plans
<1>1. CASE ShowMenu
  BY <1>1 DEF ShowMenu
<1>2. CASE ChoosePlanning
  BY <1>2 DEF ChoosePlanning
<1>3. CASE ChooseStop
  BY <1>3 DEF ChooseStop
<1>4. ASSUME NEW s \in Stages, ChooseStage(s) PROVE FilesTyped'
  BY <1>4 DEF ChooseStage
<1>5. CASE LoadStageConfig
  BY <1>5 DEF LoadStageConfig
<1>6. CASE TruncateState
  BY <1>6 DEF TruncateState
<1>7. CASE WriteState
  BY <1>7 DEF WriteState, WhereInv, StatePlaces
<1>8. CASE ConfirmCritic
  BY <1>8 DEF ConfirmCritic
<1>9. CASE Scaffold
  BY <1>9 DEF Scaffold
<1>10. CASE WriteConfig
  BY <1>10 DEF WriteConfig
<1>11. CASE LoadConfig
  BY <1>11 DEF LoadConfig
<1>12. CASE RemovePlan
  BY <1>12 DEF RemovePlan
<1>13. CASE RemoveComponents
  BY <1>13 DEF RemoveComponents
<1>14. CASE ResolveSources
  BY <1>14 DEF ResolveSources
<1>15. CASE ClearFeedback
  BY <1>15 DEF ClearFeedback, Without
<1>16. CASE EndInitPhase
  BY <1>16 DEF EndInitPhase, Delivered, NextPhase
<1>17. CASE RemoveFeedback
  BY <1>17 DEF RemoveFeedback, Without
<1>18. CASE LaunchAgent
  BY <1>18 DEF LaunchAgent, GiveUp
<1>19. CASE RunPrompt
  <2>1. command \in Commands
    BY <1>19 DEF RunPrompt, WhereInv, ProcessTyped, Commands
  <2>2. CASE AuthorsDesign
    BY <1>19, <2>2 DEF RunPrompt, AuthorsDesign
  <2>3. CASE Reads
    BY <1>19, <2>3 DEF RunPrompt, Reads
  <2>4. CASE WritesComponents
    <3>1. components' \in Written
      BY <2>1, <2>4 DEF WritesComponents, Written
    <3> QED BY <1>19, <2>4, <3>1 DEF RunPrompt, WritesComponents
  <2>5. ASSUME NEW subject \in Subjects, Criticises(subject) PROVE FilesTyped'
    <3>1. PICK g \in {feedback[subject]} \cup [by: {command}, good: BOOLEAN] :
                 feedback' = [feedback EXCEPT ![subject] = g]
      BY <2>5 DEF Criticises
    <3>2. g \in Written
      BY <2>1, <3>1 DEF Written
    <3> QED BY <1>19, <2>5, <3>1, <3>2 DEF RunPrompt, Criticises
  <2>6. CASE WritesPlan
    <3>1. plan' \in Plans
      BY <2>1, <2>6 DEF WritesPlan, Plans
    <3> QED BY <1>19, <2>6, <3>1 DEF RunPrompt, WritesPlan
  <2> QED BY <1>19, <2>2, <2>3, <2>4, <2>5, <2>6 DEF RunPrompt, AgentWrites, Subjects
<1>20. CASE CloseAgent
  BY <1>20 DEF CloseAgent, GiveUp
<1>21. CASE EndStagePhase
  BY <1>21 DEF EndStagePhase
<1>22. CASE LoadAll
  BY <1>22 DEF LoadAll
<1>23. CASE RunRestartPrompt
  <2>1. plan' \in Plans
    BY <1>23 DEF RunRestartPrompt, RewritesPlan, Plans, WhereInv, RestartPlaces, ProcessTyped, Commands
  <2> QED BY <1>23, <2>1 DEF RunRestartPrompt
<1>24. CASE ReloadPlan
  BY <1>24 DEF ReloadPlan
<1>25. CASE TruncatePlan
  <2>1. plan' \in Plans
    BY <1>25 DEF TruncatePlan, Plans
  <2> QED BY <1>25, <2>1 DEF TruncatePlan
<1>26. CASE SavePlan
  <2>1. plan' \in Plans
    BY <1>26 DEF SavePlan, Plans
  <2> QED BY <1>26, <2>1 DEF SavePlan
<1>27. CASE RemoveNotes
  BY <1>27 DEF RemoveNotes
<1>28. CASE CloseRestart
  BY <1>28 DEF CloseRestart
<1>29. ASSUME NEW k \in {"create", "init", "restart"}, NEW f \in BOOLEAN,
               NEW place \in {"menu", "scaffold", "load"}, Start(k, f, place),
               k = "create" => ~f /\ place = "menu", k = "restart" => place = "load",
               k = "init" => place = "scaffold"
        PROVE  FilesTyped'
  BY <1>29 DEF Start
<1>30. CASE Killed
  BY <1>30 DEF Killed
<1>31. CASE Run
  <2>1. plan' \in Plans
    BY <1>31 DEF Run, Plans
  <2> QED BY <1>31, <2>1 DEF Run
<1>32. CASE RemoveDesign
  BY <1>32 DEF RemoveDesign
<1> QED BY <1>1, <1>2, <1>3, <1>4, <1>5, <1>6, <1>7, <1>8, <1>9, <1>10, <1>11,
      <1>12, <1>13, <1>14, <1>15, <1>16, <1>17, <1>18, <1>19, <1>20, <1>21,
      <1>22, <1>23, <1>24, <1>25, <1>26, <1>27, <1>28, <1>29, <1>30, <1>31,
      <1>32 DEF Next, CreateStep, InitStep, AgentStep, RestartStep, UserStep

\* So do the commands.
LEMMA ProcessTypeKept == ASSUME SetupInv, Next PROVE ProcessTyped'
<1> USE WorkspaceSetupAssumption DEF SetupInv, ProcessTyped, WhereInv, Places,
        Phases, StagePhases, InitPhases, RestartPhases, Commands, AgentPlaces,
        StatePlaces, RestartPlaces, GoTo, Return, Defer, StartPhase,
        SameCommand, files, process, history
<1>1. CASE ShowMenu
  BY <1>1 DEF ShowMenu, FilesTyped
<1>2. CASE ChoosePlanning
  BY <1>2 DEF ChoosePlanning
<1>3. CASE ChooseStop
  BY <1>3 DEF ChooseStop
<1>4. ASSUME NEW s \in Stages, ChooseStage(s) PROVE ProcessTyped'
  BY <1>4 DEF ChooseStage
<1>5. CASE LoadStageConfig
  BY <1>5 DEF LoadStageConfig
<1>6. CASE TruncateState
  BY <1>6 DEF TruncateState
<1>7. CASE WriteState
  BY <1>7 DEF WriteState
<1>8. CASE ConfirmCritic
  BY <1>8 DEF ConfirmCritic
<1>9. CASE Scaffold
  BY <1>9 DEF Scaffold
<1>10. CASE WriteConfig
  BY <1>10 DEF WriteConfig
<1>11. CASE LoadConfig
  BY <1>11 DEF LoadConfig
<1>12. CASE RemovePlan
  BY <1>12 DEF RemovePlan
<1>13. CASE RemoveComponents
  BY <1>13 DEF RemoveComponents
<1>14. CASE ResolveSources
  BY <1>14 DEF ResolveSources
<1>15. CASE ClearFeedback
  BY <1>15 DEF ClearFeedback, Without
<1>16. CASE EndInitPhase
  BY <1>16 DEF EndInitPhase, Delivered, NextPhase
<1>17. CASE RemoveFeedback
  BY <1>17 DEF RemoveFeedback, Without
<1>18. CASE LaunchAgent
  <2>1. agents' \subseteq Phases
    BY <1>18 DEF LaunchAgent
  <2> QED BY <1>18, <2>1 DEF LaunchAgent, GiveUp
<1>19. CASE RunPrompt
  BY <1>19 DEF RunPrompt
<1>20. CASE CloseAgent
  <2>1. agents' \subseteq Phases /\ unclosed' \in BOOLEAN
    BY <1>20 DEF CloseAgent
  <2> QED BY <1>20, <2>1 DEF CloseAgent, GiveUp
<1>21. CASE EndStagePhase
  BY <1>21 DEF EndStagePhase
<1>22. CASE LoadAll
  BY <1>22 DEF LoadAll
<1>23. CASE RunRestartPrompt
  BY <1>23 DEF RunRestartPrompt
<1>24. CASE ReloadPlan
  BY <1>24 DEF ReloadPlan
<1>25. CASE TruncatePlan
  BY <1>25 DEF TruncatePlan
<1>26. CASE SavePlan
  BY <1>26 DEF SavePlan
<1>27. CASE RemoveNotes
  BY <1>27 DEF RemoveNotes
<1>28. CASE CloseRestart
  BY <1>28 DEF CloseRestart
<1>29. ASSUME NEW k \in {"create", "init", "restart"}, NEW f \in BOOLEAN,
               NEW place \in {"menu", "scaffold", "load"}, Start(k, f, place),
               k = "create" => ~f /\ place = "menu", k = "restart" => place = "load",
               k = "init" => place = "scaffold"
        PROVE  ProcessTyped'
  <2>1. forced' \in BOOLEAN /\ offered' \in BOOLEAN /\ unclosed' \in BOOLEAN
    BY <1>29 DEF Start
  <2> QED BY <1>29, <2>1 DEF Start
<1>30. CASE Killed
  BY <1>30 DEF Killed
<1>31. CASE Run
  BY <1>31 DEF Run
<1>32. CASE RemoveDesign
  BY <1>32 DEF RemoveDesign
<1> QED BY <1>1, <1>2, <1>3, <1>4, <1>5, <1>6, <1>7, <1>8, <1>9, <1>10, <1>11,
      <1>12, <1>13, <1>14, <1>15, <1>16, <1>17, <1>18, <1>19, <1>20, <1>21,
      <1>22, <1>23, <1>24, <1>25, <1>26, <1>27, <1>28, <1>29, <1>30, <1>31,
      <1>32 DEF Next, CreateStep, InitStep, AgentStep, RestartStep, UserStep

\* A command comes to a place only with the phase, the stage and the mode the place is for.
LEMMA WhereKept == ASSUME SetupInv, Next PROVE WhereInv'
<1> USE WorkspaceSetupAssumption DEF SetupInv, FilesTyped, ProcessTyped,
        WhereInv, Places, Phases, StagePhases, InitPhases, RestartPhases,
        AgentPlaces, StatePlaces, RestartPlaces, GoTo, Return, Defer,
        StartPhase, SameCommand, files, process, history
<1>1. CASE ShowMenu
  BY <1>1 DEF ShowMenu
<1>2. CASE ChoosePlanning
  BY <1>2 DEF ChoosePlanning
<1>3. CASE ChooseStop
  BY <1>3 DEF ChooseStop
<1>4. ASSUME NEW s \in Stages, ChooseStage(s) PROVE WhereInv'
  BY <1>4 DEF ChooseStage
<1>5. CASE LoadStageConfig
  BY <1>5 DEF LoadStageConfig
<1>6. CASE TruncateState
  BY <1>6 DEF TruncateState
<1>7. CASE WriteState
  BY <1>7 DEF WriteState
<1>8. CASE ConfirmCritic
  BY <1>8 DEF ConfirmCritic
<1>9. CASE Scaffold
  BY <1>9 DEF Scaffold
<1>10. CASE WriteConfig
  BY <1>10 DEF WriteConfig
<1>11. CASE LoadConfig
  BY <1>11 DEF LoadConfig
<1>12. CASE RemovePlan
  BY <1>12 DEF RemovePlan
<1>13. CASE RemoveComponents
  BY <1>13 DEF RemoveComponents
<1>14. CASE ResolveSources
  BY <1>14 DEF ResolveSources
<1>15. CASE ClearFeedback
  BY <1>15 DEF ClearFeedback, Without
<1>16. CASE EndInitPhase
  BY <1>16 DEF EndInitPhase, Delivered, NextPhase
<1>17. CASE RemoveFeedback
  BY <1>17 DEF RemoveFeedback, Without
<1>18. CASE LaunchAgent
  BY <1>18 DEF LaunchAgent, GiveUp
<1>19. CASE RunPrompt
  BY <1>19 DEF RunPrompt, AgentWrites, AuthorsDesign, Reads, WritesComponents,
       Criticises, WritesPlan
<1>20. CASE CloseAgent
  BY <1>20 DEF CloseAgent, GiveUp
<1>21. CASE EndStagePhase
  BY <1>21 DEF EndStagePhase
<1>22. CASE LoadAll
  BY <1>22 DEF LoadAll
<1>23. CASE RunRestartPrompt
  BY <1>23 DEF RunRestartPrompt, RewritesPlan
<1>24. CASE ReloadPlan
  BY <1>24 DEF ReloadPlan
<1>25. CASE TruncatePlan
  BY <1>25 DEF TruncatePlan
<1>26. CASE SavePlan
  BY <1>26 DEF SavePlan
<1>27. CASE RemoveNotes
  BY <1>27 DEF RemoveNotes
<1>28. CASE CloseRestart
  BY <1>28 DEF CloseRestart
<1>29. ASSUME NEW k \in {"create", "init", "restart"}, NEW f \in BOOLEAN,
               NEW place \in {"menu", "scaffold", "load"}, Start(k, f, place),
               k = "create" => ~f /\ place = "menu", k = "restart" => place = "load",
               k = "init" => place = "scaffold"
        PROVE  WhereInv'
  <2>1. command' # 0
    BY <1>29 DEF Start, ProcessTyped, Commands
  <2> QED BY <1>29, <2>1 DEF Start
<1>30. CASE Killed
  BY <1>30 DEF Killed
<1>31. CASE Run
  BY <1>31 DEF Run
<1>32. CASE RemoveDesign
  BY <1>32 DEF RemoveDesign
<1> QED BY <1>1, <1>2, <1>3, <1>4, <1>5, <1>6, <1>7, <1>8, <1>9, <1>10, <1>11,
      <1>12, <1>13, <1>14, <1>15, <1>16, <1>17, <1>18, <1>19, <1>20, <1>21,
      <1>22, <1>23, <1>24, <1>25, <1>26, <1>27, <1>28, <1>29, <1>30, <1>31,
      <1>32 DEF Next, CreateStep, InitStep, AgentStep, RestartStep, UserStep

\* An agent that a phase launches is gone after the phase.
LEMMA AgentKept == ASSUME SetupInv, Next PROVE AgentInv'
<1> USE WorkspaceSetupAssumption DEF SetupInv, WhereInv, AgentInv, AgentPlaces,
        StatePlaces, RestartPlaces, StagePhases, InitPhases, RestartPhases,
        GoTo, Return, Defer, StartPhase, SameCommand, files, process, history
<1>1. CASE ShowMenu
  BY <1>1 DEF ShowMenu
<1>2. CASE ChoosePlanning
  BY <1>2 DEF ChoosePlanning
<1>3. CASE ChooseStop
  BY <1>3 DEF ChooseStop
<1>4. ASSUME NEW s \in Stages, ChooseStage(s) PROVE AgentInv'
  BY <1>4 DEF ChooseStage
<1>5. CASE LoadStageConfig
  BY <1>5 DEF LoadStageConfig
<1>6. CASE TruncateState
  BY <1>6 DEF TruncateState
<1>7. CASE WriteState
  BY <1>7 DEF WriteState
<1>8. CASE ConfirmCritic
  BY <1>8 DEF ConfirmCritic
<1>9. CASE Scaffold
  BY <1>9 DEF Scaffold
<1>10. CASE WriteConfig
  BY <1>10 DEF WriteConfig
<1>11. CASE LoadConfig
  BY <1>11 DEF LoadConfig
<1>12. CASE RemovePlan
  BY <1>12 DEF RemovePlan
<1>13. CASE RemoveComponents
  BY <1>13 DEF RemoveComponents
<1>14. CASE ResolveSources
  BY <1>14 DEF ResolveSources
<1>15. CASE ClearFeedback
  BY <1>15 DEF ClearFeedback, Without
<1>16. CASE EndInitPhase
  BY <1>16 DEF EndInitPhase, Delivered, NextPhase
<1>17. CASE RemoveFeedback
  BY <1>17 DEF RemoveFeedback, Without
<1>18. CASE LaunchAgent
  BY <1>18 DEF LaunchAgent, GiveUp
<1>19. CASE RunPrompt
  BY <1>19 DEF RunPrompt, AgentWrites, AuthorsDesign, Reads, WritesComponents,
       Criticises, WritesPlan
<1>20. CASE CloseAgent
  BY <1>20 DEF CloseAgent, GiveUp
<1>21. CASE EndStagePhase
  BY <1>21 DEF EndStagePhase
<1>22. CASE LoadAll
  BY <1>22 DEF LoadAll
<1>23. CASE RunRestartPrompt
  BY <1>23 DEF RunRestartPrompt, RewritesPlan
<1>24. CASE ReloadPlan
  BY <1>24 DEF ReloadPlan
<1>25. CASE TruncatePlan
  BY <1>25 DEF TruncatePlan
<1>26. CASE SavePlan
  BY <1>26 DEF SavePlan
<1>27. CASE RemoveNotes
  BY <1>27 DEF RemoveNotes
<1>28. CASE CloseRestart
  BY <1>28 DEF CloseRestart
<1>29. ASSUME NEW k \in {"create", "init", "restart"}, NEW f \in BOOLEAN,
               NEW place \in {"menu", "scaffold", "load"}, Start(k, f, place),
               k = "create" => ~f /\ place = "menu", k = "restart" => place = "load",
               k = "init" => place = "scaffold"
        PROVE  AgentInv'
  BY <1>29 DEF Start
<1>30. CASE Killed
  BY <1>30 DEF Killed
<1>31. CASE Run
  BY <1>31 DEF Run
<1>32. CASE RemoveDesign
  BY <1>32 DEF RemoveDesign
<1> QED BY <1>1, <1>2, <1>3, <1>4, <1>5, <1>6, <1>7, <1>8, <1>9, <1>10, <1>11,
      <1>12, <1>13, <1>14, <1>15, <1>16, <1>17, <1>18, <1>19, <1>20, <1>21,
      <1>22, <1>23, <1>24, <1>25, <1>26, <1>27, <1>28, <1>29, <1>30, <1>31,
      <1>32 DEF Next, CreateStep, InitStep, AgentStep, RestartStep, UserStep

\* What init finds in the files is what its own agents have written.
LEMMA InitKept == ASSUME SetupInv, Next PROVE InitInv'
<1> USE WorkspaceSetupAssumption DEF SetupInv, FilesTyped, ProcessTyped,
        WhereInv, RestartInv, InitInv, InitDelivers, Succeeded, InInit, Blank,
        Subjects, Written, Plans, Absent, NoPlan, AgentPlaces, StatePlaces,
        RestartPlaces, StagePhases, InitPhases, RestartPhases, GoTo, Return,
        Defer, StartPhase, SameCommand, files, process, history
<1>1. CASE ShowMenu
  BY <1>1 DEF ShowMenu
<1>2. CASE ChoosePlanning
  BY <1>2 DEF ChoosePlanning
<1>3. CASE ChooseStop
  BY <1>3 DEF ChooseStop
<1>4. ASSUME NEW s \in Stages, ChooseStage(s) PROVE InitInv'
  BY <1>4 DEF ChooseStage
<1>5. CASE LoadStageConfig
  BY <1>5 DEF LoadStageConfig
<1>6. CASE TruncateState
  BY <1>6 DEF TruncateState
<1>7. CASE WriteState
  BY <1>7 DEF WriteState
<1>8. CASE ConfirmCritic
  BY <1>8 DEF ConfirmCritic
<1>9. CASE Scaffold
  BY <1>9 DEF Scaffold
<1>10. CASE WriteConfig
  BY <1>10 DEF WriteConfig
<1>11. CASE LoadConfig
  BY <1>11 DEF LoadConfig
<1>12. CASE RemovePlan
  BY <1>12 DEF RemovePlan
<1>13. CASE RemoveComponents
  BY <1>13 DEF RemoveComponents
<1>14. CASE ResolveSources
  BY <1>14 DEF ResolveSources
<1>15. CASE ClearFeedback
  BY <1>15 DEF ClearFeedback, Without
<1>16. CASE EndInitPhase
  BY <1>16 DEF EndInitPhase, Delivered, NextPhase
<1>17. CASE RemoveFeedback
  BY <1>17 DEF RemoveFeedback, Without
<1>18. CASE LaunchAgent
  BY <1>18 DEF LaunchAgent, GiveUp
<1>19. CASE RunPrompt
  BY <1>19 DEF RunPrompt, AgentWrites, AuthorsDesign, Reads, WritesComponents,
       Criticises, WritesPlan
<1>20. CASE CloseAgent
  BY <1>20 DEF CloseAgent, GiveUp
<1>21. CASE EndStagePhase
  BY <1>21 DEF EndStagePhase
<1>22. CASE LoadAll
  BY <1>22 DEF LoadAll
<1>23. CASE RunRestartPrompt
  BY <1>23 DEF RunRestartPrompt, RewritesPlan
<1>24. CASE ReloadPlan
  BY <1>24 DEF ReloadPlan
<1>25. CASE TruncatePlan
  BY <1>25 DEF TruncatePlan
<1>26. CASE SavePlan
  BY <1>26 DEF SavePlan
<1>27. CASE RemoveNotes
  BY <1>27 DEF RemoveNotes
<1>28. CASE CloseRestart
  BY <1>28 DEF CloseRestart
<1>29. ASSUME NEW k \in {"create", "init", "restart"}, NEW f \in BOOLEAN,
               NEW place \in {"menu", "scaffold", "load"}, Start(k, f, place),
               k = "create" => ~f /\ place = "menu", k = "restart" => place = "load",
               k = "init" => place = "scaffold"
        PROVE  InitInv'
  BY <1>29 DEF Start
<1>30. CASE Killed
  BY <1>30 DEF Killed
<1>31. CASE Run
  BY <1>31 DEF Run
<1>32. CASE RemoveDesign
  BY <1>32 DEF RemoveDesign
<1> QED BY <1>1, <1>2, <1>3, <1>4, <1>5, <1>6, <1>7, <1>8, <1>9, <1>10, <1>11,
      <1>12, <1>13, <1>14, <1>15, <1>16, <1>17, <1>18, <1>19, <1>20, <1>21,
      <1>22, <1>23, <1>24, <1>25, <1>26, <1>27, <1>28, <1>29, <1>30, <1>31,
      <1>32 DEF Next, CreateStep, InitStep, AgentStep, RestartStep, UserStep

\* A restart removes the notes of a plan that it has reset and saved.
LEMMA RestartKept == ASSUME SetupInv, Next PROVE RestartInv'
<1> USE WorkspaceSetupAssumption DEF SetupInv, FilesTyped, ProcessTyped,
        WhereInv, RestartInv, Blank, Plans, NoPlan, Commands, AgentPlaces,
        StatePlaces, RestartPlaces, StagePhases, InitPhases, RestartPhases,
        GoTo, Return, Defer, StartPhase, SameCommand, files, process, history
<1>1. CASE ShowMenu
  BY <1>1 DEF ShowMenu
<1>2. CASE ChoosePlanning
  BY <1>2 DEF ChoosePlanning
<1>3. CASE ChooseStop
  BY <1>3 DEF ChooseStop
<1>4. ASSUME NEW s \in Stages, ChooseStage(s) PROVE RestartInv'
  BY <1>4 DEF ChooseStage
<1>5. CASE LoadStageConfig
  BY <1>5 DEF LoadStageConfig
<1>6. CASE TruncateState
  BY <1>6 DEF TruncateState
<1>7. CASE WriteState
  BY <1>7 DEF WriteState
<1>8. CASE ConfirmCritic
  BY <1>8 DEF ConfirmCritic
<1>9. CASE Scaffold
  BY <1>9 DEF Scaffold
<1>10. CASE WriteConfig
  BY <1>10 DEF WriteConfig
<1>11. CASE LoadConfig
  BY <1>11 DEF LoadConfig
<1>12. CASE RemovePlan
  BY <1>12 DEF RemovePlan
<1>13. CASE RemoveComponents
  BY <1>13 DEF RemoveComponents
<1>14. CASE ResolveSources
  BY <1>14 DEF ResolveSources
<1>15. CASE ClearFeedback
  BY <1>15 DEF ClearFeedback, Without
<1>16. CASE EndInitPhase
  BY <1>16 DEF EndInitPhase, Delivered, NextPhase
<1>17. CASE RemoveFeedback
  BY <1>17 DEF RemoveFeedback, Without
<1>18. CASE LaunchAgent
  BY <1>18 DEF LaunchAgent, GiveUp
<1>19. CASE RunPrompt
  BY <1>19 DEF RunPrompt, AgentWrites, AuthorsDesign, Reads, WritesComponents,
       Criticises, WritesPlan
<1>20. CASE CloseAgent
  BY <1>20 DEF CloseAgent, GiveUp
<1>21. CASE EndStagePhase
  BY <1>21 DEF EndStagePhase
<1>22. CASE LoadAll
  BY <1>22 DEF LoadAll
<1>23. CASE RunRestartPrompt
  BY <1>23 DEF RunRestartPrompt, RewritesPlan
<1>24. CASE ReloadPlan
  BY <1>24 DEF ReloadPlan
<1>25. CASE TruncatePlan
  BY <1>25 DEF TruncatePlan
<1>26. CASE SavePlan
  BY <1>26 DEF SavePlan
<1>27. CASE RemoveNotes
  BY <1>27 DEF RemoveNotes
<1>28. CASE CloseRestart
  BY <1>28 DEF CloseRestart
<1>29. ASSUME NEW k \in {"create", "init", "restart"}, NEW f \in BOOLEAN,
               NEW place \in {"menu", "scaffold", "load"}, Start(k, f, place),
               k = "create" => ~f /\ place = "menu", k = "restart" => place = "load",
               k = "init" => place = "scaffold"
        PROVE  RestartInv'
  BY <1>29 DEF Start
<1>30. CASE Killed
  BY <1>30 DEF Killed
<1>31. CASE Run
  BY <1>31 DEF Run
<1>32. CASE RemoveDesign
  BY <1>32 DEF RemoveDesign
<1> QED BY <1>1, <1>2, <1>3, <1>4, <1>5, <1>6, <1>7, <1>8, <1>9, <1>10, <1>11,
      <1>12, <1>13, <1>14, <1>15, <1>16, <1>17, <1>18, <1>19, <1>20, <1>21,
      <1>22, <1>23, <1>24, <1>25, <1>26, <1>27, <1>28, <1>29, <1>30, <1>31,
      <1>32 DEF Next, CreateStep, InitStep, AgentStep, RestartStep, UserStep

\* What was heard out by the time of a phase of a stage.
LEMMA StageKept == ASSUME SetupInv, Next PROVE StageInv'
<1> USE WorkspaceSetupAssumption DEF SetupInv, WhereInv, StageInv, AgentPlaces,
        StatePlaces, StagePhases, InitPhases, GoTo, Return, Defer, StartPhase, SameCommand, files,
        process, history
<1>1. CASE ShowMenu
  BY <1>1 DEF ShowMenu
<1>2. CASE ChoosePlanning
  BY <1>2 DEF ChoosePlanning
<1>3. CASE ChooseStop
  BY <1>3 DEF ChooseStop
<1>4. ASSUME NEW s \in Stages, ChooseStage(s) PROVE StageInv'
  BY <1>4 DEF ChooseStage
<1>5. CASE LoadStageConfig
  BY <1>5 DEF LoadStageConfig
<1>6. CASE TruncateState
  BY <1>6 DEF TruncateState
<1>7. CASE WriteState
  BY <1>7 DEF WriteState
<1>8. CASE ConfirmCritic
  BY <1>8 DEF ConfirmCritic
<1>9. CASE Scaffold
  BY <1>9 DEF Scaffold
<1>10. CASE WriteConfig
  BY <1>10 DEF WriteConfig
<1>11. CASE LoadConfig
  BY <1>11 DEF LoadConfig
<1>12. CASE RemovePlan
  BY <1>12 DEF RemovePlan
<1>13. CASE RemoveComponents
  BY <1>13 DEF RemoveComponents
<1>14. CASE ResolveSources
  BY <1>14 DEF ResolveSources
<1>15. CASE ClearFeedback
  BY <1>15 DEF ClearFeedback, Without
<1>16. CASE EndInitPhase
  BY <1>16 DEF EndInitPhase, Delivered, NextPhase
<1>17. CASE RemoveFeedback
  BY <1>17 DEF RemoveFeedback, Without
<1>18. CASE LaunchAgent
  BY <1>18 DEF LaunchAgent, GiveUp
<1>19. CASE RunPrompt
  BY <1>19 DEF RunPrompt, AgentWrites, AuthorsDesign, Reads, WritesComponents,
       Criticises, WritesPlan
<1>20. CASE CloseAgent
  BY <1>20 DEF CloseAgent, GiveUp
<1>21. CASE EndStagePhase
  BY <1>21 DEF EndStagePhase
<1>22. CASE LoadAll
  BY <1>22 DEF LoadAll
<1>23. CASE RunRestartPrompt
  BY <1>23 DEF RunRestartPrompt, RewritesPlan
<1>24. CASE ReloadPlan
  BY <1>24 DEF ReloadPlan
<1>25. CASE TruncatePlan
  BY <1>25 DEF TruncatePlan
<1>26. CASE SavePlan
  BY <1>26 DEF SavePlan
<1>27. CASE RemoveNotes
  BY <1>27 DEF RemoveNotes
<1>28. CASE CloseRestart
  BY <1>28 DEF CloseRestart
<1>29. ASSUME NEW k \in {"create", "init", "restart"}, NEW f \in BOOLEAN,
               NEW place \in {"menu", "scaffold", "load"}, Start(k, f, place),
               k = "create" => ~f /\ place = "menu", k = "restart" => place = "load",
               k = "init" => place = "scaffold"
        PROVE  StageInv'
  BY <1>29 DEF Start
<1>30. CASE Killed
  BY <1>30 DEF Killed
<1>31. CASE Run
  BY <1>31 DEF Run
<1>32. CASE RemoveDesign
  BY <1>32 DEF RemoveDesign
<1> QED BY <1>1, <1>2, <1>3, <1>4, <1>5, <1>6, <1>7, <1>8, <1>9, <1>10, <1>11,
      <1>12, <1>13, <1>14, <1>15, <1>16, <1>17, <1>18, <1>19, <1>20, <1>21,
      <1>22, <1>23, <1>24, <1>25, <1>26, <1>27, <1>28, <1>29, <1>30, <1>31,
      <1>32 DEF Next, CreateStep, InitStep, AgentStep, RestartStep, UserStep

-----------------------------------------------------------------------------
(***************************************************************************)
(* The inductive invariant, and what follows from it.                      *)
(***************************************************************************)

\* It holds of a workspace in which nothing has been done yet.
LEMMA SetupInit == Init => SetupInv
<1> SUFFICES ASSUME Init PROVE SetupInv
  OBVIOUS
<1> USE WorkspaceSetupAssumption DEF Init, Absent, NoPlan
<1>1. FilesTyped
  BY DEF FilesTyped, Written, Plans
<1>2. ProcessTyped
  BY DEF ProcessTyped, Commands, Places
<1>3. WhereInv /\ AgentInv
  BY DEF WhereInv, AgentInv, AgentPlaces, StatePlaces, RestartPlaces, RestartPhases
<1>4. InitInv /\ RestartInv
  BY DEF InitInv, InitDelivers, Succeeded, InInit, AgentPlaces, RestartInv, Blank
<1>5. StageInv
  BY DEF StageInv, AgentPlaces, StatePlaces
<1> QED BY <1>1, <1>2, <1>3, <1>4, <1>5 DEF SetupInv

\* And of a workspace in which nothing changes.
LEMMA SetupStutters == ASSUME SetupInv, UNCHANGED vars PROVE SetupInv'
<1> USE DEF vars, files, process, history
<1>1. FilesTyped' /\ ProcessTyped'
  BY DEF SetupInv, FilesTyped, ProcessTyped
<1>2. WhereInv' /\ AgentInv'
  BY DEF SetupInv, WhereInv, AgentInv
<1>3. InitInv'
  BY DEF SetupInv, InitInv, InitDelivers, Succeeded, InInit, Blank
<1>4. RestartInv' /\ StageInv'
  BY DEF SetupInv, RestartInv, StageInv, Blank
<1> QED BY <1>1, <1>2, <1>3, <1>4 DEF SetupInv

\* Whatever the commands are, when they are killed and what their agents write:
\* the conjuncts of SetupInv hold.
THEOREM SetupInvariant == Spec => []SetupInv
<1>1. SetupInv /\ [Next]_vars => SetupInv'
  <2>1. ASSUME SetupInv, Next PROVE SetupInv'
    BY <2>1, FilesTypeKept, ProcessTypeKept, WhereKept, AgentKept, InitKept,
       RestartKept, StageKept DEF SetupInv
  <2> QED BY <2>1, SetupStutters
<1> QED BY SetupInit, <1>1, PTL DEF Spec

\* The variables have their types.
THEOREM SetupTypeCorrect == Spec => []TypeOK
<1>1. SetupInv => TypeOK
  BY DEF SetupInv, FilesTyped, ProcessTyped, TypeOK
<1> QED BY <1>1, SetupInvariant, PTL

\* Of the agents of create, init and restart at most one is up, whatever fails;
\* one that outlives its command could not be closed.
THEOREM SetupOneAgent == Spec => []OneAgent
<1>1. SetupInv => OneAgent
  <2> SUFFICES ASSUME SetupInv PROVE OneAgent
    OBVIOUS
  <2> USE DEF SetupInv, WhereInv, AgentInv
  <2>1. agents \subseteq {IF phase \in RestartPhases THEN "replan" ELSE phase}
    <3>1. CASE at \in {"prompt", "close", "giveUp"}
      BY <3>1 DEF AgentPlaces, StagePhases, InitPhases, RestartPhases
    <3>2. CASE at \in RestartPlaces
      BY <3>2
    <3> QED BY <3>1, <3>2
  <2>2. at \in {"idle", "launch"} => (agents # {} => unclosed)
    BY DEF RestartPlaces
  <2> QED BY <2>1, <2>2 DEF OneAgent
<1> QED BY <1>1, SetupInvariant, PTL

\* The state file of create names the stage that was chosen, once its author, and
\* then the critic and the follow-up, have been heard out.
THEOREM SetupLastStageIsDone == Spec => LastStageIsDone
<1> DEFINE Recorded == /\ lastStage' = stage /\ {"author", phase} \subseteq heard
                       /\ phase = "followUp" => "critic" \in heard
<1>1. SetupInv /\ [Next]_vars => [lastStage' # lastStage /\ lastStage' \in Stages => Recorded]_vars
  <2> SUFFICES ASSUME SetupInv, Next, lastStage' # lastStage, lastStage' \in Stages
               PROVE  Recorded
    OBVIOUS
  <2>1. CASE WriteState
    BY <2>1 DEF WriteState, SetupInv, WhereInv, StageInv, StatePlaces
  <2>2. CASE TruncateState
    BY <2>2, WorkspaceSetupAssumption DEF TruncateState
  <2>3. CASE Next /\ ~(WriteState \/ TruncateState)
    BY <2>3 DEF Next, CreateStep, InitStep, AgentStep, RestartStep, UserStep, files,
          process, history, ShowMenu, ChoosePlanning, ChooseStop, ChooseStage,
          LoadStageConfig, ConfirmCritic, Scaffold, WriteConfig, LoadConfig,
          RemovePlan, RemoveComponents, ResolveSources, ClearFeedback, EndInitPhase,
          RemoveFeedback, LaunchAgent, RunPrompt, CloseAgent, EndStagePhase, LoadAll,
          ReloadPlan, RunRestartPrompt, TruncatePlan, SavePlan, RemoveNotes, Run,
          CloseRestart, Start, Killed, RemoveDesign
  <2> QED BY <2>1, <2>2, <2>3
<1> QED BY <1>1, SetupInvariant, PTL DEF Spec, LastStageIsDone

\* An author of init revises for what the critic of the same init has written.
THEOREM SetupFeedbackIsFresh == Spec => []FeedbackIsFresh
<1>1. SetupInv => FeedbackIsFresh
  <2> SUFFICES ASSUME SetupInv, at = "prompt",
                      NEW s \in Subjects, phase \in InitPhases, feedback[s].good
               PROVE  feedback[s] = [by |-> command, good |-> TRUE]
    BY DEF FeedbackIsFresh, SetupInv, InitInv, InInit, AgentPlaces, InitPhases, Subjects
  <2>1. feedback[s].by = command
    BY DEF SetupInv, InitInv, InInit, AgentPlaces, Blank
  <2>2. feedback[s] \in Written
    BY DEF SetupInv, FilesTyped
  <2> QED BY <2>1, <2>2 DEF Written
<1> QED BY <1>1, SetupInvariant, PTL

\* An init that says it succeeded has written a valid plan itself, with -force
\* for components of its own.
THEOREM SetupInitDelivers == Spec => []InitDelivers
<1>1. SetupInv => InitDelivers
  BY DEF SetupInv, InitInv
<1> QED BY <1>1, SetupInvariant, PTL

\* After a restart that says it succeeded the plan is valid and without
\* progress, and the notes are gone.
THEOREM SetupRestartDelivers == Spec => []RestartDelivers
<1>1. SetupInv => RestartDelivers
  BY DEF SetupInv, RestartInv, RestartDelivers, Succeeded
<1> QED BY <1>1, SetupInvariant, PTL

\* The notes go only when the plan that was to learn from them is ready.
THEOREM SetupNotesOutlivePlan == Spec => NotesOutlivePlan
<1>1. SetupInv /\ [Next]_vars => [notes /\ ~notes' => plan.good /\ ~plan.progress]_vars
  <2> SUFFICES ASSUME SetupInv, Next, notes, ~notes'
               PROVE  plan.good /\ ~plan.progress
    OBVIOUS
  <2>1. CASE RemoveNotes
    BY <2>1 DEF RemoveNotes, SetupInv, RestartInv
  <2>2. CASE Next /\ ~RemoveNotes
    BY <2>2 DEF Next, CreateStep, InitStep, AgentStep, RestartStep, UserStep, files,
          process, history, ShowMenu, ChoosePlanning, ChooseStop, ChooseStage,
          LoadStageConfig, TruncateState, WriteState, ConfirmCritic, Scaffold,
          WriteConfig, LoadConfig, RemovePlan, RemoveComponents, ResolveSources,
          ClearFeedback, EndInitPhase, RemoveFeedback, LaunchAgent, RunPrompt,
          CloseAgent, EndStagePhase, LoadAll, ReloadPlan, RunRestartPrompt,
          TruncatePlan, SavePlan, Run, CloseRestart, Start, Killed, RemoveDesign
  <2> QED BY <2>1, <2>2
<1> QED BY <1>1, SetupInvariant, PTL DEF Spec, NotesOutlivePlan

\* A create or an init without -force leaves a plan alone that it finds.
THEOREM SetupUnforcedKeepsPlan == Spec => UnforcedKeepsPlan
<1> DEFINE Foreign == /\ at # "idle" /\ plan.by \notin {0, command}
                      /\ kind = "create" \/ (kind = "init" /\ ~forced)
<1>1. SetupInv /\ [Next]_vars => [Foreign => plan' = plan]_vars
  <2> SUFFICES ASSUME SetupInv, Next, Foreign PROVE plan' = plan
    OBVIOUS
  <2>1. ~forced
    BY DEF SetupInv, WhereInv
  <2>2. CASE RemovePlan
    BY <2>1, <2>2 DEF RemovePlan, SetupInv, WhereInv
  <2>3. CASE RunPrompt
    <3>1. ~(phase \in InitPhases)
      BY <2>3 DEF RunPrompt, SetupInv, InitInv, InInit, AgentPlaces, Blank
    <3> QED BY <2>3, <3>1 DEF RunPrompt, AgentWrites, AuthorsDesign, Reads,
          WritesComponents, Criticises, WritesPlan, InitPhases, StagePhases
  <2>4. CASE RunRestartPrompt \/ TruncatePlan \/ SavePlan
    BY <2>4 DEF RunRestartPrompt, TruncatePlan, SavePlan, SetupInv, WhereInv, RestartPlaces
  <2>5. CASE Run
    BY <2>5 DEF Run
  <2>6. CASE Next /\ ~(\/ RemovePlan \/ RunPrompt \/ RunRestartPrompt
                       \/ TruncatePlan \/ SavePlan \/ Run)
    BY <2>6 DEF Next, CreateStep, InitStep, AgentStep, RestartStep, UserStep, files,
          process, history, ShowMenu, ChoosePlanning, ChooseStop, ChooseStage,
          LoadStageConfig, TruncateState, WriteState, ConfirmCritic, Scaffold,
          WriteConfig, LoadConfig,  RemoveComponents, ResolveSources, ClearFeedback,
          EndInitPhase, RemoveFeedback, LaunchAgent,  CloseAgent, EndStagePhase,
          LoadAll, ReloadPlan, RemoveNotes, CloseRestart, Start, Killed, RemoveDesign
  <2> QED BY <2>2, <2>3, <2>4, <2>5, <2>6
<1> QED BY <1>1, SetupInvariant, PTL DEF Spec, UnforcedKeepsPlan
=============================================================================
