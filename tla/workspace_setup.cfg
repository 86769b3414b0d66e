CONSTANTS
  Stages <- TwoStages
  MaxCommands = 3
SPECIFICATION Spec
INVARIANTS TypeOK OneAgent FeedbackIsFresh InitDelivers RestartDelivers
PROPERTIES LastStageIsDone NotesOutlivePlan UnforcedKeepsPlan
CHECK_DEADLOCK FALSE
