CONSTANTS
  NumTasks = 2
  Deps <- Independent2
  Msgs = {"a"}
  HasVerify <- BothTasks
  AbortsAt <- NoPhase
  Steps <- ShortSteps
  AgentResults <- TwoResults
  AgentTexts <- NoTexts
  MaxIterations = 0
  MaxStalled = 2
  MaxRuns = 1
  Limit = 2
  OwnsPaths <- OwnsPathsOf
  OwnedPaths <- NoPaths
  Contracts <- NoPaths
  ConflictsWith <- NoConflicts
  WorkerResults <- ThreeResults
  Failures <- SyncOnly
SPECIFICATION ParallelSpec
PROPERTIES RejectedIsUndone
CHECK_DEADLOCK FALSE
