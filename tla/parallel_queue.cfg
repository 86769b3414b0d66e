CONSTANTS
  NumTasks = 3
  Deps <- Fan3
  Msgs = {"a"}
  HasVerify <- BothTasks
  AbortsAt <- CommitOnly
  Steps <- ShortSteps
  AgentResults <- TwoResults
  AgentTexts <- NoTexts
  MaxIterations = 0
  MaxStalled = 1
  MaxRuns = 2
  Limit = 3
  OwnsPaths <- OwnsPathsOf
  OwnedPaths <- NoPaths
  Contracts <- NoPaths
  ConflictsWith <- NoConflicts
  WorkerResults <- ThreeResults
  Failures <- WorkerFailures
SPECIFICATION ParallelSpec
INVARIANTS UnsettledRunsAlone DoneIsVerified StrandedIsKept
PROPERTIES ImplementsQueue
CHECK_DEADLOCK FALSE
