CONSTANTS
  NumTasks = 2
  Deps <- Independent2
  Msgs = {"a"}
  HasVerify <- BothTasks
  AbortsAt <- CommitOnly
  Steps <- LenientSteps
  AgentResults <- TwoResults
  AgentTexts <- OneText
  MaxIterations = 0
  MaxStalled = 2
  MaxRuns = 1
  Limit = 2
  OwnsPaths <- OwnsPathsOf
  OwnedPaths <- NoPaths
  Contracts <- NoPaths
  ConflictsWith <- NoConflicts
  WorkerResults <- ThreeResults
  Failures <- RootFailures
SPECIFICATION ParallelFairSpec
INVARIANTS ParallelTypeOK StallsStayOnTheirBatch
PROPERTIES ParallelStopsOrProgresses BatchIsRecorded RejectedIsUndone
CHECK_DEADLOCK FALSE
