CONSTANTS
  NumTasks = 1
  Deps <- NoDeps1
  Msgs = {"a"}
  HasVerify <- BothTasks
  AbortsAt <- NoPhase
  Steps <- ReviewedSteps
  AgentResults <- SomeResult
  AgentTexts <- NoTexts
  MaxIterations = 0
  MaxStalled = 2
  MaxRuns = 2
SPECIFICATION Spec
PROPERTIES DoneIsReviewed
CHECK_DEADLOCK FALSE
