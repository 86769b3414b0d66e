CONSTANTS
  NumTasks = 3
  Deps <- Knot3
  Msgs = {"a", "b"}
  HasVerify <- BothTasks
  AbortsAt <- NoPhase
  Steps <- DefaultSteps
  AgentResults <- AllResults
  AgentTexts <- NoTexts
  MaxIterations = 3
  MaxStalled = 2
  MaxRuns = 1
SPECIFICATION Spec
INVARIANTS StuckOnlyOnCycle
PROPERTIES DoneOnFreshResult
CHECK_DEADLOCK FALSE
