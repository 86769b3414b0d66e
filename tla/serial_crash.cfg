CONSTANTS
  NumTasks = 2
  Deps <- Independent2
  Msgs = {"a"}
  HasVerify <- BothTasks
  AbortsAt <- AnyPhase
  Steps <- ReviewedSteps
  AgentResults <- TwoResults
  AgentTexts <- NoTexts
  MaxIterations = 0
  MaxStalled = 2
  MaxRuns = 2
SPECIFICATION Spec
INVARIANTS TypeOK DoneIsVerified StallStaysOnItem
PROPERTIES PlanFollowsNotes RepairFirst UnreviewedIsNotDone ImplementsQueue
CHECK_DEADLOCK FALSE
