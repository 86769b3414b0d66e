CONSTANTS
  Tasks = {t1, t2}
  Main = main
  Workflow <- Workflows
  NumSteps = 3
  MaxFaults = 1
  t1 = t1
  t2 = t2
  Parallelism = 2
  MaxIterations = 2
  MaxRuns = 2
SPECIFICATION Spec
INVARIANTS TypeOK NoStrayAgents RunEndsClean ActiveIsShown ClearedWhenDone
CHECK_DEADLOCK FALSE
