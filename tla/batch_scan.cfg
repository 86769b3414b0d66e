CONSTANTS
  NumTasks = 6
  Deps <- DepsOf
  Limit = 3
  OwnsPaths <- OwnsPathsOf
  OwnedPaths <- OwnedPathsOf
  Contracts <- ContractsOf
  ConflictsWith <- ConflictsOf
  Names = {"a", "b"}
  MaxPattern = 4
  MaxPath = 5
SPECIFICATION Spec
INVARIANTS PairwiseSafe NextIsSelected ScanIsBatch OverlapMeetsOwnership
CHECK_DEADLOCK FALSE
