\* Three tasks, two lanes, one retry, two calls of initialize.
SPECIFICATION Spec
CONSTANTS
  Task = {"t1", "t2", "t3"}
  Plans <- MCPlans
  NLanes = 2
  MaxRetry = 1
  MaxInit = 2
  MayReject = TRUE
INVARIANT DependenciesFirst
INVARIANT IdleMeansNothingInProgress
INVARIANT LanesMatchDisk
PROPERTY ExecuteAllEnds
CHECK_DEADLOCK FALSE
