\* Seven plans of three tasks, two workers, one retry, any write may fail.
SPECIFICATION FairSpec
CONSTANTS
  NTasks = 3
  Ids <- MCIds
  Plans <- MCPlans
  MaxConcurrent = 2
  MaxRetries = 1
  LogMayFail = TRUE
INVARIANT CapRespected
INVARIANT NoAgentWithoutWorktree
INVARIANT DependenciesReported
INVARIANT EveryTaskReportedOnce
PROPERTY Terminates
PROPERTY SlotsReturned
CHECK_DEADLOCK FALSE
