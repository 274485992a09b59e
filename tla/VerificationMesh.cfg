SPECIFICATION FairSpec
CONSTANTS
  Tasks = {t1, t2, t3}
  Inputs <- MCInputs
  Parallel = 2
  Costs = {1, 4}
  GroqCost = 1
  MaxCost = 4
  max_extra_cost_pct = 50
  LogMayFail = TRUE
INVARIANT OvershootBounded
PROPERTY AnswerOfASurvives
CHECK_DEADLOCK FALSE
