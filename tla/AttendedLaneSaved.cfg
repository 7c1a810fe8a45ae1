CONSTANTS
  Pids = {1, 2}
  MaxBirths = 3
  MaxCalls = 1
  Plans <- PlainPlans
SPECIFICATION Spec
CHECK_DEADLOCK FALSE
INVARIANT OkIsSaved
