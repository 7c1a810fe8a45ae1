CONSTANTS
  N = 3
  NB = 2
  Last <- Plan21
  MaxCalls = 2
  Faults <- StaleFaults
  Callers = {"resume_advised"}
SPECIFICATION Spec
CHECK_DEADLOCK FALSE
INVARIANT PassMeansPersisted
