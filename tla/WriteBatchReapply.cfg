CONSTANTS
  N = 3
  NB = 2
  Last <- Plan21
  MaxCalls = 2
  Faults <- ReapplyFaults
  Callers = {"reapply"}
SPECIFICATION Spec
CHECK_DEADLOCK FALSE
INVARIANT OkMeansApplied
