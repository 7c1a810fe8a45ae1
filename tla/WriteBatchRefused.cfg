CONSTANTS
  N = 3
  NB = 2
  Last <- Plan21
  MaxCalls = 2
  Faults <- RefusedFaults
  Callers = {"reapply_fresh"}
SPECIFICATION Spec
CHECK_DEADLOCK FALSE
INVARIANT OkMeansApplied
