CONSTANTS
  N = 3
  NB = 2
  Last <- Plan21
  MaxCalls = 2
  Faults <- CrashFaults
  Callers = {"resume_crashed"}
SPECIFICATION Spec
CHECK_DEADLOCK FALSE
INVARIANT NeverAppliedTwice
