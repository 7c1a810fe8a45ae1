CONSTANTS
  N = 3
  NB = 2
  Last <- Plan21
  MaxEdits = 1
  MaxCalls = 1
  Faults = {"inspect_error"}
SPECIFICATION Spec
CHECK_DEADLOCK FALSE
INVARIANT InspectsMatch
