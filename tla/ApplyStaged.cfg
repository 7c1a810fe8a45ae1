CONSTANTS
  N = 3
  NB = 2
  Last <- Plan21
  MaxEdits = 2
  MaxCalls = 2
  Faults <- NoticedFaults
SPECIFICATION Spec
CHECK_DEADLOCK FALSE
INVARIANTS
  OkIsPatched
  InspectsMatch
PROPERTY CopyPromiseKept
