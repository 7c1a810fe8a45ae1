CONSTANTS
  N = 3
  NB = 2
  Last <- Plan21
  MaxCalls = 1
  Faults <- SaveKillFaults
  Callers = {"resume_advised"}
SPECIFICATION Spec
CHECK_DEADLOCK FALSE
INVARIANT SafeMeansUnchanged
