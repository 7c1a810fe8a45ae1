CONSTANTS
  N = 4
  NB = 3
  Last <- Plan211
  MaxCalls = 3
  Faults <- LaterFaults
  Callers = {"resume_advised", "resume_crashed", "reapply_fresh"}
  LinkPlans <- Relinks211
SPECIFICATION LSpec
CHECK_DEADLOCK FALSE
INVARIANTS
  SafeMeansUnchanged
  NeverAppliedTwice
  LinksRight
  RefusedMeansMissing
PROPERTIES
  PromiseKept
  CallEnds
