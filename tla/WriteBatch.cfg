CONSTANTS
  N = 4
  NB = 3
  Last <- Plan211
  MaxCalls = 3
  Faults <- CallerFaults
  Callers = {"once", "resume_advised", "resume_crashed", "reapply_fresh"}
SPECIFICATION Spec
CHECK_DEADLOCK FALSE
INVARIANTS
  TypeOK
  OkMeansApplied
  PassMeansPersisted
  ReportExact
