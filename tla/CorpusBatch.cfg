CONSTANTS
  F = 2
  Ops = {"a", "b"}
  MaxCalls = 2
  Faults <- CorpusFaults
  Callers = {"same_ops", "changed_ops"}
SPECIFICATION FairSpec
CHECK_DEADLOCK FALSE
INVARIANTS
  OkEnvelopeComplete
  OkMeansRequested
  SummaryAgrees
PROPERTY CallEnds
