CONSTANTS
  F = 1
  Ops = {"a", "b"}
  MaxCalls = 2
  Faults <- StaleFaults
  Callers = {"changed_ops"}
SPECIFICATION Spec
CHECK_DEADLOCK FALSE
INVARIANT OkMeansRequested
