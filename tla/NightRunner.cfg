\* Three units, two workers, two failures in a row open the breaker, three runs, one of them killed.
SPECIFICATION FairSpec
CONSTANTS
  N = 3
  Concurrency = 2
  MaxFailures = 2
  Beat = 2
  MaxRuns = 3
  MaxCrashes = 1
CHECK_DEADLOCK FALSE
INVARIANTS
  TypeOK
  OkHasClaim
  ReceiptedOnce
  ChainVerifies
  StateIsTrue
PROPERTIES
  RunEnds
