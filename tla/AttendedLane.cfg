CONSTANTS
  Pids = {1, 2}
  MaxBirths = 3
  MaxCalls = 2
  Plans <- LanePlans
SPECIFICATION FairSpec
CHECK_DEADLOCK FALSE
INVARIANTS
  TypeOK
  OkMeansClosed
  OkRestores
  OkIsFresh
PROPERTIES
  ReceiptStands
  OnlyUsersClose
  CallReturns
