\* Headers and bodies of two bytes in a pipe of three; clients that do as they like.
SPECIFICATION FairSpec
CONSTANTS
  HeaderLen = 2
  BodyLen = 2
  Cap = 3
  Plans <- ClientPlans
CHECK_DEADLOCK FALSE
INVARIANTS
  TypeOK
  InStep
  StopAnswered
PROPERTIES
  EndsOrHeld
