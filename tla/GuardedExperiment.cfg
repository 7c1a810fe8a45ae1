\* Two calls, three changes by others.
SPECIFICATION Spec
CONSTANTS
  MaxEdits = 3
  MaxCalls = 2
CHECK_DEADLOCK FALSE
INVARIANTS
  TypeOK
  EvidenceHeld
  ReceiptIsTrue
