\* The same pipe and clients, and what the source says of every client.
SPECIFICATION FairSpec
CONSTANTS
  HeaderLen = 2
  BodyLen = 2
  Cap = 3
  Plans <- ClientPlans
CHECK_DEADLOCK FALSE
PROPERTIES
  PumpEnds
