CONSTANTS
  Door = Door
  Window = Window
  NoName = NoName
  Names = {Door, Window}
  MaxOps = 5
  Patches <- PatchesMC
  Limits = {1, 2, 3}
SPECIFICATION Spec
INVARIANTS
  ValidatorAccepts
  PlanFitsLane
  BatchesBounded
