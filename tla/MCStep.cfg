SPECIFICATION Spec
CONSTANTS
  Guests = {g1, g2}
  BalloonMin = 2
  BalloonMax = 3
  Chunk = 2
  MB = 1
  Den = 10
  NoTarget = NoTarget
  HistoryLength = 1
  UnusedLevels = {0, 2}
  InitialHostFree = {1}
  InitialSizes = {2, 3}
  PolicyTypes = {"step"}
  StepParams <- OneStepPolicy
  RefParams <- OneRefPolicy
  MaxHostFree = 2
SYMMETRY GuestSymmetry
CONSTRAINT HostFreeBound
INVARIANTS StepInv HostFreeNonNegative TargetsInBounds
PROPERTY LedgerDriftsOnlyFromStaleOrDropped
