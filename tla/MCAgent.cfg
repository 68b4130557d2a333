SPECIFICATION Spec
CONSTANTS
  MaxRounds = 6
  MaxRestarts = 1
INVARIANTS
  AgentInv
PROPERTIES
  SamplesAreFresh
  DeltasTile
  SuccessClosesFiles
  CollectEnds
CHECK_DEADLOCK FALSE
