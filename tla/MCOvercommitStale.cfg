SPECIFICATION LiveSpec
CONSTANTS
  Guests = {g1, g2}
  BalloonMin = 1
  BalloonMax = 3
  Chunk = 1
  MB = 1
  Den = 10
  NoTarget = NoTarget
  HistoryLength = 1
  UnusedLevels = {0, 2}
  InitialHostFree = {0}
  InitialSizes = {2}
  PolicyTypes = {"step"}
  StepParams <- OneStepPolicy
  RefParams <- OneRefPolicy
  MaxHostFree = 9
INVARIANT NoOvercommitAtRest
