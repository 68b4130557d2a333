SPECIFICATION SteadySpec
CONSTANTS
  Guests = {g1, g2}
  Busy = g1
  Need <- OneBusyGuest
  BalloonMin = 16
  BalloonMax = 36
  Chunk = 2
  MB = 1
  Den = 10
  Pages = 2
  Scarce = 3
  NoTarget = NoTarget
  HistoryLength = 1
  UnusedLevels = {0, 1, 2, 3, 4, 5, 6, 7, 8, 9, 10, 11, 12, 13, 14, 15, 16, 17, 18, 19, 20, 21, 22}
  InitialHostFree = {2, 6}
  InitialSizes = {16, 32}
  PolicyTypes = {"step"}
  StepParams <- OneStepPolicy
  RefParams <- WideRefPolicy
  RuleFiles = {"Wei-Zhe_Zhang", "U-tube", "dynamic_memory_allocation_controller"}
  MaxHostFree = 9
PROPERTY TargetsSettle
