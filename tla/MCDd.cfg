SPECIFICATION DdSpec
CONSTANTS
  Guests = {g1}
  BalloonMin = 20
  BalloonMax = 22
  Chunk = 2
  MB = 1
  Den = 10
  Pages = 2
  Scarce = 2
  NoTarget = NoTarget
  HistoryLength = 2
  UnusedLevels = {2, 14}
  InitialHostFree = {3}
  InitialSizes = {20}
  PolicyTypes = {"step", "ref"}
  StepParams <- OneStepPolicy
  RefParams <- WideRefPolicy
  RuleFiles <- AllRuleFiles
  Need <- OneBusyGuest
  Busy = g1
  MaxHostFree = 3
CONSTRAINTS HostFreeBound SizeBound ParamsMatter
INVARIANTS DdLedgerNonNegative DdInv
PROPERTY DdLedgerDrift
