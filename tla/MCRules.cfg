SPECIFICATION Spec
CONSTANTS
  g1 = g1
  g2 = g2
  Host = Host
  Guests = {g1, g2}
  GuestOrder <- Order
  BalloonMin = 2
  BalloonMax = 7
  Den = 10
  GrowStep = 4
  ShrinkStep = 1
  StepGap = 2
  GrowThreshold = 7
  ShrinkThreshold = 6
  InitialHostFree = 3
  InitialCur <- Sizes
  UnusedLevels = {0, 1, 3}
  ShortTexts <- Short
  Programs <- ParserTests
  NoTarget = NoTarget
  NoCode = NoCode
  NoResults = NoResults
  Raised = Raised
  PolicyError = PolicyError
  IndexError = IndexError
CONSTRAINT UntilFirstFailure
CHECK_DEADLOCK FALSE
INVARIANTS CompiledAsWritten RuleInv ProgramsEvaluate LedgerExact
PROPERTY AgreesWithOptStep
