SPECIFICATION Spec
CONSTANTS
  Values = {0, 1}
  half = half
  Fractions = {half}
  Whole <- RoundedDown
  Wishes <- SomeWishes
  Refs = {1, 2, 3}
  Unset = Unset
  Missing = Missing
  Expired = Expired
  NoGuest = NoGuest
  MaxFaults = 2
  MaxChanges = 2
INVARIANTS
  TuningInv
PROPERTIES
  TuningConverges
  WritesStop
