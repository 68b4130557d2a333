SPECIFICATION Spec
CONSTANTS
  LastName = 2
  DefaultName = 2
  Callers = {c1, c2}
  Engine = Engine
  Free = Free
  good = good
  bad = bad
  comment = comment
  empty = empty
  Good = {good, empty}
  Bad = {bad}
  Garbled = {}
  Commented = {comment}
  Blank = {comment, empty}
  EmptyText = empty
  NoText = NoText
  NoCode = NoCode
  PolicyFiles <- SomeFiles
INVARIANTS CodeIsOfStore RepliesNeverRefused DeleteNeverFaults EvaluatesStoredPolicy
PROPERTIES MapSpec CallReturns
