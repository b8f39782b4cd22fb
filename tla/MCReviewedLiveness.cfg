CONSTANTS
  Invocations = {i1, i2}
  Revisions = {r1}
  Edits = {}
  Dirs = {d1, d2, d3}
  NotRead = NotRead
  NoRecord = NoRecord
  None = None
  MaxKills = 1
  MaxRogue = 0
  Root = root
  Kids = {k1, k2}
  OutputLimit = 1
  Scenarios <- SmallScenarios
SPECIFICATION LiveSpec
INVARIANTS NothingLeftBehind BoundedOutcomeTruthful
PROPERTIES EveryInvocationEnds BoundedCallReturns
CHECK_DEADLOCK FALSE
