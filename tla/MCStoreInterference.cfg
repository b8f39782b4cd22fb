CONSTANTS
  Clients = {c1}
  Newer = {}
  Documents = {a, b}
  FutureDocuments = {}
  DirIds = {d1, d2}
  FirstDir = d1
  NotRead = NotRead
  NoRecord = NoRecord
  MaxGen = 3
  MaxEntries = 3
  Ticks = {1}
  MaxOps = 2
  MaxMutations = 2
  MaxCrashes = 0
SPECIFICATION MCSpec
INVARIANTS AnswersLinearize OutcomeMatchesCommit
CHECK_DEADLOCK FALSE
