CONSTANTS
  Clients = {c1, c2}
  Newer = {c2}
  Documents = {a}
  FutureDocuments = {f}
  DirIds = {d1}
  FirstDir = d1
  NotRead = NotRead
  NoRecord = NoRecord
  MaxGen = 3
  MaxEntries = 4
  Ticks = {1}
  MaxOps = 3
  MaxMutations = 0
  MaxCrashes = 1
SPECIFICATION FairCoopSpec
INVARIANTS NoDowngrade
PROPERTIES ImplementsRegister EveryOperationReturns
CHECK_DEADLOCK FALSE
