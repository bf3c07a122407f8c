SPECIFICATION FairSpec
CONSTANTS
  a = a
  b = b
  Worker = {a, b}
  NoWorker = NoWorker
  MaxSends = 2
  MaxDone = 2
  MaxFaults = 2
INVARIANTS
  TypeOK
  OnceUnlessOrphaned
  OkIsDone
  AnsweredInOrder
PROPERTIES
  RequestsSettle
CHECK_DEADLOCK FALSE
