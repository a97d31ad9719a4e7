SPECIFICATION FairSpec
CONSTANTS
  c1 = c1
  c2 = c2
  c3 = c3
  Clients = {c1, c2}
  WorkerCount = 2
  ThreadCount = 2
  MaxRequests = 2
  MaxCrashes = 1
  MayClose = TRUE
  None = None
  Shutdown = Shutdown
CHECK_DEADLOCK FALSE
INVARIANTS
  TypeOK
  OneGetterPerRequest
  ResponsesStayInPartition
  ExecutedInOrder
  StopsWhenDrained
  OwnWorkerMatches
PROPERTIES
  EveryWaitEnds
