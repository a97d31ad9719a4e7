SPECIFICATION FairSpec
CONSTANTS
  c1 = c1
  c2 = c2
  c3 = c3
  Clients = {c1}
  WorkerCount = 1
  ThreadCount = 1
  MaxRequests = 1
  MaxCrashes = 1
  MayClose = TRUE
  None = None
  Shutdown = Shutdown
CHECK_DEADLOCK FALSE
PROPERTIES
  WaitingThreadsEnd
