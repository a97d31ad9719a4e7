SPECIFICATION Spec
CONSTANTS
  c1 = c1
  c2 = c2
  c3 = c3
  Clients = {c1, c2}
  WorkerCount = 1
  ThreadCount = 2
  MaxRequests = 1
  MaxCrashes = 0
  MayClose = FALSE
  None = None
  Shutdown = Shutdown
CHECK_DEADLOCK FALSE
INVARIANTS
  ResponseMatchesRequest
