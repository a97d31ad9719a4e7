SPECIFICATION FairSpec
CONSTANTS
  k1 = k1
  k2 = k2
  Keys = {k1, k2}
  Values = {v1}
  TTLs = {0, 1}
  None = None
  TickLen = 2
  BucketCount = 2
  Second = 2
  MaxTime = 7
  Drift = 1
  Monotonic = TRUE
PROPERTIES
  ImplementsExpiringMap
  EventuallyExpired
INVARIANTS
  TypeOK
  TimersMatchDeadlines
