SPECIFICATION Spec
CONSTANTS
  k1 = k1
  k2 = k2
  v1 = v1
  v2 = v2
  None = None
  Keys = {k1}
  Values = {v1}
  TTLs = {0}
  Ops = {"SET"}
  Policies = {"always"}
  EveryN = 2
  MayTear = TRUE
  MaxRecords = 2
  MaxCrashes = 2
  MaxTime = 0
  TickLen = 1
  BucketCount = 1
  Second = 1
SYMMETRY Symmetry
INVARIANTS
  AnsweredWritesReadable
