\* Torn lines, three policies, lifetimes.
SPECIFICATION Spec
CONSTANTS
  k1 = k1
  k2 = k2
  v1 = v1
  v2 = v2
  None = None
  Keys = {k1}
  Values = {v1, v2}
  TTLs = {None, 0, 1, 2}
  Ops = {"SET", "DEL", "EXPIRE", "GET", "OTHER"}
  Policies = {"always", "every_n", "never"}
  EveryN = 2
  MayTear = TRUE
  MaxRecords = 3
  MaxCrashes = 2
  MaxTime = 1
  TickLen = 1
  BucketCount = 1
  Second = 1
SYMMETRY Symmetry
INVARIANTS
  TypeOK
  RecoversMemory
  KeepsLiveKeys
  SequencesIncrease
PROPERTIES
  LossBounded
