SPECIFICATION Spec
CONSTANTS
  k1 = k1
  k2 = k2
  Keys = {k1, k2}
  Values = {v1}
  TTLs = {1}
  None = None
  TickLen = 2
  BucketCount = 2
  Second = 2
  MaxTime = 9
  Drift = 0
  Monotonic = TRUE
SYMMETRY KeyPermutations
PROPERTIES
  ExpiredWithinOneTick
