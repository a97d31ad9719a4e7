\* A clock that moves forward, far enough for three revolutions; and one that
\* is set to any time of one revolution and a half, between any two calls.
SPECIFICATION Spec
CONSTANTS
  k1 = k1
  k2 = k2
  Keys = {k1, k2}
  None = None
  TickLen = 2
  BucketCount = 3
  MaxTime = 18
  MaxAnyTime = 9
  Clocks = {"forward", "any"}
SYMMETRY KeyPermutations
INVARIANTS
  TypeOK
  WheelIndexed
  WithinOneRevolution
PROPERTY
  StallsEnd
