SPECIFICATION Spec
CONSTANTS
  r1 = r1
  r2 = r2
  c1 = c1
  c2 = c2
  Keys = {1, 2, 3}
  K = 2
  Rows = {r1, r2}
  Columns = {c1, c2}
  Ops = {"GET", "PING"}
  KeyedOps = {"GET"}
  Bounds = {1, 3}
  Durations = {1, 9}
  MaxObservations = 8
CONSTRAINT FewUnusual
SYMMETRY Symmetry
CHECK_DEADLOCK FALSE
INVARIANTS
  TypeOK
  NeverUnderestimates
  HeapMatchesTracked
  HeapBounded
  HotKeysReported
  HistogramExact
