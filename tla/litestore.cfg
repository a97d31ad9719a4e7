SPECIFICATION Spec
CONSTANTS
  k1 = k1
  k2 = k2
  x = x
  None = None
  NullWord = NullWord
  Keys = {k1, k2}
  Verbs = {"PING", "SET", "GET", "DEL", "EXPIRE", "TTL", "MGET", "KEYS", "FLUSHALL"}
  Texts = {x}
  Numbers = {0}
  Modes = {"single", "multi"}
  Counts = {1, 2}
  Resizable = {"single"}
  MaxRecords = 2
  TickLen = 1
  BucketCount = 1
  Second = 1
VIEW View
SYMMETRY Symmetry
INVARIANTS
  TypeOK
  KeysStayHome
  SequencesOrdered
PROPERTIES
  ImplementsMapInPart
