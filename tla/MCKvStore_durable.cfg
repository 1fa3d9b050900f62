SPECIFICATION Spec
CONSTANTS
  k1 = k1
  k2 = k2
  a = a
  b = b
  c1 = c1
  c2 = c2
  Keys = {k1, k2}
  Values = {a, b}
  Conns = {c1, c2}
  Slots = {s1}
  Absent = Absent
  NoCas = NoCas
  Nobody = Nobody
  Lost = Lost
  Watchable <- OneWatcher
  Bytes <- BytesDef
  MaxEntries = 2
  TotalMax = 2
  MaxInflight = 1
  UnackedMax = 2
  Faults = {"crash"}
  MaxMutations = 3
CONSTRAINT FewWhenWatched
SYMMETRY SameKeys
INVARIANTS
  WatchTracksStore
  TotalIsExact
  DurableOkSurvives
  PrefixConsistent
CHECK_DEADLOCK FALSE
