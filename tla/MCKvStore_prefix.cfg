SPECIFICATION Spec
CONSTANTS
  k1 = k1
  k2 = k2
  a = a
  b = b
  c1 = c1
  c2 = c2
  Keys = {k1, k2}
  Values = {a}
  Conns = {c1, c2}
  Slots = {s1}
  Absent = Absent
  NoCas = NoCas
  Nobody = Nobody
  Lost = Lost
  Watchable <- NoWatcher
  Bytes <- BytesDef
  MaxEntries = 2
  TotalMax = 3
  MaxInflight = 1
  UnackedMax = 2
  Faults = {"commit"}
  MaxMutations = 2
INVARIANTS
  PrefixConsistent
CHECK_DEADLOCK FALSE
