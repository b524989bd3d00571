SPECIFICATION Spec
CONSTANTS
  Threads = {t1, t2}
  Keys = {k1, k2}
  Values = {v1, v2}
  KeyPrefixes <- MCPrefixes
  MaxNumber = 4
  MaxRestarts = 2
  Empty = Empty
  Erased = Erased
  CompactTotal = 1
  Ids = {1, 2, 3, 4}
  Data <- MCData
SYMMETRY Symmetry
INVARIANTS
  LogAgrees
  IdsAreSound
PROPERTIES
  RestartGivesPast
CHECK_DEADLOCK FALSE
