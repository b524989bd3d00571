SPECIFICATION Spec
CONSTANTS
  Empty = Empty
  Erased = Erased
  CompactTotal = 1
  Ids = {1, 2, 3}
  Data <- Nat
  Keys = {k1}
  NoKey = NoKey
  NoFile = NoFile
  Down = Down
  MaxOps = 3
  BadSizeTails = FALSE
  FailOn = {}
INVARIANTS
  NeverFatal
  ReplayAgrees
  NothingDurableIsLost
PROPERTIES
  ImplementsDurableLog
