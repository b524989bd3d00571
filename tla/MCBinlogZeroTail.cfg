SPECIFICATION Spec
CONSTANTS
  Empty = Empty
  Erased = Erased
  CompactTotal = 1
  Ids = {1, 2}
  Data <- Nat
  Keys = {k1}
  NoKey = NoKey
  NoFile = NoFile
  Down = Down
  MaxOps = 2
  BadSizeTails = TRUE
  FailOn = {}
INVARIANTS
  NothingDurableIsLost
