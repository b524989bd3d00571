SPECIFICATION Spec
CONSTANTS
  Empty = Empty
  Erased = Erased
  CompactTotal = 1
  Ids = {1, 2}
  Data <- Nat
  Keys = {k1, k2}
  NoKey = NoKey
  NoFile = NoFile
  Down = Down
  MaxOps = 2
  BadSizeTails = FALSE
  FailOn = {"whole"}
SYMMETRY KeySymmetry
INVARIANTS
  NothingDurableIsLost
  NeverLockedOut
