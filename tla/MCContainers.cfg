SPECIFICATION Spec
CONSTANTS
  Data = {d1, d2}
  NoData = NoData
  FirstSeqNo = 3
  LastSeqNo = 7
  CompactMin = 1
  Writers = {w1, w2, w3}
  MaxPuts = 2
INVARIANTS
  InOrder
  VectorAgrees
  NothingLost
  NoLostWakeup
PROPERTIES
  ClearReleasesWaiting
  ImplementsDelivery
  AllReceived
