SPECIFICATION Spec
CONSTANTS
  Threads = {t1, t2}
  FirstId = 1
  LastId = 2
  MaxForce = 1
  MaxControl = 1
  Contents <- MCContents
INVARIANTS
  SyncDurable
  PrefixDurable
  CloseKeepsDelivered
  AnsweredOnce
  WaitsAreServed
PROPERTIES
  AllServed
CHECK_DEADLOCK FALSE
