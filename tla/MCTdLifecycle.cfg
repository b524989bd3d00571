SPECIFICATION Spec
CONSTANTS
  Ids = {r1, r2, r3}
  Managers = 2
  Destruct = TRUE
INVARIANTS
  StagesInOrder
  RequestsAnswered
PROPERTIES
  ClosingEnds
CHECK_DEADLOCK FALSE
