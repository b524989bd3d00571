SPECIFICATION Spec
CONSTANTS
  Requests = {r1, r2}
  Closes = {r2}
  Clients = 2
  Updates = 1
INVARIANTS
  ChecksHold
  RequestsAnswered
PROPERTIES
  ClosingEnds
CHECK_DEADLOCK FALSE
