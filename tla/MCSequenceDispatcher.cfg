SPECIFICATION Spec
CONSTANTS
  MaxQueries = 3
  MaxFailures = 3
  MaxSimultaneousWait = 2
  ShrinkMin = 1
  Timeouts = {0, 1}
  TimeoutLimit = 0
INVARIANTS
  ExecutedInOrder
  QueriesKept
PROPERTIES
  AllEnd
CHECK_DEADLOCK FALSE
