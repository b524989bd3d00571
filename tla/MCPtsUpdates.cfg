SPECIFICATION Spec
CONSTANTS
  Counts <- MixedCounts
  Failures = 2
INVARIANTS
  AppliedInOrder
  GapIsHandled
PROPERTIES
  GapCloses
CHECK_DEADLOCK FALSE
