SPECIFICATION Spec
CONSTANTS
  MAX = 4
  MIN = 2
  INITIAL = 3
  Keys = {"a", "r"}
  MaxSeated = 4
INVARIANTS MutexExclusion NeighboursEatApart LeavesFed
CHECK_DEADLOCK FALSE
