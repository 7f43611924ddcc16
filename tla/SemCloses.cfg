SPECIFICATION Spec
CONSTANTS
  Proc = {a, b}
  Names = {s}
  NULL = NULL
  KERNEL = KERNEL
  MAX_SEMS = 2
  KERNEL_SEMS = 1
  MAX_PROC = 2
  CountMod = 16
  MaxQueued = 3
  MaxCreated = 3
INVARIANT CountsPendingCloses
CHECK_DEADLOCK FALSE
