SPECIFICATION Spec
CONSTANTS
  Proc = {a, b, c}
  Names = {s, t}
  NULL = NULL
  KERNEL = KERNEL
  MAX_SEMS = 3
  KERNEL_SEMS = 1
  MAX_PROC = 2
  CountMod = 16
  MaxQueued = 3
  MaxCreated = 3
SYMMETRY Symmetry
CHECK_DEADLOCK FALSE
INVARIANTS TypeOK OneSlotPerName QueueOrdered MutualExclusion ValueConserved
PROPERTY ContentionIsFinal
