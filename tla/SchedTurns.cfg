SPECIFICATION FairSpec
CONSTANTS
  Node = {n1, n2, n3, n4}
  Proc = {p1, p2, p3, p4}
  NULL = NULL
  ChildrenMod = 4
  QUANTUM_MAX = 1
  Priorities = {0, 1}
  Calls <- TurnCalls
  Interrupts = FALSE
ACTION_CONSTRAINT FirstFit
PROPERTY StarvationFree
