SPECIFICATION Spec
CONSTANTS
  Node = {n1, n2, n3, n4}
  Proc = {p1, p2, p3, p4}
  NULL = NULL
  ChildrenMod = 2
  QUANTUM_MAX = 1
  Priorities = {0}
  Calls <- ControlCalls
  Interrupts = TRUE
VIEW RingView
INVARIANTS TypeOK RingIsOneCycle CountersAgree OnlyCurrentRuns
PROPERTY KeepsTurns
