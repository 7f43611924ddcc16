SPECIFICATION Spec
CONSTANTS
  Node = {n1, n2, n3, n4, n5}
  Proc = {p1, p2, p3, p4, p5}
  NULL = NULL
  ChildrenMod = 5
  QUANTUM_MAX = 1
  Priorities = {0}
  Calls <- ForkJoinCalls
  Interrupts = FALSE
VIEW RingView
INVARIANTS NoDangling ChildrenKept
