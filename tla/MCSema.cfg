SPECIFICATION Spec
CONSTANTS
  g1 = g1
  g2 = g2
  g3 = g3
  a1 = a1
  a2 = a2
  None = None
  Goroutines <- MCThree
  Addr <- MCTwoAddr
  MaxVal = 2
SYMMETRY MCSymmetry
CHECK_DEADLOCK FALSE
INVARIANTS EveryCountIsMoving RootConsistent
PROPERTIES ImplementsSemaphore
