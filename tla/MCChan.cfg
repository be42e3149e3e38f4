SPECIFICATION Spec
CONSTANTS
  g1 = g1
  g2 = g2
  g3 = g3
  None = None
  Goroutines <- MCGoroutines
  Channels <- MCChannels
  Cap <- MCCap
  Calls <- MCCalls
SYMMETRY MCSymmetry
CHECK_DEADLOCK FALSE
INVARIANTS QueueInvariant LocksMoveOn
PROPERTIES ImplementsChannels
