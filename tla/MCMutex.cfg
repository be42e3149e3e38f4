SPECIFICATION FairSpec
CONSTANTS
  g1 = g1
  g2 = g2
  g3 = g3
  sema = sema
  None = None
  Goroutines <- MCGoroutines
  Addr <- MCAddr
  Sema = sema
  MaxWaits = 1
  ActiveSpin = 1
  Spinners <- MCSpinners
INVARIANTS MutualExclusion NoStrandedWaiter IInv
PROPERTIES HandoffOnly ImplementsLock MovesOn
