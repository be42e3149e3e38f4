SPECIFICATION FairSpec
CONSTANTS
  g1 = g1
  g2 = g2
  g3 = g3
  rsema = rsema
  wsema = wsema
  csema = csema
  None = None
  Goroutines <- MCThree
  Addr <- MCAddr
  RSema = rsema
  WSema = wsema
  CSema = csema
  MayCall <- MCMayCall
  MaySet <- MCMaySet
  Arrives <- MCArrives
  MaxCount = 2
INVARIANTS NotUnderTheirFeet CleanWhenQuiescent NobodyOverlooked
PROPERTIES ImplementsFDLife CloseReturns
