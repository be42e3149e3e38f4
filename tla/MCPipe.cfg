SPECIFICATION PipeSpec
CONSTANTS
  g1 = g1
  g2 = g2
  g3 = g3
  sema = sema
  e1 = e1
  None = None
  ErrClosedPipe = ErrClosedPipe
  EOF = EOF
  Goroutines <- MCGoroutines
  Addr <- MCAddr
  Sema = sema
  MaxWaits = 2
  ActiveSpin = 1
  Spinners <- MCGoroutines
  Lens <- MCLens
  Errors <- MCErrors
  Calls <- MCCalls
PROPERTIES ClosingEndsWaits ImplementsOnceCall ImplementsPipeCalls
