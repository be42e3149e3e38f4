SPECIFICATION FairSpec
CONSTANTS
  None = None
  Goroutines = {g1, g2, g3}
  Modulus = 8
  MaxLag = 4
  MaxItems = 2
CHECK_DEADLOCK FALSE
INVARIANTS NoStrandedItem TicketsConsistent
PROPERTIES ImplementsCondQueue NotifiedReturns
