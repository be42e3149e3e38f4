SPECIFICATION Spec
CONSTANTS
  p = p
  c1 = c1
  c2 = c2
  a = a
  nil = nil
  None = None
  Elements = 2
  Limit = 2
  Goroutines <- MCGoroutines
  Dequeues <- MCDequeues
  Producer = p
  Consumers <- MCConsumers
  Size <- MCSize
  Mod = 4
  Items <- MCItems
  NilItem = nil
SYMMETRY MCSymmetry
INVARIANTS NothingIsDropped SlotsAreOwned
PROPERTIES ImplementsDequeChain
