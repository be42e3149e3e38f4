SPECIFICATION Spec
CONSTANTS
  k1 = k1
  k2 = k2
  v1 = v1
  v2 = v2
  g1 = g1
  g2 = g2
  g3 = g3
  None = None
  nil = nil
  expunged = expunged
  Goroutines = {g1, g2, g3}
  Keys = {k1, k2}
  Values = {v1, v2}
  Entries = {1, 2, 3, 4, 5}
  Calls <- MCCalls
INVARIANTS EntriesConsistent
PROPERTIES ImplementsAtomicMap
