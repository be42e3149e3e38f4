SPECIFICATION WGFairSpec
CONSTANTS
  Goroutines = {g1, g2, g3, g4}
  Addr = {sema}
  Sema = sema
  None = None
INVARIANTS RoundsAreSeparate
PROPERTIES WaitsForAll AllReleased
