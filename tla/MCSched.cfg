SPECIFICATION SchedSpec
CONSTANTS
  m1 = m1
  m2 = m2
  m3 = m3
  p1 = p1
  p2 = p2
  Sysmon = Sysmon
  Nil = Nil
  Ms <- MCMs
  Ps <- MCPs
  NGoroutines = 4
  RunqLen = 2
  MaxPolled = 2
SYMMETRY MCSymmetry
CHECK_DEADLOCK FALSE
INVARIANTS SpinnersCounted NothingIsLost WorkConserving
