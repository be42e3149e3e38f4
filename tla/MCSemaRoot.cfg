SPECIFICATION Spec
CONSTANTS
  s1 = s1
  s2 = s2
  s3 = s3
  s4 = s4
  s5 = s5
  Nil = Nil
  Sudogs <- MCSudogs
  Addr <- MCAddr
  Tickets <- MCTickets
SYMMETRY MCSymmetry
INVARIANTS TreapWellFormed
PROPERTIES ImplementsWaitLists
