\* Two owners who are trustees of each other, three calls at a time and as many
\* connections: a circle of three, and the pool exhausted by three histories.
CONSTANTS
  Owners = {o1, o2}
  Callers = {p1, p2, p3}
  MaxConns = 3
SPECIFICATION LockSpec
SYMMETRY Symmetry
INVARIANTS
  LockTypeOK
  CirclesHaveAnInversion
  DeliveriesDoNotDeadlock
  StuckOnlyOnHistories
