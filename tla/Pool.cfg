SPECIFICATION Spec
CONSTANTS
  Callers = {c1, c2, c3}
  Threads = {p1, p2, p3}
  NULL = NULL
  Lengths = {1, 2}
  MaxCalls = 4
INVARIANTS
  QueueIntact
  PopNotBlind
  NoneAsleep
SYMMETRY Symmetry
CHECK_DEADLOCK FALSE
