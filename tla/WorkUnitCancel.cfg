CONSTANTS
  u1 = u1 x1 = x1 x2 = x2 b1 = b1 k1 = k1 k2 = k2 n1 = n1 n2 = n2 p1 = p1 v1 = v1
  Exercised = {"workunit"}
  External = External NoAttr = NoAttr NULL = NULL Junk = Junk
  CancelAnywhere = TRUE
  AnyFinalizer = FALSE
  MaxAllocs = 1
  MaxSets = 1
  MaxVars = 1
  MaxLen = 1
  Short = 1
SPECIFICATION SetupSpec
INVARIANTS OwnPoolOnly
CHECK_DEADLOCK FALSE
