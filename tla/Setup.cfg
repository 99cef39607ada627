CONSTANTS
  u1 = u1 x1 = x1 x2 = x2 b1 = b1 k1 = k1 k2 = k2 n1 = n1 n2 = n2 p1 = p1 v1 = v1
  Exercised = {"workunit", "runtime", "config", "pooldef", "atoi", "env", "affinity"}
  External = External NoAttr = NoAttr NULL = NULL Junk = Junk
  CancelAnywhere = FALSE
  AnyFinalizer = FALSE
  MaxAllocs = 14
  MaxSets = 2
  MaxVars = 2
  MaxLen = 5
  Short = 3
SPECIFICATION SetupSpec
INVARIANTS
   OwnershipExact ConfigIsMap CallsGiven ParsedExactly 
  AffinityExact
CHECK_DEADLOCK FALSE
