CONSTANTS
  c1 = c1 c2 = c2 c3 = c3 m1 = m1 m2 = m2
  Nobody = Nobody Unused = Unused Invalid = Invalid
  Kinds = {"futex"}
  FutexUses = {"timed"}
  Threads = {c1, c2, c3}
  NoThread = Nobody
  Recursive = TRUE
  MaxNest = 1
  MaxOps = 2
  Callers = {c1, c2, c3}
  Mutexes = {m1, m2}
  FutexWaiters = {c1, c2}
  Counts = {2, 3}
  NumCompartments = 2
  TagModulus = 2
  MaxWaits = 2
  MaxLocks = 2
  MaxCondOps = 2
  MaxCondWakes = 1
  MaxRounds = 2
SPECIFICATION SyncSpec
INVARIANTS NoTimedWildAccess
