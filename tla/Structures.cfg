CONSTANTS
  u1 = u1 w1 = w1 c1 = c1 c2 = c2 e1 = e1 e2 = e2 h1 = h1 h2 = h2
  NULL = NULL
  Junk = Junk
  Ults = {u1}
  ListWakers = {w1}
  Kinds = {"waitlist", "lifo", "pool", "table", "atomics", "spinlock", "stack"}
  Callers = {c1, c2}
  MaxWakes = 2
  Elems = {e1, e2}
  MaxLifoCalls = 4
  Pools = {"p1", "p2"}
  PerBucket = 2
  MaxLocal = 2
  PageHeaders = 3
  MaxPages = 2
  MaxPoolCalls = 8
  Units = {8, 16}
  Exp = 1
  MaxUnits = 4
  Width = 2
SPECIFICATION StructuresSpec
SYMMETRY Symmetry
INVARIANTS
  NoSleeperForgotten  LookupsHit UpdatesExact
PROPERTIES ListKept StackKept
