CONSTANTS
  c1 = c1 c2 = c2 c3 = c3 p1 = p1 p2 = p2 x1 = x1 x2 = x2 x3 = x3
  Kinds = {"migration"}
  Callers = {c1, c2, c3}
  Nobody = Nobody
  Keys = {1, 3}
  Size = 2
  MaxCalls = 1
  MaxFailures = 1
  Requesters = {c1}
  Pools = {p1, p2}
  Xstreams = {x1, x2, x3}
  HasData = TRUE
  MaxRequests = 2
SPECIFICATION DataSpec
INVARIANTS LastRequestWins
