CONSTANTS
  u1 = u1 u2 = u2 s1 = s1 s2 = s2 p1 = p1 p2 = p2 p3 = p3
  NoUlt = NoUlt NoSched = NoSched NoUnit = NoUnit
  Parts = {"stream", "sched"}
  Ults = {u1, u2}
  Scheds = {s1, s2}
  First = s1
  Automatic = {s1}
  Ready = {u1}
  UltOps <- TwoUlts
  Pools = {p1, p2, p3}
  Units = {u1}
  PoolsOf <- SharedPools
  Access <- EachAccess
  Kinds <- EachKind
  Uses <- EachUse
  Requests <- EachRequest
  EventFreqs = {1}
  MaxOps = 1
  BasicWait = FALSE
  Overlap = FALSE
  EventFreq = 1
  MaxLives = 2
SPECIFICATION StreamsSpec
INVARIANTS
  JoinedIsDown Drained PoolsAlive
PROPERTIES
  StreamsProgress
