CONSTANTS
  t1 = t1 t2 = t2 t3 = t3 e1 = e1 e2 = e2 x1 = x1 x2 = x2 p1 = p1 p2 = p2
  Null = Null
  Xstreams = {e1, e2}
  Kinds = {"join"}
  JoinExternals = {x1}
  JoinOps = {"suspend", "migrate"}
  ToOps = {"suspend", "suspend_to", "yield_to", "thread_yield_to", "resume_yield_to",
           "resume_suspend_to", "exit_to", "resume_exit_to"}
  MaxRequests = 1
  MaxRevives = 0
SPECIFICATION YthreadSpec
INVARIANTS
  BlockedOfItsPool
