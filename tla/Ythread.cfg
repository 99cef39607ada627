CONSTANTS
  t1 = t1 t2 = t2 t3 = t3 e1 = e1 e2 = e2 x1 = x1 x2 = x2 p1 = p1 p2 = p2
  Null = Null
  Xstreams = {e1, e2}
  Kinds = {"join", "to", "live"}
  JoinExternals = {x1, x2}
  JoinOps = {"yield", "suspend", "resume", "join", "cancel", "migrate"}
  ToOps = {"suspend", "suspend_to", "yield_to", "thread_yield_to", "resume_yield_to",
           "resume_suspend_to", "exit_to", "resume_exit_to"}
  MaxRequests = 1
  MaxRevives = 1
SPECIFICATION YthreadSpec
INVARIANTS
  OnePlace NoUseAfterFree NoUltStranded NumBlockedExact
PROPERTIES
  JoinsReturn
