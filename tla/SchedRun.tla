------------------------------- MODULE SchedRun -------------------------------
(***************************************************************************)
(* The four predefined schedulers (sched/basic.c, basic_wait.c, prio.c,    *)
(* randws.c), each on an execution stream of its own, with several pools   *)
(* that may be shared: their private data, the order in which they visit   *)
(* their pools, and the test for the end (sched/sched.c), which reads one  *)
(* counter after another while other streams push, pop and resume.         *)
(*                                                                         *)
(* A pool is the set of its units: ThreadQueue has the order.  Replacing a *)
(* scheduler, and the second test after the run function returns, are in   *)
(* Xstream: here a scheduler that leaves its run function without having   *)
(* to stop runs again.                                                     *)
(***************************************************************************)
EXTENDS Integers, Sequences, FiniteSets

CONSTANTS Scheds, Pools, Units, NoUnit,
          PoolsOf,     \* the pools each scheduler is created with, in order
          Access,      \* of each pool: "PRIV", "MPSC", "MPMC"
          Kinds, Uses, Requests,  \* of each scheduler: the kinds, values of used and
                                  \* requests to explore
          EventFreqs,  \* what the configuration may hold
          MaxOps       \* bound: calls of each unit before it returns

SchedConstants ==
  /\ IsFiniteSet(Scheds) /\ IsFiniteSet(Units) /\ NoUnit \notin Units
  /\ EventFreqs \subseteq Nat /\ MaxOps \in Nat
  /\ PoolsOf \in [Scheds -> Seq(Pools)] /\ Access \in [Pools -> {"PRIV", "MPSC", "MPMC"}]
  /\ Kinds \in [Scheds -> SUBSET {"basic", "basic_wait", "prio", "randws"}]
  /\ Uses \in [Scheds -> SUBSET {"MAIN", "IN_POOL"}]
  /\ Requests \in [Scheds -> SUBSET {"FINISH", "EXIT"}]
  /\ \A s, t \in Scheds : \A i \in DOMAIN PoolsOf[s], j \in DOMAIN PoolsOf[t] :
       (s # t /\ PoolsOf[s][i] = PoolsOf[t][j]) => Access[PoolsOf[s][i]] = "MPMC"

VARIABLES kind, used, request,   \* ABTI_sched
          data,                  \* its sched_data: event_freq and pools, or NoData
          allocs,                \* blocks each scheduler has allocated
          spc, idx, count, cur,  \* the run functions: i, work_count or pop_count
          looks,                 \* 1 or 2: which ABTI_sched_has_unit is running;
                                 \* 3: the run function returns after this unit
          queue, num_blocked, num_scheds,   \* ABTI_pool
          ustate, upool, uops,
          resuming,              \* the resumes that have still to lower num_blocked: which
                                 \* unit, and what it had left to call
          stopped                \* history: why each scheduler stopped

schedVars == <<kind, used, request, data, allocs, spc, idx, count, cur, looks, stopped>>
poolVars == <<queue, num_blocked, num_scheds>>
unitVars == <<ustate, upool, uops, resuming>>

NoData == [event_freq |-> 0, pools |-> <<>>]
PoolSet(s) == {PoolsOf[s][i] : i \in DOMAIN PoolsOf[s]}

SchedInit ==
  /\ kind \in {k \in [Scheds -> UNION {Kinds[s] : s \in Scheds}] : \A s \in Scheds : k[s] \in Kinds[s]}
  /\ used \in {f \in [Scheds -> {"MAIN", "IN_POOL"}] : \A s \in Scheds : f[s] \in Uses[s]}
  /\ request = [s \in Scheds |-> {}]
  /\ data = [s \in Scheds |-> NoData] /\ allocs = [s \in Scheds |-> 0]
  /\ spc = [s \in Scheds |-> "none"] /\ idx = [s \in Scheds |-> 1]
  /\ count = [s \in Scheds |-> 0] /\ cur = [s \in Scheds |-> NoUnit]
  /\ looks = [s \in Scheds |-> 0] /\ stopped = [s \in Scheds |-> "no"]
  /\ num_scheds = [p \in Pools |-> Cardinality({s \in Scheds : p \in PoolSet(s)})]
  /\ num_blocked = [p \in Pools |-> 0]
  /\ upool \in [Units -> Pools]
  /\ queue = [p \in Pools |-> {u \in Units : upool[u] = p}]
  /\ ustate = [u \in Units |-> "READY"] /\ uops = [u \in Units |-> MaxOps]
  /\ resuming = {}

SGoto(s, l) == spc' = [spc EXCEPT ![s] = l]
-----------------------------------------------------------------------------
(* init and free of the schedulers                                         *)

access_num == [a \in {"PRIV", "MPSC", "MPMC"} |->
                 CASE a = "PRIV" -> 0 [] a = "MPSC" -> 1 [] a = "MPMC" -> 2]
CmpPools(p, q) == access_num[Access[p]] - access_num[Access[q]]

\* What qsort promises: a sorted permutation, equal elements in any order.
Sorted(ps) ==
  {[i \in DOMAIN ps |-> ps[f[i]]] : f \in
     {g \in [DOMAIN ps -> DOMAIN ps] :
        /\ \A i, j \in DOMAIN ps : g[i] = g[j] => i = j
        /\ \A i, j \in DOMAIN ps : i < j => CmpPools(ps[g[i]], ps[g[j]]) <= 0}}

InitBasic(s, freq) ==
  \E ps \in Sorted(PoolsOf[s]) :
    kind[s] = "basic" /\ data' = [data EXCEPT ![s] = [event_freq |-> freq, pools |-> ps]]
InitBasicWait(s, freq) ==
  \E ps \in Sorted(PoolsOf[s]) :
    kind[s] = "basic_wait" /\ data' = [data EXCEPT ![s] = [event_freq |-> freq, pools |-> ps]]
InitPrio(s, freq) ==
  kind[s] = "prio" /\ data' = [data EXCEPT ![s] = [event_freq |-> freq, pools |-> PoolsOf[s]]]
InitRandws(s, freq) ==
  kind[s] = "randws" /\ data' = [data EXCEPT ![s] = [event_freq |-> freq, pools |-> PoolsOf[s]]]

\* The second allocation may fail: the first block is given back.
InitSched(s) ==
  /\ spc[s] = "none"
  /\ \E freq \in EventFreqs :
       InitBasic(s, freq) \/ InitBasicWait(s, freq) \/ InitPrio(s, freq) \/ InitRandws(s, freq)
  /\ allocs' = [allocs EXCEPT ![s] = 2]
  /\ SGoto(s, IF PoolsOf[s] = <<>> THEN "stopped" ELSE "scan")
  /\ idx' = [idx EXCEPT ![s] = 1] /\ count' = [count EXCEPT ![s] = 0]
  /\ UNCHANGED <<kind, used, request, cur, looks, stopped, poolVars, unitVars>>

Release(s) == num_scheds' = [p \in Pools |-> IF p \in PoolSet(s) THEN num_scheds[p] - 1 ELSE num_scheds[p]]

\* ABTI_sched_free calls the scheduler's free function and releases its pools.
FreeSched(s) ==
  /\ spc[s] = "stopped" /\ SGoto(s, "freed")
  /\ data' = [data EXCEPT ![s] = NoData] /\ allocs' = [allocs EXCEPT ![s] = @ - 2]
  /\ Release(s)
  /\ UNCHANGED <<kind, used, request, idx, count, cur, looks, stopped, queue, num_blocked, unitVars>>
-----------------------------------------------------------------------------
(* The run functions                                                       *)

NumPools(s) == Len(data[s].pools)
Take(s, p, u) ==
  /\ queue' = [queue EXCEPT ![p] = @ \ {u}]
  /\ cur' = [cur EXCEPT ![s] = u] /\ ustate' = [ustate EXCEPT ![u] = "RUNNING"]
  /\ SGoto(s, "run")
Miss(s, l) == SGoto(s, l) /\ UNCHANGED <<queue, cur, ustate>>
PopFrom(s, p, l) == (\E u \in queue[p] : Take(s, p, u)) \/ (queue[p] = {} /\ Miss(s, l))
RunFrame == UNCHANGED <<kind, used, request, data, allocs, stopped, num_blocked, num_scheds, upool, uops, resuming>>

\* One turn of the loop over the pools: basic counts every pop.
ScanBasic(s) ==
  /\ kind[s] = "basic" /\ spc[s] = "scan"
  /\ count' = [count EXCEPT ![s] = @ + 1]
  /\ PopFrom(s, data[s].pools[idx[s]], IF idx[s] < NumPools(s) THEN "scan" ELSE "count")
  /\ idx' = [idx EXCEPT ![s] = IF queue[data[s].pools[@]] = {} /\ @ < NumPools(s) THEN @ + 1 ELSE 1]
  /\ UNCHANGED looks /\ RunFrame

ScanPrio(s) ==
  /\ kind[s] = "prio" /\ spc[s] = "scan"
  /\ PopFrom(s, data[s].pools[idx[s]], IF idx[s] < NumPools(s) THEN "scan" ELSE "count")
  /\ idx' = [idx EXCEPT ![s] = IF queue[data[s].pools[@]] = {} /\ @ < NumPools(s) THEN @ + 1 ELSE 1]
  /\ UNCHANGED <<count, looks>> /\ RunFrame

ScanBasicWait(s) ==
  /\ kind[s] = "basic_wait" /\ spc[s] = "scan"
  /\ PopFrom(s, data[s].pools[idx[s]], IF idx[s] < NumPools(s) THEN "scan" ELSE "wait")
  /\ idx' = [idx EXCEPT ![s] = IF queue[data[s].pools[@]] = {} /\ @ < NumPools(s) THEN @ + 1 ELSE 1]
  /\ UNCHANGED <<count, looks>> /\ RunFrame

\* Nothing was found: wait on the first pool.  A unit found here ends the
\* run function; without one the events are checked at once.
WaitBasicWait(s) ==
  /\ spc[s] = "wait"
  /\ \/ \E u \in queue[data[s].pools[1]] : Take(s, data[s].pools[1], u) /\ looks' = [looks EXCEPT ![s] = 3]
     \/ queue[data[s].pools[1]] = {} /\ Miss(s, "exit?") /\ looks' = [looks EXCEPT ![s] = 1]
  /\ count' = [count EXCEPT ![s] = 0]
  /\ UNCHANGED idx /\ RunFrame

\* The own pool, and when it is empty one of the others.
ScanRandws(s) ==
  /\ kind[s] = "randws" /\ spc[s] = "scan"
  /\ PopFrom(s, data[s].pools[1], IF NumPools(s) > 1 THEN "steal" ELSE "count")
  /\ UNCHANGED <<idx, count, looks>> /\ RunFrame

\* Mutant: rand_r() % (num_pools - 1) without the + 1.
StealFromFirst(s, target) ==
  /\ kind[s] = "randws" /\ spc[s] = "steal"
  /\ target \in 2..NumPools(s)
  /\ PopFrom(s, data[s].pools[target - 1], "count")
  /\ UNCHANGED <<idx, count, looks>> /\ RunFrame

Steal(s, target) ==
  /\ kind[s] = "randws" /\ spc[s] = "steal"
  /\ target \in 2..NumPools(s)
  /\ PopFrom(s, data[s].pools[target], "count")
  /\ UNCHANGED <<idx, count, looks>> /\ RunFrame

\* Every event_freq turns (pops, for basic) the scheduler looks at its requests.
CountTurn(s) ==
  LET n == IF kind[s] = "basic" THEN count[s] ELSE count[s] + 1
  IN /\ spc[s] = "count"
     /\ IF n >= data[s].event_freq
        THEN SGoto(s, "exit?") /\ looks' = [looks EXCEPT ![s] = 1] /\ count' = [count EXCEPT ![s] = 0]
        ELSE SGoto(s, "scan") /\ count' = [count EXCEPT ![s] = n] /\ UNCHANGED looks
     /\ UNCHANGED <<idx, cur, queue, ustate>> /\ RunFrame
-----------------------------------------------------------------------------
(* ABTI_sched_has_to_stop and ABTI_sched_has_unit                          *)

Stop(s, why) == SGoto(s, "stopped") /\ stopped' = [stopped EXCEPT ![s] = why]
LookFrame == UNCHANGED <<kind, used, request, data, allocs, count, cur, poolVars, unitVars>>

ExitRequested(s) ==
  /\ spc[s] = "exit?"
  /\ IF "EXIT" \in request[s] THEN Stop(s, "exit") ELSE SGoto(s, "empty?") /\ UNCHANGED stopped
  /\ UNCHANGED <<idx, looks>> /\ LookFrame

HasUnit(s) == SGoto(s, "scan") /\ idx' = [idx EXCEPT ![s] = 1] /\ UNCHANGED <<looks, stopped>>

\* The pools are looked at in the order they were given, one counter at a time.
NextPool(s) ==
  IF idx[s] < Len(PoolsOf[s])
  THEN SGoto(s, "empty?") /\ idx' = [idx EXCEPT ![s] = @ + 1] /\ UNCHANGED <<looks, stopped>>
  ELSE /\ idx' = [idx EXCEPT ![s] = 1]
       /\ IF looks[s] = 2 THEN Stop(s, "finish") /\ UNCHANGED looks
          ELSE SGoto(s, "asked?") /\ UNCHANGED <<looks, stopped>>

PoolIsEmpty(s) ==
  LET p == PoolsOf[s][idx[s]]
  IN /\ spc[s] = "empty?"
     /\ IF queue[p] # {} THEN HasUnit(s)
        ELSE SGoto(s, IF Access[p] = "PRIV" THEN "blocked?" ELSE "shared?") /\ UNCHANGED <<idx, looks, stopped>>
     /\ LookFrame

PoolIsShared(s) ==
  /\ spc[s] = "shared?"
  /\ IF num_scheds[PoolsOf[s][idx[s]]] = 1
     THEN SGoto(s, "blocked?") /\ UNCHANGED <<idx, looks, stopped>> ELSE NextPool(s)
  /\ LookFrame

PoolHasBlocked(s) ==
  /\ spc[s] = "blocked?"
  /\ IF num_blocked[PoolsOf[s][idx[s]]] # 0 THEN HasUnit(s) ELSE NextPool(s)
  /\ LookFrame

\* No unit: look again when asked to finish; a stacked scheduler ends anyway.
FinishRequested(s) ==
  /\ spc[s] = "asked?"
  /\ \/ /\ "FINISH" \in request[s] /\ SGoto(s, "empty?")
        /\ looks' = [looks EXCEPT ![s] = 2] /\ UNCHANGED stopped
     \/ /\ "FINISH" \notin request[s] /\ UNCHANGED looks
        /\ IF used[s] = "IN_POOL" THEN Stop(s, "idle") ELSE SGoto(s, "scan") /\ UNCHANGED stopped
  /\ UNCHANGED idx /\ LookFrame

Request(s, r) ==
  /\ r \in Requests[s] \ request[s] /\ spc[s] \notin {"stopped", "freed"}
  /\ request' = [request EXCEPT ![s] = @ \cup {r}]
  /\ UNCHANGED <<kind, used, data, allocs, spc, idx, count, cur, looks, stopped, poolVars, unitVars>>

Finish(s) == Request(s, "FINISH")   \* ABT_sched_finish
Exit(s) == Request(s, "EXIT")       \* ABT_sched_exit
-----------------------------------------------------------------------------
(* Units                                                                   *)

\* Back in the loop.  After a unit that the waiting pop found the run function
\* returns: a stacked scheduler has ended, a main scheduler runs again.
Back(s) ==
  /\ cur' = [cur EXCEPT ![s] = NoUnit] /\ idx' = [idx EXCEPT ![s] = 1]
  /\ looks' = [looks EXCEPT ![s] = 0]
  /\ IF looks[s] # 3 THEN SGoto(s, "count") /\ UNCHANGED stopped
     ELSE IF used[s] = "IN_POOL" THEN Stop(s, "returned")
     ELSE SGoto(s, "scan") /\ UNCHANGED stopped
  /\ UNCHANGED <<kind, used, request, data, allocs, count, num_scheds, upool, resuming>>

Terminate(s) ==
  /\ spc[s] = "run" /\ ustate' = [ustate EXCEPT ![cur[s]] = "TERMINATED"]
  /\ Back(s) /\ UNCHANGED <<queue, num_blocked, uops>>

Op(s) == /\ spc[s] = "run" /\ uops[cur[s]] > 0
         /\ uops' = [uops EXCEPT ![cur[s]] = @ - 1]

Yield(s) ==
  LET u == cur[s]
  IN /\ Op(s) /\ ustate' = [ustate EXCEPT ![u] = "READY"]
     /\ queue' = [queue EXCEPT ![upool[u]] = @ \cup {u}]
     /\ Back(s) /\ UNCHANGED num_blocked

Suspend(s) ==
  LET u == cur[s]
  IN /\ Op(s) /\ ustate' = [ustate EXCEPT ![u] = "BLOCKED"]
     /\ num_blocked' = [num_blocked EXCEPT ![upool[u]] = @ + 1]
     /\ Back(s) /\ UNCHANGED queue

\* Another stream resumes u: the push, then the counter.
Resume(u) ==
  \/ /\ ustate[u] = "BLOCKED"
     /\ ustate' = [ustate EXCEPT ![u] = "READY"] /\ resuming' = resuming \cup {<<u, uops[u]>>}
     /\ queue' = [queue EXCEPT ![upool[u]] = @ \cup {u}]
     /\ UNCHANGED <<num_blocked, num_scheds, upool, uops, schedVars>>
  \/ /\ \E r \in resuming : r[1] = u /\ resuming' = resuming \ {r}
     /\ num_blocked' = [num_blocked EXCEPT ![upool[u]] = @ - 1]
     /\ UNCHANGED <<queue, num_scheds, ustate, upool, uops, schedVars>>
-----------------------------------------------------------------------------
StreamNext(s) ==
  \/ InitSched(s) \/ FreeSched(s)
  \/ ScanBasic(s) \/ ScanPrio(s) \/ ScanBasicWait(s) \/ WaitBasicWait(s) \/ ScanRandws(s)
  \/ CountTurn(s) \/ ExitRequested(s) \/ PoolIsEmpty(s) \/ PoolIsShared(s)
  \/ PoolHasBlocked(s) \/ FinishRequested(s)
  \/ Terminate(s) \/ Yield(s) \/ Suspend(s)

SchedNext ==
  \/ \E s \in Scheds :
       \/ StreamNext(s) \/ Finish(s) \/ Exit(s)
       \/ \E target \in 2..Len(PoolsOf[s]) : Steal(s, target)
  \/ \E u \in Units : Resume(u)

-----------------------------------------------------------------------------
\* A scheduler that ends because it was told to finish leaves nothing, queued or
\* blocked, in a pool that only it uses.
Users(p) == {s \in Scheds : p \in PoolSet(s)}
NothingLeft ==
  \A s \in Scheds, u \in Units :
    stopped[s] = "finish" /\ Users(upool[u]) = {s} => ustate[u] = "TERMINATED"

\* The counts by which a scheduler decides that it may stop, and a program how much is left
\* (ABT_sched_get_total_size adds them up): of each pool, the units that are queued, and
\* those that are blocked or whose resume is not complete.
Blocked(p) == {u \in Units : upool[u] = p /\ ustate[u] = "BLOCKED"}
ResumedTo(p) == {r \in resuming : upool[r[1]] = p}
SizesExact ==
  \A p \in Pools :
    /\ queue[p] = {u \in Units : upool[u] = p /\ ustate[u] = "READY"}
    /\ num_blocked[p] = Cardinality(Blocked(p)) + Cardinality(ResumedTo(p))

\* A queued unit runs unless the schedulers of its pool end, and a scheduler
\* that is told to finish and is the only user of its pools ends.
Going(s) == stopped[s] = "no" /\ "EXIT" \notin request[s]
=============================================================================
