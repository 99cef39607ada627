------------------------------- MODULE Migration -------------------------------
(***************************************************************************)
(* Migration requests of one ULT (src/thread.c): the requesters            *)
(* (ABT_thread_migrate_to_pool, _to_sched, _to_xstream, ABT_thread_migrate *)
(* and thread_migrate_to_pool) against the execution stream that handles   *)
(* the request when the ULT yields (ABTI_thread_handle_request_migrate).   *)
(* One shared access per step; the ULT never terminates here.              *)
(***************************************************************************)
EXTENDS Naturals, Sequences, SequencesExt, FiniteSets

CONSTANTS Requesters, Pools, Xstreams, Null,
          SchedPools,   \* the pools of each main scheduler, in order
          HasData,      \* ABT_thread_set_callback has allocated the migration data before
          MaxRequests   \* bound: requests of each requester

MigrationConstants ==
    /\ IsFiniteSet(Requesters)
    /\ Null \notin Requesters \cup {"ES", "cb"} \cup Pools \cup Xstreams
    /\ SchedPools \in [Xstreams -> Seq(Pools) \ {<<>>}]
    /\ HasData \in BOOLEAN
    /\ MaxRequests \in Nat

VARIABLES p_pool, p_last_xstream, request,   \* fields of the ULT
          p_mig_data,         \* value of g_thread_mig_data_key in its key table, or Null
          p_migration_pool,   \* that field of each ABTI_thread_mig_data
          pc, data, target,   \* the requesters' locals
          hpc, hdata, hpool,  \* where the ULT is, and the handler's locals
          last,               \* target of the last request that returned
          result,             \* what the last request returned
          requests

vars == <<p_pool, p_last_xstream, request, p_mig_data, p_migration_pool, pc, data, target,
          hpc, hdata, hpool, last, result, requests>>
reqVars == <<pc, data, target, last, result, requests>>
ultVars == <<p_pool, p_last_xstream, hpc, hdata, hpool>>

\* Who calls ABTI_thread_get_mig_data allocates at most one structure: it is named
\* after the caller, "ES" for the handler and "cb" for ABT_thread_set_callback.
MigData == Requesters \cup {"ES", "cb"}

Init ==
    /\ p_pool \in Pools
    /\ p_last_xstream \in {x \in Xstreams : p_pool \in Range(SchedPools[x])}
    /\ request = FALSE
    /\ p_mig_data = IF HasData THEN "cb" ELSE Null
    /\ p_migration_pool = [d \in MigData |-> Null]
    /\ pc = [r \in Requesters |-> "idle"]
    /\ data = [r \in Requesters |-> Null]
    /\ target = [r \in Requesters |-> Null]
    /\ hpc = "running" /\ hdata = Null /\ hpool = Null
    /\ last = Null
    /\ result = [r \in Requesters |-> "none"]
    /\ requests = [r \in Requesters |-> MaxRequests]

Goto(r, l) == pc' = [pc EXCEPT ![r] = l]
------------------------------------------------------------------------------
(* The requests *)

\* ABTI_sched_get_migration_pool with no get_migr_pool of the user's
MigrationPool(x) == Head(SchedPools[x])

Request(r, p) ==
    /\ target' = [target EXCEPT ![r] = p]
    /\ Goto(r, "get_mig_data")
    /\ UNCHANGED result

Fail(r, err) ==
    /\ result' = [result EXCEPT ![r] = err]
    /\ UNCHANGED <<target, pc>>

Call(r) ==
    /\ pc[r] = "idle" /\ requests[r] > 0
    /\ requests' = [requests EXCEPT ![r] = @ - 1]
    /\ UNCHANGED <<ultVars, request, p_mig_data, p_migration_pool, data, last>>

MigrateToPool(r, p) ==
    /\ Call(r)
    /\ IF p # p_pool THEN Request(r, p) ELSE Fail(r, "ERR_MIGRATION_TARGET")

\* ABT_thread_migrate_to_xstream and, with the scheduler given, _to_sched
MigrateToXstream(r, x) ==
    /\ Call(r)
    /\ IF p_pool \notin Range(SchedPools[x])
         THEN Request(r, MigrationPool(x))
         ELSE Fail(r, "ERR_MIGRATION_TARGET")

\* The streams ABT_thread_migrate accepts: every pool is the ULT's own.
Valid(x) == x # p_last_xstream /\ \A i \in 1..Len(SchedPools[x]) : SchedPools[x][i] = p_pool

Migrate(r) ==
    /\ Call(r)
    /\ \/ \E x \in Xstreams : Valid(x) /\ Request(r, MigrationPool(x))
       \/ (\A x \in Xstreams : ~Valid(x)) /\ Fail(r, "ERR_MIGRATION_NA")

\* ABTI_thread_get_mig_data: read the key table, and allocate if there is nothing.
GetMigData(r) ==
    /\ pc[r] = "get_mig_data"
    /\ data' = [data EXCEPT ![r] = p_mig_data]
    /\ Goto(r, IF p_mig_data = Null THEN "ktable_set" ELSE "store")
    /\ UNCHANGED <<ultVars, request, p_mig_data, p_migration_pool, target, last, result,
                   requests>>

KtableSet(r) ==
    /\ pc[r] = "ktable_set"
    /\ p_mig_data' = r
    /\ data' = [data EXCEPT ![r] = r]
    /\ p_migration_pool' = [p_migration_pool EXCEPT ![r] = Null]
    /\ Goto(r, "store")
    /\ UNCHANGED <<ultVars, request, target, last, result, requests>>

StorePool(r) ==
    /\ pc[r] = "store"
    /\ p_migration_pool' = [p_migration_pool EXCEPT ![data[r]] = target[r]]
    /\ Goto(r, "set_request")
    /\ UNCHANGED <<ultVars, request, p_mig_data, data, target, last, result, requests>>

SetRequest(r) ==
    /\ pc[r] = "set_request"
    /\ request' = TRUE
    /\ last' = target[r]
    /\ result' = [result EXCEPT ![r] = "SUCCESS"]
    /\ Goto(r, "idle")
    /\ UNCHANGED <<ultVars, p_mig_data, p_migration_pool, data, target, requests>>
------------------------------------------------------------------------------
(* The ULT yields, and its execution stream handles the request *)

Yield ==
    /\ hpc = "running"
    /\ hpc' = IF request THEN "get_mig_data" ELSE "push"
    /\ UNCHANGED <<p_pool, p_last_xstream, hdata, hpool, request, p_mig_data,
                   p_migration_pool, reqVars>>

\* A requester has installed the data before it set the flag.
HandlerGetMigData ==
    /\ hpc = "get_mig_data"
    /\ hdata' = IF p_mig_data = Null THEN "ES" ELSE p_mig_data
    /\ p_mig_data' = hdata'
    /\ hpc' = "load"
    /\ UNCHANGED <<p_pool, p_last_xstream, hpool, request, p_migration_pool, reqVars>>

LoadPool ==
    /\ hpc = "load"
    /\ hpool' = p_migration_pool[hdata]
    /\ hpc' = "set_associated_pool"
    /\ UNCHANGED <<p_pool, p_last_xstream, hdata, request, p_mig_data, p_migration_pool,
                   reqVars>>

\* Mutant: changes the unit but not the pool.
KeepAssociatedPool ==
    /\ hpc = "set_associated_pool"
    /\ hpc' = "unset_request"
    /\ UNCHANGED <<p_pool, p_last_xstream, hdata, hpool, request, p_mig_data,
                   p_migration_pool, reqVars>>

SetAssociatedPool ==
    /\ hpc = "set_associated_pool"
    /\ p_pool' = hpool
    /\ hpc' = "unset_request"
    /\ UNCHANGED <<p_last_xstream, hdata, hpool, request, p_mig_data, p_migration_pool,
                   reqVars>>

UnsetRequest ==
    /\ hpc = "unset_request"
    /\ request' = FALSE
    /\ hpc' = "push"
    /\ UNCHANGED <<p_pool, p_last_xstream, hdata, hpool, p_mig_data, p_migration_pool,
                   reqVars>>

\* Pushed into its pool, popped and run by a stream whose scheduler has that pool.
Schedule(x) ==
    /\ hpc = "push"
    /\ p_pool \in Range(SchedPools[x])
    /\ p_last_xstream' = x
    /\ hpc' = "running"
    /\ UNCHANGED <<p_pool, hdata, hpool, request, p_mig_data, p_migration_pool, reqVars>>
------------------------------------------------------------------------------
Begin(r) ==
    \/ \E p \in Pools : MigrateToPool(r, p)
    \/ \E x \in Xstreams : MigrateToXstream(r, x)
    \/ Migrate(r)
Proceed(r) == GetMigData(r) \/ KtableSet(r) \/ StorePool(r) \/ SetRequest(r)

UltStep ==
    \/ Yield \/ HandlerGetMigData \/ LoadPool \/ SetAssociatedPool \/ UnsetRequest
    \/ \E x \in Xstreams : Schedule(x)

Next == UltStep \/ \E r \in Requesters : Begin(r) \/ Proceed(r)

Spec == Init /\ [][Next]_vars

------------------------------------------------------------------------------
(* Properties *)

\* The ULT always belongs to a pool, and the other fields have their types.
TypeOK ==
    /\ p_pool \in Pools
    /\ p_last_xstream \in Xstreams
    /\ request \in BOOLEAN
    /\ p_mig_data \in MigData \cup {Null}
    /\ p_migration_pool \in [MigData -> Pools \cup {Null}]
    /\ pc \in [Requesters -> {"idle", "get_mig_data", "ktable_set", "store", "set_request"}]
    /\ data \in [Requesters -> MigData \cup {Null}]
    /\ target \in [Requesters -> Pools \cup {Null}]
    /\ last \in Pools \cup {Null}

\* "p_migration_pool must be updated before setting the request": a handler that saw
\* the request finds a pool to go to, however many requesters there are.
HandlerHasTarget == hpc = "set_associated_pool" => hpool # Null

\* Requester r has made the only request so far.
Only(r) == /\ requests[r] = MaxRequests - 1
           /\ \A s \in Requesters \ {r} : requests[s] = MaxRequests

\* A request that no other one overtakes is carried out.
RequestMigrates ==
    \A p \in Pools : last = p ~> p_pool = p \/ ~\E r \in Requesters : Only(r)

\* "The previous migration request will be overwritten by the new migration request":
\* once no request is pending, the ULT is where the last one sent it.
LastRequestWins ==
    (~request /\ last # Null /\ hpc \in {"running", "push"}
     /\ \A r \in Requesters : pc[r] = "idle") => p_pool = last

================================================================================
