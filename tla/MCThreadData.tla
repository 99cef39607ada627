----------------------------- MODULE MCThreadData -----------------------------
(***************************************************************************)
(* Two structures of a work unit that several streams use at once, for     *)
(* TLC: its table of specific data and its migration requests.  A          *)
(* behaviour exercises one of them, which kind names; the other one stays  *)
(* in its initial state.                                                   *)
(***************************************************************************)
EXTENDS KTable, TLC

CONSTANTS c1, c2, c3, p1, p2, x1, x2, x3,
          Kinds,        \* what to exercise
          Requesters, Pools, Xstreams, HasData, MaxRequests

\* Two execution streams with a pool of their own, and a third that serves both.
OwnPools == x1 :> <<p1>> @@ x2 :> <<p2>> @@ x3 :> <<p2, p1>>

VARIABLES kind,
          p_pool, p_last_xstream, request, p_mig_data, p_migration_pool, req_pc, data,
          target, hpc, hdata, hpool, last, answer, requests

Mig == INSTANCE Migration WITH
           pc <- req_pc, result <- answer, Null <- Nobody, SchedPools <- OwnPools

ASSUME DataAssumption ==
    /\ KTableConstants /\ Mig!MigrationConstants
    /\ Kinds \subseteq {"ktable", "migration"}

migVars == <<p_pool, p_last_xstream, request, p_mig_data, p_migration_pool, req_pc, data,
             target, hpc, hdata, hpool, last, answer, requests>>

DataInit ==
    /\ kind \in Kinds /\ Init /\ Mig!Init
    /\ kind = "ktable" => p_pool = p1 /\ p_last_xstream = x1

DataNext ==
    \/ kind = "ktable" /\ Next /\ UNCHANGED <<kind, migVars>>
    \/ kind = "migration" /\ Mig!Next /\ UNCHANGED <<kind, vars>>

\* The fairness of KTable and of Migration.
DataSpec ==
    /\ DataInit /\ [][DataNext]_<<kind, vars, migVars>>
    /\ \A c \in Callers :
         /\ WF_vars(kind = "ktable" /\ (SetStep(c) \/ Get(c)))
         /\ SF_vars(kind = "ktable" /\ Cas(c) /\ pp_ktable' = "LOCKED")
    /\ WF_migVars(kind = "migration" /\ Mig!UltStep)
    /\ \A r \in Requesters : WF_migVars(kind = "migration" /\ Mig!Proceed(r))
------------------------------------------------------------------------------
(* The properties of KTable and Migration, which say what they mean there; GetFindsSet of
   KTable is checked under its own name. *)

\* The table's lists hold every key once and its pointer is not left locked; the handler of
\* a migration request finds a pool to go to, so that the ULT always belongs to one.
DataIntact == TableIntact /\ Mig!TypeOK /\ Mig!HandlerHasTarget

\* A set or get returns even if an allocation fails, and a migration request that no other
\* one overtakes is carried out.
CallsComplete == CallsReturn /\ Mig!RequestMigrates

\* "The previous migration request will be overwritten by the new migration request."
LastRequestWins == Mig!LastRequestWins
===============================================================================
