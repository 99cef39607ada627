------------------------------ MODULE MCYthread ------------------------------
(***************************************************************************)
(* ULTs for TLC: three programs on two execution streams.  "join" is about *)
(* joining and freeing under requests, "to" about the directed context     *)
(* switches of three ULTs, "live" about joins and revivals on one pool.    *)
(***************************************************************************)
EXTENDS TLC, Naturals, Sequences, FiniteSets

CONSTANTS t1, t2, t3, e1, e2, x1, x2, p1, p2,
          Null, Xstreams,
          Kinds,                            \* the programs to run
          JoinExternals,                    \* bound: external threads of "join"
          JoinOps, ToOps,                   \* the operations of "join" and "to"
          MaxRequests,                      \* bound: requests of "join"
          MaxRevives                        \* bound: revivals of "live"

VARIABLES kind, state, p_pool, request, migration_pool, p_link, p_last_xstream, queue,
          num_blocked, p_thread, pc, frame, joining, futex, suspended, freed, ops,
          requests, revives

yvars == <<kind, state, p_pool, request, migration_pool, p_link, p_last_xstream, queue,
           num_blocked, p_thread, pc, frame, joining, futex, suspended, freed, ops,
           requests, revives>>

OwnPools == [e \in Xstreams |-> IF e = e1 THEN {p1} ELSE {p2}]
OnePool == [e \in Xstreams |-> {p1}]
Spread(T) == [t \in T |-> IF t = t1 THEN p1 ELSE p2]

\* t1 joins t2, the external thread x1 joins t1 (and t3).
Chain(T) == [t \in T |-> IF t = t2 THEN t1 ELSE x1]

\* Bound: the operations of each ULT of "to".
ToMaxOps == [t \in {t1, t2, t3} |-> IF t = t1 THEN 2 ELSE 1]

Jn == INSTANCE YthreadProofs WITH
          Threads <- {t1, t2}, Externals <- JoinExternals, Pools <- {p1, p2},
          Serves <- OwnPools, Home <- Spread({t1, t2}), JoinerOf <- Chain({t1, t2}),
          Ops <- JoinOps, MaxOps <- [t \in {t1, t2} |-> 1],
          MaxRevives <- 0
To == INSTANCE YthreadProofs WITH
          Threads <- {t1, t2, t3}, Externals <- {x1}, Pools <- {p1, p2},
          Serves <- OwnPools, Home <- Spread({t1, t2, t3}),
          JoinerOf <- Chain({t1, t2, t3}), Ops <- ToOps, MaxOps <- ToMaxOps,
          MaxRequests <- 0, MaxRevives <- 0
Live == INSTANCE YthreadProofs WITH
          Threads <- {t1, t2}, Externals <- {x1}, Pools <- {p1},
          Serves <- OnePool, Home <- [t \in {t1, t2} |-> p1], JoinerOf <- Chain({t1, t2}),
          Ops <- {"join", "cancel"}, MaxOps <- [t \in {t1, t2} |-> 1],
          MaxRequests <- 1

ASSUME YthreadAssumption ==
    /\ Jn!YthreadConstants /\ To!YthreadConstants /\ Live!YthreadConstants
    /\ Kinds \subseteq {"join", "to", "live"} /\ "migrate" \notin ToOps

YthreadInit ==
    /\ kind \in Kinds
    /\ CASE kind = "join" -> Jn!Init [] kind = "to" -> To!Init [] kind = "live" -> Live!Init

YthreadNext ==
    /\ UNCHANGED kind
    /\ \/ kind = "join" /\ Jn!Next
       \/ kind = "to" /\ To!Next
       \/ kind = "live" /\ Live!Next

\* Only the joins are about what must happen.
YthreadSpec ==
    /\ YthreadInit /\ [][YthreadNext]_yvars
    /\ \A e \in Xstreams :
         WF_yvars(kind = "live" /\ Live!XstreamStep(e) /\ UNCHANGED kind)
    /\ WF_yvars(kind = "live" /\ Live!ExternalStep(x1) /\ UNCHANGED kind)
------------------------------------------------------------------------------
(* The properties of Ythread, for each program. *)

\* Every ULT has its types, and at any moment one place: a pool, an execution stream, or
\* the callback that still works on it.
OnePlace ==
    CASE kind = "join" -> Jn!TypeOK /\ Jn!OnePlace
      [] kind = "to" -> To!TypeOK /\ To!OnePlace
      [] kind = "live" -> Live!TypeOK /\ Live!OnePlace

\* Nobody touches a ULT once its joiner may have freed it.
NoUseAfterFree ==
    CASE kind = "join" -> Jn!NoUseAfterFree
      [] kind = "to" -> To!NoUseAfterFree
      [] kind = "live" -> Live!NoUseAfterFree

\* A pool that looks drained strands no suspended ULT, however the directed switches
\* interleave, and its count of BLOCKED ULTs is exact between them.
NoUltStranded == kind = "to" => To!NoUltStranded
NumBlockedExact == kind = "to" => To!NumBlockedExact

\* The same with migration: "the number of blocked ULTs" (abti_pool.h) of each pool.
BlockedOfItsPool == kind = "join" => Jn!NumBlockedExact

\* Every join returns, unless the ULT that joins is cancelled meanwhile.
JoinsReturn ==
    \A c \in {t1, t2, x1} :
      kind = "live" /\ joining[c] # Null ~>
        joining[c] = Null \/ (c # x1 /\ state[c] = "TERMINATED")
==============================================================================
