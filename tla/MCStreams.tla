------------------------------- MODULE MCStreams -------------------------------
(***************************************************************************)
(* Execution streams for TLC: the life of one stream and of the schedulers *)
(* that are its main scheduler in turn, the predefined schedulers on pools *)
(* they share.  Each behaviour is about one of the two, which part names;  *)
(* the other does not move.                                                *)
(***************************************************************************)
EXTENDS Integers, Sequences, FiniteSets, TLC

CONSTANTS u1, u2, s1, s2, p1, p2, p3,
          Parts,                                     \* the parts to exercise
          NoUlt, NoSched, NoUnit,
          Ults, Scheds, First, Automatic, Ready, UltOps,
          BasicWait, Overlap, EventFreq, MaxLives,  \* Xstream
          Pools, Units, PoolsOf, Access, Kinds, Uses, Requests, EventFreqs,
          MaxOps                                    \* SchedRun

VARIABLES part,
          ctx_state, sleeping, state, p_main_sched, used, request, p_replace_sched,
          p_replace_waiter, main_state, main_request, queue, num_blocked, ult_state,
          p_pool, ops, resuming, pc, cur, pop_count, look, ctl, lives,       \* Xstream
          kind, s_used, s_request, data, allocs, spc, idx, count, s_cur, looks,
          s_queue, s_blocked, num_scheds, ustate, upool, uops, s_resuming,
          stopped                                                            \* SchedRun

Xst == INSTANCE Xstream WITH MaxOps <- UltOps
Sch == INSTANCE SchedRun WITH
           used <- s_used, request <- s_request, cur <- s_cur, queue <- s_queue,
           num_blocked <- s_blocked, resuming <- s_resuming

ASSUME StreamsAssumption ==
    /\ Xst!XstreamConstants /\ Sch!SchedConstants
    /\ Parts \subseteq {"stream", "sched"}

\* What the run is about.  The first ULT makes two calls.
TwoUlts == [u \in {u1, u2} |-> IF u = u1 THEN 2 ELSE 1]

\* A main scheduler of any kind with three pools, and a stacked one that shares a pool.
SharedPools == s1 :> <<p3, p1, p2>> @@ s2 :> <<p3>>
EachAccess == p1 :> "PRIV" @@ p2 :> "MPSC" @@ p3 :> "MPMC"
EachKind == s1 :> {"basic", "prio", "basic_wait", "randws"} @@ s2 :> {"basic_wait"}
EachUse == s1 :> {"MAIN"} @@ s2 :> {"IN_POOL"}
EachRequest == s1 :> {"FINISH"} @@ s2 :> {"EXIT"}

streamVars == <<ctx_state, sleeping, state, p_main_sched, used, request, p_replace_sched,
                p_replace_waiter, main_state, main_request, queue, num_blocked, ult_state,
                p_pool, ops, resuming, pc, cur, pop_count, look, ctl, lives>>
schedVars == <<kind, s_used, s_request, data, allocs, spc, idx, count, s_cur, looks,
               s_queue, s_blocked, num_scheds, ustate, upool, uops, s_resuming, stopped>>
streamsVars == <<part, streamVars, schedVars>>

StreamsInit ==
    /\ part \in Parts
    /\ Xst!Init /\ Sch!SchedInit
    /\ part # "sched" => kind[s1] = "basic" /\ upool[u1] = p1

OnlyStream == part = "stream" /\ UNCHANGED <<part, schedVars>>
OnlySched == part = "sched" /\ UNCHANGED <<part, streamVars>>

\* Schedulers that share a pool stop and rest; a stream must not get stuck.
MayRest == part = "sched" /\ UNCHANGED streamsVars

StreamsNext ==
    \/ OnlyStream /\ Xst!Next
    \/ OnlySched /\ Sch!SchedNext
    \/ MayRest

\* The native threads and the joiner run, what is suspended is resumed, and a random
\* victim is every pool again and again.
StreamsSpec ==
    /\ StreamsInit /\ [][StreamsNext]_streamsVars
    /\ WF_streamsVars((OnlyStream /\ Xst!Native) \/ (OnlySched /\ Sch!StreamNext(s1)))
    /\ WF_streamsVars((OnlyStream /\ Xst!Control) \/ (OnlySched /\ Sch!StreamNext(s2)))
    /\ WF_streamsVars((OnlyStream /\ Xst!ResumeDone) \/ (OnlySched /\ Sch!Resume(u1)))
    /\ \A u \in {u1, u2} : WF_streamsVars(OnlyStream /\ Xst!Resume(u))
    /\ \A target \in {2, 3} : SF_streamsVars(OnlySched /\ Sch!Steal(s1, target))
------------------------------------------------------------------------------
(* The properties of the modules, which say what they mean there. *)

\* A joiner leaves a stream that is terminated and whose native thread waits for orders.
JoinedIsDown == Xst!TypeOK /\ Xst!JoinedIsDown

\* Nobody is left in a pool, queued or blocked, when its last scheduler stops without
\* being cancelled or told to exit, and the sizes on which it decides that are right.
Drained ==
    /\ Xst!Drained
    /\ part = "sched" => Sch!NothingLeft /\ Sch!SizesExact

\* Nobody is in, or will return to, a pool that was freed with its scheduler.
PoolsAlive == Xst!PoolsAlive

\* Joins of a stream return and a revived stream runs; a unit that is queued runs unless
\* the schedulers of its pool end, and a scheduler told to finish does.
Joins == part = "stream" /\ ctl \in {"join", "await", "ctxjoin", "ctxsleep", "pjoin"}
Revives == part = "stream" /\ ctx_state = "RUNNING" /\ pc = "ctxwait"
Queued == part = "sched" /\ ustate[u1] = "READY"
Finishes == part = "sched" /\ "FINISH" \in s_request[s1]
StreamsProgress ==
    /\ Joins \/ Queued ~>
         \/ part = "stream" /\ ctl \in {"joined", "done"}
         \/ part = "sched" /\ (ustate[u1] # "READY"
                              \/ \E s \in Sch!Users(upool[u1]) : ~Sch!Going(s))
    /\ Revives \/ Finishes ~>
         (part = "stream" /\ pc = "root") \/ (part = "sched" /\ stopped[s1] # "no")
===============================================================================
