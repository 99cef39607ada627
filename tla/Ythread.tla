-------------------------------- MODULE Ythread --------------------------------
(***************************************************************************)
(* The life of a ULT: src/ythread.c, src/include/abti_ythread.h and the    *)
(* parts of src/self.c and src/thread.c that suspend, resume, yield, exit, *)
(* join, cancel, migrate, free and revive one.                             *)
(*                                                                         *)
(* An execution stream never works on a ULT that stands on its own stack:  *)
(* an operation first switches to the parent (the scheduler) or to a       *)
(* sibling, and a callback that runs on the new context finishes the job.  *)
(* From the moment the callback has pushed the ULT, marked it BLOCKED or   *)
(* marked it TERMINATED, any other execution stream may run, resume or     *)
(* free it.  So every access of a callback to shared memory is one step.   *)
(*                                                                         *)
(* pc and frame are what the code of the runtime an execution stream or an *)
(* external thread is in: "run" when it is in user code or the scheduler.  *)
(***************************************************************************)
EXTENDS Integers, Sequences, SequencesExt, FiniteSets

CONSTANTS Threads,     \* the ULTs
          Xstreams,    \* the execution streams
          Externals,   \* the external threads
          Pools,
          Null,        \* NULL; as p_thread, the scheduler
          Serves,      \* the pools the scheduler of each execution stream has
          Home,        \* the pool each ULT is created in
          JoinerOf,    \* the one caller that joins and frees each ULT
          Ops,         \* the operations the program uses
          MaxOps,      \* bounds: operations of each ULT besides its exit
          MaxRequests, \* bound: cancellation and migration requests
          MaxRevives   \* bound: revivals

AllOps == {"yield", "suspend", "resume", "yield_to", "thread_yield_to", "suspend_to",
           "resume_yield_to", "resume_suspend_to", "exit_to", "resume_exit_to",
           "join", "cancel", "migrate"}
Actors == Xstreams \cup Externals
Callers == Threads \cup Externals

YthreadConstants ==
    /\ IsFiniteSet(Threads) /\ IsFiniteSet(Xstreams) /\ IsFiniteSet(Externals)
    /\ Threads \cap Externals = {}
    /\ Xstreams \cap Externals = {}
    /\ Null \notin Threads \cup Externals \cup Xstreams \cup Pools
    /\ Serves \in [Xstreams -> SUBSET Pools]
    /\ Home \in [Threads -> Pools]
    /\ JoinerOf \in [Threads -> Callers]
    /\ Ops \subseteq AllOps
    /\ MaxOps \in [Threads -> Nat] /\ MaxRequests \in Nat /\ MaxRevives \in Nat

VARIABLES state,          \* thread.state
          p_pool,         \* thread.p_pool
          request,        \* thread.request
          migration_pool, \* p_migration_pool of the last migration request
          p_link,         \* ctx.p_link: the joiner to wake
          p_last_xstream, \* thread.p_last_xstream
          queue,          \* the ULTs in each pool
          num_blocked,    \* num_blocked of each pool
          p_thread,       \* the ULT whose context each execution stream is on
          pc, frame,      \* where each actor is, and its locals
          joining,        \* the ULT each caller is joining
          futex,          \* val of the futex of each external joiner
          suspended,      \* ULTs that suspended themselves and nobody resumes yet
          freed,          \* ULTs that were joined and freed
          ops, requests, revives

descVars == <<p_pool, request, migration_pool, p_link>>
threadVars == <<state, descVars, p_last_xstream>>
poolVars == <<queue, num_blocked>>
limitVars == <<requests, revives>>
userVars == <<joining, suspended, freed, ops, limitVars>>
vars == <<threadVars, poolVars, p_thread, pc, frame, futex, userVars>>

NoFrame == [callback |-> "none", p_prev |-> Null, p_next |-> Null, p_pool |-> Null,
            p_joiner |-> Null, p_joiner_pool |-> Null, cancel |-> FALSE]

Init ==
    /\ state = [t \in Threads |-> "READY"]
    /\ p_pool = Home
    /\ request = [t \in Threads |-> {}]
    /\ migration_pool = [t \in Threads |-> Null]
    /\ p_link = [t \in Threads |-> Null]
    /\ p_last_xstream = [t \in Threads |-> Null]
    /\ queue \in [Pools -> UNION {SetToSeqs(T) : T \in SUBSET Threads}]
    /\ \A p \in Pools : queue[p] \in SetToSeqs({t \in Threads : Home[t] = p})
    /\ num_blocked = [p \in Pools |-> 0]
    /\ p_thread = [e \in Xstreams |-> Null]
    /\ pc = [a \in Actors |-> "run"]
    /\ frame = [a \in Actors |-> NoFrame]
    /\ joining = [c \in Callers |-> Null]
    /\ futex = [x \in Externals |-> 0]
    /\ suspended = {}
    /\ freed = {}
    /\ ops = MaxOps
    /\ requests = MaxRequests
    /\ revives = MaxRevives
------------------------------------------------------------------------------
Goto(a, l) == pc' = [pc EXCEPT ![a] = l]

\* The runtime is done: back to user code or to the scheduler.
Return(a) == Goto(a, "run") /\ frame' = [frame EXCEPT ![a] = NoFrame]

Caller(a) == IF a \in Xstreams THEN p_thread[a] ELSE a

InUserCode(a) == pc[a] = "run" /\ Caller(a) # Null /\ joining[Caller(a)] = Null

\* ULT t is in user code on e and calls op.
Calls(e, t, op) ==
    /\ InUserCode(e) /\ p_thread[e] = t
    /\ op \in Ops
    /\ ops[t] > 0
    /\ ops' = [ops EXCEPT ![t] = @ - 1]

\* Enter the runtime at l on behalf of t, with the locals of callback cb.
Enter(e, cb, t, s, l) ==
    /\ frame' = [frame EXCEPT ![e] = [NoFrame EXCEPT !.callback = cb, !.p_prev = t,
                                        !.p_next = s, !.p_pool = p_pool[t]]]
    /\ Goto(e, l)

SwitchToParent(e) ==
    /\ p_thread' = [p_thread EXCEPT ![e] = Null]
    /\ UNCHANGED p_last_xstream

SwitchToSibling(e, s) ==
    /\ p_thread' = [p_thread EXCEPT ![e] = s]
    /\ p_last_xstream' = [p_last_xstream EXCEPT ![s] = e]

IsInPool(s) == s \in Range(queue[p_pool[s]])

RemoveFromPool(s) ==
    \E i \in 1..Len(queue[p_pool[s]]) :
      /\ queue[p_pool[s]][i] = s
      /\ queue' = [queue EXCEPT ![p_pool[s]] = RemoveAt(@, i)]

SetState(t, v) == state' = [state EXCEPT ![t] = v]

AddNumBlocked(p, n) == num_blocked' = [num_blocked EXCEPT ![p] = @ + n]

\* ABTI_pool_add_thread
AddThread(t) ==
    /\ SetState(t, "READY")
    /\ queue' = [queue EXCEPT ![p_pool[t]] = Append(@, t)]
------------------------------------------------------------------------------
(* What a running ULT may do *)

Yield(e, t) ==
    /\ Calls(e, t, "yield")
    /\ SwitchToParent(e)
    /\ Enter(e, "yield", t, Null, "request")
    /\ UNCHANGED <<state, descVars, poolVars, futex, joining, suspended, freed,
                   limitVars>>

\* Mutant: the pool does not count the ULT as blocked.
SuspendUncounted(e, t) ==
    /\ Calls(e, t, "suspend")
    /\ SwitchToParent(e)
    /\ suspended' = suspended \cup {t}
    /\ Enter(e, "suspend", t, Null, "request")
    /\ UNCHANGED <<state, descVars, poolVars, futex, joining, freed, limitVars>>

Suspend(e, t) ==
    /\ Calls(e, t, "suspend")
    /\ SwitchToParent(e)
    /\ suspended' = suspended \cup {t}
    /\ Enter(e, "suspend", t, Null, "inc")
    /\ UNCHANGED <<state, descVars, poolVars, futex, joining, freed, limitVars>>

\* ABT_self_yield_to, and the *_to variants of create and revive: the caller has
\* popped s from its pool.
YieldTo(e, t, s) ==
    /\ Calls(e, t, "yield_to")
    /\ s # t /\ IsInPool(s)
    /\ RemoveFromPool(s)
    /\ SetState(s, "RUNNING")
    /\ SwitchToSibling(e, s)
    /\ Enter(e, "yield", t, Null, "request")
    /\ UNCHANGED <<descVars, num_blocked, futex, joining, suspended, freed,
                   limitVars>>

\* ABT_thread_yield_to takes s out of its pool itself, and returns an error if
\* somebody else popped s first.
ThreadYieldTo(e, t, s) ==
    /\ Calls(e, t, "thread_yield_to")
    /\ s # t /\ IsInPool(s) /\ state[s] = "READY"
    /\ AddNumBlocked(p_pool[t], 1)
    /\ Enter(e, "thread_yield_to", t, s, "remove")
    /\ UNCHANGED <<threadVars, queue, p_thread, futex, joining, suspended, freed,
                   limitVars>>

\* Mutant: keeps the count when it finds that the target has left the pool.
PoolRemoveNoRollback(e) ==
    LET s == frame[e].p_next IN
    /\ pc[e] = "remove"
    /\ IF IsInPool(s)
         THEN /\ RemoveFromPool(s)
              /\ SetState(s, "RUNNING")
              /\ SwitchToSibling(e, s)
              /\ Goto(e, "request")
              /\ UNCHANGED frame
         ELSE Return(e) /\ UNCHANGED <<state, p_last_xstream, queue, p_thread>>
    /\ UNCHANGED <<descVars, num_blocked, futex, userVars>>

PoolRemove(e) ==
    LET s == frame[e].p_next IN
    /\ pc[e] = "remove"
    /\ IF IsInPool(s)
         THEN /\ RemoveFromPool(s)
              /\ SetState(s, "RUNNING")
              /\ SwitchToSibling(e, s)
              /\ Goto(e, "request")
              /\ UNCHANGED <<num_blocked, frame>>
         ELSE /\ AddNumBlocked(p_pool[frame[e].p_prev], -1)
              /\ Return(e)
              /\ UNCHANGED <<state, p_last_xstream, queue, p_thread>>
    /\ UNCHANGED <<descVars, futex, userVars>>

\* Unlike its siblings ABTI_ythread_suspend_to does not set the state of s.
SuspendTo(e, t, s) ==
    /\ Calls(e, t, "suspend_to")
    /\ s # t /\ IsInPool(s)
    /\ RemoveFromPool(s)
    /\ SwitchToSibling(e, s)
    /\ suspended' = suspended \cup {t}
    /\ Enter(e, "suspend", t, Null, "inc")
    /\ UNCHANGED <<state, descVars, num_blocked, futex, joining, freed, limitVars>>

\* s is suspended and only this caller is going to resume it.
Claims(s) == s \in suspended /\ state[s] = "BLOCKED"

ResumeYieldTo(e, t, s) ==
    /\ Calls(e, t, "resume_yield_to")
    /\ Claims(s)
    /\ suspended' = suspended \ {s}
    /\ SetState(s, "RUNNING")
    /\ SwitchToSibling(e, s)
    /\ Enter(e, "resume_yield_to", t, s, "request")
    /\ UNCHANGED <<descVars, poolVars, futex, joining, freed, limitVars>>

ResumeSuspendTo(e, t, s) ==
    /\ Calls(e, t, "resume_suspend_to")
    /\ Claims(s)
    /\ suspended' = (suspended \ {s}) \cup {t}
    /\ SetState(s, "RUNNING")
    /\ SwitchToSibling(e, s)
    /\ Enter(e, "resume_suspend_to", t, s,
             IF p_pool[t] # p_pool[s] THEN "inc" ELSE "request")
    /\ UNCHANGED <<descVars, poolVars, futex, joining, freed, limitVars>>

\* Mutant: does not wait for the ULT to be BLOCKED.
ResumeUnchecked(a, s) ==
    /\ \/ a \in Xstreams /\ Calls(a, p_thread[a], "resume")
       \/ a \in Externals /\ InUserCode(a) /\ UNCHANGED ops
    /\ s \in suspended
    /\ suspended' = suspended \ {s}
    /\ frame' = [frame EXCEPT ![a] = [NoFrame EXCEPT !.callback = "resume",
                                                     !.p_joiner = s]]
    /\ Goto(a, "push")
    /\ UNCHANGED <<threadVars, poolVars, p_thread, futex, joining, freed, limitVars>>

\* ABT_thread_resume, by a ULT or an external thread.
Resume(a, s) ==
    /\ \/ a \in Xstreams /\ Calls(a, p_thread[a], "resume")
       \/ a \in Externals /\ InUserCode(a) /\ UNCHANGED ops
    /\ Claims(s)
    /\ suspended' = suspended \ {s}
    /\ frame' = [frame EXCEPT ![a] = [NoFrame EXCEPT !.callback = "resume",
                                                     !.p_joiner = s]]
    /\ Goto(a, "push")
    /\ UNCHANGED <<threadVars, poolVars, p_thread, futex, joining, freed,
                   limitVars>>

\* ABT_self_exit, or the end of the ULT's function: wake the joiner, then leave.
Exit(e, t) ==
    /\ InUserCode(e) /\ p_thread[e] = t
    /\ Enter(e, "exit", t, Null, "load_link")
    /\ UNCHANGED <<threadVars, poolVars, p_thread, futex, userVars>>

ExitTo(e, t, s) ==
    /\ Calls(e, t, "exit_to")
    /\ s # t /\ IsInPool(s)
    /\ RemoveFromPool(s)
    /\ Enter(e, "exit_to", t, s, "load_link")
    /\ UNCHANGED <<threadVars, num_blocked, p_thread, futex, joining, suspended, freed,
                   limitVars>>

ResumeExitTo(e, t, s) ==
    /\ Calls(e, t, "resume_exit_to")
    /\ Claims(s)
    /\ suspended' = suspended \ {s}
    /\ Enter(e, "resume_exit_to", t, s, "load_link")
    /\ UNCHANGED <<threadVars, poolVars, p_thread, futex, joining, freed, limitVars>>
------------------------------------------------------------------------------
(* The callbacks *)

IsSuspension(e) == frame[e].callback \in {"suspend", "suspend_join", "resume_suspend_to"}

IncNumBlocked(e) ==
    /\ pc[e] = "inc"
    /\ AddNumBlocked(p_pool[frame[e].p_prev], 1)
    /\ Goto(e, IF frame[e].callback = "resume_suspend_to" THEN "dec" ELSE "request")
    /\ UNCHANGED <<threadVars, queue, p_thread, frame, futex, userVars>>

\* The pool whose num_blocked the callback has to give back: what it was when the
\* callback began for thread_yield_to, the one of p_next for the resume_* ones.
DecNumBlocked(e) ==
    /\ pc[e] = "dec"
    /\ AddNumBlocked(IF frame[e].callback = "thread_yield_to" THEN frame[e].p_pool
                     ELSE p_pool[frame[e].p_next], -1)
    /\ IF frame[e].callback = "resume_suspend_to"
         THEN Goto(e, "request") /\ UNCHANGED frame
         ELSE Return(e)
    /\ UNCHANGED <<threadVars, queue, p_thread, futex, userVars>>

\* ABTI_thread_handle_request, and what the caller does with its result.  A ULT that
\* is being suspended cannot be cancelled; the scheduler runs what it popped unless
\* it was cancelled or migrated.
HandleRequest(e) ==
    LET t == frame[e].p_prev
        migrate == "MIGRATE" \in request[t]
        cancelled == "CANCEL" \in request[t] /\ ~IsSuspension(e)
        runs == ~migrate /\ ~cancelled /\ frame[e].callback = "schedule"
    IN
    /\ pc[e] = "request"
    /\ frame' = IF runs THEN [frame EXCEPT ![e] = NoFrame]
                ELSE [frame EXCEPT ![e].cancel = cancelled]
    /\ p_pool' = IF migrate /\ ~cancelled THEN [p_pool EXCEPT ![t] = migration_pool[t]]
                 ELSE p_pool
    /\ request' = IF cancelled THEN request ELSE [request EXCEPT ![t] = @ \ {"MIGRATE"}]
    /\ IF runs THEN SetState(t, "RUNNING") /\ SwitchToSibling(e, t)
               ELSE UNCHANGED <<state, p_thread, p_last_xstream>>
    /\ Goto(e, IF runs THEN "run"
               ELSE IF cancelled THEN "load_link"
               ELSE IF IsSuspension(e) THEN "block" ELSE "add")
    /\ UNCHANGED <<migration_pool, p_link, poolVars, futex, userVars>>

Add(e) ==
    /\ pc[e] = "add"
    /\ AddThread(frame[e].p_prev)
    /\ IF frame[e].callback \in {"thread_yield_to", "resume_yield_to"}
         THEN Goto(e, "dec") /\ UNCHANGED frame
         ELSE Return(e)
    /\ UNCHANGED <<descVars, p_last_xstream, num_blocked, p_thread, futex, userVars>>

\* From here on the ULT may be resumed.
Block(e) ==
    /\ pc[e] = "block"
    /\ SetState(frame[e].p_prev, "BLOCKED")
    /\ IF frame[e].callback = "suspend_join"
         THEN Goto(e, "link") /\ UNCHANGED frame
         ELSE Return(e)
    /\ UNCHANGED <<descVars, p_last_xstream, poolVars, p_thread, futex, userVars>>

SetLink(e) ==
    /\ pc[e] = "link"
    /\ p_link' = [p_link EXCEPT ![frame[e].p_next] = frame[e].p_prev]
    /\ Return(e)
    /\ UNCHANGED <<state, p_pool, request, migration_pool, p_last_xstream, poolVars,
                   p_thread, futex, userVars>>

Terminate(e) ==
    /\ pc[e] = "terminate"
    /\ SetState(frame[e].p_prev, "TERMINATED")
    /\ IF frame[e].callback \in {"thread_yield_to", "resume_yield_to", "resume_exit_to"}
         THEN Goto(e, "dec") /\ UNCHANGED frame
         ELSE Return(e)
    /\ UNCHANGED <<descVars, p_last_xstream, poolVars, p_thread, futex, userVars>>
------------------------------------------------------------------------------
(* Waking the joiner: ABTI_ythread_atomic_get_joiner, ABTI_ythread_resume_joiner  *)
(* and the first half of ABTI_ythread_exit                                        *)

\* What follows once the joiner, if any, is awake.
AfterWake(e) ==
    IF frame[e].cancel THEN "terminate"
    ELSE IF frame[e].callback = "resume" THEN "run" ELSE "leave"

LoadLink(e) ==
    LET j == p_link[frame[e].p_prev] IN
    /\ pc[e] = "load_link"
    /\ frame' = [frame EXCEPT ![e].p_joiner = j]
    /\ Goto(e, IF j = Null THEN "join_flag" ELSE "wake")
    /\ UNCHANGED <<threadVars, poolVars, p_thread, futex, userVars>>

\* Mutant: looks for a join request without raising its own flag.
SetJoinFlagLoads(e) ==
    /\ pc[e] = "join_flag"
    /\ Goto(e, IF "JOIN" \in request[frame[e].p_prev] THEN "spin" ELSE AfterWake(e))
    /\ UNCHANGED <<threadVars, poolVars, p_thread, frame, futex, userVars>>

\* The fetch_or that decides between the joiner and the terminating ULT.
SetJoinFlag(e) ==
    LET t == frame[e].p_prev IN
    /\ pc[e] = "join_flag"
    /\ request' = [request EXCEPT ![t] = @ \cup {"JOIN"}]
    /\ Goto(e, IF "JOIN" \in request[t] THEN "spin" ELSE AfterWake(e))
    /\ UNCHANGED <<state, p_pool, migration_pool, p_link, p_last_xstream, poolVars,
                   p_thread, frame, futex, userVars>>

SpinOnLink(e) ==
    /\ pc[e] = "spin"
    /\ p_link[frame[e].p_prev] # Null
    /\ frame' = [frame EXCEPT ![e].p_joiner = p_link[frame[e].p_prev]]
    /\ Goto(e, "wake")
    /\ UNCHANGED <<threadVars, poolVars, p_thread, futex, userVars>>

\* An external joiner sleeps on a futex; a plain exit jumps to a joiner that ran on
\* this execution stream before; any other joiner is pushed to its pool.
Wake(e) ==
    LET j == frame[e].p_joiner
        jumps == /\ frame[e].callback = "exit" /\ ~frame[e].cancel
                 /\ p_last_xstream[j] = p_last_xstream[frame[e].p_prev]
    IN
    /\ pc[e] = "wake"
    /\ \/ /\ j \in Externals
          /\ futex' = [futex EXCEPT ![j] = 1]
          /\ Goto(e, "futex_wake")
          /\ UNCHANGED num_blocked
       \/ /\ j \in Threads /\ jumps
          /\ AddNumBlocked(p_pool[j], -1)
          /\ Goto(e, "jump")
          /\ UNCHANGED futex
       \/ /\ j \in Threads /\ ~jumps
          /\ Goto(e, "push")
          /\ UNCHANGED <<futex, num_blocked>>
    /\ UNCHANGED <<threadVars, queue, p_thread, frame, userVars>>

\* The system call that follows the store to the joiner's futex.
FutexWake(e) ==
    /\ pc[e] = "futex_wake"
    /\ Goto(e, AfterWake(e))
    /\ UNCHANGED <<threadVars, poolVars, p_thread, frame, futex, userVars>>

Jump(e) ==
    /\ pc[e] = "jump"
    /\ SetState(frame[e].p_joiner, "RUNNING")
    /\ SwitchToSibling(e, frame[e].p_joiner)
    /\ Goto(e, "terminate")
    /\ UNCHANGED <<descVars, poolVars, frame, futex, userVars>>

\* ABTI_ythread_resume_and_push
ResumeAndPush(a) ==
    LET j == frame[a].p_joiner IN
    /\ pc[a] = "push"
    /\ AddThread(j)
    /\ frame' = [frame EXCEPT ![a].p_joiner_pool = p_pool[j]]
    /\ Goto(a, "push_dec")
    /\ UNCHANGED <<descVars, p_last_xstream, num_blocked, p_thread, futex, userVars>>

PushDec(a) ==
    /\ pc[a] = "push_dec"
    /\ AddNumBlocked(frame[a].p_joiner_pool, -1)
    /\ Goto(a, AfterWake(a))
    /\ frame' = IF AfterWake(a) = "run" THEN [frame EXCEPT ![a] = NoFrame] ELSE frame
    /\ UNCHANGED <<threadVars, queue, p_thread, futex, userVars>>

\* Off the stack of the exiting ULT, to the parent or to the ULT it named.
Leave(e) ==
    LET s == frame[e].p_next IN
    /\ pc[e] = "leave"
    /\ IF frame[e].callback = "exit"
         THEN SwitchToParent(e) /\ UNCHANGED state
         ELSE SetState(s, "RUNNING") /\ SwitchToSibling(e, s)
    /\ Goto(e, "terminate")
    /\ UNCHANGED <<descVars, poolVars, frame, futex, userVars>>
------------------------------------------------------------------------------
(* The scheduler *)

\* Pop a ULT and hand it to ABTI_ythread_schedule.
Schedule(e, p) ==
    /\ pc[e] = "run" /\ p_thread[e] = Null
    /\ p \in Serves[e]
    /\ queue[p] # <<>>
    /\ queue' = [queue EXCEPT ![p] = Tail(@)]
    /\ Enter(e, "schedule", Head(queue[p]), Null, "request")
    /\ UNCHANGED <<threadVars, num_blocked, p_thread, futex, userVars>>
------------------------------------------------------------------------------
(* Joining *)

\* thread_join: c is a ULT on execution stream a, or the external thread a.
Join(a, s) ==
    LET c == Caller(a) IN
    /\ InUserCode(a)
    /\ "join" \in Ops
    /\ JoinerOf[s] = c
    /\ s \notin freed
    /\ joining' = [joining EXCEPT ![c] = s]
    /\ IF state[s] = "TERMINATED" THEN UNCHANGED pc ELSE Goto(a, "join")
    /\ UNCHANGED <<threadVars, poolVars, p_thread, frame, futex, suspended, freed, ops,
                   limitVars>>

\* If JOIN is set already the target is terminating and the caller may not block.
RequestJoin(a) ==
    LET c == Caller(a)
        s == joining[c]
        late == "JOIN" \in request[s]
    IN
    /\ pc[a] = "join"
    /\ request' = [request EXCEPT ![s] = @ \cup {"JOIN"}]
    /\ \/ late /\ Goto(a, "run") /\ UNCHANGED <<p_thread, p_last_xstream, frame>>
       \/ /\ ~late /\ a \in Xstreams
          /\ SwitchToParent(a)
          /\ Enter(a, "suspend_join", c, s, "inc")
       \/ /\ ~late /\ a \in Externals
          /\ Goto(a, "futex_link")
          /\ UNCHANGED <<p_thread, p_last_xstream, frame>>
    /\ UNCHANGED <<state, p_pool, migration_pool, p_link, poolVars, futex, userVars>>

\* thread_join_futexwait: a dummy on the caller's stack stands for the joiner.
SetFutexLink(x) ==
    /\ pc[x] = "futex_link"
    /\ p_link' = [p_link EXCEPT ![joining[x]] = x]
    /\ Goto(x, "futex")
    /\ UNCHANGED <<state, p_pool, request, migration_pool, p_last_xstream, poolVars,
                   p_thread, frame, futex, userVars>>

FutexSuspend(x) ==
    /\ pc[x] = "futex"
    /\ futex[x] = 1
    /\ futex' = [futex EXCEPT ![x] = 0]
    /\ Goto(x, "run")
    /\ UNCHANGED <<threadVars, poolVars, p_thread, frame, userVars>>

\* The loop at the end of every join.  The caller frees the ULT or revives it; no
\* program does either while a ULT is passing it to ABT_thread_yield_to.
JoinReturns(a) ==
    LET c == Caller(a)
        s == joining[c]
    IN
    /\ pc[a] = "run" /\ c # Null /\ joining[c] # Null
    /\ state[s] = "TERMINATED"
    /\ \A e \in Xstreams : pc[e] = "remove" => frame[e].p_next # s
    /\ \/ /\ joining' = [joining EXCEPT ![c] = Null]
          /\ freed' = freed \cup {s}
          /\ UNCHANGED <<threadVars, queue, revives, ops>>
       \/ /\ revives > 0
          /\ revives' = revives - 1
          /\ joining' = [joining EXCEPT ![c] = Null, ![s] = Null]
          /\ ops' = [ops EXCEPT ![s] = MaxOps[s]]
          /\ \E p \in Pools : /\ p_pool' = [p_pool EXCEPT ![s] = p]
                               /\ queue' = [queue EXCEPT ![p] = Append(@, s)]
          /\ SetState(s, "READY")
          /\ request' = [request EXCEPT ![s] = {}]
          /\ p_last_xstream' = [p_last_xstream EXCEPT ![s] = Null]
          /\ p_link' = [p_link EXCEPT ![s] = Null]
          /\ UNCHANGED <<migration_pool, freed>>
    /\ UNCHANGED <<num_blocked, p_thread, pc, frame, futex, suspended, requests>>

\* Mutant: yields without looking at the state of the target.
JoinYieldsBlindly(e) ==
    /\ pc[e] = "run" /\ p_thread[e] # Null /\ joining[p_thread[e]] # Null
    /\ SwitchToParent(e)
    /\ Enter(e, "yield", p_thread[e], Null, "request")
    /\ UNCHANGED <<state, descVars, poolVars, futex, userVars>>

JoinYields(e) ==
    LET t == p_thread[e] IN
    /\ pc[e] = "run" /\ t # Null /\ joining[t] # Null
    /\ state[joining[t]] # "TERMINATED"
    /\ SwitchToParent(e)
    /\ Enter(e, "yield", t, Null, "request")
    /\ UNCHANGED <<state, descVars, poolVars, futex, userVars>>
------------------------------------------------------------------------------
(* Requests, by anybody at any time before the ULT is freed *)

Cancel(t) ==
    /\ "cancel" \in Ops /\ requests > 0 /\ t \notin freed
    /\ requests' = requests - 1
    /\ request' = [request EXCEPT ![t] = @ \cup {"CANCEL"}]
    /\ UNCHANGED <<state, p_pool, migration_pool, p_link, p_last_xstream, poolVars,
                   p_thread, pc, frame, futex, joining, suspended, freed, ops, revives>>

MigrateToPool(t, p) ==
    /\ "migrate" \in Ops /\ requests > 0 /\ t \notin freed
    /\ p # p_pool[t]
    /\ requests' = requests - 1
    /\ migration_pool' = [migration_pool EXCEPT ![t] = p]
    /\ request' = [request EXCEPT ![t] = @ \cup {"MIGRATE"}]
    /\ UNCHANGED <<state, p_pool, p_link, p_last_xstream, poolVars, p_thread, pc, frame,
                   futex, joining, suspended, freed, ops, revives>>
------------------------------------------------------------------------------
UserStep(e) ==
    \E t \in Threads :
      \/ Yield(e, t) \/ Suspend(e, t) \/ Exit(e, t)
      \/ \E s \in Threads :
           \/ YieldTo(e, t, s) \/ ThreadYieldTo(e, t, s) \/ SuspendTo(e, t, s)
           \/ ResumeYieldTo(e, t, s) \/ ResumeSuspendTo(e, t, s)
           \/ ExitTo(e, t, s) \/ ResumeExitTo(e, t, s)

RuntimeStep(e) ==
    \/ PoolRemove(e) \/ IncNumBlocked(e) \/ DecNumBlocked(e) \/ HandleRequest(e)
    \/ Add(e) \/ Block(e) \/ SetLink(e) \/ Terminate(e)
    \/ LoadLink(e) \/ SetJoinFlag(e) \/ SpinOnLink(e) \/ Wake(e) \/ FutexWake(e)
    \/ Jump(e) \/ Leave(e) \/ JoinYields(e)
    \/ \E p \in Pools : Schedule(e, p)

AnyStep(a) ==
    \/ ResumeAndPush(a) \/ PushDec(a) \/ RequestJoin(a) \/ JoinReturns(a)
    \/ \E s \in Threads : Resume(a, s) \/ Join(a, s)

XstreamStep(e) == UserStep(e) \/ RuntimeStep(e) \/ AnyStep(e)
ExternalStep(x) == SetFutexLink(x) \/ FutexSuspend(x) \/ AnyStep(x)
RequestStep == \E t \in Threads : Cancel(t) \/ \E p \in Pools : MigrateToPool(t, p)

\* Schedulers never stop here: what is left is idling on empty pools.
Terminated ==
    /\ \A p \in Pools : queue[p] = <<>>
    /\ \A e \in Xstreams : pc[e] = "run" /\ p_thread[e] = Null
    /\ \A x \in Externals : pc[x] = "run"
    /\ \A t \in Threads : state[t] = "TERMINATED"
    /\ UNCHANGED vars

Next ==
    \/ \E e \in Xstreams : XstreamStep(e)
    \/ \E x \in Externals : ExternalStep(x)
    \/ RequestStep
    \/ Terminated

Spec == Init /\ [][Next]_vars

------------------------------------------------------------------------------
(* Properties *)

\* The fields of the ULTs, the pools and the locals of the runtime stay in their
\* types; in particular a callback never works with a NULL ULT.
TypeOK ==
    /\ state \in [Threads -> {"READY", "RUNNING", "BLOCKED", "TERMINATED"}]
    /\ p_pool \in [Threads -> Pools]
    /\ request \in [Threads -> SUBSET {"JOIN", "CANCEL", "MIGRATE"}]
    /\ migration_pool \in [Threads -> Pools \cup {Null}]
    /\ p_link \in [Threads -> Callers \cup {Null}]
    /\ p_last_xstream \in [Threads -> Xstreams \cup {Null}]
    /\ queue \in [Pools -> Seq(Threads)]
    /\ num_blocked \in [Pools -> Int]
    /\ p_thread \in [Xstreams -> Threads \cup {Null}]
    /\ \A a \in Actors : /\ frame[a].p_prev \in Threads \cup {Null}
                         /\ frame[a].p_joiner \in Callers \cup {Null}
                         /\ pc[a] = "run" => frame[a] = NoFrame
    /\ joining \in [Callers -> Threads \cup {Null}]
    /\ suspended \subseteq Threads
    /\ freed \subseteq Threads

\* Where ULT t is: in a pool, under the feet of an execution stream, or in the hands
\* of a callback or of the scheduler that has not let go of it yet.
Places(t) ==
    (UNION {{<<p, i>> : i \in {k \in 1..Len(queue[p]) : queue[p][k] = t}} : p \in Pools})
    \cup {<<e, 0>> : e \in {f \in Xstreams : p_thread[f] = t}}
    \cup {<<e, 0>> : e \in {f \in Xstreams : frame[f].p_prev = t
                                           /\ pc[f] \notin {"dec", "link"}}}
    \cup {<<e, 1>> : e \in {a \in Actors : frame[a].p_joiner = t
                                         /\ pc[a] \in {"push", "jump"}}}

\* A ULT is never in two pools or twice in one, never runs on two execution streams,
\* and is neither queued nor running while a callback still works on it: its stack
\* and context have one user at a time.  A BLOCKED or TERMINATED ULT is nowhere, so
\* whoever resumes or frees it is alone with it.
OnePlace ==
    \A t \in Threads :
      /\ Cardinality(Places(t)) <= 1
      /\ state[t] = "TERMINATED" \/ (t \in suspended /\ state[t] = "BLOCKED")
           => Places(t) = {}

\* The ULTs whose memory actor a is still going to use.
Uses(a) ==
    (IF a \in Xstreams THEN {p_thread[a]} ELSE {})
    \cup (IF pc[a] \in {"run", "remove"} THEN {} ELSE {frame[a].p_next})
    \cup (IF pc[a] \in {"run", "dec"} THEN {} ELSE {frame[a].p_prev})
    \cup (IF pc[a] \in {"wake", "push", "jump"} THEN {frame[a].p_joiner} ELSE {})

\* The store of TERMINATED is the last use of a ULT but its joiner's: nobody touches
\* memory the joiner may have freed, and nobody wakes a joiner that is not waiting.
NoUseAfterFree ==
    \A a \in Actors :
      /\ \A t \in Uses(a) \cap Threads : state[t] # "TERMINATED"
      /\ pc[a] \in {"wake", "futex_wake"} /\ frame[a].p_joiner \in Externals
           => joining[frame[a].p_joiner] = frame[a].p_prev

\* When no callback is under way, num_blocked of a pool is the number of BLOCKED ULTs
\* that belong to it: what a scheduler relies on to know that no more will come.
NumBlockedExact ==
    (\A a \in Actors : pc[a] = "run") =>
      \A p \in Pools :
        num_blocked[p] = Cardinality({t \in Threads : p_pool[t] = p /\ state[t] = "BLOCKED"})

\* A pool never looks drained while a ULT of it is suspended or on its way back:
\* a scheduler that finds it empty with num_blocked 0 strands nobody.
NoUltStranded ==
    \A p \in Pools :
      queue[p] = <<>> /\ num_blocked[p] <= 0 =>
        \A t \in Threads : p_pool[t] = p /\ state[t] # "TERMINATED" =>
          \E a \in Actors : t \in Uses(a)

\* Every join returns, unless the ULT that joins is cancelled meanwhile.
JoinsReturn ==
    \A c \in Callers :
      joining[c] # Null ~> joining[c] = Null \/ (c \in Threads /\ state[c] = "TERMINATED")
==============================================================================
