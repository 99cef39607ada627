-------------------------------- MODULE Xstream --------------------------------
(***************************************************************************)
(* How a secondary execution stream ends and comes back: the native thread *)
(* with its context (arch/abtd_stream.c), the root and main scheduler ULTs *)
(* (thread.c), the run functions of the predefined schedulers and their    *)
(* stop test (sched/), and the calls join, cancel, exit, revive, free and  *)
(* set_main_sched (stream.c).  A scheduler has one pool of its own, so a   *)
(* pool goes by the name of its scheduler.  Suspended ULTs are resumed by  *)
(* other streams.  The join of the main scheduler's ULT is a wait for its  *)
(* state, as Ythread shows.                                                *)
(***************************************************************************)
EXTENDS Naturals, Sequences, FiniteSets

CONSTANTS Ults, Scheds, NoUlt, NoSched,
          First,        \* the scheduler the stream is created with
          Automatic,    \* the schedulers that are freed, with their pool, when replaced
          Ready,        \* the ULTs there are when the stream starts
          BasicWait,    \* whether the schedulers are ABT_SCHED_BASIC_WAIT
          EventFreq,
          Overlap,      \* whether ULTs replace a scheduler whose replacement is pending
          MaxOps,       \* bounds: calls of each ULT before it returns
          MaxLives      \* bound: how often the stream runs

XstreamConstants ==
    /\ IsFiniteSet(Ults) /\ NoUlt \notin Ults /\ NoSched \notin Scheds
    /\ First \in Scheds /\ Automatic \subseteq Scheds /\ Ready \subseteq Ults
    /\ BasicWait \in BOOLEAN /\ Overlap \in BOOLEAN
    /\ EventFreq \in Nat \ {0} /\ MaxOps \in [Ults -> Nat] /\ MaxLives \in Nat

VARIABLES
    ctx_state, sleeping,            \* ABTD_xstream_context: state, who waits on state_cond
    state, p_main_sched,            \* ABTI_xstream
    used, request,                  \* ABTI_sched
    p_replace_sched, p_replace_waiter,
    main_state, main_request,       \* the ULT of the main scheduler
    queue, num_blocked,             \* ABTI_pool
    ult_state, p_pool, ops,         \* the ULTs
    resuming,                       \* the resumes that have still to lower num_blocked: which
                                    \* ULT, what it had left to call, and its pool then
    pc, cur, pop_count, look,       \* the native thread
    ctl, lives                      \* the thread that joins, revives and frees the stream

sched == <<used, request, p_replace_sched, p_replace_waiter>>
pools == <<queue, num_blocked>>
ults == <<ult_state, p_pool, ops, resuming>>
ctx == <<ctx_state, sleeping>>
main == <<main_state, main_request>>
native == <<pc, cur, pop_count, look>>
control == <<ctl, lives>>
vars == <<ctx, state, p_main_sched, sched, main, pools, ults, native, control>>

Init ==
    /\ ctx_state = "RUNNING" /\ sleeping = {}
    /\ state = "RUNNING" /\ p_main_sched = First
    /\ used = [s \in Scheds |-> IF s = First THEN "MAIN" ELSE "NOT_USED"]
    /\ request = [s \in Scheds |-> {}]
    /\ p_replace_sched = [s \in Scheds |-> NoSched]
    /\ p_replace_waiter = [s \in Scheds |-> NoUlt]
    /\ main_state = "READY" /\ main_request = {}
    /\ \E q \in [1..Cardinality(Ready) -> Ready] :
         /\ \A i, j \in DOMAIN q : q[i] = q[j] => i = j
         /\ \A u \in Ready : \E i \in DOMAIN q : q[i] = u
         /\ queue = [s \in Scheds |-> IF s = First THEN q ELSE <<>>]
    /\ num_blocked = [s \in Scheds |-> 0]
    /\ ult_state = [u \in Ults |-> IF u \in Ready THEN "READY" ELSE "UNBORN"]
    /\ p_pool = [u \in Ults |-> First]
    /\ ops = MaxOps
    /\ resuming = {}
    /\ pc = "root" /\ cur = NoUlt /\ pop_count = 0 /\ look = 0
    /\ ctl = "idle" /\ lives = 1

Push(u, s) == queue' = [queue EXCEPT ![s] = Append(@, u)]
SetState(u, st) == ult_state' = [ult_state EXCEPT ![u] = st]
Pending == p_replace_sched[p_main_sched] # NoSched

\* ABTI_sched_discard_and_free: an automatic scheduler takes its pool with it.
Discarded(s) == IF s \in Automatic THEN "FREED" ELSE "NOT_USED"
------------------------------------------------------------------------------
(* The root ULT and the ULT of the main scheduler *)

\* The root takes the main scheduler's ULT, which may have been cancelled already.
RootFunc ==
    /\ pc = "root"
    /\ IF "CANCEL" \in main_request
         THEN main_state' = "TERMINATED" /\ pc' = "terminate"
         ELSE main_state' = "RUNNING" /\ pc' = "main"
    /\ UNCHANGED <<ctx, state, p_main_sched, sched, main_request, pools, ults, cur, pop_count,
                   look, control>>

Run ==
    /\ pc = "main"
    /\ pc' = "pop" /\ pop_count' = 0
    /\ UNCHANGED <<ctx, state, p_main_sched, sched, main, pools, ults, cur, look, control>>

\* The run function has returned: the scheduler is replaced if a ULT asked for it, and
\* that ULT is resumed in the new scheduler's pool.
Replace ==
    /\ pc = "ran"
    /\ IF "REPLACE" \notin request[p_main_sched]
         THEN UNCHANGED <<p_main_sched, used, pools, ult_state>>
         ELSE LET new == p_replace_sched[p_main_sched]
                  waiter == p_replace_waiter[p_main_sched]
              IN  /\ p_main_sched' = new
                  /\ used' = [used EXCEPT ![new] = "MAIN",
                                          ![p_main_sched] = Discarded(p_main_sched)]
                  /\ Push(waiter, p_pool[waiter])
                  /\ num_blocked' = [num_blocked EXCEPT ![p_pool[waiter]] = @ - 1]
                  /\ SetState(waiter, "READY")
    /\ pc' = "cancel"
    /\ UNCHANGED <<ctx, state, request, p_replace_sched, p_replace_waiter, main, p_pool, ops,
                   resuming, cur, pop_count, look, control>>

\* Mutant: a scheduler that is told to finish does, whether or not it has units.
CheckRequestsOnly ==
    /\ pc = "cancel"
    /\ pc' = IF "CANCEL" \in main_request \/ "FINISH" \in request[p_main_sched]
               THEN "exit" ELSE "main"
    /\ UNCHANGED <<ctx, state, p_main_sched, sched, main, pools, ults, cur, pop_count, look,
                   control>>

CheckRequests ==
    /\ pc = "cancel"
    /\ \/ "CANCEL" \in main_request /\ pc' = "exit" /\ UNCHANGED look
       \/ /\ "CANCEL" \notin main_request
          /\ IF "FINISH" \in request[p_main_sched]
               THEN pc' = "empty" /\ look' = 3
               ELSE pc' = "main" /\ UNCHANGED look
    /\ UNCHANGED <<ctx, state, p_main_sched, sched, main, pools, ults, cur, pop_count, control>>

ExitMain ==
    /\ pc = "exit"
    /\ main_state' = "TERMINATED" /\ pc' = "terminate"
    /\ UNCHANGED <<ctx, state, p_main_sched, sched, main_request, pools, ults, cur, pop_count,
                   look, control>>

Terminate ==
    /\ pc = "terminate"
    /\ state' = "TERMINATED" /\ pc' = "ctx"
    /\ UNCHANGED <<ctx, p_main_sched, sched, main, pools, ults, cur, pop_count, look, control>>
------------------------------------------------------------------------------
(* The run functions, for one pool *)

\* A pop, and for basic_wait, if that finds nothing, a pop that waits a while; a unit that
\* the latter finds is the last one before the function returns.
Pop ==
    /\ pc = "pop"
    /\ \/ /\ queue[p_main_sched] # <<>>
          /\ \E waited \in IF BasicWait THEN BOOLEAN ELSE {FALSE} :
                look' = IF waited THEN 1 ELSE 0
          /\ cur' = Head(queue[p_main_sched])
          /\ queue' = [queue EXCEPT ![p_main_sched] = Tail(@)]
          /\ SetState(cur', "RUNNING")
          /\ pc' = "ult"
       \/ /\ queue[p_main_sched] = <<>>
          /\ pc' = "count"
          /\ UNCHANGED <<queue, cur, ult_state, look>>
    /\ pop_count' = IF BasicWait /\ pc' = "count" THEN EventFreq ELSE pop_count + 1
    /\ UNCHANGED <<ctx, state, p_main_sched, sched, main, num_blocked, p_pool, ops, resuming,
                   control>>

Count ==
    /\ pc = "count"
    /\ pc' = IF pop_count >= EventFreq THEN "events" ELSE "pop"
    /\ UNCHANGED <<ctx, state, p_main_sched, sched, main, pools, ults, cur, pop_count, look,
                   control>>

\* ABTI_xstream_check_events
CheckEvents ==
    /\ pc = "events"
    /\ request' = [request EXCEPT ![p_main_sched] =
                     @ \cup (IF "JOIN" \in main_request THEN {"FINISH"} ELSE {})
                       \cup (IF "CANCEL" \in main_request THEN {"EXIT"} ELSE {})]
    /\ pc' = "stop"
    /\ UNCHANGED <<ctx, state, p_main_sched, used, p_replace_sched, p_replace_waiter, main, pools,
                   ults, cur, pop_count, look, control>>

\* ABTI_sched_has_to_stop: two looks at the pool, with the request read in between.
HasToStop ==
    /\ pc = "stop"
    /\ IF "EXIT" \in request[p_main_sched]
         THEN pc' = "ran" /\ UNCHANGED look
         ELSE pc' = "empty" /\ look' = 1
    /\ UNCHANGED <<ctx, state, p_main_sched, sched, main, pools, ults, cur, pop_count, control>>

AnswerUnit ==
    /\ IF look = 3 THEN pc' = "main" /\ UNCHANGED pop_count
                   ELSE pc' = "pop" /\ pop_count' = 0
    /\ UNCHANGED look

\* Mutant: one look is enough.
AnswerNoUnitOnce ==
    /\ pc' = CASE look = 1 -> IF {"FINISH", "REPLACE"} \cap request[p_main_sched] # {}
                                THEN "ran" ELSE "pop"
               [] look = 2 -> "ran"
               [] look = 3 -> "exit"
    /\ pop_count' = IF pc' = "pop" THEN 0 ELSE pop_count
    /\ UNCHANGED look

AnswerNoUnit ==
    IF look = 1
      THEN IF {"FINISH", "REPLACE"} \cap request[p_main_sched] # {}
             THEN pc' = "empty" /\ look' = 2 /\ UNCHANGED pop_count
             ELSE pc' = "pop" /\ pop_count' = 0 /\ UNCHANGED look
      ELSE /\ pc' = IF look = 2 THEN "ran" ELSE "exit"
           /\ UNCHANGED <<look, pop_count>>

\* ABTI_sched_has_unit: is the pool empty, and are no ULTs of it blocked?
LookEmpty ==
    /\ pc = "empty"
    /\ IF queue[p_main_sched] # <<>>
         THEN AnswerUnit
         ELSE pc' = "blocked" /\ UNCHANGED <<look, pop_count>>
    /\ UNCHANGED <<ctx, state, p_main_sched, sched, main, pools, ults, cur, control>>

LookBlocked ==
    /\ pc = "blocked"
    /\ IF num_blocked[p_main_sched] # 0 THEN AnswerUnit ELSE AnswerNoUnit
    /\ UNCHANGED <<ctx, state, p_main_sched, sched, main, pools, ults, cur, control>>
------------------------------------------------------------------------------
(* The ULTs *)

\* Back in the run function; the unit that a waiting pop found was the last one.
Back ==
    /\ pc' = IF look = 1 THEN "ran" ELSE "count"
    /\ cur' = NoUlt /\ look' = 0
    /\ UNCHANGED <<pop_count, ctx, state, control>>

Call(u) == pc = "ult" /\ cur = u /\ ops[u] > 0 /\ ops' = [ops EXCEPT ![u] = @ - 1]

Yield(u) ==
    /\ Call(u) /\ Back
    /\ SetState(u, "READY") /\ Push(u, p_pool[u])
    /\ UNCHANGED <<p_main_sched, sched, main, num_blocked, p_pool, resuming>>

Suspend(u) ==
    /\ Call(u) /\ Back
    /\ num_blocked' = [num_blocked EXCEPT ![p_pool[u]] = @ + 1]
    /\ SetState(u, "BLOCKED")
    /\ UNCHANGED <<p_main_sched, sched, main, queue, p_pool, resuming>>

Create(u, v) ==
    /\ Call(u)
    /\ ult_state[v] = "UNBORN" /\ SetState(v, "READY")
    /\ p_pool' = [p_pool EXCEPT ![v] = p_pool[u]]
    /\ Push(v, p_pool[u])
    /\ UNCHANGED <<ctx, state, p_main_sched, sched, main, num_blocked, resuming, native, control>>

Return(u) ==
    /\ pc = "ult" /\ cur = u /\ Back
    /\ SetState(u, "TERMINATED")
    /\ UNCHANGED <<p_main_sched, sched, main, pools, p_pool, ops, resuming>>

\* ABT_xstream_exit.  Like ABT_xstream_cancel it abandons the work units of the stream; the
\* program does not do that to a scheduler that is being replaced and freed.
XstreamExit(u) ==
    /\ Call(u) /\ Back /\ ~Pending
    /\ main_request' = main_request \cup {"CANCEL"}
    /\ SetState(u, "TERMINATED")
    /\ UNCHANGED <<p_main_sched, sched, main_state, pools, p_pool, resuming>>

\* The caller moves to the new scheduler if it is in a pool of the current one.
NewPool(u, new) == IF p_pool[u] = p_main_sched THEN new ELSE p_pool[u]

\* ABT_xstream_set_main_sched by a ULT of the stream: it moves to the new scheduler's pool
\* and blocks; if another one waits for a replacement, its scheduler is discarded and it
\* is resumed.
SetMainSched(u, new) ==
    /\ Call(u) /\ Back
    /\ used[new] = "NOT_USED" /\ request[new] = {} /\ p_replace_sched[p_main_sched] # new
    /\ Pending => Overlap
    /\ "CANCEL" \notin main_request
    /\ LET old == p_replace_sched[p_main_sched]
           waiter == p_replace_waiter[p_main_sched]
           pool == NewPool(u, new)
       IN  /\ p_pool' = [p_pool EXCEPT ![u] = pool]
           /\ IF Pending
                THEN /\ used' = [used EXCEPT ![old] = Discarded(old)]
                     /\ Push(waiter, p_pool[waiter])
                     /\ num_blocked' = [s \in Scheds |->
                                          num_blocked[s] + (IF s = pool THEN 1 ELSE 0)
                                                - (IF s = p_pool[waiter] THEN 1 ELSE 0)]
                     /\ ult_state' = [ult_state EXCEPT ![u] = "BLOCKED", ![waiter] = "READY"]
                ELSE /\ num_blocked' = [num_blocked EXCEPT ![pool] = @ + 1]
                     /\ SetState(u, "BLOCKED")
                     /\ UNCHANGED <<used, queue>>
    /\ p_replace_sched' = [p_replace_sched EXCEPT ![p_main_sched] = new]
    /\ p_replace_waiter' = [p_replace_waiter EXCEPT ![p_main_sched] = u]
    /\ request' = [request EXCEPT ![p_main_sched] = @ \cup {"REPLACE"}]
    /\ UNCHANGED <<p_main_sched, main, resuming>>

\* Another stream resumes a ULT: it is in its pool before num_blocked is lowered.
Resume(u) ==
    /\ ult_state[u] = "BLOCKED" /\ u # p_replace_waiter[p_main_sched]
    /\ SetState(u, "READY") /\ Push(u, p_pool[u])
    /\ resuming' = resuming \cup {<<u, ops[u], p_pool[u]>>}
    /\ UNCHANGED <<ctx, state, p_main_sched, sched, main, num_blocked, p_pool, ops, native, control>>

ResumeDone ==
    /\ \E r \in resuming : /\ num_blocked' = [num_blocked EXCEPT ![r[3]] = @ - 1]
                          /\ resuming' = resuming \ {r}
    /\ UNCHANGED <<ctx, state, p_main_sched, sched, main, queue, ult_state, p_pool, ops, native,
                   control>>
------------------------------------------------------------------------------
(* The context of the stream *)

\* pthread_cond_signal wakes one of those who sleep.
Signal == IF sleeping = {} THEN {{}} ELSE {sleeping \ {w} : w \in sleeping}

CtxFinish ==
    /\ pc = "ctx"
    /\ \E left \in (IF ctx_state = "REQ_JOIN" THEN Signal ELSE {sleeping}) :
          sleeping' = left \cup {"native"}
    /\ ctx_state' = "WAITING" /\ pc' = "ctxwait"
    /\ UNCHANGED <<state, p_main_sched, sched, main, pools, ults, cur, pop_count, look, control>>

CtxWoken ==
    /\ pc = "ctxwait" /\ "native" \notin sleeping
    /\ IF ctx_state = "WAITING"
         THEN sleeping' = sleeping \cup {"native"} /\ UNCHANGED pc
         ELSE pc' = (IF ctx_state = "REQ_TERMINATE" THEN "gone" ELSE "root") /\ UNCHANGED sleeping
    /\ UNCHANGED <<ctx_state, state, p_main_sched, sched, main, pools, ults, cur, pop_count, look,
                   control>>

Spurious ==
    /\ \E w \in sleeping : sleeping' = sleeping \ {w}
    /\ UNCHANGED <<ctx_state, state, p_main_sched, sched, main, pools, ults, native, control>>
------------------------------------------------------------------------------
(* Join, cancel, revive, free, and set_main_sched on a stream that is terminated *)

\* xstream_join: finish the scheduler, join its ULT, then the native thread.
Join ==
    /\ ctl = "idle"
    /\ request' = [request EXCEPT ![p_main_sched] = @ \cup {"FINISH"}]
    /\ ctl' = "join"
    /\ UNCHANGED <<ctx, state, p_main_sched, used, p_replace_sched, p_replace_waiter, main, pools,
                   ults, native, lives>>

JoinMain ==
    /\ ctl = "join"
    /\ IF main_state = "TERMINATED"
         THEN ctl' = "ctxjoin" /\ UNCHANGED main_request
         ELSE ctl' = "await" /\ main_request' = main_request \cup {"JOIN"}
    /\ UNCHANGED <<ctx, state, p_main_sched, sched, main_state, pools, ults, native, lives>>

Await ==
    /\ ctl = "await" /\ main_state = "TERMINATED"
    /\ ctl' = "ctxjoin"
    /\ UNCHANGED <<ctx, state, p_main_sched, sched, main, pools, ults, native, lives>>

CtxJoin ==
    /\ ctl = "ctxjoin"
    /\ IF ctx_state = "WAITING"
         THEN ctl' = "joined" /\ UNCHANGED ctx
         ELSE ctx_state' = "REQ_JOIN" /\ sleeping' = sleeping \cup {"joiner"} /\ ctl' = "ctxsleep"
    /\ UNCHANGED <<state, p_main_sched, sched, main, pools, ults, native, lives>>

\* Mutant: the joiner does not look at the state again when it wakes up.
CtxJoinWokenOnce ==
    /\ ctl = "ctxsleep" /\ "joiner" \notin sleeping
    /\ ctl' = "joined"
    /\ UNCHANGED <<ctx, state, p_main_sched, sched, main, pools, ults, native, lives>>

CtxJoinWoken ==
    /\ ctl = "ctxsleep" /\ "joiner" \notin sleeping
    /\ IF ctx_state = "REQ_JOIN"
         THEN sleeping' = sleeping \cup {"joiner"} /\ UNCHANGED ctl
         ELSE ctl' = "joined" /\ UNCHANGED sleeping
    /\ UNCHANGED <<ctx_state, state, p_main_sched, sched, main, pools, ults, native, lives>>

\* ABT_xstream_cancel
Cancel ==
    /\ state = "RUNNING" /\ ~Pending /\ "CANCEL" \notin main_request
    /\ ctl \in {"idle", "await"}
    /\ main_request' = main_request \cup {"CANCEL"}
    /\ UNCHANGED <<ctx, state, p_main_sched, sched, main_state, pools, ults, native, control>>

\* The controlling thread creates a ULT, before it joins or while the stream is down, but
\* not in a scheduler that is being replaced.
CreateOutside(u) ==
    /\ ctl \in {"idle", "joined"} /\ ~Pending
    /\ ult_state[u] = "UNBORN" /\ SetState(u, "READY")
    /\ p_pool' = [p_pool EXCEPT ![u] = p_main_sched] /\ Push(u, p_main_sched)
    /\ UNCHANGED <<ctx, state, p_main_sched, sched, main, num_blocked, ops, resuming, native,
                   control>>

CtxRevive == ctx_state' = "RUNNING" /\ sleeping' \in Signal

Revive ==
    /\ ctl = "joined" /\ lives < MaxLives /\ main_state = "TERMINATED"
    /\ request' = [request EXCEPT ![p_main_sched] = {}]
    /\ main_state' = "READY" /\ main_request' = {}
    /\ state' = "RUNNING"
    /\ CtxRevive
    /\ ctl' = "idle" /\ lives' = lives + 1
    /\ UNCHANGED <<p_main_sched, used, p_replace_sched, p_replace_waiter, pools, ults, native>>

\* xstream_update_main_sched on another stream, which is terminated: the new scheduler takes
\* over the ULT of the old one.
TakeOver(new) ==
    /\ used' = [used EXCEPT ![new] = "MAIN", ![p_main_sched] = Discarded(p_main_sched)]
    /\ p_main_sched' = new

\* The program leaves no work unit behind in the scheduler it takes away.
SetMainSchedTerminated(new) ==
    /\ ctl = "joined" /\ lives < MaxLives
    /\ used[new] = "NOT_USED" /\ request[new] = {}
    /\ \A u \in Ults : p_pool[u] = p_main_sched => ult_state[u] \in {"UNBORN", "TERMINATED"}
    /\ TakeOver(new)
    /\ UNCHANGED <<ctx, state, request, p_replace_sched, p_replace_waiter, main, pools, ults,
                   native, control>>

\* ABTI_xstream_free: the main scheduler goes, then the native thread.
FreeMainSched ==
    /\ used' = [used EXCEPT ![p_main_sched] = Discarded(p_main_sched)]
    /\ ctx_state' = "REQ_TERMINATE" /\ sleeping' \in Signal

Free ==
    /\ ctl = "joined"
    /\ FreeMainSched
    /\ ctl' = "pjoin"
    /\ UNCHANGED <<state, p_main_sched, request, p_replace_sched, p_replace_waiter, main, pools,
                   ults, native, lives>>

PthreadJoin ==
    /\ ctl = "pjoin" /\ pc = "gone"
    /\ ctl' = "done"
    /\ UNCHANGED <<ctx, state, p_main_sched, sched, main, pools, ults, native, lives>>
------------------------------------------------------------------------------
Native ==
    \/ RootFunc \/ Run \/ Replace \/ CheckRequests \/ ExitMain \/ Terminate
    \/ Pop \/ Count \/ CheckEvents \/ HasToStop \/ LookEmpty \/ LookBlocked
    \/ CtxFinish \/ CtxWoken
    \/ \E u \in Ults : Yield(u) \/ Suspend(u) \/ Return(u) \/ XstreamExit(u)
                       \/ (\E v \in Ults : Create(u, v)) \/ (\E s \in Scheds : SetMainSched(u, s))
Control == JoinMain \/ Await \/ CtxJoin \/ CtxJoinWoken \/ PthreadJoin
Others == ResumeDone \/ \E u \in Ults : Resume(u)

Next ==
    \/ Native \/ Control \/ Others
    \/ Join \/ Cancel \/ Revive \/ Free \/ Spurious
    \/ \E u \in Ults : CreateOutside(u)
    \/ \E s \in Scheds : SetMainSchedTerminated(s)
    \/ ctl = "done" /\ UNCHANGED vars

\* The native thread and the joiner run; ULTs that are suspended are resumed.
Spec ==
    /\ Init /\ [][Next]_vars
    /\ WF_vars(Native) /\ WF_vars(Control) /\ WF_vars(ResumeDone)
    /\ \A u \in Ults : WF_vars(Resume(u))
------------------------------------------------------------------------------
(* Properties *)

States == {"UNBORN", "READY", "RUNNING", "BLOCKED", "TERMINATED"}
TypeOK ==
    /\ ctx_state \in {"RUNNING", "WAITING", "REQ_JOIN", "REQ_TERMINATE"}
    /\ sleeping \subseteq {"native", "joiner"}
    /\ state \in {"RUNNING", "TERMINATED"} /\ p_main_sched \in Scheds
    /\ used \in [Scheds -> {"NOT_USED", "MAIN", "FREED"}]
    /\ request \in [Scheds -> SUBSET {"FINISH", "EXIT", "REPLACE"}]
    /\ p_replace_sched \in [Scheds -> Scheds \cup {NoSched}]
    /\ p_replace_waiter \in [Scheds -> Ults \cup {NoUlt}]
    /\ main_state \in States /\ main_request \subseteq {"JOIN", "CANCEL"}
    /\ queue \in [Scheds -> Seq(Ults)] /\ num_blocked \in [Scheds -> Nat]
    /\ ult_state \in [Ults -> States] /\ p_pool \in [Ults -> Scheds]
    /\ cur \in Ults \cup {NoUlt} /\ look \in 0..3 /\ pop_count \in 0..EventFreq

\* The assertions of the context, of join and of revive (abtd_stream.c:13, 37, 97, 117, 124,
\* 132, stream.c:1874, 1903): a joiner finds a context that runs or waits, and the one it
\* leaves belongs to a stream that is terminated and whose native thread waits for orders.
JoinedIsDown ==
    /\ ctl = "ctxjoin" => ctx_state \in {"RUNNING", "WAITING"}
    /\ ctl = "joined" => /\ ctx_state = "WAITING" /\ state = "TERMINATED" /\ pc = "ctxwait"
    /\ pc = "root" => state = "RUNNING" /\ ctx_state \in {"RUNNING", "REQ_JOIN"}

\* "When join is requested, the ES terminates after finishing execution of all work units"
\* (thread.c:3354): nobody is left in a pool, or blocked, when a stream that was not
\* cancelled stops, although resumes push to the pool and lower num_blocked in two steps
\* while the scheduler looks at one and then the other.
Drained ==
    pc = "ctx" /\ "CANCEL" \notin main_request =>
        \A u \in Ults : p_pool[u] = p_main_sched => ult_state[u] \in {"UNBORN", "TERMINATED"}

\* The main scheduler is alive, nobody is left in, or waits to return to, a pool that was
\* freed with its scheduler.
PoolsAlive ==
    /\ ctl \notin {"pjoin", "done"} => used[p_main_sched] = "MAIN"
    /\ \A u \in Ults : ult_state[u] \in {"READY", "RUNNING", "BLOCKED"} =>
                            used[p_pool[u]] # "FREED" \/ ctl \in {"pjoin", "done"}

\* Joins return, whether or not the stream is cancelled, and a revived stream runs, also
\* when wake-ups are spurious.
JoinReturns ==
    /\ ctl \in {"join", "await", "ctxjoin", "ctxsleep"} ~> ctl = "joined"
    /\ ctl = "pjoin" ~> ctl = "done"
    /\ (ctx_state = "RUNNING" /\ pc = "ctxwait") ~> pc = "root"
===============================================================================
