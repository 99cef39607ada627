----------------------------- MODULE ThreadQueue -----------------------------
(***************************************************************************)
(* The predefined pools: the circular list of pool/thread_queue.h and the  *)
(* fifo, randws and fifo_wait pools around it, called by the pool API, and *)
(* the wrappers of pool.c around a pool with an old-style definition.      *)
(*                                                                         *)
(* A list operation is one step, made under the pool's lock, and a call    *)
(* that pushes, pops or prints several units makes one for each; the       *)
(* emptiness test that precedes a pop, every attempt to take the lock and  *)
(* every release are steps of their own.  Time is abstract: a deadline may *)
(* pass at any time, and a condition variable may wake without a signal.   *)
(***************************************************************************)
EXTENDS Integers, Sequences, FiniteSets, SequencesExt

CONSTANTS Callers, Threads, NULL,
          Lengths,    \* bound: how many units one call pushes or pops
          MaxCalls    \* bound: calls of all callers together

ASSUME PoolAssumption ==
  /\ IsFiniteSet(Callers) /\ NULL \notin Threads
  /\ Lengths \subseteq Nat \ {0} /\ MaxCalls \in Nat

VARIABLES kind,       \* "fifo", "randws", "fifo_wait", "old"
          access,     \* "PRIV" or "MPMC"
          q,          \* thread_queue_t with the links of the threads
          lock,       \* the spinlock, or the mutex of fifo_wait
          sleeping,   \* callers blocked on the condition variable
          call,       \* the call each caller is in
          calls,
          queue,      \* history: the pool's content in order
          sawEmpty    \* history: callers whose call met an empty pool

vars == <<kind, access, q, lock, sleeping, call, calls, queue, sawEmpty>>

-----------------------------------------------------------------------------
(* thread_queue.h                                                          *)

EmptyQueue ==
  [num |-> 0, head |-> NULL, tail |-> NULL, empty |-> TRUE,
   prev |-> [p \in Threads |-> NULL], next |-> [p \in Threads |-> NULL],
   in |-> [p \in Threads |-> FALSE]]

First(Q, p) ==
  [Q EXCEPT !.num = 1, !.head = p, !.tail = p, !.empty = FALSE,
            !.prev[p] = p, !.next[p] = p, !.in[p] = TRUE]

\* p goes between the tail and the head.
Link(Q, p) ==
  [Q EXCEPT !.num = @ + 1, !.in[p] = TRUE,
            !.next = [@ EXCEPT ![Q.tail] = p, ![p] = Q.head],
            !.prev = [@ EXCEPT ![Q.head] = p, ![p] = Q.tail]]

PushHead(Q, p) == IF Q.num = 0 THEN First(Q, p) ELSE [Link(Q, p) EXCEPT !.head = p]
PushTail(Q, p) == IF Q.num = 0 THEN First(Q, p) ELSE [Link(Q, p) EXCEPT !.tail = p]

\* The neighbours of p are joined; the caller moves head and tail.
Unlink(Q, p) ==
  [Q EXCEPT !.num = @ - 1, !.in[p] = FALSE, !.empty = Q.num = 1,
            !.next = [[@ EXCEPT ![Q.prev[p]] = Q.next[p]] EXCEPT ![p] = NULL],
            !.prev = [[@ EXCEPT ![Q.next[p]] = Q.prev[p]] EXCEPT ![p] = NULL]]

Ends(Q, head, tail) ==
  IF Q.num = 0 THEN [Q EXCEPT !.head = NULL, !.tail = NULL]
  ELSE [Q EXCEPT !.head = head, !.tail = tail]

\* Pops return [q, p]; p is NULL when there is nothing.
PopHead(Q) ==
  IF Q.num = 0 THEN [q |-> Q, p |-> NULL]
  ELSE [q |-> Ends(Unlink(Q, Q.head), Q.next[Q.head], Q.tail), p |-> Q.head]

PopTail(Q) ==
  IF Q.num = 0 THEN [q |-> Q, p |-> NULL]
  ELSE [q |-> Ends(Unlink(Q, Q.tail), Q.head, Q.prev[Q.tail]), p |-> Q.tail]

Removable(Q, p) == Q.num # 0 /\ Q.in[p]

\* Mutant: the tail stays when the last thread is removed.
RemoveKeepTail(Q, p) ==
  Ends(Unlink(Q, p), IF p = Q.head THEN Q.next[p] ELSE Q.head, Q.tail)

RemoveThread(Q, p) ==
  Ends(Unlink(Q, p), IF p = Q.head THEN Q.next[p] ELSE Q.head,
       IF p = Q.tail /\ p # Q.head THEN Q.prev[p] ELSE Q.tail)

-----------------------------------------------------------------------------
(* The data of a new pool.  pool_init clears the spinlock unless the pool  *)
(* is private: then it is whatever malloc returned.                        *)
FifoInit == [q |-> EmptyQueue, lock |-> IF access = "PRIV" THEN BOOLEAN ELSE {FALSE}]
RandwsInit == [q |-> EmptyQueue, lock |-> IF access = "PRIV" THEN BOOLEAN ELSE {FALSE}]
FifoWaitInit == [q |-> EmptyQueue, lock |-> {FALSE}]

InitialData == CASE kind = "randws" -> RandwsInit
                 [] kind = "fifo_wait" -> FifoWaitInit
                 [] OTHER -> FifoInit

Idle == [op |-> "none", pc |-> "idle", units |-> <<>>, n |-> 0, flag |-> FALSE,
         got |-> <<>>, again |-> FALSE]

InitAs(kinds) ==
  /\ kind \in kinds
  /\ access \in IF kind \in {"fifo", "randws"} THEN {"PRIV", "MPMC"} ELSE {"MPMC"}
  /\ q = InitialData.q /\ lock \in InitialData.lock
  /\ sleeping = {}
  /\ call = [c \in Callers |-> Idle]
  /\ calls = 0
  /\ queue = <<>> /\ sawEmpty = {}

-----------------------------------------------------------------------------
(* The functions a pool uses depend on its access: the first step of a call. *)

Waits == {"pop_wait", "pop_timedwait"}
Pops == Waits \cup {"pop"}

FifoDef(op) ==
  CASE op \in Waits -> "test"
    [] op = "pop" /\ access # "PRIV" -> "test"
    [] op # "pop" /\ access # "PRIV" -> "lock"
    [] OTHER -> "body"

RandwsDef(op) ==
  CASE op \in Waits -> "test"
    [] op = "pop" /\ access # "PRIV" -> "test"
    [] op # "pop" /\ access # "PRIV" -> "lock"
    [] OTHER -> "body"

FifoWaitDef(op) == IF op \in {"pop", "remove"} THEN "test" ELSE "lock"

\* The wrappers call the user's functions, once for each unit.
FromOldDef(op) == "each"

Entry(op) == CASE kind = "fifo" -> FifoDef(op)
               [] kind = "randws" -> RandwsDef(op)
               [] kind = "fifo_wait" -> FifoWaitDef(op)
               [] kind = "old" -> FromOldDef(op)

Outside == Threads \ (ToSet(queue)
             \cup UNION {ToSet(call[c].units) \cup ToSet(call[c].got) : c \in Callers})

\* Only randws looks at the pool context.
Contexts == IF kind = "randws" THEN BOOLEAN ELSE {FALSE}

Start(c, op, units, n, flag) ==
  /\ call[c].pc = "idle" /\ calls < MaxCalls /\ calls' = calls + 1
  /\ access = "PRIV" => \A d \in Callers : call[d].pc = "idle"
  /\ call' = [call EXCEPT ![c] = [Idle EXCEPT !.op = op, !.pc = Entry(op), !.units = units,
                                              !.n = n, !.flag = flag]]
  /\ UNCHANGED <<q, lock, sleeping, queue>>

\* ABT_pool_push and ABT_pool_push_threads; flag: the context says a creation.
CallPush(c) ==
  \E n \in Lengths, create \in Contexts :
    \E u \in {v \in [1 .. n -> Outside] : IsInjective(v)} : Start(c, "push", u, n, create)

\* ABT_pool_pop and ABT_pool_pop_threads; flag: by a secondary owner.
CallPop(c) == \E n \in Lengths, secondary \in Contexts : Start(c, "pop", <<>>, n, secondary)

CallPopWait(c) ==
  kind # "old" /\ \E secondary \in Contexts : Start(c, "pop_wait", <<>>, 1, secondary)

CallTimedwait(c) == kind # "old" /\ Start(c, "pop_timedwait", <<>>, 1, FALSE)

\* The caller believes that the unit is in this pool.
CallRemove(c) == kind # "old" /\ \E p \in Threads : Start(c, "remove", <<p>>, 1, FALSE)

CallPrint(c) == kind # "old" /\ Start(c, "print", <<>>, 1, FALSE)

-----------------------------------------------------------------------------
Goto(c, pc) == call' = [call EXCEPT ![c].pc = pc]
Keep == UNCHANGED <<q, sleeping, calls, queue>>

\* Nothing to take: the waiting calls of fifo and randws sleep and look again.
NothingPc(c) == IF call[c].op \in Waits /\ kind # "fifo_wait"
                THEN "nap" ELSE "return"

TestEmpty(c) ==
  /\ call[c].pc = "test" /\ UNCHANGED lock /\ Keep
  /\ Goto(c, IF q.empty \/ (call[c].op = "remove" /\ ~q.in[call[c].units[1]])
             THEN NothingPc(c)
             ELSE IF kind = "fifo_wait" THEN "lock" ELSE "try")

\* Mutant: a lock that is taken counts as an empty pool.
AcquireOnce(c) ==
  /\ \/ call[c].pc = "try" /\ ~lock /\ lock' = TRUE /\ Goto(c, "body")
     \/ call[c].pc = "try" /\ lock /\ Goto(c, NothingPc(c)) /\ UNCHANGED lock
  /\ Keep

\* thread_queue_acquire_spinlock_if_not_empty after its first test.
AcquireIfNotEmpty(c) ==
  /\ \/ call[c].pc = "try" /\ ~lock /\ lock' = TRUE /\ Goto(c, "body")
     \/ call[c].pc = "try" /\ lock /\ Goto(c, "spin") /\ UNCHANGED lock
     \/ /\ call[c].pc = "spin" /\ UNCHANGED lock
        /\ Goto(c, IF q.empty THEN NothingPc(c) ELSE "look")
     \/ /\ call[c].pc = "look" /\ UNCHANGED lock
        /\ Goto(c, IF lock THEN "spin" ELSE "try")
  /\ Keep

AcquireLock(c) ==
  call[c].pc = "lock" /\ ~lock /\ lock' = TRUE /\ Goto(c, "body") /\ Keep

\* Mutant: one waiter is woken for several units.
SignalOne(n) ==
  \/ sleeping = {} /\ UNCHANGED sleeping
  \/ \E w \in sleeping : sleeping' = sleeping \ {w}

\* fifo_wait wakes one waiter for one unit, all of them for several.
Signal(n) ==
  IF n > 1 THEN sleeping' = {}
  ELSE \/ sleeping = {} /\ UNCHANGED sleeping
       \/ \E w \in sleeping : sleeping' = sleeping \ {w}

\* New and revived threads enter a randws pool at the head; the second owner takes the
\* tail, except in a timed pop, which has no context.
AtHead(c) == kind = "randws" /\ call[c].flag
AtTail(c) == kind = "randws" /\ call[c].flag /\ call[c].op # "pop_timedwait"

\* A private pool takes the lock in its waiting pops only.
Leave(c) == IF call[c].pc = "body" /\ (access # "PRIV" \/ call[c].op \in Waits)
            THEN "unlock" ELSE "return"

\* The next unit of a push; fifo_wait signals after the last one.
PushUnit(c) ==
  LET p == Head(call[c].units)
      last == Len(call[c].units) = 1
  IN /\ call[c].pc \in {"body", "each"} /\ call[c].op = "push"
     /\ IF AtHead(c) THEN q' = PushHead(q, p) /\ queue' = <<p>> \o queue
        ELSE q' = PushTail(q, p) /\ queue' = Append(queue, p)
     /\ call' = [call EXCEPT ![c].units = Tail(@), ![c].pc = IF last THEN Leave(c) ELSE @]
     /\ IF kind = "fifo_wait" /\ last THEN Signal(call[c].n) ELSE UNCHANGED sleeping
     /\ UNCHANGED <<lock, calls>>

PopOne(c) == IF AtTail(c) THEN PopTail(q) ELSE PopHead(q)

\* pop_wait and pop_timedwait of fifo_wait look whether they have to wait, once.
MustSleep(c) ==
  kind = "fifo_wait" /\ call[c].op \in Waits /\ q.empty /\ ~call[c].again

\* The next unit of a pop, until there is none or there are enough.
PopUnit(c) ==
  LET r == PopOne(c)
      got == IF r.p = NULL THEN call[c].got ELSE Append(call[c].got, r.p)
  IN /\ call[c].pc \in {"body", "each"} /\ call[c].op \in Pops /\ ~MustSleep(c)
     /\ q' = r.q
     /\ queue' = IF queue = <<>> THEN <<>>
                 ELSE RemoveAt(queue, IF AtTail(c) THEN Len(queue) ELSE 1)
     /\ call' = [call EXCEPT ![c].got = got,
                   ![c].pc = IF r.p = NULL \/ Len(got) = call[c].n THEN Leave(c) ELSE @]
     /\ UNCHANGED <<lock, sleeping, calls>>

RemoveUnit(c) ==
  LET p == call[c].units[1]
  IN /\ call[c].pc = "body" /\ call[c].op = "remove"
     /\ q' = IF Removable(q, p) THEN RemoveThread(q, p) ELSE q
     /\ \/ \E i \in DOMAIN queue : queue[i] = p /\ queue' = RemoveAt(queue, i)
        \/ p \notin ToSet(queue) /\ UNCHANGED queue
     /\ call' = [call EXCEPT ![c].got = IF Removable(q, p) THEN <<p>> ELSE <<>>,
                             ![c].pc = Leave(c)]
     /\ UNCHANGED <<lock, sleeping, calls>>

\* The next unit that print_all visits: num_threads of them from the head.
PrintUnit(c) ==
  LET got == call[c].got
      p == IF got = <<>> THEN q.head ELSE q.next[got[Len(got)]]
  IN /\ call[c].pc = "body" /\ call[c].op = "print"
     /\ call' = IF Len(got) = q.num THEN [call EXCEPT ![c].pc = Leave(c)]
                ELSE [call EXCEPT ![c].got = Append(@, p)]
     /\ UNCHANGED lock /\ Keep

\* The timed waits of fifo_wait on an empty pool: pthread_cond_timedwait.
Sleep(c) ==
  /\ call[c].pc = "body" /\ MustSleep(c)
  /\ lock' = FALSE /\ sleeping' = sleeping \cup {c}
  /\ call' = [call EXCEPT ![c].pc = "asleep", ![c].again = TRUE]
  /\ UNCHANGED <<q, calls, queue>>

\* A signal, the deadline, a spurious wakeup, or a deadline that is rejected.
Wake(c) ==
  /\ call[c].pc = "asleep" /\ sleeping' = sleeping \ {c}
  /\ Goto(c, "lock")
  /\ UNCHANGED <<q, lock, calls, queue>>

ReleaseLock(c) ==
  /\ call[c].pc = "unlock" /\ lock' = FALSE
  /\ Goto(c, IF call[c].got = <<>> THEN NothingPc(c) ELSE "return")
  /\ Keep

\* The first round of pop_wait only starts its clock.
FifoPopWait(c) ==
  /\ call[c].pc = "nap" /\ call[c].op = "pop_wait" /\ kind = "fifo"
  /\ \/ call' = [call EXCEPT ![c].pc = "test", ![c].again = TRUE]
     \/ call[c].again /\ Goto(c, "return")
  /\ UNCHANGED lock /\ Keep

RandwsPopWait(c) ==
  /\ call[c].pc = "nap" /\ call[c].op = "pop_wait" /\ kind = "randws"
  /\ \/ call' = [call EXCEPT ![c].pc = "test", ![c].again = TRUE]
     \/ call[c].again /\ Goto(c, "return")
  /\ UNCHANGED lock /\ Keep

FifoPopTimedwait(c) ==
  /\ call[c].pc = "nap" /\ call[c].op = "pop_timedwait" /\ kind = "fifo"
  /\ Goto(c, "test") \/ Goto(c, "return")
  /\ UNCHANGED lock /\ Keep

RandwsPopTimedwait(c) ==
  /\ call[c].pc = "nap" /\ call[c].op = "pop_timedwait" /\ kind = "randws"
  /\ Goto(c, "test") \/ Goto(c, "return")
  /\ UNCHANGED lock /\ Keep

Return(c) ==
  /\ call[c].pc = "return"
  /\ call' = [call EXCEPT ![c] = Idle]
  /\ UNCHANGED lock /\ Keep

Step(c) ==
  \/ TestEmpty(c) \/ AcquireIfNotEmpty(c) \/ AcquireLock(c) \/ ReleaseLock(c)
  \/ PushUnit(c) \/ PopUnit(c) \/ RemoveUnit(c) \/ PrintUnit(c) \/ Sleep(c) \/ Wake(c) \/ Return(c)
  \/ FifoPopWait(c) \/ RandwsPopWait(c) \/ FifoPopTimedwait(c) \/ RandwsPopTimedwait(c)

Track ==
  /\ sawEmpty' = {c \in Callers : call'[c].pc # "idle"
                                    /\ (queue' = <<>> \/ c \in sawEmpty)}
  /\ UNCHANGED <<kind, access>>

Next ==
  /\ \E c \in Callers :
       \/ CallPush(c) \/ CallPop(c) \/ CallPopWait(c) \/ CallTimedwait(c)
       \/ CallRemove(c) \/ CallPrint(c) \/ Step(c)
  /\ Track

-----------------------------------------------------------------------------
(* The circular list, its counter and the flag that pops read without the  *)
(* lock agree with the order in which the calls took effect, in both       *)
(* directions, a unit knows whether it is in a pool, one caller at a time  *)
(* is in the list, and print_all visits what is there (thread_queue.h).    *)
QueueIntact ==
  LET n == Len(queue)
  IN /\ q.num = n /\ (q.empty <=> n = 0)
     /\ q.head = IF n = 0 THEN NULL ELSE queue[1]
     /\ q.tail = IF n = 0 THEN NULL ELSE queue[n]
     /\ \A i \in 1 .. n : /\ q.next[queue[i]] = queue[IF i = n THEN 1 ELSE i + 1]
                         /\ q.prev[queue[i]] = queue[IF i = 1 THEN n ELSE i - 1]
     /\ \A p \in Threads : q.in[p] <=> \E i \in 1 .. n : queue[i] = p
     /\ \A c, d \in Callers : call[c].pc = "body" /\ call[d].pc = "body" => c = d
     /\ \A c \in Callers :
          call[c].op = "print" /\ call[c].pc = (IF access = "PRIV" THEN "return" ELSE "unlock")
            => call[c].got = queue

(* A pop that returns nothing met an empty pool at some moment of its call *)
(* although it looks at the flag without the lock and gives up while others *)
(* hold the lock (thread_queue_acquire_spinlock_if_not_empty).             *)
PopNotBlind ==
  \A c \in Callers :
    call[c].pc = "return" /\ call[c].op \in Pops /\ Len(call[c].got) < call[c].n
    => c \in sawEmpty

(* No waiter of a fifo_wait pool sleeps over a unit that nobody is about to *)
(* take, once whoever pushes it has come to its signal (pool_push,         *)
(* pool_push_many and pool_pop_wait of fifo_wait.c).                       *)
Pushing(c) == call[c].pc = "body" /\ call[c].op = "push" /\ Len(call[c].units) < call[c].n
Coming == {c \in Callers \ sleeping :
             call[c].pc \in {"asleep", "lock", "body"} /\ call[c].op \in Waits}
NoneAsleep ==
  sleeping # {} /\ (\A c \in Callers : ~Pushing(c)) => Len(queue) <= Cardinality(Coming)
=============================================================================
