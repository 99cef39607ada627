------------------------------- MODULE Waitlist -------------------------------
(***************************************************************************)
(* ABTI_waitlist: src/include/abti_waitlist.h, on the Linux futex of       *)
(* src/arch/abtd_futex.c.                                                  *)
(*                                                                         *)
(* The list is threaded through the waiters themselves.  A blocking ULT    *)
(* is linked by its own ABTI_thread, whose p_next and p_prev the pool uses *)
(* again as soon as it is resumed; everyone else is linked by a dummy      *)
(* ABTI_thread on the waiter's stack, which is gone when the call returns. *)
(* A waiter other than a blocking ULT watches its state without the lock,  *)
(* so it may return while the waker is still inside the list.              *)
(*                                                                         *)
(* What a waker or waiter does under the lock to fields nobody reads       *)
(* without it is one step; every unlocked access is a step of its own.     *)
(***************************************************************************)
EXTENDS Naturals, Sequences, FiniteSets

CONSTANTS Waiters,     \* the callers of the wait functions
          Yieldable,   \* the ones that are ULTs on an execution stream
          Wakers,      \* the callers of signal and broadcast
          Null,        \* NULL
          Reused,      \* the links of a node the list no longer owns
          MaxWaits,    \* bound: the waits the waiters may make
          MaxWakes     \* bound: signals and broadcasts of each waker

WaitlistConstants ==
    /\ IsFiniteSet(Waiters) /\ Waiters \cap Wakers = {}
    /\ Yieldable \subseteq Waiters
    /\ Null \notin Waiters
    /\ Reused \notin Waiters
    /\ MaxWaits \subseteq [Waiters -> Nat] /\ MaxWakes \in Nat

VARIABLES lock,        \* the spinlock the callers pass as p_lock
          p_head,      \* p_waitlist->p_head
          p_tail,      \* p_waitlist->p_tail
          next,        \* p_next of each waiter's node
          prev,        \* p_prev of each waiter's node
          state,       \* state of each waiter's node
          val,         \* p_waitlist->futex.val
          seen,        \* original_val of each waiter in the futex
          asleep,      \* waiters the kernel has put to sleep
          pc,          \* where each waiter and waker is
          p_thread,    \* local p_thread of the waker that holds the lock
          p_next,      \* its local p_next
          nonyieldable,\* its local wakeup_nonyieldable
          expired,     \* whether target_time of each timed wait has passed
          result,      \* what each waiter's last wait returned
          waits,       \* waits each waiter has left
          wakes        \* wakes each waker has left

vars == <<lock, p_head, p_tail, next, prev, state, val, seen, asleep, pc,
          p_thread, p_next, nonyieldable, expired, result, waits, wakes>>
callVars == <<expired, result, waits>>
listVars == <<p_head, p_tail, next, prev>>
futexVars == <<val, seen, asleep>>
wakerVars == <<p_thread, p_next, nonyieldable, wakes>>

WaiterLocations == {"idle", "suspend", "blocked", "check", "futex", "quick",
                    "acquire", "release", "poll", "timed_check", "timed_futex",
                    "timed_quick", "timed_acquire", "timeout_acquire", "timeout"}
WakerLocations == {"idle", "ready", "futex_store", "futex_wake", "unlink",
                   "ready_all", "next_all", "unlink_all", "futex_store_all",
                   "futex_wake_all"}

Goto(x, l) == pc' = [pc EXCEPT ![x] = l]

Init ==
    /\ lock = FALSE
    /\ p_head = Null
    /\ p_tail = Null
    /\ next = [t \in Waiters |-> Reused]
    /\ prev = [t \in Waiters |-> Reused]
    /\ state = [t \in Waiters |-> "RUNNING"]
    /\ val = 0
    /\ seen = [t \in Waiters |-> 0]
    /\ asleep = {}
    /\ pc = [x \in Waiters \cup Wakers |-> "idle"]
    /\ p_thread = Null
    /\ p_next = Null
    /\ nonyieldable = FALSE
    /\ expired = [t \in Waiters |-> FALSE]
    /\ result = [t \in Waiters |-> "none"]
    /\ waits \in MaxWaits
    /\ wakes = [w \in Wakers |-> MaxWakes]
------------------------------------------------------------------------------
(* Waiting *)

\* The link at the tail that both wait functions begin with.  Only the timed one
\* maintains p_prev.
Link(t, timed) ==
    /\ p_head' = IF p_head = Null THEN t ELSE p_head
    /\ next' = IF p_head = Null THEN [next EXCEPT ![t] = Null]
               ELSE [next EXCEPT ![t] = Null, ![p_tail] = t]
    /\ prev' = IF timed
               THEN [prev EXCEPT ![t] = IF p_head = Null THEN Null ELSE p_tail]
               ELSE prev
    /\ p_tail' = t

Enter(t, timed, l) ==
    /\ pc[t] = "idle"
    /\ waits[t] > 0
    /\ ~lock
    /\ lock' = TRUE
    /\ Link(t, timed)
    /\ state' = [state EXCEPT ![t] = "BLOCKED"]
    /\ result' = [result EXCEPT ![t] = "none"]
    /\ waits' = [waits EXCEPT ![t] = @ - 1]
    /\ Goto(t, l)
    /\ UNCHANGED <<futexVars, wakerVars, expired>>

Wait(t) == Enter(t, FALSE, IF t \in Yieldable THEN "suspend" ELSE "check")

TimedWait(t) == Enter(t, TRUE, IF t \in Yieldable THEN "release" ELSE "timed_check")

\* The call returns r: the node is the list's no more.
Leave(t, r) ==
    /\ Goto(t, "idle")
    /\ result' = [result EXCEPT ![t] = r]
    /\ state' = [state EXCEPT ![t] = "RUNNING"]
    /\ next' = [next EXCEPT ![t] = Reused]
    /\ prev' = [prev EXCEPT ![t] = Reused]
    /\ expired' = [expired EXCEPT ![t] = FALSE]
    /\ UNCHANGED <<p_head, p_tail, futexVars, wakerVars, waits>>

\* ABTI_ythread_suspend_unlock releases the lock once the ULT is off its stack.
Suspend(t) ==
    /\ pc[t] = "suspend"
    /\ lock' = FALSE
    /\ Goto(t, "blocked")
    /\ UNCHANGED <<listVars, futexVars, wakerVars, state, callVars>>

Resumed(t) ==
    /\ pc[t] = "blocked"
    /\ state[t] = "READY"
    /\ Leave(t, "signaled")
    /\ UNCHANGED lock

\* An external thread looks at its state under the lock before it sleeps.
Check(t) ==
    /\ pc[t] = "check"
    /\ lock' = FALSE
    /\ IF state[t] = "READY"
         THEN Leave(t, "signaled")
         ELSE /\ seen' = [seen EXCEPT ![t] = val]
              /\ Goto(t, "futex")
              /\ UNCHANGED <<listVars, val, asleep, wakerVars, state, callVars>>

\* FUTEX_WAIT: the kernel compares val with original_val and sleeps if it is the
\* same; a broadcast that already changed val lets the waiter through.
FutexWait(t, here, there) ==
    /\ pc[t] = here
    /\ t \notin asleep
    /\ IF val = seen[t]
         THEN asleep' = asleep \cup {t} /\ UNCHANGED <<pc, seen>>
         ELSE /\ Goto(t, there)
              /\ seen' = [seen EXCEPT ![t] = 0]
              /\ UNCHANGED asleep
    /\ UNCHANGED <<lock, listVars, val, wakerVars, state, callVars>>

Futex(t) == FutexWait(t, "futex", "quick")

Quick(t, here, there) ==
    /\ pc[t] = here
    /\ IF state[t] = "READY"
         THEN Leave(t, "signaled")
         ELSE /\ Goto(t, there)
              /\ UNCHANGED <<listVars, futexVars, wakerVars, state, callVars>>
    /\ UNCHANGED lock

Reacquire(t, here, there) ==
    /\ pc[t] = here
    /\ ~lock
    /\ lock' = TRUE
    /\ Goto(t, there)
    /\ UNCHANGED <<listVars, futexVars, wakerVars, state, callVars>>

QuickCheck(t) == Quick(t, "quick", "acquire") \/ Reacquire(t, "acquire", "check")

\* target_time passes.  When it does matters only where the code reads the clock.
Deadline(t) ==
    /\ pc[t] \in {"poll", "timed_check"}
    /\ ~expired[t]
    /\ expired' = [expired EXCEPT ![t] = TRUE]
    /\ UNCHANGED <<lock, listVars, futexVars, wakerVars, state, pc, result, waits>>

\* A timed ULT polls its state and yields in between, until its time is up.
Release(t) ==
    /\ pc[t] = "release"
    /\ lock' = FALSE
    /\ Goto(t, "poll")
    /\ UNCHANGED <<listVars, futexVars, wakerVars, state, callVars>>

Poll(t) ==
    \/ Quick(t, "poll", IF expired[t] THEN "timeout_acquire" ELSE "poll")
    \/ Reacquire(t, "timeout_acquire", "timeout")

\* A timed external thread: out of time, woken, or into the futex.
TimedCheck(t) ==
    /\ pc[t] = "timed_check"
    /\ \/ /\ expired[t]
          /\ Goto(t, "timeout")
          /\ UNCHANGED <<lock, listVars, futexVars, wakerVars, state, callVars>>
       \/ /\ ~expired[t] /\ state[t] = "READY"
          /\ lock' = FALSE
          /\ Leave(t, "signaled")
       \/ /\ ~expired[t] /\ state[t] # "READY"
          /\ lock' = FALSE
          /\ seen' = [seen EXCEPT ![t] = val]
          /\ Goto(t, "timed_futex")
          /\ UNCHANGED <<listVars, val, asleep, wakerVars, state, callVars>>

\* The timed futex also returns when its time is up, or for no reason.
TimedFutex(t) ==
    \/ FutexWait(t, "timed_futex", "timed_quick")
    \/ /\ pc[t] = "timed_futex"
       /\ asleep' = asleep \ {t}
       /\ seen' = [seen EXCEPT ![t] = 0]
       /\ Goto(t, "timed_quick")
       /\ UNCHANGED <<lock, listVars, val, wakerVars, state, callVars>>

TimedQuickCheck(t) ==
    Quick(t, "timed_quick", "timed_acquire") \/ Reacquire(t, "timed_acquire", "timed_check")

\* The timeout label: under the lock, the waiter removes itself unless it was woken
\* before it got the lock.
Unlink(t) ==
    /\ next' = IF p_head = t THEN [next EXCEPT ![t] = Reused]
               ELSE [next EXCEPT ![prev[t]] = next[t], ![t] = Reused]
    /\ prev' = IF p_head = t \/ next[t] = Null THEN [prev EXCEPT ![t] = Reused]
               ELSE [prev EXCEPT ![next[t]] = prev[t], ![t] = Reused]
    /\ p_head' = IF p_head = t THEN next[t] ELSE p_head
    /\ p_tail' = IF next[t] # Null THEN p_tail
                 ELSE IF p_head = t THEN Null ELSE prev[t]

\* Mutant: reports the timeout to a waiter that was woken in the meantime.
TimeoutAlways(t) ==
    /\ pc[t] = "timeout"
    /\ lock' = FALSE
    /\ IF state[t] = "READY"
         THEN Leave(t, "timedout")
         ELSE /\ Unlink(t)
              /\ state' = [state EXCEPT ![t] = "RUNNING"]
              /\ result' = [result EXCEPT ![t] = "timedout"]
              /\ expired' = [expired EXCEPT ![t] = FALSE]
              /\ Goto(t, "idle")
              /\ UNCHANGED <<futexVars, wakerVars, waits>>

Timeout(t) ==
    /\ pc[t] = "timeout"
    /\ lock' = FALSE
    /\ IF state[t] = "READY"
         THEN Leave(t, "signaled")
         ELSE /\ Unlink(t)
              /\ state' = [state EXCEPT ![t] = "RUNNING"]
              /\ result' = [result EXCEPT ![t] = "timedout"]
              /\ expired' = [expired EXCEPT ![t] = FALSE]
              /\ Goto(t, "idle")
              /\ UNCHANGED <<futexVars, wakerVars, waits>>
------------------------------------------------------------------------------
(* Waking *)

\* ABTI_waitlist_signal and the first round of ABTI_waitlist_broadcast: take the
\* lock, and the head with its successor if there is one.
Begin(w, l) ==
    /\ pc[w] = "idle"
    /\ wakes[w] > 0
    /\ ~lock
    /\ wakes' = [wakes EXCEPT ![w] = @ - 1]
    /\ IF p_head = Null
         THEN UNCHANGED <<lock, pc, next, p_thread, p_next>>
         ELSE /\ lock' = TRUE
              /\ p_thread' = p_head
              /\ p_next' = next[p_head]
              /\ next' = [next EXCEPT ![p_head] = Null]
              /\ Goto(w, l)
    /\ UNCHANGED <<p_head, p_tail, prev, futexVars, nonyieldable, state, callVars>>

Signal(w) == Begin(w, "ready")

Broadcast(w) == Begin(w, "ready_all")

\* The node is a dummy unless its waiter is a ULT in the untimed wait.
IsYthread(t) == pc[t] = "blocked"

\* The store that makes the waiter READY.  From here on the node may be gone, and a
\* resumed ULT's links belong to the pool.
SetReady(t) ==
    /\ state' = [state EXCEPT ![t] = "READY"]
    /\ next' = IF IsYthread(t) THEN [next EXCEPT ![t] = Reused] ELSE next
    /\ prev' = IF IsYthread(t) THEN [prev EXCEPT ![t] = Reused] ELSE prev

SignalReady(w) ==
    /\ pc[w] = "ready"
    /\ SetReady(p_thread)
    /\ Goto(w, IF IsYthread(p_thread) THEN "unlink" ELSE "futex_store")
    /\ UNCHANGED <<lock, p_head, p_tail, futexVars, wakerVars, callVars>>

\* Mutant: wakes the sleepers without changing val, so that a waiter on its way into
\* FUTEX_WAIT does not notice.
FutexStoreSame(w) ==
    /\ \/ pc[w] = "futex_store" /\ Goto(w, "futex_wake")
       \/ pc[w] = "futex_store_all" /\ Goto(w, "futex_wake_all")
    /\ UNCHANGED <<lock, listVars, futexVars, wakerVars, state, callVars>>

\* ABTD_futex_broadcast: change val, then wake every sleeper.
FutexStore(w) ==
    /\ \/ pc[w] = "futex_store" /\ Goto(w, "futex_wake")
       \/ pc[w] = "futex_store_all" /\ Goto(w, "futex_wake_all")
    /\ val' = val + 1
    /\ UNCHANGED <<lock, listVars, seen, asleep, wakerVars, state, callVars>>

FutexWake(w) ==
    /\ \/ pc[w] = "futex_wake" /\ Goto(w, "unlink") /\ UNCHANGED lock
       \/ pc[w] = "futex_wake_all" /\ Goto(w, "idle") /\ lock' = FALSE
    /\ asleep' = {}
    /\ UNCHANGED <<listVars, val, seen, wakerVars, state, callVars>>

SignalUnlink(w) ==
    /\ pc[w] = "unlink"
    /\ p_head' = p_next
    /\ p_tail' = IF p_next = Null THEN Null ELSE p_tail
    /\ lock' = FALSE
    /\ p_thread' = Null
    /\ p_next' = Null
    /\ Goto(w, "idle")
    /\ UNCHANGED <<next, prev, futexVars, nonyieldable, wakes, state, callVars>>

\* One round of the loop of ABTI_waitlist_broadcast.
BroadcastReady(w) ==
    /\ pc[w] = "ready_all"
    /\ nonyieldable' = (nonyieldable \/ ~IsYthread(p_thread))
    /\ SetReady(p_thread)
    /\ Goto(w, IF p_next = Null THEN "unlink_all" ELSE "next_all")
    /\ UNCHANGED <<lock, p_head, p_tail, futexVars, p_thread, p_next, wakes,
                   callVars>>

BroadcastNext(w) ==
    /\ pc[w] = "next_all"
    /\ p_thread' = p_next
    /\ p_next' = next[p_next]
    /\ next' = [next EXCEPT ![p_next] = Null]
    /\ Goto(w, "ready_all")
    /\ UNCHANGED <<lock, p_head, p_tail, prev, futexVars, nonyieldable, wakes,
                   state, callVars>>

BroadcastUnlink(w) ==
    /\ pc[w] = "unlink_all"
    /\ p_head' = Null
    /\ p_tail' = Null
    /\ lock' = nonyieldable
    /\ p_thread' = Null
    /\ nonyieldable' = FALSE
    /\ Goto(w, IF nonyieldable THEN "futex_store_all" ELSE "idle")
    /\ UNCHANGED <<next, prev, futexVars, p_next, wakes, state, callVars>>
------------------------------------------------------------------------------
WaiterStep(t) ==
    \/ Wait(t) \/ Suspend(t) \/ Resumed(t)
    \/ Check(t) \/ Futex(t) \/ QuickCheck(t)
    \/ TimedWait(t) \/ Release(t) \/ Poll(t)
    \/ TimedCheck(t) \/ TimedFutex(t) \/ TimedQuickCheck(t) \/ Timeout(t)

WakerStep(w) ==
    \/ Signal(w) \/ SignalReady(w) \/ SignalUnlink(w)
    \/ Broadcast(w) \/ BroadcastReady(w) \/ BroadcastNext(w) \/ BroadcastUnlink(w)
    \/ FutexStore(w) \/ FutexWake(w)

\* The only way to stop: no wake-up is left, and whoever still waits was not woken.
Terminated ==
    /\ \A w \in Wakers : pc[w] = "idle" /\ wakes[w] = 0
    /\ \A t \in Waiters : \/ pc[t] = "idle" /\ waits[t] = 0
                          \/ pc[t] \in {"blocked", "futex"} /\ state[t] = "BLOCKED"
    /\ UNCHANGED vars

Next ==
    \/ \E t \in Waiters : WaiterStep(t) \/ Deadline(t)
    \/ \E w \in Wakers : WakerStep(w)
    \/ Terminated

Spec == Init /\ [][Next]_vars

------------------------------------------------------------------------------
(* Properties *)

\* Every variable of the list, the futex and the callers stays within its type.
TypeOK ==
    /\ lock \in BOOLEAN
    /\ {p_head, p_tail, p_thread, p_next} \subseteq Waiters \cup {Null}
    /\ next \in [Waiters -> Waiters \cup {Null, Reused}]
    /\ prev \in [Waiters -> Waiters \cup {Null, Reused}]
    /\ state \in [Waiters -> {"RUNNING", "BLOCKED", "READY"}]
    /\ val \in Nat
    /\ seen \in [Waiters -> Nat]
    /\ asleep \subseteq Waiters
    /\ pc \in [Waiters \cup Wakers -> WaiterLocations \cup WakerLocations]
    /\ nonyieldable \in BOOLEAN
    /\ expired \in [Waiters -> BOOLEAN]
    /\ result \in [Waiters -> {"none", "signaled", "timedout"}]
    /\ waits \in [Waiters -> Nat]
    /\ wakes \in [Wakers -> Nat]

\* The nodes reached from n through p_next; a list that does not end, or that runs
\* into a node it does not own, never gets as short as the number of waiters.
NodesFrom(n) ==
    LET N == Cardinality(Waiters) + 1
        nth[k \in 1..N] ==
            IF k = 1 THEN n
            ELSE IF nth[k - 1] \in Waiters THEN next[nth[k - 1]] ELSE Null
    IN  SelectSeq([k \in 1..N |-> nth[k]], LAMBDA x : x # Null)

WakerAt(ls) == \E w \in Wakers : pc[w] \in ls

\* The waiters in the list that have not been woken, first come first.
queue ==
    IF WakerAt({"ready", "ready_all"}) THEN <<p_thread>> \o NodesFrom(p_next)
    ELSE IF WakerAt({"futex_store", "futex_wake", "unlink", "next_all", "unlink_all"})
    THEN NodesFrom(p_next)
    ELSE NodesFrom(p_head)

woken == {t \in Waiters : state[t] = "READY"}

\* The linked list implements the queue: wake-ups come in arrival order, each wakes
\* one waiter, and wait_timedout reports a timeout exactly when no signal or
\* broadcast has reached the waiter, although either may come at the deadline.
Abstract == INSTANCE WaitlistSpec
ImplementsWaitlistSpec == Abstract!Spec

\* Every pointer the code goes on to follow leads to a node whose waiter is still in
\* the call and has not been woken: the list never runs through the stack frame of
\* a waiter that has returned, or through links the pool has taken back.
NoDanglingPointer ==
    /\ \A t \in Abstract!Waiting : t \in Waiters /\ state[t] = "BLOCKED"
    /\ queue # <<>> => p_tail = queue[Len(queue)]
    /\ queue = <<>> /\ ~lock => p_head = Null
    /\ \A i \in 2..Len(queue) :
         pc[queue[i]] \in {"release", "poll", "timeout_acquire", "timed_check",
                           "timed_futex", "timed_quick", "timed_acquire", "timeout"}
         /\ ~WakerAt({"ready", "futex_store", "futex_wake", "unlink", "ready_all", "next_all"})
           => prev[queue[i]] = queue[i - 1]

\* The list as a data structure: in its types, and never through a node that is gone.
ListIntact == TypeOK /\ NoDanglingPointer

\* Nobody sleeps through a wake-up: a waiter that was made READY and is, or is about to
\* be, asleep in the futex will still be let through, because the waker that holds the
\* lock has not changed val or not woken the sleepers yet.
NoSleeperForgotten ==
    \A t \in Waiters :
      state[t] = "READY" /\ pc[t] \in {"futex", "timed_futex"} =>
        \/ t \notin asleep /\ val # seen[t]
        \/ WakerAt({"futex_store", "ready_all", "next_all", "unlink_all", "futex_store_all"})
        \/ t \in asleep /\ WakerAt({"futex_wake", "futex_wake_all"})
==============================================================================
