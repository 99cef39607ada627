-------------------------------- MODULE Mutex --------------------------------
(***************************************************************************)
(* ABT_mutex: src/include/abti_mutex.h and src/mutex.c.                    *)
(*                                                                         *)
(* The mutex word is a spinlock (lock) that lockers take with one          *)
(* test-and-set.  A locker that fails registers itself in the waitlist,    *)
(* which a second spinlock (waiter_lock) protects, and sleeps; unlock      *)
(* wakes every registered thread and all of them compete again.            *)
(*                                                                         *)
(* One action per access to shared memory, so that every interleaving of   *)
(* lockers, try-lockers, spinners and unlockers is a behaviour.  The       *)
(* waitlist is the sequence that Waitlist.tla shows its linked list to be. *)
(*                                                                         *)
(* The client is the one that makes destruction hard: a reference count    *)
(* kept under the mutex.  Each thread runs MaxOps critical sections, drops *)
(* its reference in the last one, and whoever drops the last reference     *)
(* frees the mutex after its own unlock has returned.                      *)
(***************************************************************************)
EXTENDS Naturals, Sequences

CONSTANTS Threads,     \* the callers: ULTs, tasklets and external threads
          NoThread,    \* owner_id = 0
          Recursive,   \* attrs & ABTI_MUTEX_ATTR_RECURSIVE
          MaxNest,     \* bound: nested locks of a recursive mutex
          MaxOps       \* bound: critical sections of each thread

ASSUME ThreadsAssumption == NoThread \notin Threads
ASSUME RecursiveAssumption == Recursive \in BOOLEAN
ASSUME BoundsAssumption == MaxNest \in Nat /\ MaxOps \in Nat

VARIABLES lock,          \* p_mutex->lock
          waiter_lock,   \* p_mutex->waiter_lock
          waitlist,      \* p_mutex->waitlist
          owner_id,      \* p_mutex->owner_id
          nesting_cnt,   \* p_mutex->nesting_cnt
          state,         \* state of each caller (or of its dummy thread)
          pc,            \* where each caller is
          ops,           \* critical sections each caller has left to start
          freer,         \* who saw the reference count reach zero
          freed          \* whether ABT_mutex_free has run

vars == <<lock, waiter_lock, waitlist, owner_id, nesting_cnt, state, pc, ops,
          freer, freed>>

\* Callers that hold p_mutex->lock.
Holding == {"set_owner", "release_waiter_lock", "cs", "unlock", "release"}
\* Callers that hold p_mutex->waiter_lock.
HoldingWaiterLock == {"retry", "release_waiter_lock", "suspend", "release",
                      "broadcast"}
Locations == {"idle", "lock", "trylock", "spinlock", "acquire_waiter_lock",
              "blocked"} \cup Holding \cup HoldingWaiterLock

Goto(t, l) == pc' = [pc EXCEPT ![t] = l]

\* Where a caller goes once it has the lock and nothing else: a recursive mutex
\* still has to record its owner.
Owned == IF Recursive THEN "set_owner" ELSE "cs"

Init ==
    /\ lock = FALSE
    /\ waiter_lock = FALSE
    /\ waitlist = <<>>
    /\ owner_id = NoThread
    /\ nesting_cnt = 0
    /\ state = [t \in Threads |-> "RUNNING"]
    /\ pc = [t \in Threads |-> "idle"]
    /\ ops = [t \in Threads |-> MaxOps]
    /\ freer = NoThread
    /\ freed = FALSE
------------------------------------------------------------------------------
(* ABT_mutex_lock, _trylock, _spinlock: the recursion test that precedes each. *)

Call(t, op) ==
    /\ \/ pc[t] = "idle" /\ ops[t] > 0
       \/ pc[t] = "cs" /\ Recursive /\ nesting_cnt < MaxNest
    /\ IF Recursive /\ owner_id = t
         THEN /\ nesting_cnt' = nesting_cnt + 1
              /\ Goto(t, "cs")
         ELSE /\ Goto(t, op)
              /\ UNCHANGED nesting_cnt
    /\ UNCHANGED <<lock, waiter_lock, waitlist, owner_id, state, ops, freer,
                   freed>>

\* The fast path of ABTI_mutex_lock_no_recursion, taken again after each wake-up.
TryAcquire(t) ==
    /\ pc[t] = "lock"
    /\ lock' = TRUE
    /\ Goto(t, IF lock THEN "acquire_waiter_lock" ELSE Owned)
    /\ UNCHANGED <<waiter_lock, waitlist, owner_id, nesting_cnt, state, ops,
                   freer, freed>>

\* Mutant: trylock ignores the result of the test-and-set.
TrylockIgnoresResult(t) ==
    /\ pc[t] = "trylock"
    /\ lock' = TRUE
    /\ Goto(t, Owned)
    /\ UNCHANGED <<waiter_lock, waitlist, owner_id, nesting_cnt, state, ops,
                   freer, freed>>

Trylock(t) ==
    /\ pc[t] = "trylock"
    /\ lock' = TRUE
    /\ Goto(t, IF lock THEN "idle" ELSE Owned)
    /\ UNCHANGED <<waiter_lock, waitlist, owner_id, nesting_cnt, state, ops,
                   freer, freed>>

Spinlock(t) ==
    /\ pc[t] = "spinlock"
    /\ ~lock
    /\ lock' = TRUE
    /\ Goto(t, Owned)
    /\ UNCHANGED <<waiter_lock, waitlist, owner_id, nesting_cnt, state, ops,
                   freer, freed>>

AcquireWaiterLock(t) ==
    /\ pc[t] = "acquire_waiter_lock"
    /\ ~waiter_lock
    /\ waiter_lock' = TRUE
    /\ Goto(t, "retry")
    /\ UNCHANGED <<lock, waitlist, owner_id, nesting_cnt, state, ops, freer,
                   freed>>

\* Mutant: registers without trying the lock again under waiter_lock.
RetrySkipped(t) ==
    /\ pc[t] = "retry"
    /\ waitlist' = Append(waitlist, t)
    /\ state' = [state EXCEPT ![t] = "BLOCKED"]
    /\ Goto(t, "suspend")
    /\ UNCHANGED <<lock, waiter_lock, owner_id, nesting_cnt, ops, freer, freed>>

\* Mutant: takes the second test-and-set for a success.
RetryIgnoresResult(t) ==
    /\ pc[t] = "retry"
    /\ lock' = TRUE
    /\ Goto(t, "release_waiter_lock")
    /\ UNCHANGED <<waiter_lock, waitlist, state, owner_id, nesting_cnt, ops,
                   freer, freed>>

\* The second test-and-set, under waiter_lock, and on failure the registration in
\* the waitlist (ABTI_waitlist_wait_and_unlock up to the point it unlocks).
Retry(t) ==
    /\ pc[t] = "retry"
    /\ lock' = TRUE
    /\ IF lock
         THEN /\ waitlist' = Append(waitlist, t)
              /\ state' = [state EXCEPT ![t] = "BLOCKED"]
              /\ Goto(t, "suspend")
         ELSE /\ Goto(t, "release_waiter_lock")
              /\ UNCHANGED <<waitlist, state>>
    /\ UNCHANGED <<waiter_lock, owner_id, nesting_cnt, ops, freer, freed>>

ReleaseWaiterLock(t) ==
    /\ pc[t] = "release_waiter_lock"
    /\ waiter_lock' = FALSE
    /\ Goto(t, Owned)
    /\ UNCHANGED <<lock, waitlist, owner_id, nesting_cnt, state, ops, freer,
                   freed>>

\* waiter_lock is released only when the caller is off its stack (the callback of
\* ABTI_ythread_suspend_unlock) or inside the futex.
Suspend(t) ==
    /\ pc[t] = "suspend"
    /\ waiter_lock' = FALSE
    /\ Goto(t, "blocked")
    /\ UNCHANGED <<lock, waitlist, owner_id, nesting_cnt, state, ops, freer,
                   freed>>

Resume(t) ==
    /\ pc[t] = "blocked"
    /\ state[t] = "READY"
    /\ state' = [state EXCEPT ![t] = "RUNNING"]
    /\ Goto(t, "lock")
    /\ UNCHANGED <<lock, waiter_lock, waitlist, owner_id, nesting_cnt, ops,
                   freer, freed>>

SetOwner(t) ==
    /\ pc[t] = "set_owner"
    /\ owner_id' = t
    /\ Goto(t, "cs")
    /\ UNCHANGED <<lock, waiter_lock, waitlist, nesting_cnt, state, ops, freer,
                   freed>>
------------------------------------------------------------------------------
(* ABT_mutex_unlock.  The outermost unlock of a critical section first drops the *)
(* client's reference if this was the caller's last critical section.            *)

\* Mutant: the nesting test is off by one.
UnlockCallOffByOne(t) ==
    /\ pc[t] = "cs"
    /\ IF Recursive /\ nesting_cnt >= 0
         THEN /\ nesting_cnt' = nesting_cnt - 1
              /\ UNCHANGED <<owner_id, pc, ops, freer>>
         ELSE /\ ops' = [ops EXCEPT ![t] = @ - 1]
              /\ freer' = IF \A u \in Threads : ops'[u] = 0 THEN t ELSE freer
              /\ Goto(t, "unlock")
              /\ UNCHANGED <<owner_id, nesting_cnt>>
    /\ UNCHANGED <<lock, waiter_lock, waitlist, state, freed>>

\* Mutant: the word is cleared before waiter_lock is taken.
UnlockCallReleasesFirst(t) ==
    /\ pc[t] = "cs"
    /\ ops' = [ops EXCEPT ![t] = @ - 1]
    /\ freer' = IF \A u \in Threads : ops'[u] = 0 THEN t ELSE freer
    /\ lock' = FALSE
    /\ Goto(t, "unlock")
    /\ UNCHANGED <<waiter_lock, waitlist, owner_id, nesting_cnt, state, freed>>

UnlockCall(t) ==
    /\ pc[t] = "cs"
    /\ IF Recursive /\ nesting_cnt # 0
         THEN /\ nesting_cnt' = nesting_cnt - 1
              /\ UNCHANGED <<owner_id, pc, ops, freer>>
         ELSE /\ owner_id' = IF Recursive THEN NoThread ELSE owner_id
              /\ ops' = [ops EXCEPT ![t] = @ - 1]
              /\ freer' = IF \A u \in Threads : ops'[u] = 0 THEN t ELSE freer
              /\ Goto(t, "unlock")
              /\ UNCHANGED nesting_cnt
    /\ UNCHANGED <<lock, waiter_lock, waitlist, state, freed>>

UnlockAcquireWaiterLock(t) ==
    /\ pc[t] = "unlock"
    /\ ~waiter_lock
    /\ waiter_lock' = TRUE
    /\ Goto(t, "release")
    /\ UNCHANGED <<lock, waitlist, owner_id, nesting_cnt, state, ops, freer,
                   freed>>

ReleaseLock(t) ==
    /\ pc[t] = "release"
    /\ lock' = FALSE
    /\ Goto(t, "broadcast")
    /\ UNCHANGED <<waiter_lock, waitlist, owner_id, nesting_cnt, state, ops,
                   freer, freed>>

\* ABTI_waitlist_broadcast wakes the registered threads one after the other; the
\* ones already woken run while it goes on.
Broadcast(t) ==
    /\ pc[t] = "broadcast"
    /\ waitlist # <<>>
    /\ state' = [state EXCEPT ![Head(waitlist)] = "READY"]
    /\ waitlist' = Tail(waitlist)
    /\ UNCHANGED <<lock, waiter_lock, owner_id, nesting_cnt, pc, ops, freer,
                   freed>>

UnlockDone(t) ==
    /\ pc[t] = "broadcast"
    /\ waitlist = <<>>
    /\ waiter_lock' = FALSE
    /\ Goto(t, "idle")
    /\ UNCHANGED <<lock, waitlist, owner_id, nesting_cnt, state, ops, freer,
                   freed>>

\* ABT_mutex_free takes neither spinlock.
Free(t) ==
    /\ pc[t] = "idle"
    /\ freer = t
    /\ ~freed
    /\ freed' = TRUE
    /\ UNCHANGED <<lock, waiter_lock, waitlist, owner_id, nesting_cnt, state, pc,
                   ops, freer>>

Terminated ==
    /\ freed
    /\ \A t \in Threads : pc[t] = "idle" /\ ops[t] = 0
    /\ UNCHANGED vars

Step(t) ==
    \/ \E op \in {"lock", "trylock", "spinlock"} : Call(t, op)
    \/ TryAcquire(t) \/ Trylock(t) \/ Spinlock(t)
    \/ AcquireWaiterLock(t) \/ Retry(t) \/ ReleaseWaiterLock(t)
    \/ Suspend(t) \/ Resume(t) \/ SetOwner(t)
    \/ UnlockCall(t) \/ UnlockAcquireWaiterLock(t) \/ ReleaseLock(t)
    \/ Broadcast(t) \/ UnlockDone(t) \/ Free(t)

Next == (\E t \in Threads : Step(t)) \/ Terminated

Spec == Init /\ [][Next]_vars

------------------------------------------------------------------------------
(* Properties *)

\* Every variable of the mutex and of its callers stays within its type.
TypeOK ==
    /\ lock \in BOOLEAN
    /\ waiter_lock \in BOOLEAN
    /\ waitlist \in Seq(Threads)
    /\ owner_id \in Threads \cup {NoThread}
    /\ nesting_cnt \in Nat
    /\ state \in [Threads -> {"RUNNING", "BLOCKED", "READY"}]
    /\ pc \in [Threads -> Locations]
    /\ ops \in [Threads -> Nat]
    /\ freer \in Threads \cup {NoThread}
    /\ freed \in BOOLEAN

\* Two callers are never both between a successful lock, trylock or spinlock and
\* the release of the mutex word in unlock, whichever path each of them took.
MutualExclusion ==
    \A t, u \in Threads : pc[t] \in Holding /\ pc[u] \in Holding => t = u

\* The recursion fields, which lockers read without any lock, are never stale in a
\* way that matters: owner_id names a caller exactly while that caller is in its
\* critical section, and whoever takes the mutex word finds no nesting left over
\* (the assertion in ABTI_mutex_lock).
OwnerIsHolder ==
    Recursive => \A t \in Threads :
        /\ owner_id = t <=> pc[t] = "cs"
        /\ pc[t] = "set_owner" => nesting_cnt = 0

\* No lost wake-up: a caller marked BLOCKED is registered exactly once, every
\* registered caller is BLOCKED, and while anybody is registered either the mutex
\* is held, so an unlock is still to come, or an unlock is waking the list now.
NoLostWakeup ==
    /\ \A i, j \in 1..Len(waitlist) : waitlist[i] = waitlist[j] => i = j
    /\ \A t \in Threads :
         state[t] = "BLOCKED" <=> \E i \in 1..Len(waitlist) : waitlist[i] = t
    /\ waitlist # <<>> => lock \/ \E t \in Threads : pc[t] = "broadcast"

\* Once the last user has freed the mutex, no other caller is still inside lock or
\* unlock: the unlock of the freeing thread cannot return before the unlocks that
\* handed it the mutex have stopped touching it.
NoUseAfterFree == freed => \A t \in Threads : pc[t] = "idle"

\* The mutex implements the abstract one: it is held from the successful
\* test-and-set to the store that clears the word.
holder == IF \E t \in Threads : pc[t] \in Holding
          THEN CHOOSE t \in Threads : pc[t] \in Holding
          ELSE NoThread
depth == IF holder = NoThread THEN 0 ELSE nesting_cnt + 1

Abstract == INSTANCE MutexSpec
ImplementsMutexSpec == Abstract!Spec

==============================================================================
