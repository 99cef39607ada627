-------------------------------- MODULE MCSync --------------------------------
(***************************************************************************)
(* The synchronization objects for TLC: mutex, condition variable, barrier,*)
(* eventual, future, readers-writer lock, and the futexes of the Pthreads  *)
(* fallback.  The callers share one object, and kind says which.  Mutex,   *)
(* Cond and PthreadFutex stay in an initial state in behaviours that are   *)
(* not about them; a field that another kind of object has is Unused.      *)
(***************************************************************************)
EXTENDS Mutex, TLC

CONSTANTS c1, c2, c3, m1, m2,
          Nobody, Unused, Invalid,
          Kinds,        \* the objects to exercise
          FutexUses,    \* the uses of a futex to exercise
          Callers, Counts, NumCompartments, Mutexes, FutexWaiters, TagModulus,
          MaxWaits, MaxLocks,           \* bounds: calls of Barrier and Rwlock
          MaxCondOps, MaxCondWakes,     \* bounds: calls of Cond
          MaxRounds                     \* bound: calls of PthreadFutex

\* Bound: the calls of Eventual and Future; one caller comes back.
MaxCalls == [c \in Callers |-> IF c = c1 THEN 2 ELSE 1]

\* Bound: the waits of Cond.
CondOps == [c \in Callers |-> IF c = c3 THEN 1 ELSE MaxCondOps]

VARIABLES kind,
          o_lock, o_waitlist, o_freed, o_pc, counter, result, calls,
          num_waiters, arrivals, passed, waits,               \* Barrier
          ready, value, timed, woken, sets,                   \* Eventual
          array, accepted, shown,                             \* Future
          mutex, cond, reader_count, write_flag, op, holds,   \* Rwlock
          c_lock, p_waiter_mutex, c_waitlist, c_freed, c_holder, c_pc, p_mutex, c_timed,
          c_result, c_ops, wakes,                             \* Cond
          use, plock, word, obj, fpc, cur, nxt, rounds, barrier, curTag, due, wild

Bar == INSTANCE Barrier WITH
           lock <- o_lock, waitlist <- o_waitlist, freed <- o_freed, pc <- o_pc
Evt == INSTANCE Eventual WITH
           lock <- o_lock, waitlist <- o_waitlist, freed <- o_freed, pc <- o_pc
Fut == INSTANCE Future WITH
           lock <- o_lock, waitlist <- o_waitlist, freed <- o_freed, pc <- o_pc
Rwl == INSTANCE Rwlock WITH MaxCalls <- MaxLocks, pc <- o_pc
Cnd == INSTANCE Cond WITH
           Null <- Nobody, MaxOps <- CondOps, MaxWakes <- MaxCondWakes,
           lock <- c_lock, waitlist <- c_waitlist, freed <- c_freed, holder <- c_holder,
           pc <- c_pc, timed <- c_timed, result <- c_result, ops <- c_ops
Ftx == INSTANCE PthreadFutex WITH Waiters <- FutexWaiters, NULL <- Nobody

ASSUME SyncAssumption ==
    /\ Bar!BarrierConstants /\ Evt!EventualConstants /\ Fut!FutureConstants
    /\ Rwl!RwlockConstants /\ Cnd!CondConstants /\ Ftx!FutexConstants
    /\ Kinds \subseteq {"mutex", "cond", "barrier", "eventual", "future", "rwlock", "futex"}
    /\ FutexWaiters \subseteq Callers

common == <<kind, o_lock, o_waitlist, o_freed, o_pc, counter, result, calls>>
barrierOnly == <<num_waiters, arrivals, passed, waits>>
eventualOnly == <<ready, value, timed, woken, sets>>
futureOnly == <<array, accepted, shown>>
rwlockOnly == <<mutex, cond, reader_count, write_flag, op, holds>>
objectVars == <<common, barrierOnly, eventualOnly, futureOnly, rwlockOnly>>
condOnly == <<c_lock, p_waiter_mutex, c_waitlist, c_freed, c_holder, c_pc, p_mutex, c_timed,
              c_result, c_ops, wakes>>
futexOnly == <<use, plock, word, obj, fpc, cur, nxt, rounds, barrier, curTag, due, wild>>
syncVars == <<vars, objectVars, condOnly, futexOnly>>

NoBarrier == num_waiters = Unused /\ arrivals = Unused /\ passed = Unused /\ waits = Unused
NoEventual == /\ ready = Unused /\ value = Unused /\ timed = Unused /\ woken = Unused
              /\ sets = Unused
NoFuture == array = Unused /\ accepted = Unused /\ shown = Unused
NoRwlock == /\ mutex = Unused /\ cond = Unused /\ reader_count = Unused
            /\ write_flag = Unused /\ op = Unused /\ holds = Unused
NoList == o_lock = Unused /\ o_waitlist = Unused /\ o_freed = Unused /\ counter = Unused

ObjectInit ==
    \/ /\ kind = "barrier" /\ Bar!Init /\ NoEventual /\ NoFuture /\ NoRwlock
       /\ result = Unused /\ calls = Unused
    \/ /\ kind = "eventual" /\ Evt!Init /\ NoBarrier /\ NoFuture /\ NoRwlock
       /\ counter = Unused
    \/ kind = "future" /\ Fut!Init /\ NoBarrier /\ NoEventual /\ NoRwlock
    \/ /\ kind = "rwlock" /\ Rwl!Init /\ NoBarrier /\ NoEventual /\ NoFuture /\ NoList
       /\ result = Unused
    \/ /\ kind \in {"mutex", "cond", "futex"}
       /\ NoBarrier /\ NoEventual /\ NoFuture /\ NoRwlock /\ NoList
       /\ o_pc = Unused /\ result = Unused /\ calls = Unused

SyncInit ==
    /\ kind \in Kinds /\ ObjectInit /\ Init /\ Cnd!Init
    /\ Ftx!FutexInit(IF kind = "futex" THEN FutexUses ELSE {"none"})

\* The object is of kind k, and what only other kinds have does not change.
Only(k) ==
    /\ kind = k /\ UNCHANGED <<kind, vars, condOnly, futexOnly>>
    /\ k # "barrier" => UNCHANGED barrierOnly
    /\ k # "eventual" => UNCHANGED eventualOnly
    /\ k # "future" => UNCHANGED futureOnly
    /\ k # "rwlock" => UNCHANGED rwlockOnly
    /\ k = "rwlock" => UNCHANGED <<o_lock, o_waitlist, o_freed>>
    /\ k \in {"eventual", "rwlock"} => UNCHANGED counter
    /\ k \in {"barrier", "rwlock"} => UNCHANGED result
    /\ k = "barrier" => UNCHANGED calls
OnlyMutex == kind = "mutex" /\ UNCHANGED <<objectVars, condOnly, futexOnly>>
OnlyCond == kind = "cond" /\ UNCHANGED <<vars, objectVars, futexOnly>>
OnlyFutex == kind = "futex" /\ UNCHANGED <<vars, objectVars, condOnly>>

\* A mutex and a condition variable must not deadlock; the rest may stop when the calls
\* are used up, which CallsReturn judges.
MayRest == kind \notin {"mutex", "cond"} /\ UNCHANGED syncVars

SyncNext ==
    \/ Only("barrier") /\ Bar!Next
    \/ Only("eventual") /\ Evt!Next
    \/ Only("future") /\ Fut!Next
    \/ Only("rwlock") /\ Rwl!Next
    \/ OnlyMutex /\ Next
    \/ OnlyCond /\ Cnd!Next
    \/ OnlyFutex /\ Ftx!FutexNext
    \/ MayRest

\* The steps a caller inside a call takes, and those that take a contended lock.
CallerStep(c) ==
    \/ Only("barrier") /\ Bar!Step(c)
    \/ Only("eventual") /\ Evt!Step(c)
    \/ Only("future") /\ Fut!Step(c)
    \/ Only("rwlock") /\ (Rwl!Step(c) \/ Rwl!CallUnlock(c))
    \/ OnlyMutex /\ Step(c)
    \/ OnlyCond /\ Cnd!Step(c)
CallerWins(c) ==
    \/ Only("barrier") /\ Bar!Lock(c)
    \/ Only("eventual") /\ Evt!Acquire(c)
    \/ Only("future") /\ Fut!Acquire(c)
    \/ Only("rwlock") /\ Rwl!LockMutex(c)
    \/ OnlyMutex /\ UnlockCall(c) /\ pc'[c] = "unlock"
    \/ OnlyFutex /\ c \in FutexWaiters /\ Ftx!WaiterNext(c)

\* Callers keep running, get a lock when it is free again and again, and give up the
\* mutex or the readers-writer lock they hold.
SyncSpec ==
    /\ SyncInit /\ [][SyncNext]_syncVars
    /\ \A c \in Callers : WF_syncVars(CallerStep(c)) /\ SF_syncVars(CallerWins(c))
    /\ SF_syncVars(OnlyFutex /\ Ftx!WakerNext)
------------------------------------------------------------------------------
(* The properties of the modules, which say what they mean there; those of Mutex are
   checked under their own names. *)

\* The callers that wait are those the object says it has: between two critical sections
\* the barrier's counter is the length of its wait list, nobody waits on an eventual or a
\* future that is ready, nobody sleeps in a readers-writer lock without a reason to, and
\* the list of a condition variable holds exactly its blocked callers.
WaitersMatch ==
    /\ kind = "barrier" => Bar!TypeOK /\ Bar!CounterIsQueue
    /\ kind = "eventual" => Evt!TypeOK /\ Evt!NoWaiterLeft
    /\ kind = "future" => Fut!TypeOK /\ Fut!NoWaiterLeft
    /\ kind = "rwlock" => Rwl!TypeOK /\ Rwl!SleepersBlocked
    /\ Cnd!WaitersMatch

\* A woken caller may free a barrier, an eventual, a future, a condition variable or its
\* own node of a futex at once: whoever woke it has left the object before its memory
\* goes away.
NoWildAccess ==
    /\ kind = "barrier" => Bar!NoUseAfterFree
    /\ kind = "eventual" => Evt!NoUseAfterFree
    /\ kind = "future" => Fut!NoUseAfterFree
    /\ Cnd!NoUseAfterFree
    /\ Ftx!NoWildAccess

\* The same for futex waits with a deadline: "Since now val is 1, there's no possibility
\* that the signaler is still touching sync_obj" (abtd_futex.c:148).
NoTimedWildAccess == Ftx!NoTimedWildAccess

\* Nobody passes a barrier, of ULTs or of execution streams, before its round is complete,
\* and nobody a readers-writer lock that a writer holds.
NoEarlyPass ==
    /\ kind = "barrier" => Bar!NoEarlyPass
    /\ kind = "rwlock" => Rwl!Exclusion
    /\ Ftx!BarrierRounds

\* However many sets race, one succeeds on an eventual until it is reset, and those that
\* succeed on a future take different compartments; whoever sees a future ready comes
\* after its callback, which saw every value.
NoSetLost ==
    /\ kind = "eventual" => Evt!OneSet
    /\ kind = "future" => Fut!NoValueLost /\ Fut!CallbackFirst

\* A timed wait reports a timeout only while the eventual is not ready.
TimeoutLoses ==
    [][kind = "eventual" => \A c \in Callers : Evt!GivesUp(c) => ~ready]_objectVars

\* Releasing the mutex and starting to wait is one step for everybody else, and no
\* signal is lost or spurious.
ImplementsCondSpec == Cnd!ImplementsCondSpec

\* A condition variable belongs to a mutex only "until this routine returns" (cond.c).
AssociationEndsWithWait == Cnd!AssociationEndsWithWait

\* Every call that can return does: all callers of a complete round of a barrier, every
\* wait on a ready eventual or future, every call of a readers-writer lock, every wait on
\* a condition variable or a futex that was woken; and every user of the mutex finishes.
Owed(c) ==
    CASE kind = "mutex" -> TRUE
      [] kind = "cond" -> c_pc[c] = "relock"
      [] kind = "barrier" -> passed < Bar!Rounds
      [] kind = "eventual" -> Evt!WaitsReady(c)
      [] kind = "future" -> Fut!WaitsReady(c)
      [] kind = "rwlock" -> o_pc[c] # "idle"
      [] kind = "futex" -> c \in FutexWaiters /\ Ftx!Owed(c)
Returned(c) ==
    CASE kind = "mutex" -> freed
      [] kind = "cond" -> c_pc[c] = "in"
      [] kind = "barrier" -> passed >= Bar!Rounds
      [] kind \in {"eventual", "future", "rwlock"} -> o_pc[c] = "idle"
      [] kind = "futex" -> c \in FutexWaiters /\ fpc[c] = "idle"
CallsReturn == \A c \in Callers : Owed(c) ~> Returned(c)
===============================================================================
