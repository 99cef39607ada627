--------------------------------- MODULE Cond ---------------------------------
(***************************************************************************)
(* ABT_cond: src/include/abti_cond.h and src/cond.c.                       *)
(*                                                                         *)
(* The mutex and the wait list are taken as their specifications promise   *)
(* (MutexSpec and WaitlistSpec).  What is at stake here is the window in   *)
(* which a waiter has released the mutex and is not in the list yet, which *)
(* the condition variable closes by holding its own spinlock over both;    *)
(* and the use of that spinlock after the wake-up that lets a waiter free  *)
(* the condition variable.                                                 *)
(***************************************************************************)
EXTENDS Naturals, Sequences, SequencesExt, FiniteSets

CONSTANTS Callers, Mutexes, Null,
          MaxOps,      \* bound: mutex locks and waits of each caller
          MaxWakes     \* bound: signals and broadcasts of each caller

CondConstants ==
    /\ IsFiniteSet(Callers)
    /\ Null \notin Callers \cup Mutexes
    /\ MaxOps \in [Callers -> Nat] /\ MaxWakes \in Nat

VARIABLES lock,           \* holder of cond->lock
          p_waiter_mutex, \* cond->p_waiter_mutex
          waitlist,       \* cond->waitlist, first come first
          freed,
          holder,         \* holder of each mutex
          pc,             \* where each caller is
          p_mutex,        \* the mutex it has locked, or passed to the wait
          timed,          \* whether its wait has a deadline
          result,         \* what its last wait returned
          ops, wakes

vars == <<lock, p_waiter_mutex, waitlist, freed, holder, pc, p_mutex, timed, result,
          ops, wakes>>
condVars == <<lock, p_waiter_mutex, waitlist, freed>>
callVars == <<p_mutex, timed, result, ops, wakes>>

Init ==
    /\ lock = Null
    /\ p_waiter_mutex = Null
    /\ waitlist = <<>>
    /\ freed = FALSE
    /\ holder = [m \in Mutexes |-> Null]
    /\ pc = [c \in Callers |-> "out"]
    /\ p_mutex = [c \in Callers |-> Null]
    /\ timed = [c \in Callers |-> FALSE]
    /\ result = [c \in Callers |-> "none"]
    /\ ops = MaxOps
    /\ wakes = [c \in Callers |-> MaxWakes]

Goto(c, l) == pc' = [pc EXCEPT ![c] = l]

AcquireLock(c) == lock = Null /\ lock' = c
ReleaseLock == lock' = Null
------------------------------------------------------------------------------
(* The caller's own critical section *)

LockMutex(c, m) ==
    /\ pc[c] = "out" /\ ops[c] > 0 /\ ~freed
    /\ holder[m] = Null
    /\ holder' = [holder EXCEPT ![m] = c]
    /\ p_mutex' = [p_mutex EXCEPT ![c] = m]
    /\ ops' = [ops EXCEPT ![c] = @ - 1]
    /\ Goto(c, "in")
    /\ UNCHANGED <<condVars, timed, result, wakes>>

UnlockMutex(c) ==
    /\ pc[c] = "in"
    /\ holder' = [holder EXCEPT ![p_mutex[c]] = Null]
    /\ p_mutex' = [p_mutex EXCEPT ![c] = Null]
    /\ Goto(c, "out")
    /\ UNCHANGED <<condVars, timed, result, ops, wakes>>
------------------------------------------------------------------------------
(* ABTI_cond_wait and ABT_cond_timedwait *)

\* Mutant: the spinlock only protects p_waiter_mutex.
WaitUnprotected(c, withDeadline) ==
    /\ pc[c] = "in" /\ ops[c] > 0
    /\ ops' = [ops EXCEPT ![c] = @ - 1]
    /\ lock = Null
    /\ p_waiter_mutex \in {Null, p_mutex[c]}
    /\ p_waiter_mutex' = p_mutex[c]
    /\ timed' = [timed EXCEPT ![c] = withDeadline]
    /\ result' = [result EXCEPT ![c] = "none"]
    /\ Goto(c, "unlock")
    /\ UNCHANGED <<lock, waitlist, freed, holder, p_mutex, wakes>>

\* Take the spinlock and see that every waiter uses the same mutex.
Wait(c, withDeadline) ==
    LET associated == p_waiter_mutex \in {Null, p_mutex[c]} IN
    /\ pc[c] = "in" /\ ops[c] > 0
    /\ ops' = [ops EXCEPT ![c] = @ - 1]
    /\ lock = Null
    /\ IF associated
         THEN /\ AcquireLock(c)
              /\ p_waiter_mutex' = p_mutex[c]
              /\ timed' = [timed EXCEPT ![c] = withDeadline]
              /\ result' = [result EXCEPT ![c] = "none"]
              /\ Goto(c, "unlock")
         ELSE /\ result' = [result EXCEPT ![c] = "ERR_INV_MUTEX"]
              /\ UNCHANGED <<lock, p_waiter_mutex, timed, pc>>
    /\ UNCHANGED <<waitlist, freed, holder, p_mutex, wakes>>

Unlock(c) ==
    /\ pc[c] = "unlock"
    /\ holder' = [holder EXCEPT ![p_mutex[c]] = Null]
    /\ Goto(c, "enqueue")
    /\ UNCHANGED <<condVars, callVars>>

\* ABTI_waitlist_wait_and_unlock and ABTI_waitlist_wait_timedout_and_unlock
WaitAndUnlock(c) ==
    /\ pc[c] = "enqueue"
    /\ waitlist' = Append(waitlist, c)
    /\ ReleaseLock
    /\ Goto(c, "blocked")
    /\ UNCHANGED <<p_waiter_mutex, freed, holder, callVars>>

\* The deadline passes before a wake-up reaches the caller.
TimeOut(c) ==
    /\ pc[c] = "blocked" /\ timed[c]
    /\ lock = Null
    /\ \E i \in DOMAIN waitlist : waitlist[i] = c /\ waitlist' = RemoveAt(waitlist, i)
    /\ result' = [result EXCEPT ![c] = "ERR_COND_TIMEDOUT"]
    /\ Goto(c, "relock")
    /\ UNCHANGED <<lock, p_waiter_mutex, freed, holder, p_mutex, timed, ops, wakes>>

LockAgain(c) ==
    /\ pc[c] = "relock"
    /\ holder[p_mutex[c]] = Null
    /\ holder' = [holder EXCEPT ![p_mutex[c]] = c]
    /\ result' = [result EXCEPT ![c] = IF @ = "none" THEN "SUCCESS" ELSE @]
    /\ Goto(c, "in")
    /\ UNCHANGED <<condVars, p_mutex, timed, ops, wakes>>
------------------------------------------------------------------------------
(* ABT_cond_signal and ABT_cond_broadcast, inside or outside the critical section *)

Begin(c, l) ==
    /\ pc[c] \in {"out", "in"} /\ ~freed
    /\ wakes[c] > 0
    /\ wakes' = [wakes EXCEPT ![c] = @ - 1]
    /\ AcquireLock(c)
    /\ Goto(c, l)
    /\ UNCHANGED <<p_waiter_mutex, waitlist, freed, holder, p_mutex, timed, result, ops>>

\* The first waiter goes on to lock its mutex.
WakeFirst ==
    /\ waitlist' = Tail(waitlist)
    /\ UNCHANGED <<p_waiter_mutex, freed, holder, callVars>>

Signal(c) ==
    /\ pc[c] = "signal"
    /\ IF waitlist = <<>>
         THEN Goto(c, "release") /\ UNCHANGED <<condVars, holder, callVars>>
         ELSE /\ WakeFirst
              /\ pc' = [pc EXCEPT ![c] = "release", ![Head(waitlist)] = "relock"]
              /\ UNCHANGED lock

\* One round of ABTI_waitlist_broadcast, which holds the lock until all are awake.
Broadcast(c) ==
    /\ pc[c] = "broadcast"
    /\ IF waitlist = <<>>
         THEN Goto(c, "release") /\ UNCHANGED <<condVars, holder, callVars>>
         ELSE /\ WakeFirst
              /\ pc' = [pc EXCEPT ![Head(waitlist)] = "relock"]
              /\ UNCHANGED lock

Release(c) ==
    /\ pc[c] = "release"
    /\ ReleaseLock
    /\ Goto(c, IF p_mutex[c] = Null THEN "out" ELSE "in")
    /\ UNCHANGED <<p_waiter_mutex, waitlist, freed, holder, callVars>>
------------------------------------------------------------------------------
(* ABT_cond_free *)

\* The caller knows that nobody will use the condition variable again; a waker may
\* still be on its way out of the call that woke the last waiter.
LastUser(c) ==
    \A d \in Callers \ {c} :
      /\ ops[d] = 0 /\ wakes[d] = 0
      /\ pc[d] \in {"out", "in", "relock", "broadcast", "release"}

\* ABTI_cond_fini acquires the lock and never releases it.
Free(c) ==
    /\ pc[c] = "out" /\ ~freed
    /\ LastUser(c)
    /\ waitlist = <<>>
    /\ AcquireLock(c)
    /\ freed' = TRUE
    /\ UNCHANGED <<p_waiter_mutex, waitlist, holder, pc, callVars>>
------------------------------------------------------------------------------
Step(c) ==
    \/ \E m \in Mutexes : LockMutex(c, m)
    \/ UnlockMutex(c)
    \/ \E withDeadline \in BOOLEAN : Wait(c, withDeadline)
    \/ Unlock(c) \/ WaitAndUnlock(c) \/ LockAgain(c)
    \/ Begin(c, "signal") \/ Begin(c, "broadcast")
    \/ Signal(c) \/ Broadcast(c) \/ Release(c)
    \/ Free(c)

\* The only ways to stop: freed, or waiting for a signal nobody is left to send.
Terminated ==
    /\ \A c \in Callers : \/ pc[c] = "out" /\ (freed \/ (ops[c] = 0 /\ wakes[c] = 0))
                          \/ pc[c] = "blocked" /\ ~timed[c]
    /\ UNCHANGED vars

Next == (\E c \in Callers : Step(c) \/ TimeOut(c)) \/ Terminated

Spec == Init /\ [][Next]_vars

------------------------------------------------------------------------------
(* Properties *)

\* The fields and the locals stay in their types.
TypeOK ==
    /\ lock \in Callers \cup {Null}
    /\ p_waiter_mutex \in Mutexes \cup {Null}
    /\ waitlist \in Seq(Callers) /\ IsInjective(waitlist)
    /\ freed \in BOOLEAN
    /\ holder \in [Mutexes -> Callers \cup {Null}]
    /\ pc \in [Callers -> {"out", "in", "unlock", "enqueue", "blocked", "relock",
                           "signal", "broadcast", "release"}]
    /\ p_mutex \in [Callers -> Mutexes \cup {Null}]
    /\ timed \in [Callers -> BOOLEAN]
    /\ result \in [Callers -> {"none", "SUCCESS", "ERR_INV_MUTEX", "ERR_COND_TIMEDOUT"}]
    /\ ops \in [Callers -> Nat] /\ wakes \in [Callers -> Nat]

\* The wait list holds exactly the callers that are blocked, all of them with the mutex
\* associated with the condition variable, which none of them holds.
WaitersMatch ==
    /\ TypeOK
    /\ ToSet(waitlist) = {c \in Callers : pc[c] = "blocked"}
    /\ \A c \in Callers :
         /\ pc[c] \in {"unlock", "enqueue", "blocked"} => p_mutex[c] = p_waiter_mutex
         /\ pc[c] \in {"enqueue", "blocked", "relock"} => holder[p_mutex[c]] # c

\* A caller that has released the mutex but is not in the wait list yet counts as
\* waiting: nobody can signal before it is there, as it has the spinlock.
call == [c \in Callers |-> <<c, p_mutex[c]>>]
queue == IF lock \in Callers /\ pc[lock] = "enqueue" THEN Append(waitlist, lock) ELSE waitlist
waiters == [i \in 1..Len(queue) |-> call[queue[i]]]
leaving == {call[c] : c \in {d \in Callers : pc[d] = "relock"}}
waking == [c \in Callers |-> IF pc[c] \in {"signal", "broadcast"} THEN pc[c] ELSE "no"]

\* Releasing the mutex and starting to wait is one atomic step for everybody else, no
\* signal between the two is lost, wake-ups are FIFO, and no call returns that was
\* neither woken nor timed out ("a spurious wakeup never occurs").
Abstract == INSTANCE CondSpec
ImplementsCondSpec == Abstract!Spec

\* ABT_cond_free never takes the condition variable away from a caller that is still
\* going to use its lock or its wait list.
NoUseAfterFree ==
    freed => \A c \in Callers : pc[c] \notin {"unlock", "enqueue", "blocked", "signal",
                                              "broadcast", "release"}

InWait(c) == pc[c] \in {"unlock", "enqueue", "blocked", "relock"}

\* A wait with mutex m is turned away only while another wait, with another mutex,
\* has not returned yet.
AssociationEndsWithWait ==
    [][\A c \in Callers :
         result'[c] = "ERR_INV_MUTEX" /\ ops'[c] # ops[c] =>
           \E d \in Callers \ {c} : InWait(d) /\ p_mutex[d] # p_mutex[c]]_vars
==============================================================================
