-------------------------------- MODULE Rwlock --------------------------------
(***************************************************************************)
(* ABT_rwlock (src/rwlock.c): a counter and a flag under an ABTI_mutex,    *)
(* with one ABTI_cond that readers and writers share.  Mutex and condition *)
(* variable behave as MutexSpec and CondSpec promise: a wait gives up the  *)
(* mutex and joins the queue at once, and a broadcast, made with the mutex *)
(* held, lets every waiter compete for the mutex again.                    *)
(***************************************************************************)
EXTENDS Naturals, FiniteSets

CONSTANTS Callers, Nobody,
          MaxCalls     \* bound: times each caller locks

RwlockConstants ==
    Nobody \notin Callers /\ IsFiniteSet(Callers) /\ MaxCalls \in Nat

VARIABLES mutex, cond,                \* the mutex's holder; the waiters of the condition
          reader_count, write_flag,
          pc, op,
          holds,                      \* what each caller may do: "no", "read", "write"
          calls

vars == <<mutex, cond, reader_count, write_flag, pc, op, holds, calls>>

Init ==
    /\ mutex = Nobody
    /\ cond = {}
    /\ reader_count = 0
    /\ write_flag = FALSE
    /\ pc = [c \in Callers |-> "idle"]
    /\ op = [c \in Callers |-> "none"]
    /\ holds = [c \in Callers |-> "no"]
    /\ calls = [c \in Callers |-> MaxCalls]

Goto(c, l) == pc' = [pc EXCEPT ![c] = l]

CallLock(c, o) ==
    /\ pc[c] = "idle" /\ holds[c] = "no" /\ calls[c] > 0
    /\ calls' = [calls EXCEPT ![c] = @ - 1]
    /\ op' = [op EXCEPT ![c] = o]
    /\ Goto(c, "lock")
    /\ UNCHANGED <<mutex, cond, reader_count, write_flag, holds>>

\* The critical section of the caller ends here.
CallUnlock(c) ==
    /\ pc[c] = "idle" /\ holds[c] # "no"
    /\ holds' = [holds EXCEPT ![c] = "no"]
    /\ op' = [op EXCEPT ![c] = "unlock"]
    /\ Goto(c, "lock")
    /\ UNCHANGED <<mutex, cond, reader_count, write_flag, calls>>

\* ABTI_mutex_lock, at the entry and at the end of ABTI_cond_wait.
LockMutex(c) ==
    /\ pc[c] = "lock" /\ mutex = Nobody
    /\ mutex' = c
    /\ Goto(c, "check")
    /\ UNCHANGED <<cond, reader_count, write_flag, op, holds, calls>>

\* The condition of the loop.
Blocked(o) == write_flag \/ (o = "wrlock" /\ reader_count > 0)

CondWait(c) ==
    /\ pc[c] = "check" /\ op[c] # "unlock" /\ Blocked(op[c])
    /\ mutex' = Nobody
    /\ cond' = cond \cup {c}
    /\ Goto(c, "waiting")
    /\ UNCHANGED <<reader_count, write_flag, op, holds, calls>>

Rdlock(c) ==
    /\ pc[c] = "check" /\ op[c] = "rdlock" /\ ~Blocked(op[c])
    /\ reader_count' = reader_count + 1
    /\ Goto(c, "unlock")
    /\ UNCHANGED <<mutex, cond, write_flag, op, holds, calls>>

Wrlock(c) ==
    /\ pc[c] = "check" /\ op[c] = "wrlock" /\ ~Blocked(op[c])
    /\ write_flag' = TRUE
    /\ Goto(c, "unlock")
    /\ UNCHANGED <<mutex, cond, reader_count, op, holds, calls>>

Broadcast(c) ==
    /\ cond' = {}
    /\ pc' = [d \in Callers |-> IF d \in cond THEN "lock" ELSE IF d = c THEN "unlock" ELSE pc[d]]

\* Mutant: only a writer wakes the waiters.
UnlockSilent(c) ==
    /\ pc[c] = "check" /\ op[c] = "unlock"
    /\ IF write_flag THEN write_flag' = FALSE /\ UNCHANGED reader_count /\ Broadcast(c)
       ELSE reader_count' = reader_count - 1 /\ Goto(c, "unlock") /\ UNCHANGED <<write_flag, cond>>
    /\ UNCHANGED <<mutex, op, holds, calls>>

\* The flag alone tells whose lock is given up.
Unlock(c) ==
    /\ pc[c] = "check" /\ op[c] = "unlock"
    /\ IF write_flag THEN write_flag' = FALSE /\ UNCHANGED reader_count
       ELSE reader_count' = reader_count - 1 /\ UNCHANGED write_flag
    /\ Broadcast(c)
    /\ UNCHANGED <<mutex, op, holds, calls>>

UnlockMutex(c) ==
    /\ pc[c] = "unlock"
    /\ mutex' = Nobody
    /\ holds' = [holds EXCEPT ![c] = CASE op[c] = "rdlock" -> "read"
                                       [] op[c] = "wrlock" -> "write"
                                       [] OTHER -> "no"]
    /\ Goto(c, "idle")
    /\ UNCHANGED <<cond, reader_count, write_flag, op, calls>>
------------------------------------------------------------------------------
Step(c) ==
    \/ LockMutex(c) \/ CondWait(c) \/ Rdlock(c) \/ Wrlock(c) \/ Unlock(c) \/ UnlockMutex(c)

Terminated ==
    /\ \A c \in Callers : pc[c] = "idle" /\ holds[c] = "no" /\ calls[c] = 0
    /\ UNCHANGED vars

Next ==
    \/ \E c \in Callers :
         \/ CallLock(c, "rdlock") \/ CallLock(c, "wrlock") \/ CallUnlock(c) \/ Step(c)
    \/ Terminated

Spec == Init /\ [][Next]_vars

------------------------------------------------------------------------------
(* Properties *)

\* The fields stay in their types; there are never more readers counted than callers.
TypeOK ==
    /\ mutex \in Callers \cup {Nobody}
    /\ cond \subseteq Callers
    /\ reader_count \in 0..Cardinality(Callers)
    /\ write_flag \in BOOLEAN
    /\ pc \in [Callers -> {"idle", "lock", "check", "waiting", "unlock"}]
    /\ op \in [Callers -> {"none", "rdlock", "wrlock", "unlock"}]
    /\ holds \in [Callers -> {"no", "read", "write"}]
    /\ calls \in [Callers -> 0..MaxCalls]

\* A writer is alone: no reader and no other writer has the lock while it does.
Exclusion ==
    \A c, d \in Callers : holds[c] = "write" /\ c # d => holds[d] = "no"

\* Whoever sleeps, sleeps for a reason: a reader only while a writer has the lock, a
\* writer only while somebody has it, so that an unlock that wakes them is to come.
SleepersBlocked == mutex = Nobody => \A c \in cond : Blocked(op[c])

\* Every lock and unlock call returns.
CallsReturn == \A c \in Callers : pc[c] # "idle" ~> pc[c] = "idle"
===============================================================================
