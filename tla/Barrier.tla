-------------------------------- MODULE Barrier -------------------------------
(***************************************************************************)
(* ABT_barrier (src/barrier.c): wait, reinit and free, with the spinlock   *)
(* and the wait list, which behaves as WaitlistSpec promises.  Callers may *)
(* be more than the barrier waits for, and come back at once for the next  *)
(* round.                                                                  *)
(***************************************************************************)
EXTENDS Naturals, Sequences, FiniteSets

CONSTANTS Callers, Nobody,
          Counts,     \* the numbers of waiters the barrier is created and reinitialized with
          MaxWaits    \* bound: waits of each caller

BarrierConstants ==
    /\ Nobody \notin Callers /\ IsFiniteSet(Callers)
    /\ Counts \subseteq Nat \ {0} /\ MaxWaits \in Nat

VARIABLES lock, num_waiters, counter, waitlist,   \* ABTI_barrier
          freed,
          pc,
          arrivals, passed,   \* history: waits begun and ended since the last reinit
          waits

vars == <<lock, num_waiters, counter, waitlist, freed, pc, arrivals, passed, waits>>

Init ==
    /\ lock = Nobody
    /\ num_waiters \in Counts
    /\ counter = 0
    /\ waitlist = <<>>
    /\ freed = FALSE
    /\ pc = [c \in Callers |-> "idle"]
    /\ arrivals = 0 /\ passed = 0
    /\ waits = [c \in Callers |-> MaxWaits]

Goto(c, l) == pc' = [pc EXCEPT ![c] = l]
Idle(c) == pc[c] = "idle"
------------------------------------------------------------------------------
(* ABT_barrier_wait *)

Wait(c) ==
    /\ Idle(c) /\ waits[c] > 0 /\ ~freed
    /\ \A d \in Callers : pc[d] # "free"
    /\ waits' = [waits EXCEPT ![c] = @ - 1]
    /\ Goto(c, "lock")
    /\ UNCHANGED <<lock, num_waiters, counter, waitlist, freed, arrivals, passed>>

Lock(c) ==
    /\ pc[c] = "lock" /\ lock = Nobody
    /\ lock' = c
    /\ Goto(c, "enter")
    /\ UNCHANGED <<num_waiters, counter, waitlist, freed, arrivals, passed, waits>>

Arrive == counter' = counter + 1 /\ arrivals' = arrivals + 1

\* Mutant: one waiter too few opens the barrier.
EnterEarly(c) ==
    /\ pc[c] = "enter"
    /\ Arrive
    /\ IF counter + 2 < num_waiters
         THEN waitlist' = Append(waitlist, c) /\ Goto(c, "enqueued")
         ELSE Goto(c, "broadcast") /\ UNCHANGED waitlist
    /\ UNCHANGED <<lock, num_waiters, freed, passed, waits>>

Enter(c) ==
    /\ pc[c] = "enter"
    /\ Arrive
    /\ IF counter + 1 < num_waiters
         THEN waitlist' = Append(waitlist, c) /\ Goto(c, "enqueued")
         ELSE Goto(c, "broadcast") /\ UNCHANGED waitlist
    /\ UNCHANGED <<lock, num_waiters, freed, passed, waits>>

\* ABTI_waitlist_wait_and_unlock releases the lock with the caller in the list.
Unlock(c) ==
    /\ pc[c] = "enqueued"
    /\ lock' = Nobody
    /\ Goto(c, "waiting")
    /\ UNCHANGED <<num_waiters, counter, waitlist, freed, arrivals, passed, waits>>

Return(c) ==
    /\ pc[c] = "woken"
    /\ Goto(c, "idle")
    /\ passed' = passed + 1
    /\ UNCHANGED <<lock, num_waiters, counter, waitlist, freed, arrivals, waits>>

Broadcast(c) ==
    /\ pc[c] = "broadcast"
    /\ IF waitlist = <<>> THEN Goto(c, "reset") /\ UNCHANGED waitlist
       ELSE Goto(Head(waitlist), "woken") /\ waitlist' = Tail(waitlist)
    /\ UNCHANGED <<lock, num_waiters, counter, freed, arrivals, passed, waits>>

\* Mutant: the counter keeps its value.
NoReset(c) ==
    /\ pc[c] = "reset"
    /\ Goto(c, "release")
    /\ UNCHANGED <<lock, num_waiters, counter, waitlist, freed, arrivals, passed, waits>>

Reset(c) ==
    /\ pc[c] = "reset"
    /\ counter' = 0
    /\ Goto(c, "release")
    /\ UNCHANGED <<lock, num_waiters, waitlist, freed, arrivals, passed, waits>>

Release(c) ==
    /\ pc[c] = "release"
    /\ lock' = Nobody
    /\ Goto(c, "idle")
    /\ passed' = passed + 1
    /\ UNCHANGED <<num_waiters, counter, waitlist, freed, arrivals, waits>>
------------------------------------------------------------------------------
\* ABT_barrier_reinit, which must not run concurrently with any other call.
Reinit(c, n) ==
    /\ ~freed /\ counter = 0 /\ \A d \in Callers : Idle(d)
    /\ waits[c] > 0 /\ waits' = [waits EXCEPT ![c] = @ - 1]
    /\ num_waiters # n /\ num_waiters' = n
    /\ arrivals' = 0 /\ passed' = 0
    /\ UNCHANGED <<lock, counter, waitlist, freed, pc>>

\* ABT_barrier_free by a caller for whom the barrier has opened: the others have returned,
\* except the one that opened it, which may still be inside.
FreeBegin(c) ==
    /\ Idle(c) /\ ~freed
    /\ \A d \in Callers \ {c} : Idle(d) \/ (pc[d] \in {"broadcast", "reset", "release"} /\ waitlist = <<>>)
    /\ counter = 0 \/ \E d \in Callers : pc[d] \in {"broadcast", "reset"}
    /\ Goto(c, "free")
    /\ UNCHANGED <<lock, num_waiters, counter, waitlist, freed, arrivals, passed, waits>>

Free(c) ==
    /\ pc[c] = "free" /\ lock = Nobody
    /\ lock' = c
    /\ freed' = TRUE
    /\ Goto(c, "idle")
    /\ UNCHANGED <<num_waiters, counter, waitlist, arrivals, passed, waits>>
------------------------------------------------------------------------------
Step(c) ==
    \/ Lock(c) \/ Enter(c) \/ Unlock(c) \/ Return(c)
    \/ Broadcast(c) \/ Reset(c) \/ Release(c) \/ Free(c)

Next ==
    \/ \E c \in Callers :
         \/ Wait(c) \/ Step(c) \/ FreeBegin(c)
         \/ \E n \in Counts : Reinit(c, n)

Spec == Init /\ [][Next]_vars

------------------------------------------------------------------------------
(* Properties *)

\* The fields stay in their types; the counter never exceeds the number of waiters.
TypeOK ==
    /\ lock \in Callers \cup {Nobody}
    /\ num_waiters \in Counts
    /\ counter \in 0..num_waiters
    /\ waitlist \in Seq(Callers)
    /\ freed \in BOOLEAN
    /\ pc \in [Callers -> {"idle", "lock", "enter", "enqueued", "waiting", "woken",
                           "broadcast", "reset", "release", "free"}]
    /\ arrivals \in Nat /\ passed \in Nat
    /\ waits \in [Callers -> 0..MaxWaits]

\* Nobody passes before as many callers as the barrier waits for have arrived, however
\* early the callers of a round come back for the next one.
NoEarlyPass == passed <= arrivals - (arrivals % num_waiters)

\* Between two critical sections the counter is the number of blocked callers and a
\* round is never left full: the assertion counter < num_waiters at the entry holds.
CounterIsQueue ==
    lock = Nobody => counter = Len(waitlist) /\ counter < num_waiters

\* The caller that opens the barrier is out of it before the memory goes away, although
\* those it wakes may free the barrier at once.
NoUseAfterFree == freed => \A c \in Callers : Idle(c)

\* Once a full round has arrived every caller of it returns.
Rounds == arrivals - (arrivals % num_waiters)
===============================================================================
