-------------------------------- MODULE Future --------------------------------
(***************************************************************************)
(* ABT_future (src/futures.c): wait, the lock-free test, set, reset and    *)
(* free, with the spinlock and the wait list, which behaves as             *)
(* WaitlistSpec promises.  The last set calls the callback, then publishes *)
(* the counter, then wakes the waiters.                                    *)
(***************************************************************************)
EXTENDS Naturals, Sequences

CONSTANTS Callers, Nobody,
          NumCompartments,
          MaxCalls          \* bound: the calls of each caller

FutureConstants ==
    Nobody \notin Callers /\ NumCompartments \in Nat /\ MaxCalls \in [Callers -> Nat]

VARIABLES lock, counter, array, waitlist,   \* ABTI_future; a value is the caller that set it
          freed,
          pc,
          result,           \* what the last call of each caller returned
          accepted,         \* history: the values of the sets that succeeded since the last reset
          shown,            \* history: the array at each call of the callback since then
          calls

vars == <<lock, counter, array, waitlist, freed, pc, result, accepted, shown, calls>>
future == <<lock, counter, array, waitlist, freed>>
history == <<accepted, shown>>

Compartments == 1..NumCompartments

Init ==
    /\ lock = Nobody
    /\ counter = 0
    /\ array = [i \in Compartments |-> Nobody]
    /\ waitlist = <<>>
    /\ freed = FALSE
    /\ pc = [c \in Callers |-> "idle"]
    /\ result = [c \in Callers |-> "none"]
    /\ accepted = <<>> /\ shown = <<>>
    /\ calls = MaxCalls

Goto(c, l) == pc' = [pc EXCEPT ![c] = l]
Done(c, r) == Goto(c, "idle") /\ result' = [result EXCEPT ![c] = r]
Idle(c) == pc[c] = "idle"

Call(c, l) ==
    /\ Idle(c) /\ calls[c] > 0 /\ ~freed
    /\ \A d \in Callers : pc[d] # "free"
    /\ calls' = [calls EXCEPT ![c] = @ - 1]
    /\ Goto(c, l)
    /\ UNCHANGED <<future, result, history>>

Lock(c, from, to) ==
    /\ pc[c] = from /\ lock = Nobody
    /\ lock' = c
    /\ Goto(c, to)
    /\ UNCHANGED <<counter, array, waitlist, freed, result, history, calls>>

Release(c, from, r) ==
    /\ pc[c] = from
    /\ lock' = Nobody
    /\ Done(c, r)
    /\ UNCHANGED <<counter, array, waitlist, freed, history, calls>>
------------------------------------------------------------------------------
(* ABT_future_wait and ABT_future_test *)

Wait(c) ==
    /\ pc[c] = "wait"
    /\ IF counter < NumCompartments
         THEN Goto(c, "enqueued") /\ waitlist' = Append(waitlist, c)
         ELSE Goto(c, "release") /\ UNCHANGED waitlist
    /\ UNCHANGED <<lock, counter, array, freed, result, history, calls>>

\* The lock is released with the caller in the list.
Unlock(c) ==
    /\ pc[c] = "enqueued"
    /\ lock' = Nobody
    /\ Goto(c, "waiting")
    /\ UNCHANGED <<counter, array, waitlist, freed, result, history, calls>>

Return(c) ==
    /\ pc[c] = "woken"
    /\ Done(c, "ready")
    /\ UNCHANGED <<future, history, calls>>

Test(c) ==
    /\ pc[c] = "test"
    /\ Done(c, IF counter = NumCompartments THEN "ready" ELSE "unready")
    /\ UNCHANGED <<future, history, calls>>
------------------------------------------------------------------------------
(* ABT_future_set and ABT_future_reset *)

Fill(c) ==
    /\ pc[c] = "set"
    /\ IF counter >= NumCompartments
         THEN Goto(c, "error") /\ UNCHANGED <<array, accepted>>
         ELSE /\ array' = [array EXCEPT ![counter + 1] = c]
              /\ accepted' = Append(accepted, c)
              /\ Goto(c, "callback")
    /\ UNCHANGED <<lock, counter, waitlist, freed, result, shown, calls>>

Callback(c) ==
    /\ pc[c] = "callback"
    /\ shown' = IF counter + 1 = NumCompartments THEN Append(shown, array) ELSE shown
    /\ Goto(c, "publish")
    /\ UNCHANGED <<future, result, accepted, calls>>

Publish(c) ==
    /\ pc[c] = "publish"
    /\ counter' = counter + 1
    /\ Goto(c, IF counter + 1 = NumCompartments THEN "broadcast" ELSE "setdone")
    /\ UNCHANGED <<lock, array, waitlist, freed, result, history, calls>>

Broadcast(c) ==
    /\ pc[c] = "broadcast"
    /\ IF waitlist = <<>> THEN Goto(c, "setdone") /\ UNCHANGED waitlist
       ELSE Goto(Head(waitlist), "woken") /\ waitlist' = Tail(waitlist)
    /\ UNCHANGED <<lock, counter, array, freed, result, history, calls>>

Reset(c) ==
    /\ pc[c] = "reset"
    /\ counter' = 0
    /\ accepted' = <<>> /\ shown' = <<>>
    /\ Goto(c, "resetdone")
    /\ UNCHANGED <<lock, array, waitlist, freed, result, calls>>
------------------------------------------------------------------------------
\* ABT_future_free by a caller that has seen the future ready: the others have returned,
\* except a set, which may still be inside.
FreeBegin(c) ==
    /\ Idle(c) /\ ~freed /\ result[c] = "ready"
    /\ \A d \in Callers \ {c} : Idle(d) \/ (pc[d] \in {"broadcast", "setdone"} /\ waitlist = <<>>)
    /\ Goto(c, "free")
    /\ UNCHANGED <<future, result, history, calls>>

Free(c) ==
    /\ pc[c] = "free" /\ lock = Nobody
    /\ lock' = c
    /\ freed' = TRUE
    /\ Done(c, "freed")
    /\ UNCHANGED <<counter, array, waitlist, history, calls>>
------------------------------------------------------------------------------
\* A reset is undefined while a waiter is blocked, so it is not called then.
Acquire(c) ==
    \/ Lock(c, "waitlock", "wait") \/ Lock(c, "setlock", "set")
    \/ (waitlist = <<>> /\ Lock(c, "resetlock", "reset"))

Step(c) ==
    \/ Acquire(c) \/ Wait(c) \/ Unlock(c) \/ Release(c, "release", "ready") \/ Return(c) \/ Test(c)
    \/ Fill(c) \/ Callback(c) \/ Publish(c) \/ Broadcast(c)
    \/ Release(c, "setdone", "set") \/ Release(c, "error", "error")
    \/ Reset(c) \/ Release(c, "resetdone", "reset") \/ Free(c)

Next ==
    \E c \in Callers :
      \/ \E l \in {"waitlock", "test", "setlock", "resetlock"} : Call(c, l)
      \/ Step(c) \/ FreeBegin(c)

Spec == Init /\ [][Next]_vars

------------------------------------------------------------------------------
(* Properties *)

\* The fields stay in their types; the counter never passes the number of compartments.
TypeOK ==
    /\ lock \in Callers \cup {Nobody}
    /\ counter \in 0..NumCompartments
    /\ array \in [Compartments -> Callers \cup {Nobody}]
    /\ waitlist \in Seq(Callers)
    /\ freed \in BOOLEAN
    /\ result \in [Callers -> {"none", "ready", "unready", "set", "error", "reset", "freed"}]

\* Whoever learns that the future is ready, without the lock through ABT_future_test
\* included, comes after the callback, which has run once and was shown every value.
CallbackFirst == counter = NumCompartments /\ counter > 0 => shown = <<accepted>>

\* The compartments below the counter hold the values of the sets that succeeded, in
\* order: racing sets never take the same compartment.
NoValueLost == \A i \in 1..counter : i \in DOMAIN accepted /\ array[i] = accepted[i]

\* Nobody is left waiting on a ready future once the set that made it so is over.
NoWaiterLeft == counter = NumCompartments /\ lock = Nobody => waitlist = <<>>

\* The last set has left the future before the memory goes away, although a caller of
\* ABT_future_test may free it as soon as the counter is published.
NoUseAfterFree == freed => \A c \in Callers : Idle(c)

WaitsReady(c) == pc[c] = "waiting" /\ counter = NumCompartments

===============================================================================
