------------------------------- MODULE Eventual -------------------------------
(***************************************************************************)
(* ABT_eventual (src/eventual.c): wait, timedwait, test, set, reset and    *)
(* free, with the spinlock and the wait list, which behaves as             *)
(* WaitlistSpec promises.  The wait list's memory belongs to the eventual, *)
(* and the caller that a set wakes may free it.                            *)
(***************************************************************************)
EXTENDS Naturals, Sequences, SequencesExt

CONSTANTS Callers, Nobody,
          MaxCalls     \* bound: the calls of each caller

EventualConstants == Nobody \notin Callers /\ MaxCalls \in [Callers -> Nat]

VARIABLES lock, ready, value, waitlist,   \* ABTI_eventual; value is who set it
          freed,
          pc, timed,       \* the callers' locals
          woken,           \* the waiters that a set has made READY
          result,          \* what the last call of each caller returned
          sets,            \* history: sets that returned ABT_SUCCESS since the last reset
          calls

vars == <<lock, ready, value, waitlist, freed, pc, timed, woken, result, sets, calls>>
eventual == <<lock, ready, value, waitlist, freed>>

Init ==
    /\ lock = Nobody
    /\ ready = FALSE
    /\ value = Nobody
    /\ waitlist = <<>>
    /\ freed = FALSE
    /\ pc = [c \in Callers |-> "idle"]
    /\ timed = [c \in Callers |-> FALSE]
    /\ woken = {}
    /\ result = [c \in Callers |-> "none"]
    /\ sets = 0
    /\ calls = MaxCalls

Goto(c, l) == pc' = [pc EXCEPT ![c] = l]
Done(c, r) == Goto(c, "idle") /\ result' = [result EXCEPT ![c] = r]
Idle(c) == pc[c] = "idle"

Call(c, l, t) ==
    /\ Idle(c) /\ calls[c] > 0 /\ ~freed
    /\ \A d \in Callers : pc[d] # "free"
    /\ calls' = [calls EXCEPT ![c] = @ - 1]
    /\ timed' = [timed EXCEPT ![c] = t]
    /\ Goto(c, l)
    /\ UNCHANGED <<eventual, woken, result, sets>>

Lock(c, from, to) ==
    /\ pc[c] = from /\ lock = Nobody
    /\ lock' = c
    /\ Goto(c, to)
    /\ UNCHANGED <<ready, value, waitlist, freed, timed, woken, result, sets, calls>>

Release(c, from, r) ==
    /\ pc[c] = from
    /\ lock' = Nobody
    /\ Done(c, r)
    /\ UNCHANGED <<ready, value, waitlist, freed, timed, woken, sets, calls>>
------------------------------------------------------------------------------
(* ABT_eventual_wait and ABT_eventual_timedwait *)

Wait(c) ==
    /\ pc[c] = "wait"
    /\ IF ready THEN Goto(c, "release") /\ UNCHANGED waitlist
       ELSE Goto(c, "enqueued") /\ waitlist' = Append(waitlist, c)
    /\ UNCHANGED <<lock, ready, value, freed, timed, woken, result, sets, calls>>

\* The lock is released with the caller in the list.
Unlock(c) ==
    /\ pc[c] = "enqueued"
    /\ lock' = Nobody
    /\ Goto(c, "waiting")
    /\ UNCHANGED <<ready, value, waitlist, freed, timed, woken, result, sets, calls>>

\* The pointer to the buffer is read from the eventual after the wait.
Return(c) ==
    /\ pc[c] = "waiting" /\ c \in woken
    /\ woken' = woken \ {c}
    /\ Done(c, "ready")
    /\ UNCHANGED <<eventual, timed, sets, calls>>

TimeUp(c) ==
    /\ pc[c] = "waiting" /\ timed[c]
    /\ Goto(c, "timeup")
    /\ UNCHANGED <<eventual, timed, woken, result, sets, calls>>

\* Mutant: does not look again whether it was woken.
GiveUpBlindly(c) ==
    /\ pc[c] = "giveup"
    /\ waitlist' = Remove(waitlist, c)
    /\ woken' = woken \ {c}
    /\ lock' = Nobody
    /\ Done(c, "timedout")
    /\ UNCHANGED <<ready, value, freed, timed, sets, calls>>

\* Under the lock again: a set may have come first.
GiveUp(c) ==
    /\ pc[c] = "giveup"
    /\ \/ c \in woken /\ woken' = woken \ {c} /\ UNCHANGED waitlist /\ Done(c, "ready")
       \/ /\ c \notin woken /\ UNCHANGED woken /\ Done(c, "timedout")
          /\ \E i \in DOMAIN waitlist :
               waitlist[i] = c /\ waitlist' = RemoveAt(waitlist, i)
    /\ lock' = Nobody
    /\ UNCHANGED <<ready, value, freed, timed, sets, calls>>
------------------------------------------------------------------------------
(* ABT_eventual_test, set and reset *)

Test(c) ==
    /\ pc[c] = "test"
    /\ lock' = Nobody
    /\ Done(c, IF ready THEN "ready" ELSE "unready")
    /\ UNCHANGED <<ready, value, waitlist, freed, timed, woken, sets, calls>>

\* Mutant: a ready eventual may be set again.
SetAgain(c) ==
    /\ pc[c] = "set"
    /\ value' = c /\ ready' = TRUE /\ sets' = sets + 1
    /\ Goto(c, "broadcast")
    /\ UNCHANGED <<lock, waitlist, freed, timed, woken, result, calls>>

Set(c) ==
    /\ pc[c] = "set"
    /\ IF ready THEN Goto(c, "error") /\ UNCHANGED <<value, ready, sets>>
       ELSE /\ value' = c /\ ready' = TRUE /\ sets' = sets + 1
            /\ Goto(c, "broadcast")
    /\ UNCHANGED <<lock, waitlist, freed, timed, woken, result, calls>>

Broadcast(c) ==
    /\ pc[c] = "broadcast"
    /\ IF waitlist = <<>> THEN Goto(c, "setdone") /\ UNCHANGED <<waitlist, woken>>
       ELSE /\ woken' = woken \cup {Head(waitlist)} /\ waitlist' = Tail(waitlist)
            /\ UNCHANGED pc
    /\ UNCHANGED <<lock, ready, value, freed, timed, result, sets, calls>>

Reset(c) ==
    /\ pc[c] = "reset"
    /\ ready' = FALSE /\ sets' = 0
    /\ lock' = Nobody
    /\ Done(c, "reset")
    /\ UNCHANGED <<value, waitlist, freed, timed, woken, calls>>
------------------------------------------------------------------------------
\* ABT_eventual_free by a caller that has seen the eventual ready: the others have
\* returned, except a set, which may still be inside.
FreeBegin(c) ==
    /\ Idle(c) /\ ~freed /\ result[c] = "ready"
    /\ \A d \in Callers \ {c} : Idle(d) \/ (pc[d] \in {"broadcast", "setdone"} /\ waitlist = <<>>)
    /\ Goto(c, "free")
    /\ UNCHANGED <<eventual, timed, woken, result, sets, calls>>

Free(c) ==
    /\ pc[c] = "free" /\ lock = Nobody
    /\ lock' = c
    /\ freed' = TRUE
    /\ Done(c, "freed")
    /\ UNCHANGED <<ready, value, waitlist, timed, woken, sets, calls>>
------------------------------------------------------------------------------
\* A reset is undefined while a waiter is blocked, so it is not called then.
Acquire(c) ==
    \/ Lock(c, "waitlock", "wait") \/ Lock(c, "timeup", "giveup") \/ Lock(c, "testlock", "test")
    \/ Lock(c, "setlock", "set") \/ (waitlist = <<>> /\ Lock(c, "resetlock", "reset"))

Step(c) ==
    \/ Acquire(c) \/ Wait(c) \/ Unlock(c) \/ Release(c, "release", "ready")
    \/ Return(c) \/ GiveUp(c)
    \/ Test(c) \/ Set(c) \/ Broadcast(c)
    \/ Release(c, "setdone", "set") \/ Release(c, "error", "error")
    \/ Reset(c) \/ Free(c)

Next ==
    \E c \in Callers :
      \/ Call(c, "waitlock", FALSE) \/ Call(c, "waitlock", TRUE)
      \/ \E l \in {"testlock", "setlock", "resetlock"} : Call(c, l, FALSE)
      \/ Step(c) \/ TimeUp(c) \/ FreeBegin(c)

Spec == Init /\ [][Next]_vars

------------------------------------------------------------------------------
(* Properties *)

\* The fields stay in their types, and a woken waiter is a caller inside a wait.
TypeOK ==
    /\ lock \in Callers \cup {Nobody}
    /\ ready \in BOOLEAN /\ freed \in BOOLEAN
    /\ value \in Callers \cup {Nobody}
    /\ waitlist \in Seq(Callers)
    /\ timed \in [Callers -> BOOLEAN]
    /\ woken \subseteq {c \in Callers : pc[c] \in {"waiting", "timeup", "giveup"}}
    /\ result \in [Callers -> {"none", "ready", "unready", "timedout", "set", "error", "reset", "freed"}]

\* Nobody is left waiting on a ready eventual once the set that made it so is over.
NoWaiterLeft == ready /\ lock = Nobody => waitlist = <<>>

\* Between two resets one set succeeds, however many race: the value a waiter was woken
\* for is not written over.
OneSet == sets <= 1

GivesUp(c) == pc[c] = "giveup" /\ pc'[c] = "idle" /\ result'[c] = "timedout"

\* A timed wait that has given up and got the lock reports a timeout only while the
\* eventual is not ready: a set that came first wins.
TimeoutLoses == [][\A c \in Callers : GivesUp(c) => ~ready]_vars

\* A set has left the eventual before the memory goes away.
NoUseAfterFree == freed => \A c \in Callers : Idle(c)

WaitsReady(c) == pc[c] \in {"wait", "waiting"} /\ ready

===============================================================================
