------------------------------- MODULE CondSpec -------------------------------
(***************************************************************************)
(* What a condition variable promises: a wait releases the mutex and joins *)
(* the queue in one atomic step, only a wake-up or its own deadline ends   *)
(* it, and it ends with the mutex held.                                    *)
(***************************************************************************)
EXTENDS Sequences, SequencesExt

CONSTANTS Callers, Mutexes, Null

VARIABLES holder,   \* who holds each mutex
          waiters,  \* the calls that wait, first come first: <<caller, mutex>>
          leaving,  \* the calls that are over but for the mutex
          waking    \* "signal" or "broadcast" for a caller inside one of these

vars == <<holder, waiters, leaving, waking>>

Init ==
    /\ holder = [m \in Mutexes |-> Null]
    /\ waiters = <<>>
    /\ leaving = {}
    /\ waking = [c \in Callers |-> "no"]

Lock(c, m) ==
    /\ holder[m] = Null
    /\ \A n \in Mutexes : <<c, n>> \notin Range(waiters) \cup leaving
    /\ holder' = [holder EXCEPT ![m] = c]
    /\ UNCHANGED <<waiters, leaving, waking>>

Unlock(c, m) ==
    /\ holder[m] = c
    /\ holder' = [holder EXCEPT ![m] = Null]
    /\ UNCHANGED <<waiters, leaving, waking>>

Wait(c, m) ==
    /\ holder[m] = c
    /\ holder' = [holder EXCEPT ![m] = Null]
    /\ waiters' = Append(waiters, <<c, m>>)
    /\ UNCHANGED <<leaving, waking>>

StartWaking(c, how) ==
    /\ waking[c] = "no"
    /\ waking' = [waking EXCEPT ![c] = how]
    /\ UNCHANGED <<holder, waiters, leaving>>

\* A signal is for the first waiter, a broadcast for every waiter in turn.
Wake(c) ==
    /\ waking[c] # "no"
    /\ waiters # <<>>
    /\ waiters' = Tail(waiters)
    /\ leaving' = leaving \cup {Head(waiters)}
    /\ waking' = [waking EXCEPT ![c] = IF @ = "signal" THEN "no" ELSE @]
    /\ UNCHANGED holder

\* Only the absence of waiters lets a signal go by without effect.
StopWaking(c) ==
    /\ waking[c] # "no"
    /\ waiters = <<>>
    /\ waking' = [waking EXCEPT ![c] = "no"]
    /\ UNCHANGED <<holder, waiters, leaving>>

TimeOut(w) ==
    /\ \E i \in DOMAIN waiters : waiters[i] = w /\ waiters' = RemoveAt(waiters, i)
    /\ leaving' = leaving \cup {w}
    /\ UNCHANGED <<holder, waking>>

Return(c, m) ==
    /\ <<c, m>> \in leaving
    /\ holder[m] = Null
    /\ holder' = [holder EXCEPT ![m] = c]
    /\ leaving' = leaving \ {<<c, m>>}
    /\ UNCHANGED <<waiters, waking>>

Next ==
    \/ \E c \in Callers, m \in Mutexes :
         Lock(c, m) \/ Unlock(c, m) \/ Wait(c, m) \/ Return(c, m) \/ TimeOut(<<c, m>>)
    \/ \E c \in Callers : \/ StartWaking(c, "signal") \/ StartWaking(c, "broadcast")
                         \/ Wake(c) \/ StopWaking(c)

Spec == Init /\ [][Next]_vars
==============================================================================
