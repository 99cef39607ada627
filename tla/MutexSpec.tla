------------------------------ MODULE MutexSpec ------------------------------
(***************************************************************************)
(* What ABT_mutex promises its callers, without lists, spinlocks or        *)
(* wake-ups: at most one holder, who alone may nest a recursive mutex and  *)
(* alone may give it up, one level at a time.  Mutex.tla implements it.    *)
(***************************************************************************)
EXTENDS Naturals

CONSTANTS Threads,     \* the work units and external threads using the mutex
          NoThread,    \* "nobody", the owner_id 0 of the code
          Recursive    \* whether the mutex has ABTI_MUTEX_ATTR_RECURSIVE

VARIABLES holder,      \* the thread that owns the mutex, or NoThread
          depth        \* how many times the holder has locked it

specVars == <<holder, depth>>

SpecInit ==
    /\ holder = NoThread
    /\ depth = 0

Acquire(t) ==
    /\ holder = NoThread
    /\ holder' = t
    /\ depth' = 1

Nest(t) ==
    /\ Recursive
    /\ holder = t
    /\ depth' = depth + 1
    /\ UNCHANGED holder

Leave(t) ==
    /\ holder = t
    /\ depth' = depth - 1
    /\ holder' = IF depth = 1 THEN NoThread ELSE holder

SpecNext == \E t \in Threads : Acquire(t) \/ Nest(t) \/ Leave(t)

Spec == SpecInit /\ [][SpecNext]_specVars
==============================================================================
