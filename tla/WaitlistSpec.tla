----------------------------- MODULE WaitlistSpec -----------------------------
(***************************************************************************)
(* What a wait list promises: waiters are woken in the order they came, a  *)
(* wake-up reaches exactly one waiter, and a timed waiter that gives up    *)
(* was not woken.  Waitlist.tla implements it.                             *)
(***************************************************************************)
EXTENDS Naturals, Sequences

CONSTANT Waiters

VARIABLES queue,     \* who waits, in arrival order
          woken,     \* who was woken and has not returned yet
          result     \* what the last wait of each waiter returned

Waiting == {queue[i] : i \in 1..Len(queue)}

specVars == <<queue, woken, result>>

SpecInit ==
    /\ queue = <<>>
    /\ woken = {}
    /\ result = [t \in Waiters |-> "none"]

Enqueue(t) ==
    /\ t \notin Waiting \cup woken
    /\ queue' = Append(queue, t)
    /\ result' = [result EXCEPT ![t] = "none"]
    /\ UNCHANGED woken

Wake ==
    /\ queue # <<>>
    /\ queue' = Tail(queue)
    /\ woken' = woken \cup {Head(queue)}
    /\ UNCHANGED result

Return(t) ==
    /\ t \in woken
    /\ woken' = woken \ {t}
    /\ result' = [result EXCEPT ![t] = "signaled"]
    /\ UNCHANGED queue

GiveUp(t) ==
    /\ t \in Waiting
    /\ queue' = SelectSeq(queue, LAMBDA u : u # t)
    /\ result' = [result EXCEPT ![t] = "timedout"]
    /\ UNCHANGED woken

SpecNext == Wake \/ \E t \in Waiters : Enqueue(t) \/ Return(t) \/ GiveUp(t)

Spec == SpecInit /\ [][SpecNext]_specVars
==============================================================================
