----------------------------- MODULE SyncLifoSpec -----------------------------
(***************************************************************************)
(* What ABTI_sync_lifo promises the memory pool: a stack on which push and *)
(* pop happen at one instant of the call.  SyncLifo.tla implements it, and *)
(* MemPool.tla relies on it for its lists of buckets and pages.            *)
(***************************************************************************)
EXTENDS Sequences

CONSTANTS Callers, Elems,
          NULL

VARIABLES stack,   \* the elements, the top first
          got      \* what the last pop of each caller took: an element, or NULL

specVars == <<stack, got>>

SpecInit == stack = <<>> /\ got = [c \in Callers |-> NULL]

Push(e) ==
    /\ \A i \in DOMAIN stack : stack[i] # e
    /\ stack' = <<e>> \o stack
    /\ UNCHANGED got

Pop(c) ==
    /\ stack # <<>>
    /\ got' = [got EXCEPT ![c] = Head(stack)]
    /\ stack' = Tail(stack)

PopEmpty(c) ==
    /\ stack = <<>>
    /\ got' = [got EXCEPT ![c] = NULL]
    /\ UNCHANGED stack

SpecNext ==
    \/ \E e \in Elems : Push(e)
    \/ \E c \in Callers : Pop(c) \/ PopEmpty(c)

Spec == SpecInit /\ [][SpecNext]_specVars
===============================================================================
