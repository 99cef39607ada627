------------------------------- MODULE SyncLifo -------------------------------
(***************************************************************************)
(* The lock-free stack of src/include/abti_sync_lifo.h on a machine with a *)
(* double-width CAS: the top is a pointer and a tag, loaded in two steps   *)
(* and replaced together.  One shared access per step.                     *)
(*                                                                         *)
(* An element is memory that belongs to whoever popped it, and is written  *)
(* over while a slower pop may still read its p_next: such a read returns  *)
(* Junk.                                                                   *)
(***************************************************************************)
EXTENDS Naturals, Sequences

CONSTANTS Callers, Elems,
          NULL, Junk,
          MaxCalls     \* bound: calls of each caller

SyncLifoConstants ==
    /\ NULL \notin Elems /\ Junk \notin Elems /\ NULL # Junk
    /\ MaxCalls \in Nat

VARIABLES p_top,       \* [ptr, tag]
          p_next,      \* the link stored in each element
          held,        \* the elements each caller owns
          pc, p_elem, p_cur_top, cur_tag, next,   \* the callers' locals
          stack,       \* history: the elements pushed and not yet popped
          got,         \* what the last pop of each caller returned
          calls

vars == <<p_top, p_next, held, pc, p_elem, p_cur_top, cur_tag, next, stack, got, calls>>
locals == <<p_elem, p_cur_top, cur_tag, next>>

Ptrs == Elems \cup {NULL}

Init ==
    /\ p_top = [ptr |-> NULL, tag |-> 0]
    /\ p_next = [e \in Elems |-> Junk]
    /\ held \in {h \in [Callers -> SUBSET Elems] :
                   \A e \in Elems : \E c \in Callers : \A d \in Callers : e \in h[d] <=> d = c}
    /\ pc = [c \in Callers |-> "idle"]
    /\ p_elem = [c \in Callers |-> NULL]
    /\ p_cur_top = [c \in Callers |-> NULL]
    /\ cur_tag = [c \in Callers |-> 0]
    /\ next = [c \in Callers |-> NULL]
    /\ stack = <<>>
    /\ got = [c \in Callers |-> NULL]
    /\ calls = [c \in Callers |-> MaxCalls]

Goto(c, l) == pc' = [pc EXCEPT ![c] = l]

\* The owner of an element uses its memory.
Reuse(c) ==
    /\ pc[c] = "idle"
    /\ \E e \in held[c] : p_next[e] # Junk /\ p_next' = [p_next EXCEPT ![e] = Junk]
    /\ UNCHANGED <<p_top, held, pc, locals, stack, got, calls>>

Call(c, e, l) ==
    /\ pc[c] = "idle" /\ calls[c] > 0
    /\ calls' = [calls EXCEPT ![c] = @ - 1]
    /\ p_elem' = [p_elem EXCEPT ![c] = e]
    /\ Goto(c, l)
    /\ UNCHANGED <<p_top, p_next, held, p_cur_top, cur_tag, next, stack, got>>

LoadPtr(c, from, to) ==
    /\ pc[c] = from
    /\ p_cur_top' = [p_cur_top EXCEPT ![c] = p_top.ptr]
    /\ Goto(c, to)
    /\ UNCHANGED <<p_top, p_next, held, p_elem, cur_tag, next, stack, got, calls>>

LoadTag(c, from, to) ==
    /\ pc[c] = from
    /\ cur_tag' = [cur_tag EXCEPT ![c] = p_top.tag]
    /\ Goto(c, to)
    /\ UNCHANGED <<p_top, p_next, held, p_elem, p_cur_top, next, stack, got, calls>>

\* What the double-width CAS of caller c compares, and the top it would install.
Unchanged(c) == p_top = [ptr |-> p_cur_top[c], tag |-> cur_tag[c]]
NewTop(c, new) == [ptr |-> new, tag |-> cur_tag[c] + 1]
------------------------------------------------------------------------------
(* ABTI_sync_lifo_push *)

Link(c) ==
    /\ pc[c] = "pushLink"
    /\ p_next' = [p_next EXCEPT ![p_elem[c]] = p_cur_top[c]]
    /\ Goto(c, "pushCas")
    /\ UNCHANGED <<p_top, held, locals, stack, got, calls>>

PushCas(c) ==
    /\ pc[c] = "pushCas"
    /\ Unchanged(c)
    /\ p_top' = NewTop(c, p_elem[c])
    /\ stack' = <<p_elem[c]>> \o stack
    /\ held' = [held EXCEPT ![c] = @ \ {p_elem[c]}]
    /\ Goto(c, "idle")
    /\ UNCHANGED <<p_next, locals, got, calls>>

\* A weak CAS may also fail when the top is unchanged.
CasFails(c, from, to) ==
    /\ pc[c] = from
    /\ Goto(c, to)
    /\ UNCHANGED <<p_top, p_next, held, locals, stack, got, calls>>
------------------------------------------------------------------------------
(* ABTI_sync_lifo_pop *)

PopEmpty(c) ==
    /\ pc[c] = "popNext" /\ p_cur_top[c] = NULL
    /\ got' = [got EXCEPT ![c] = NULL]
    /\ Goto(c, "idle")
    /\ UNCHANGED <<p_top, p_next, held, locals, stack, calls>>

ReadNext(c) ==
    /\ pc[c] = "popNext" /\ p_cur_top[c] # NULL
    /\ next' = [next EXCEPT ![c] = p_next[p_cur_top[c]]]
    /\ Goto(c, "popCas")
    /\ UNCHANGED <<p_top, p_next, held, p_elem, p_cur_top, cur_tag, stack, got, calls>>

\* Mutant: returns the element below the one it takes.
PopCasNext(c) ==
    /\ pc[c] = "popCas"
    /\ Unchanged(c)
    /\ p_top' = NewTop(c, next[c])
    /\ stack' = SubSeq(stack, 2, Len(stack))
    /\ held' = [held EXCEPT ![c] = @ \cup {p_cur_top[c]}]
    /\ got' = [got EXCEPT ![c] = next[c]]
    /\ Goto(c, "idle")
    /\ UNCHANGED <<p_next, locals, calls>>

PopCas(c) ==
    /\ pc[c] = "popCas"
    /\ Unchanged(c)
    /\ p_top' = NewTop(c, next[c])
    /\ stack' = SubSeq(stack, 2, Len(stack))
    /\ held' = [held EXCEPT ![c] = @ \cup {p_cur_top[c]}]
    /\ got' = [got EXCEPT ![c] = p_cur_top[c]]
    /\ Goto(c, "idle")
    /\ UNCHANGED <<p_next, locals, calls>>
------------------------------------------------------------------------------
PushStep(c) ==
    \/ LoadPtr(c, "push", "pushTag") \/ LoadTag(c, "pushTag", "pushLink")
    \/ Link(c) \/ PushCas(c) \/ CasFails(c, "pushCas", "push")

PopStep(c) ==
    \/ LoadPtr(c, "pop", "popTag") \/ LoadTag(c, "popTag", "popNext")
    \/ PopEmpty(c) \/ ReadNext(c) \/ PopCas(c) \/ CasFails(c, "popCas", "pop")

Terminated ==
    /\ \A c \in Callers : pc[c] = "idle" /\ calls[c] = 0
    /\ UNCHANGED vars

Next ==
    \/ \E c \in Callers :
         \/ \E e \in held[c] : Call(c, e, "push")
         \/ Call(c, NULL, "pop")
         \/ PushStep(c) \/ PopStep(c)
         \/ Reuse(c)
    \/ Terminated

Spec == Init /\ [][Next]_vars
------------------------------------------------------------------------------
(* Properties *)

TypeOK ==
    /\ p_top.ptr \in Ptrs /\ p_top.tag \in Nat
    /\ p_next \in [Elems -> Ptrs \cup {Junk}]
    /\ held \in [Callers -> SUBSET Elems]
    /\ pc \in [Callers -> {"idle", "push", "pushTag", "pushLink", "pushCas",
                           "pop", "popTag", "popNext", "popCas"}]
    /\ p_elem \in [Callers -> Ptrs] /\ p_cur_top \in [Callers -> Ptrs]
    /\ cur_tag \in [Callers -> Nat] /\ next \in [Callers -> Ptrs \cup {Junk}]
    /\ stack \in Seq(Elems) /\ got \in [Callers -> Ptrs]
    /\ calls \in [Callers -> 0..MaxCalls]

\* The links in memory spell out the elements pushed and not yet popped, in order: no
\* pop installs a p_next that was overwritten, or that belonged to an earlier life of
\* the element on top (the ABA problem).
LinksSpellStack ==
    /\ p_top.ptr = IF stack = <<>> THEN NULL ELSE stack[1]
    /\ \A i \in DOMAIN stack :
         p_next[stack[i]] = IF i = Len(stack) THEN NULL ELSE stack[i + 1]

\* An element is on the stack or owned by one caller, never two of them: no memory is
\* handed out twice or lost.
OneOwner ==
    \A e \in Elems :
      \/ /\ \E i \in DOMAIN stack : stack[i] = e /\ \A j \in DOMAIN stack : stack[j] = e => j = i
         /\ \A c \in Callers : e \notin held[c]
      \/ /\ \A i \in DOMAIN stack : stack[i] # e
         /\ \E c \in Callers : \A d \in Callers : e \in held[d] <=> d = c

\* The stack as a data structure: typed, spelled by its links, every element owned once.
LifoIntact == TypeOK /\ LinksSpellStack /\ OneOwner

\* A pop that has read a NULL pointer has happened, and found the stack empty.
Taken == [c \in Callers |->
            IF pc[c] \in {"popTag", "popNext"} /\ p_cur_top[c] = NULL THEN NULL ELSE got[c]]
Abstract == INSTANCE SyncLifoSpec WITH got <- Taken

\* Every push and pop takes effect at one instant between its call and its return, and a
\* pop returns the element pushed last.
ImplementsLifo == Abstract!Spec
===============================================================================
