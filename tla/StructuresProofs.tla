--------------------------- MODULE StructuresProofs ---------------------------
(***************************************************************************)
(* Proofs about the shared data structures for any set of callers and any  *)
(* bounds.                                                                 *)
(***************************************************************************)
EXTENDS Integers, MCStructures, ListLemmas, WellFoundedInduction

------------------------------------------------------------------------------
(* The lock-free stack *)

LifoLocations == {"idle", "push", "pushTag", "pushLink", "pushCas",
                  "pop", "popTag", "popNext", "popCas"}
Pushing == {"push", "pushTag", "pushLink", "pushCas"}

LifoTypes ==
    /\ p_top \in [ptr : Lifo!Ptrs, tag : Nat]
    /\ p_next \in [Elems -> Lifo!Ptrs \cup {Junk}]
    /\ held \in [Callers -> SUBSET Elems]
    /\ pc \in [Callers -> LifoLocations]
    /\ p_elem \in [Callers -> Lifo!Ptrs] /\ p_cur_top \in [Callers -> Lifo!Ptrs]
    /\ cur_tag \in [Callers -> Nat] /\ next \in [Callers -> Lifo!Ptrs \cup {Junk}]
    /\ stack \in Seq(Elems) /\ got \in [Callers -> Lifo!Ptrs]
    /\ calls \in [Callers -> 0..MaxLifoCalls]

\* Every element is on the stack once, or one caller has it.
LifoOwned ==
    /\ Distinct(stack)
    /\ \A e \in Elems : Listed(stack, e) <=> \A c \in Callers : e \notin held[c]
    /\ \A e \in Elems : \A c, d \in Callers : e \in held[c] /\ e \in held[d] => c = d

\* A push has its element until its CAS, and has linked it to the top that it saw.
LifoPushes ==
    \A c \in Callers :
      /\ pc[c] \in Pushing => p_elem[c] \in held[c]
      /\ pc[c] = "pushCas" => p_next[p_elem[c]] = p_cur_top[c]

\* No tag that was read is ahead of the top's, so that a change of the top makes every
\* CAS that is under way fail for good; a pop whose CAS can succeed has read the link of the
\* element on top.
LifoPops ==
    \A c \in Callers :
      /\ pc[c] \in {"pushLink", "pushCas", "popNext", "popCas"} => cur_tag[c] <= p_top.tag
      /\ pc[c] = "popCas" =>
           p_cur_top[c] # NULL /\ (Lifo!Unchanged(c) => next[c] = p_next[p_cur_top[c]])

LifoInv == LifoTypes /\ Lifo!LinksSpellStack /\ LifoOwned /\ LifoPushes /\ LifoPops

\* A stack is created empty, with every element in somebody's hands.
LEMMA LifoInit == Lifo!Init => LifoInv
<1> SUFFICES ASSUME Lifo!Init PROVE LifoInv
  OBVIOUS
<1> USE StructuresAssumption DEF Lifo!SyncLifoConstants, Lifo!Init
<1>1. LifoTypes
  <2>1. stack \in Seq(Elems) /\ MaxLifoCalls \in 0..MaxLifoCalls
    OBVIOUS
  <2> QED BY <2>1 DEF LifoTypes, LifoLocations, Lifo!Ptrs
<1>2. LifoOwned
  <2>1. Distinct(stack) /\ \A e : ~Listed(stack, e)
    BY EmptyList
  <2> QED BY <2>1 DEF LifoOwned
<1>3. LifoPushes /\ LifoPops /\ Lifo!LinksSpellStack
  BY DEF LifoPushes, LifoPops, Pushing, Lifo!LinksSpellStack
<1> QED BY <1>1, <1>2, <1>3 DEF LifoInv

\* The link of an element that somebody has is no part of the stack.
LEMMA LinkHeld ==
  ASSUME LifoInv, NEW c \in Callers, NEW e \in held[c], NEW v \in Lifo!Ptrs \cup {Junk},
         p_next' = [p_next EXCEPT ![e] = v], UNCHANGED <<p_top, stack>>
  PROVE  /\ Lifo!LinksSpellStack' /\ e # p_top.ptr /\ e \in Elems
         /\ p_next' \in [Elems -> Lifo!Ptrs \cup {Junk}]
<1> USE DEF LifoInv
<1>1. e \in Elems /\ ~Listed(stack, e)
  BY DEF LifoOwned, LifoTypes
<1>2. stack \in Seq(Elems) /\ DOMAIN stack = 1..Len(stack) /\ Len(stack) \in Nat
  BY DEF LifoTypes
<1>3. \A i \in 1..Len(stack) : stack[i] \in Elems /\ p_next'[stack[i]] = p_next[stack[i]]
  BY <1>1, <1>2 DEF LifoTypes, Listed
<1>4. Lifo!LinksSpellStack'
  BY <1>2, <1>3 DEF Lifo!LinksSpellStack
<1>5. e # p_top.ptr
  <2>1. CASE stack = <<>>
    BY <1>1, <2>1, StructuresAssumption DEF Lifo!LinksSpellStack, Lifo!SyncLifoConstants
  <2>2. CASE stack # <<>>
    <3>1. 1 \in 1..Len(stack)
      BY <1>2, <2>2
    <3> QED BY <1>1, <2>2, <3>1 DEF Lifo!LinksSpellStack, Listed
  <2> QED BY <2>1, <2>2
<1> QED BY <1>1, <1>4, <1>5 DEF LifoTypes

\* No step of a push or a pop breaks the stack, whatever the others do in between.
LEMMA LifoStep == LifoInv /\ [Lifo!Next]_(Lifo!vars) => LifoInv'
<1> SUFFICES ASSUME LifoInv, [Lifo!Next]_(Lifo!vars) PROVE LifoInv'
  OBVIOUS
<1> USE StructuresAssumption DEF Lifo!SyncLifoConstants, LifoInv, Lifo!Goto, Lifo!locals,
        Lifo!Unchanged
<1> DEFINE Inv == LifoTypes /\ Lifo!LinksSpellStack /\ LifoOwned /\ LifoPushes /\ LifoPops
<1>1. ASSUME NEW c \in Callers, Lifo!Reuse(c) PROVE Inv'
  <2> USE <1>1 DEF Lifo!Reuse
  <2>1. PICK e \in held[c] : p_next' = [p_next EXCEPT ![e] = Junk]
    OBVIOUS
  <2>2. /\ Lifo!LinksSpellStack' /\ e # p_top.ptr /\ e \in Elems
        /\ p_next' \in [Elems -> Lifo!Ptrs \cup {Junk}]
    BY <2>1, LinkHeld
  <2>3. LifoTypes' /\ LifoOwned'
    BY <2>2 DEF LifoTypes, LifoOwned
  <2>4. LifoPushes'
    BY <2>1, <2>2 DEF LifoTypes, LifoPushes, LifoOwned, Pushing
  <2>5. LifoPops'
    BY <2>1, <2>2 DEF LifoTypes, LifoPops
  <2> QED BY <2>2, <2>3, <2>4, <2>5
<1>2. ASSUME NEW c \in Callers, NEW e \in Lifo!Ptrs, NEW l \in {"push", "pop"},
             l = "push" => e \in held[c], Lifo!Call(c, e, l)
      PROVE  Inv'
  <2> USE <1>2 DEF Lifo!Call
  <2>1. LifoTypes'
    BY DEF LifoTypes, LifoLocations
  <2>2. LifoOwned' /\ Lifo!LinksSpellStack'
    BY DEF LifoOwned, Lifo!LinksSpellStack
  <2>3. LifoPushes' /\ LifoPops'
    BY DEF LifoTypes, LifoPushes, LifoPops, Pushing
  <2> QED BY <2>1, <2>2, <2>3
<1>3. ASSUME NEW c \in Callers, NEW l \in {"push", "pop"},
             Lifo!LoadPtr(c, l, IF l = "push" THEN "pushTag" ELSE "popTag")
      PROVE  Inv'
  <2> USE <1>3 DEF Lifo!LoadPtr
  <2>1. LifoTypes'
    BY DEF LifoTypes, LifoLocations
  <2>2. LifoOwned' /\ Lifo!LinksSpellStack'
    BY DEF LifoOwned, Lifo!LinksSpellStack
  <2>3. LifoPushes' /\ LifoPops'
    BY DEF LifoTypes, LifoPushes, LifoPops, Pushing
  <2> QED BY <2>1, <2>2, <2>3
<1>4. ASSUME NEW c \in Callers, NEW l \in {"pushTag", "popTag"},
             Lifo!LoadTag(c, l, IF l = "pushTag" THEN "pushLink" ELSE "popNext")
      PROVE  Inv'
  <2> USE <1>4 DEF Lifo!LoadTag
  <2>1. LifoTypes'
    BY DEF LifoTypes, LifoLocations
  <2>2. LifoOwned' /\ Lifo!LinksSpellStack'
    BY DEF LifoOwned, Lifo!LinksSpellStack
  <2>3. LifoPushes' /\ LifoPops'
    BY DEF LifoTypes, LifoPushes, LifoPops, Pushing
  <2> QED BY <2>1, <2>2, <2>3
<1>5. ASSUME NEW c \in Callers, Lifo!Link(c) PROVE Inv'
  <2> USE <1>5 DEF Lifo!Link
  <2>1. p_elem[c] \in held[c] /\ p_cur_top[c] \in Lifo!Ptrs \cup {Junk}
    BY DEF LifoTypes, LifoPushes, Pushing
  <2>2. /\ Lifo!LinksSpellStack' /\ p_elem[c] # p_top.ptr /\ p_elem[c] \in Elems
        /\ p_next' \in [Elems -> Lifo!Ptrs \cup {Junk}]
    BY <2>1, LinkHeld
  <2>3. LifoTypes' /\ LifoOwned'
    BY <2>2 DEF LifoTypes, LifoLocations, LifoOwned
  <2>4. LifoPushes'
    BY <2>1, <2>2 DEF LifoTypes, LifoPushes, LifoOwned, Pushing
  <2>5. LifoPops'
    BY <2>1, <2>2 DEF LifoTypes, LifoPops
  <2> QED BY <2>2, <2>3, <2>4, <2>5
<1>6. ASSUME NEW c \in Callers, Lifo!PushCas(c) PROVE Inv'
  <2> USE <1>6 DEF Lifo!PushCas, Lifo!NewTop
  <2> DEFINE e == p_elem[c]
  <2>1. e \in held[c] /\ e \in Elems /\ p_next[e] = p_top.ptr
    BY DEF LifoTypes, LifoPushes, Pushing
  <2>2. stack \in Seq(Elems) /\ Distinct(stack) /\ ~Listed(stack, e)
    BY <2>1 DEF LifoTypes, LifoOwned
  <2>3. /\ stack' \in Seq(Elems) /\ Distinct(stack') /\ Len(stack') = Len(stack) + 1
        /\ stack'[1] = e /\ \A i \in 1..Len(stack) : stack'[i + 1] = stack[i]
        /\ \A x : Listed(stack', x) <=> x = e \/ Listed(stack, x)
    BY <2>1, <2>2, ConsLists
  <2>4. /\ p_top' = [ptr |-> e, tag |-> p_top.tag + 1] /\ p_top'.ptr = e
        /\ p_top'.tag = p_top.tag + 1 /\ p_top.tag \in Nat
    BY DEF LifoTypes
  <2>5. /\ held' = [held EXCEPT ![c] = @ \ {e}] /\ pc' = [pc EXCEPT ![c] = "idle"]
        /\ UNCHANGED <<p_next, p_elem, p_cur_top, cur_tag, next, got, calls>>
    OBVIOUS
  <2> HIDE <1>6 DEF e
  <2>6. LifoTypes'
    BY <2>1, <2>3, <2>4, <2>5 DEF LifoTypes, LifoLocations, Lifo!Ptrs
  <2>7. Lifo!LinksSpellStack'
    <3>1. Len(stack) \in Nat /\ DOMAIN stack = 1..Len(stack) /\ DOMAIN stack' = 1..(Len(stack) + 1)
      BY <2>2, <2>3
    <3>2. stack = <<>> <=> Len(stack) = 0
      BY <2>2
    <3>3. stack' # <<>>
      BY <2>3, <3>1
    <3>4. ASSUME NEW i \in 1..(Len(stack) + 1)
          PROVE  p_next[stack'[i]] = IF i = Len(stack') THEN NULL ELSE stack'[i + 1]
      <4>1. CASE i = 1
        <5>1. CASE Len(stack) = 0
          BY <2>1, <2>3, <3>1, <3>2, <4>1, <5>1 DEF Lifo!LinksSpellStack
        <5>2. CASE Len(stack) # 0
          <6>1. 1 \in 1..Len(stack)
            BY <3>1, <5>2
          <6> QED BY <2>1, <2>3, <3>1, <3>2, <4>1, <5>2, <6>1 DEF Lifo!LinksSpellStack
        <5> QED BY <5>1, <5>2
      <4>2. CASE i # 1
        <5>1. i - 1 \in 1..Len(stack) /\ (i - 1) + 1 = i
          BY <3>1, <4>2
        <5>2. stack'[i] = stack[i - 1]
          BY <2>3, <5>1
        <5>3. i = Len(stack') <=> i - 1 = Len(stack)
          BY <2>3, <3>1
        <5>4. i - 1 # Len(stack) => i \in 1..Len(stack) /\ stack'[i + 1] = stack[i]
          BY <2>3, <3>1, <5>1
        <5> QED BY <3>1, <5>1, <5>2, <5>3, <5>4 DEF Lifo!LinksSpellStack
      <4> QED BY <4>1, <4>2
    <3> QED BY <2>3, <2>4, <2>5, <3>1, <3>3, <3>4 DEF Lifo!LinksSpellStack
  <2>8. LifoOwned'
    <3>1. \A f : \A d \in Callers : f \in held'[d] <=> f \in held[d] /\ ~(d = c /\ f = e)
      BY <2>5 DEF LifoTypes
    <3>2. \A f \in Elems : Listed(stack, f) <=> \A d \in Callers : f \notin held[d]
      BY DEF LifoOwned
    <3>3. \A f \in Elems : \A a, b \in Callers : f \in held[a] /\ f \in held[b] => a = b
      BY DEF LifoOwned
    <3>4. ASSUME NEW f \in Elems
          PROVE  Listed(stack', f) <=> \A d \in Callers : f \notin held'[d]
      <4>1. CASE f = e
        BY ONLY <2>1, <2>3, <3>1, <3>3, <4>1, c \in Callers
      <4>2. CASE f # e
        BY ONLY <2>3, <3>1, <3>2, <4>2, f \in Elems
      <4> QED BY <4>1, <4>2
    <3>5. \A f \in Elems : \A a, b \in Callers : f \in held'[a] /\ f \in held'[b] => a = b
      BY ONLY <3>1, <3>3
    <3> QED BY ONLY <2>3, <3>4, <3>5 DEF LifoOwned
  <2>9. LifoPushes'
    <3>1. ASSUME NEW d \in Callers, pc'[d] \in Pushing PROVE d # c /\ pc[d] = pc'[d]
      BY <2>5, <3>1 DEF LifoTypes, Pushing
    <3> QED BY <2>5, <3>1 DEF LifoTypes, LifoPushes, Pushing
  <2>10. LifoPops'
    <3>1. ASSUME NEW d \in Callers, pc'[d] \in {"pushLink", "pushCas", "popNext", "popCas"}
          PROVE  pc[d] = pc'[d]
      BY <2>5, <3>1 DEF LifoTypes
    <3>2. ASSUME NEW d \in Callers, pc'[d] \in {"pushLink", "pushCas", "popNext", "popCas"}
          PROVE  cur_tag'[d] < p_top'.tag
      BY <2>4, <2>5, <3>1, <3>2 DEF LifoTypes, LifoPops
    <3>3. ASSUME NEW d \in Callers, cur_tag'[d] < p_top'.tag
          PROVE  p_top' # [ptr |-> p_cur_top'[d], tag |-> cur_tag'[d]]
      BY <2>4, <2>5, <3>3 DEF LifoTypes
    <3> QED BY <2>4, <2>5, <3>1, <3>2, <3>3 DEF LifoTypes, LifoPops
  <2> QED BY <2>6, <2>7, <2>8, <2>9, <2>10
<1>7. ASSUME NEW c \in Callers, NEW l \in {"push", "pop"},
             Lifo!CasFails(c, IF l = "push" THEN "pushCas" ELSE "popCas", l)
      PROVE  Inv'
  <2> USE <1>7 DEF Lifo!CasFails
  <2>1. LifoTypes'
    BY DEF LifoTypes, LifoLocations
  <2>2. LifoOwned' /\ Lifo!LinksSpellStack'
    BY DEF LifoOwned, Lifo!LinksSpellStack
  <2>3. LifoPushes' /\ LifoPops'
    BY DEF LifoTypes, LifoPushes, LifoPops, Pushing
  <2> QED BY <2>1, <2>2, <2>3
<1>8. ASSUME NEW c \in Callers, Lifo!PopEmpty(c) PROVE Inv'
  <2> USE <1>8 DEF Lifo!PopEmpty
  <2>1. LifoTypes'
    BY DEF LifoTypes, LifoLocations, Lifo!Ptrs
  <2>2. LifoOwned' /\ Lifo!LinksSpellStack'
    BY DEF LifoOwned, Lifo!LinksSpellStack
  <2>3. LifoPushes' /\ LifoPops'
    BY DEF LifoTypes, LifoPushes, LifoPops, Pushing
  <2> QED BY <2>1, <2>2, <2>3
<1>9. ASSUME NEW c \in Callers, Lifo!ReadNext(c) PROVE Inv'
  <2> USE <1>9 DEF Lifo!ReadNext
  <2>1. p_cur_top[c] \in Elems
    BY DEF LifoTypes, Lifo!Ptrs
  <2>2. LifoTypes'
    BY <2>1 DEF LifoTypes, LifoLocations
  <2>3. LifoOwned' /\ Lifo!LinksSpellStack'
    BY DEF LifoOwned, Lifo!LinksSpellStack
  <2>4. LifoPushes' /\ LifoPops'
    BY DEF LifoTypes, LifoPushes, LifoPops, Pushing
  <2> QED BY <2>2, <2>3, <2>4
<1>10. ASSUME NEW c \in Callers, Lifo!PopCas(c) PROVE Inv'
  <2> USE <1>10 DEF Lifo!PopCas, Lifo!NewTop
  <2> DEFINE e == p_cur_top[c]
  <2>1. e # NULL /\ e \in Elems /\ p_top.ptr = e /\ next[c] = p_next[e]
    BY DEF LifoTypes, LifoPops, Lifo!Ptrs
  <2>2. stack \in Seq(Elems) /\ Distinct(stack) /\ stack # <<>> /\ stack[1] = e
    BY <2>1 DEF LifoTypes, LifoOwned, Lifo!LinksSpellStack
  <2>3. /\ stack' = Tail(stack) /\ Head(stack) = e /\ Len(stack') = Len(stack) - 1
        /\ \A i \in 1..(Len(stack) - 1) : stack'[i] = stack[i + 1]
    BY <2>2, TailAt
  <2>4. /\ stack' \in Seq(Elems) /\ Distinct(stack') /\ Listed(stack, e)
        /\ \A x : Listed(stack', x) <=> x # e /\ Listed(stack, x)
    <3>1. /\ Tail(stack) \in Seq(Elems) /\ Distinct(Tail(stack)) /\ Listed(stack, Head(stack))
          /\ \A x : Listed(Tail(stack), x) <=> x # Head(stack) /\ Listed(stack, x)
      BY ONLY <2>2, TailLists
    <3> QED BY ONLY <2>3, <3>1
  <2>5. /\ p_top' = [ptr |-> next[c], tag |-> p_top.tag + 1] /\ p_top'.ptr = next[c]
        /\ p_top'.tag = p_top.tag + 1 /\ p_top.tag \in Nat
    BY DEF LifoTypes
  <2>6. /\ held' = [held EXCEPT ![c] = @ \cup {e}] /\ pc' = [pc EXCEPT ![c] = "idle"]
        /\ got' = [got EXCEPT ![c] = e]
        /\ UNCHANGED <<p_next, p_elem, p_cur_top, cur_tag, next, calls>>
    OBVIOUS
  <2> HIDE <1>10 DEF e
  <2>7. /\ Len(stack) \in Nat /\ Len(stack) > 0 /\ DOMAIN stack = 1..Len(stack)
        /\ DOMAIN stack' = 1..(Len(stack) - 1)
        /\ (stack' = <<>> <=> Len(stack) = 1)
    <3>1. Len(stack) \in Nat /\ Len(stack) > 0 /\ DOMAIN stack = 1..Len(stack)
      BY ONLY <2>2
    <3>2. DOMAIN stack' = 1..Len(stack') /\ (stack' = <<>> <=> Len(stack') = 0)
      BY ONLY <2>4
    <3> QED BY ONLY <2>3, <3>1, <3>2
  <2>8. next[c] = IF Len(stack) = 1 THEN NULL ELSE stack[2]
    <3>1. 1 \in DOMAIN stack /\ 1 + 1 = 2
      BY ONLY <2>7
    <3>2. p_next[stack[1]] = IF 1 = Len(stack) THEN NULL ELSE stack[1 + 1]
      BY <3>1 DEF Lifo!LinksSpellStack
    <3> QED BY ONLY <2>1, <2>2, <3>1, <3>2
  <2>9. LifoTypes'
    <3>1. Len(stack) # 1 => 2 \in 1..Len(stack)
      BY <2>7
    <3>2. next[c] \in Lifo!Ptrs
      BY <2>2, <2>8, <3>1 DEF Lifo!Ptrs
    <3> QED BY <2>1, <2>4, <2>5, <2>6, <3>2 DEF LifoTypes, LifoLocations, Lifo!Ptrs
  <2>10. Lifo!LinksSpellStack'
    <3>1. stack' # <<>> => stack'[1] = stack[2] /\ Len(stack) # 1
      BY <2>3, <2>7
    <3>2. ASSUME NEW i \in 1..(Len(stack) - 1)
          PROVE  p_next[stack'[i]] = IF i = Len(stack') THEN NULL ELSE stack'[i + 1]
      <4>1. \A n \in Nat : n > 0 /\ i \in 1..(n - 1) =>
              /\ i + 1 \in 1..n /\ (i = n - 1 <=> i + 1 = n)
              /\ (i # n - 1 => i + 1 \in 1..(n - 1))
        BY ONLY i \in 1..(Len(stack) - 1), <2>7
      <4>2. /\ i + 1 \in 1..Len(stack) /\ (i = Len(stack') <=> i + 1 = Len(stack))
            /\ (i # Len(stack') => i + 1 \in 1..(Len(stack) - 1))
        BY ONLY <4>1, <2>3, <2>7, i \in 1..(Len(stack) - 1)
      <4>3. p_next[stack[i + 1]] = IF i + 1 = Len(stack) THEN NULL ELSE stack[(i + 1) + 1]
        BY <2>7, <4>2 DEF Lifo!LinksSpellStack
      <4>4. stack'[i] = stack[i + 1] /\ (i # Len(stack') => stack'[i + 1] = stack[(i + 1) + 1])
        BY ONLY <2>3, <4>2, i \in 1..(Len(stack) - 1)
      <4> QED BY ONLY <4>2, <4>3, <4>4
    <3> QED BY <2>5, <2>6, <2>7, <2>8, <3>1, <3>2 DEF Lifo!LinksSpellStack
  <2>11. LifoOwned'
    <3>1. \A f : \A d \in Callers : f \in held'[d] <=> f \in held[d] \/ (d = c /\ f = e)
      BY <2>6 DEF LifoTypes
    <3>2. \A f \in Elems : Listed(stack, f) <=> \A d \in Callers : f \notin held[d]
      BY DEF LifoOwned
    <3>3. \A f \in Elems : \A a, b \in Callers : f \in held[a] /\ f \in held[b] => a = b
      BY DEF LifoOwned
    <3>4. ASSUME NEW f \in Elems
          PROVE  Listed(stack', f) <=> \A d \in Callers : f \notin held'[d]
      <4>1. CASE f = e
        BY ONLY <2>4, <3>1, <4>1, c \in Callers
      <4>2. CASE f # e
        BY ONLY <2>4, <3>1, <3>2, <4>2, f \in Elems
      <4> QED BY <4>1, <4>2
    <3>5. \A f \in Elems : \A a, b \in Callers : f \in held'[a] /\ f \in held'[b] => a = b
      BY ONLY <2>1, <2>4, <3>1, <3>2, <3>3, c \in Callers
    <3> QED BY ONLY <2>4, <3>4, <3>5 DEF LifoOwned
  <2>12. LifoPushes'
    <3>1. ASSUME NEW d \in Callers, pc'[d] \in Pushing PROVE d # c /\ pc[d] = pc'[d]
      BY <2>6, <3>1 DEF LifoTypes, Pushing
    <3> QED BY <2>6, <3>1 DEF LifoTypes, LifoPushes, Pushing
  <2>13. LifoPops'
    <3>1. ASSUME NEW d \in Callers, pc'[d] \in {"pushLink", "pushCas", "popNext", "popCas"}
          PROVE  pc[d] = pc'[d]
      BY <2>6, <3>1 DEF LifoTypes
    <3>2. ASSUME NEW d \in Callers, pc'[d] \in {"pushLink", "pushCas", "popNext", "popCas"}
          PROVE  cur_tag'[d] < p_top'.tag
      BY <2>5, <2>6, <3>1, <3>2 DEF LifoTypes, LifoPops
    <3>3. ASSUME NEW d \in Callers, cur_tag'[d] < p_top'.tag
          PROVE  p_top' # [ptr |-> p_cur_top'[d], tag |-> cur_tag'[d]]
      BY <2>5, <2>6, <3>3 DEF LifoTypes
    <3> QED BY <2>5, <2>6, <3>1, <3>2, <3>3 DEF LifoTypes, LifoPops
  <2> QED BY <2>9, <2>10, <2>11, <2>12, <2>13
<1>11. ASSUME UNCHANGED Lifo!vars PROVE Inv'
  BY <1>11 DEF Lifo!vars, LifoTypes, Lifo!LinksSpellStack, LifoOwned, LifoPushes, LifoPops
<1> HIDE DEF Inv
<1>12. ASSUME Lifo!Next PROVE Inv'
  <2>1. ASSUME NEW c \in Callers, NEW e \in held[c], Lifo!Call(c, e, "push") PROVE Inv'
    <3>1. e \in Lifo!Ptrs
      BY DEF LifoTypes, Lifo!Ptrs
    <3> QED BY <1>2, <2>1, <3>1
  <2>2. ASSUME NEW c \in Callers, Lifo!Call(c, NULL, "pop") PROVE Inv'
    BY <1>2, <2>2 DEF Lifo!Ptrs
  <2>3. ASSUME NEW c \in Callers, Lifo!PushStep(c) PROVE Inv'
    BY <2>3, <1>3, <1>4, <1>5, <1>6, <1>7 DEF Lifo!PushStep
  <2>4. ASSUME NEW c \in Callers, Lifo!PopStep(c) PROVE Inv'
    BY <2>4, <1>3, <1>4, <1>7, <1>8, <1>9, <1>10 DEF Lifo!PopStep
  <2>5. CASE Lifo!Terminated
    BY <2>5, <1>11 DEF Lifo!Terminated
  <2> QED BY <1>12, <1>1, <2>1, <2>2, <2>3, <2>4, <2>5 DEF Lifo!Next
<1> QED BY <1>11, <1>12 DEF LifoInv, Inv

\* What keeps the stack intact says so.
LEMMA LifoSafe == LifoInv => Lifo!LifoIntact
<1> SUFFICES ASSUME LifoInv PROVE Lifo!LifoIntact
  OBVIOUS
<1>1. Lifo!TypeOK
  BY DEF LifoInv, LifoTypes, LifoLocations, Lifo!TypeOK
<1>2. ASSUME NEW e \in Elems
      PROVE  \/ /\ \E i \in DOMAIN stack :
                     stack[i] = e /\ \A j \in DOMAIN stack : stack[j] = e => j = i
                /\ \A c \in Callers : e \notin held[c]
             \/ /\ \A i \in DOMAIN stack : stack[i] # e
                /\ \E c \in Callers : \A d \in Callers : e \in held[d] <=> d = c
  <2>1. DOMAIN stack = 1..Len(stack)
    BY DEF LifoInv, LifoTypes
  <2>2. CASE Listed(stack, e)
    BY <2>1, <2>2 DEF LifoInv, LifoOwned, Listed, Distinct
  <2>3. CASE ~Listed(stack, e)
    BY <2>1, <2>3 DEF LifoInv, LifoOwned, Listed
  <2> QED BY <2>2, <2>3
<1>3. Lifo!OneOwner
  BY <1>2 DEF Lifo!OneOwner
<1> QED BY <1>1, <1>3 DEF LifoInv, Lifo!LifoIntact

\* A new stack is an empty one.
LEMMA LifoInitImplements == Lifo!Init => Lifo!Abstract!SpecInit
<1> SUFFICES ASSUME Lifo!Init PROVE Lifo!Abstract!SpecInit
  OBVIOUS
<1>1. Lifo!Taken = [c \in Callers |-> NULL]
  BY DEF Lifo!Init, Lifo!Taken
<1> QED BY <1>1 DEF Lifo!Init, Lifo!Abstract!SpecInit

\* A push happens at its CAS, a pop at its CAS or, of an empty stack, when it reads the
\* pointer to the top; no other step of either is seen.
LEMMA LifoStepImplements ==
  LifoInv /\ [Lifo!Next]_(Lifo!vars) => [Lifo!Abstract!SpecNext]_(Lifo!Abstract!specVars)
<1> SUFFICES ASSUME LifoInv, [Lifo!Next]_(Lifo!vars)
             PROVE  Lifo!Abstract!SpecNext \/ (stack' = stack /\ Lifo!Taken' = Lifo!Taken)
  BY DEF Lifo!Abstract!specVars
<1> USE DEF Lifo!Goto, Lifo!locals
<1> DEFINE Seen == Lifo!Abstract!SpecNext \/ (stack' = stack /\ Lifo!Taken' = Lifo!Taken)
           At(d) == IF pc[d] \in {"popTag", "popNext"} /\ p_cur_top[d] = NULL
                    THEN NULL ELSE got[d]
<1>1. Lifo!Taken = [d \in Callers |-> At(d)] /\ Lifo!Taken' = [d \in Callers |-> At(d)']
  BY DEF Lifo!Taken
<1>2. /\ pc \in [Callers -> LifoLocations] /\ got \in [Callers -> Lifo!Ptrs]
      /\ p_cur_top \in [Callers -> Lifo!Ptrs]
  BY DEF LifoInv, LifoTypes
<1>3. ASSUME stack' = stack, \A d \in Callers : At(d)' = At(d) PROVE Seen
  BY <1>1, <1>3
<1>4. ASSUME NEW c \in Callers, Lifo!Reuse(c) PROVE Seen
  BY <1>3, <1>4 DEF Lifo!Reuse
<1>5. ASSUME NEW c \in Callers, NEW e, NEW l \in {"push", "pop"}, Lifo!Call(c, e, l) PROVE Seen
  BY <1>2, <1>3, <1>5 DEF Lifo!Call
<1>6. ASSUME NEW c \in Callers, Lifo!LoadPtr(c, "push", "pushTag") PROVE Seen
  BY <1>2, <1>3, <1>6 DEF Lifo!LoadPtr
<1>7. ASSUME NEW c \in Callers, NEW l \in {"pushTag", "popTag"},
             Lifo!LoadTag(c, l, IF l = "pushTag" THEN "pushLink" ELSE "popNext")
      PROVE  Seen
  BY <1>2, <1>3, <1>7 DEF Lifo!LoadTag
<1>8. ASSUME NEW c \in Callers, Lifo!Link(c) PROVE Seen
  BY <1>2, <1>3, <1>8 DEF Lifo!Link
<1>9. ASSUME NEW c \in Callers, NEW l \in {"push", "pop"},
             Lifo!CasFails(c, IF l = "push" THEN "pushCas" ELSE "popCas", l)
      PROVE  Seen
  BY <1>2, <1>3, <1>9 DEF Lifo!CasFails
<1>10. ASSUME NEW c \in Callers, Lifo!PopEmpty(c) PROVE Seen
  <2>1. \A d \in Callers : At(d)' = At(d)
    BY <1>2, <1>10 DEF Lifo!PopEmpty
  <2> QED BY <1>3, <1>10, <2>1 DEF Lifo!PopEmpty
<1>11. ASSUME NEW c \in Callers, Lifo!ReadNext(c) PROVE Seen
  BY <1>2, <1>3, <1>11 DEF Lifo!ReadNext
<1>12. ASSUME NEW c \in Callers, Lifo!PushCas(c) PROVE Seen
  <2>1. p_elem[c] \in Elems /\ ~Listed(stack, p_elem[c]) /\ DOMAIN stack = 1..Len(stack)
    BY <1>12 DEF Lifo!PushCas, LifoInv, LifoPushes, LifoTypes, LifoOwned, Pushing
  <2>2. \A i \in DOMAIN stack : stack[i] # p_elem[c]
    BY <2>1 DEF Listed
  <2>3. stack' = <<p_elem[c]>> \o stack /\ \A d \in Callers : At(d)' = At(d)
    BY <1>2, <1>12 DEF Lifo!PushCas
  <2>4. Lifo!Taken' = Lifo!Taken
    BY <1>1, <2>3
  <2>5. Lifo!Abstract!Push(p_elem[c])
    BY <2>2, <2>3, <2>4 DEF Lifo!Abstract!Push
  <2> QED BY <2>1, <2>5 DEF Lifo!Abstract!SpecNext
<1>13. ASSUME NEW c \in Callers, Lifo!LoadPtr(c, "pop", "popTag") PROVE Seen
  <2> USE <1>13 DEF Lifo!LoadPtr
  <2>1. \A d \in Callers : d # c => At(d)' = At(d)
    BY <1>2
  <2>2. p_cur_top'[c] = p_top.ptr /\ pc'[c] = "popTag" /\ At(c) = got[c]
    BY <1>2
  <2>3. CASE p_top.ptr # NULL
    <3>1. At(c)' = At(c)
      BY <2>2, <2>3
    <3> QED BY <1>3, <2>1, <3>1
  <2>4. CASE p_top.ptr = NULL
    <3>1. stack = <<>>
      <4>1. ASSUME stack # <<>> PROVE stack[1] \in Elems /\ p_top.ptr = stack[1]
        <5>1. 1 \in 1..Len(stack)
          BY <4>1 DEF LifoInv, LifoTypes
        <5> QED BY <4>1, <5>1 DEF LifoInv, LifoTypes, Lifo!LinksSpellStack
      <4> QED BY <2>4, <4>1, StructuresAssumption DEF Lifo!SyncLifoConstants
    <3>2. At(c)' = NULL
      BY <2>2, <2>4
    <3>3. Lifo!Taken' = [Lifo!Taken EXCEPT ![c] = NULL]
      BY <1>1, <2>1, <3>2
    <3>4. Lifo!Abstract!PopEmpty(c)
      BY <3>1, <3>3 DEF Lifo!Abstract!PopEmpty
    <3> QED BY <3>4 DEF Lifo!Abstract!SpecNext
  <2> QED BY <2>3, <2>4
<1>14. ASSUME NEW c \in Callers, Lifo!PopCas(c) PROVE Seen
  <2> USE <1>14 DEF Lifo!PopCas
  <2>1. p_cur_top[c] # NULL /\ p_top.ptr = p_cur_top[c] /\ stack \in Seq(Elems)
    BY DEF LifoInv, LifoTypes, LifoPops, Lifo!Unchanged
  <2>2. stack # <<>> /\ stack[1] = p_cur_top[c]
    BY <2>1 DEF LifoInv, Lifo!LinksSpellStack
  <2>3. stack' = Tail(stack) /\ Head(stack) = p_cur_top[c]
    BY <2>1, <2>2, TailAt
  <2>4. At(c)' = p_cur_top[c] /\ \A d \in Callers : d # c => At(d)' = At(d)
    BY <1>2
  <2>5. Lifo!Taken' = [Lifo!Taken EXCEPT ![c] = Head(stack)]
    BY <1>1, <2>3, <2>4
  <2>6. Lifo!Abstract!Pop(c)
    BY <2>2, <2>3, <2>5 DEF Lifo!Abstract!Pop
  <2> QED BY <2>6 DEF Lifo!Abstract!SpecNext
<1>15. ASSUME UNCHANGED Lifo!vars PROVE Seen
  BY <1>3, <1>15 DEF Lifo!vars
<1> HIDE DEF Seen
<1>16. ASSUME Lifo!Next PROVE Seen
  <2>1. ASSUME NEW c \in Callers, Lifo!PushStep(c) PROVE Seen
    BY <2>1, <1>6, <1>7, <1>8, <1>9, <1>12 DEF Lifo!PushStep
  <2>2. ASSUME NEW c \in Callers, Lifo!PopStep(c) PROVE Seen
    BY <2>2, <1>7, <1>9, <1>10, <1>11, <1>13, <1>14 DEF Lifo!PopStep
  <2>3. CASE Lifo!Terminated
    BY <2>3, <1>15 DEF Lifo!Terminated
  <2> QED BY <1>16, <1>4, <1>5, <2>1, <2>2, <2>3 DEF Lifo!Next
<1> QED BY <1>15, <1>16 DEF Seen

------------------------------------------------------------------------------
(* The wait list and its futex *)

ListWaiters == Callers \cup Ults
Futexes == {"futex", "timed_futex"}

\* Where the spinlock is held: a waiter's locations, and all of a waker's call.
WaiterLocked == {"suspend", "check", "release", "timed_check", "timeout"}
HoldsLock(x) == IF x \in ListWaiters THEN w_pc[x] \in WaiterLocked ELSE w_pc[x] # "idle"

ListTypes ==
    /\ lock \in BOOLEAN /\ nonyieldable \in BOOLEAN
    /\ w_pc \in [ListWaiters \cup ListWakers -> Lst!WaiterLocations \cup Lst!WakerLocations]
    /\ \A t \in ListWaiters : w_pc[t] \in Lst!WaiterLocations
    /\ \A w \in ListWakers : w_pc[w] \in Lst!WakerLocations
    /\ state \in [ListWaiters -> {"RUNNING", "BLOCKED", "READY"}]
    /\ val \in Nat /\ w_seen \in [ListWaiters -> Nat]

ListLocked ==
    /\ \A x \in ListWaiters \cup ListWakers : HoldsLock(x) => lock
    /\ \A x, y \in ListWaiters \cup ListWakers : HoldsLock(x) /\ HoldsLock(y) => x = y

\* Nobody has read a value of the futex that is still to come.
SeenPast == \A t \in ListWaiters : w_seen[t] <= val

\* A waker on its way to change val, and one that has done so but not woken the sleepers.
Storing ==
    \E w \in ListWakers :
      \/ w_pc[w] \in {"futex_store", "futex_store_all"}
      \/ w_pc[w] \in {"ready_all", "next_all", "unlink_all"} /\ nonyieldable
Waking == \E w \in ListWakers : w_pc[w] \in {"futex_wake", "futex_wake_all"}

WillWake(t) ==
    state[t] = "READY" /\ w_pc[t] \in Futexes =>
      Storing \/ (val # w_seen[t] /\ (t \notin asleep \/ Waking))

ListInv == ListTypes /\ ListLocked /\ SeenPast /\ \A t \in ListWaiters : WillWake(t)

\* A wait list is created with nobody waiting.
LEMMA ListInit == Lst!Init => ListInv
<1> SUFFICES ASSUME Lst!Init PROVE ListInv
  OBVIOUS
<1>1. \A x \in ListWaiters \cup ListWakers : w_pc[x] = "idle"
  BY DEF Lst!Init, ListWaiters
<1>2. ListTypes
  BY <1>1 DEF Lst!Init, ListTypes, ListWaiters, Lst!WaiterLocations, Lst!WakerLocations
<1>3. ListLocked /\ \A t \in ListWaiters : WillWake(t)
  BY <1>1 DEF ListLocked, HoldsLock, WaiterLocked, WillWake, Futexes
<1>4. SeenPast
  BY DEF Lst!Init, SeenPast, ListWaiters
<1> QED BY <1>2, <1>3, <1>4 DEF ListInv

\* What a step of waiter t other than falling asleep does: it takes, keeps or releases the
\* lock as its location says, and goes into the futex only when it is not READY.
WaiterMove(t) ==
    /\ \E l \in Lst!WaiterLocations :
         /\ w_pc' = [w_pc EXCEPT ![t] = l]
         /\ \/ ~lock /\ lock' = TRUE
            \/ lock' = lock /\ (l \in WaiterLocked => w_pc[t] \in WaiterLocked)
            \/ w_pc[t] \in WaiterLocked /\ l \notin WaiterLocked /\ lock' = FALSE
         /\ l \in Futexes => state'[t] # "READY"
    /\ state' \in [ListWaiters -> {"RUNNING", "BLOCKED", "READY"}]
    /\ w_seen' \in [ListWaiters -> Nat] /\ w_seen'[t] <= val
    /\ \A s \in ListWaiters : s # t => state'[s] = state[s] /\ w_seen'[s] = w_seen[s]
    /\ asleep' \subseteq asleep /\ UNCHANGED <<val, nonyieldable>>

\* Such a step disturbs nobody's wake-up.
LEMMA WaiterMoves ==
  ASSUME ListInv, NEW t \in ListWaiters, WaiterMove(t)
  PROVE  ListInv'
<1> USE DEF ListInv
<1>1. PICK l \in Lst!WaiterLocations :
         /\ w_pc' = [w_pc EXCEPT ![t] = l]
         /\ \/ ~lock /\ lock' = TRUE
            \/ lock' = lock /\ (l \in WaiterLocked => w_pc[t] \in WaiterLocked)
            \/ w_pc[t] \in WaiterLocked /\ l \notin WaiterLocked /\ lock' = FALSE
         /\ l \in Futexes => state'[t] # "READY"
  BY DEF WaiterMove
<1>2. /\ state' \in [ListWaiters -> {"RUNNING", "BLOCKED", "READY"}]
      /\ w_seen' \in [ListWaiters -> Nat] /\ w_seen'[t] <= val
      /\ \A s \in ListWaiters : s # t => state'[s] = state[s] /\ w_seen'[s] = w_seen[s]
      /\ asleep' \subseteq asleep /\ UNCHANGED <<val, nonyieldable>>
  BY DEF WaiterMove
<1>3. w_pc'[t] = l /\ \A x \in ListWaiters \cup ListWakers : x # t => w_pc'[x] = w_pc[x]
  BY <1>1 DEF ListTypes
<1>4. t \notin ListWakers
  BY StructuresAssumption DEF Lst!WaitlistConstants, ListWaiters
<1>5. ListTypes'
  BY <1>1, <1>2, <1>3, <1>4 DEF ListTypes
<1>6. ListLocked'
  <2>1. \A x \in ListWaiters \cup ListWakers : x # t => (HoldsLock(x)' <=> HoldsLock(x))
    BY <1>3 DEF HoldsLock
  <2>2. /\ HoldsLock(t)' <=> l \in WaiterLocked
        /\ HoldsLock(t) <=> w_pc[t] \in WaiterLocked
    BY <1>3 DEF HoldsLock
  <2> HIDE DEF HoldsLock
  <2>3. lock \in BOOLEAN
    BY DEF ListTypes
  <2> QED BY <1>1, <2>1, <2>2, <2>3 DEF ListLocked
<1>7. SeenPast'
  BY <1>2 DEF SeenPast
<1>8. ASSUME NEW s \in ListWaiters PROVE WillWake(s)'
  <2>1. \A w \in ListWakers : w_pc'[w] = w_pc[w]
    BY <1>3, <1>4
  <2>2. (Storing' <=> Storing) /\ (Waking' <=> Waking)
    BY <1>2, <2>1 DEF Storing, Waking
  <2>3. CASE s = t
    BY <1>1, <1>3, <2>3 DEF WillWake
  <2>4. CASE s # t
    BY <1>2, <1>3, <2>2, <2>4 DEF WillWake
  <2> QED BY <2>3, <2>4
<1> QED BY <1>5, <1>6, <1>7, <1>8

\* What is left of a waiter's step when it goes to l and neither sleeps nor reads val.
LEMMA WaiterGoes ==
  ASSUME ListInv, NEW t \in ListWaiters, NEW l \in Lst!WaiterLocations,
         w_pc' = [w_pc EXCEPT ![t] = l],
         \/ ~lock /\ lock' = TRUE
         \/ lock' = lock /\ (l \in WaiterLocked => w_pc[t] \in WaiterLocked)
         \/ w_pc[t] \in WaiterLocked /\ l \notin WaiterLocked /\ lock' = FALSE,
         l \notin Futexes,
         \/ state' = state
         \/ \E r \in {"RUNNING", "BLOCKED"} : state' = [state EXCEPT ![t] = r],
         UNCHANGED <<w_seen, asleep, val, nonyieldable>>
  PROVE  ListInv'
<1>1. state' \in [ListWaiters -> {"RUNNING", "BLOCKED", "READY"}]
  BY DEF ListInv, ListTypes
<1>2. \A s \in ListWaiters : s # t => state'[s] = state[s] /\ w_seen'[s] = w_seen[s]
  BY DEF ListInv, ListTypes
<1>3. w_seen' \in [ListWaiters -> Nat] /\ w_seen'[t] <= val
  BY DEF ListInv, ListTypes, SeenPast
<1>4. WaiterMove(t)
  BY <1>1, <1>2, <1>3 DEF WaiterMove
<1> QED BY <1>4, WaiterMoves

\* Nor does a waiter's own step.
LEMMA WaiterStepInv ==
  ASSUME ListInv, NEW t \in ListWaiters, Lst!WaiterStep(t) \/ Lst!Deadline(t)
  PROVE  ListInv'
<1> USE DEF Lst!Goto, Lst!Leave, Lst!listVars, Lst!futexVars, Lst!wakerVars, Lst!callVars,
            Lst!WaiterLocations, WaiterLocked, Futexes
<1>1. ASSUME NEW timed \in BOOLEAN, NEW l \in {"suspend", "check", "release", "timed_check"},
             Lst!Enter(t, timed, l)
      PROVE  ListInv'
  BY <1>1, WaiterGoes DEF Lst!Enter
<1>2. ASSUME Lst!Suspend(t) PROVE ListInv'
  BY <1>2, WaiterGoes DEF Lst!Suspend
<1>3. ASSUME Lst!Resumed(t) PROVE ListInv'
  BY <1>3, WaiterGoes DEF Lst!Resumed
<1>4. ASSUME w_pc[t] \in {"check", "timed_check"}, lock' = FALSE, state[t] # "READY",
             NEW l \in Futexes, w_pc' = [w_pc EXCEPT ![t] = l],
             w_seen' = [w_seen EXCEPT ![t] = val],
             UNCHANGED <<state, asleep, val, nonyieldable>>
      PROVE  ListInv'
  <2>1. state' \in [ListWaiters -> {"RUNNING", "BLOCKED", "READY"}] /\ state'[t] # "READY"
    BY <1>4 DEF ListInv, ListTypes
  <2>2. w_seen' \in [ListWaiters -> Nat] /\ w_seen'[t] <= val
    BY <1>4 DEF ListInv, ListTypes
  <2>3. \A s \in ListWaiters : s # t => state'[s] = state[s] /\ w_seen'[s] = w_seen[s]
    BY <1>4 DEF ListInv, ListTypes
  <2>4. WaiterMove(t)
    BY <1>4, <2>1, <2>2, <2>3 DEF WaiterMove
  <2> QED BY <2>4, WaiterMoves
<1>5. ASSUME Lst!Check(t) PROVE ListInv'
  <2>1. CASE state[t] = "READY"
    BY <1>5, <2>1, WaiterGoes DEF Lst!Check
  <2>2. CASE state[t] # "READY"
    BY <1>5, <2>2, <1>4 DEF Lst!Check
  <2> QED BY <2>1, <2>2
<1>6. ASSUME w_pc[t] \in Futexes, NEW l \in {"quick", "timed_quick"},
             w_pc' = [w_pc EXCEPT ![t] = l], w_seen' = [w_seen EXCEPT ![t] = 0],
             asleep' \subseteq asleep, UNCHANGED <<lock, state, val, nonyieldable>>
      PROVE  ListInv'
  <2>1. w_seen' \in [ListWaiters -> Nat] /\ w_seen'[t] <= val
    BY <1>6 DEF ListInv, ListTypes
  <2>2. \A s \in ListWaiters : s # t => state'[s] = state[s] /\ w_seen'[s] = w_seen[s]
    BY <1>6 DEF ListInv, ListTypes
  <2>3. state' \in [ListWaiters -> {"RUNNING", "BLOCKED", "READY"}]
    BY <1>6 DEF ListInv, ListTypes
  <2>4. WaiterMove(t)
    BY <1>6, <2>1, <2>2, <2>3 DEF WaiterMove
  <2> QED BY <2>4, WaiterMoves
<1>7. ASSUME val = w_seen[t], asleep' = asleep \cup {t},
             UNCHANGED <<lock, w_pc, state, val, w_seen, nonyieldable>>
      PROVE  ListInv'
  <2>1. (Storing' <=> Storing) /\ (Waking' <=> Waking)
    BY <1>7 DEF Storing, Waking
  <2>2. ASSUME NEW s \in ListWaiters PROVE WillWake(s)'
    BY <1>7, <2>1 DEF ListInv, WillWake
  <2>3. ListTypes' /\ ListLocked' /\ SeenPast'
    BY <1>7 DEF ListInv, ListTypes, ListLocked, HoldsLock, SeenPast
  <2> QED BY <2>2, <2>3 DEF ListInv
<1>8. ASSUME NEW l \in Futexes, NEW k \in {"quick", "timed_quick"}, Lst!FutexWait(t, l, k)
      PROVE  ListInv'
  <2>1. CASE val = w_seen[t]
    BY <1>7, <1>8, <2>1 DEF Lst!FutexWait
  <2>2. CASE val # w_seen[t]
    BY <1>6, <1>8, <2>2 DEF Lst!FutexWait
  <2> QED BY <2>1, <2>2
<1>9. ASSUME NEW l \in {"quick", "poll", "timed_quick"},
             NEW k \in {"acquire", "poll", "timeout_acquire", "timed_acquire"},
             Lst!Quick(t, l, k)
      PROVE  ListInv'
  <2>1. CASE state[t] = "READY"
    BY <1>9, <2>1, WaiterGoes DEF Lst!Quick
  <2>2. CASE state[t] # "READY"
    BY <1>9, <2>2, WaiterGoes DEF Lst!Quick
  <2> QED BY <2>1, <2>2
<1>10. ASSUME NEW l \in {"acquire", "timeout_acquire", "timed_acquire"},
              NEW k \in {"check", "timeout", "timed_check"}, Lst!Reacquire(t, l, k)
       PROVE  ListInv'
  BY <1>10, WaiterGoes DEF Lst!Reacquire
<1>11. ASSUME Lst!Release(t) PROVE ListInv'
  BY <1>11, WaiterGoes DEF Lst!Release
<1>12. ASSUME Lst!TimedCheck(t) PROVE ListInv'
  <2>1. CASE expired[t]
    BY <1>12, <2>1, WaiterGoes DEF Lst!TimedCheck
  <2>2. CASE ~expired[t] /\ state[t] = "READY"
    BY <1>12, <2>2, WaiterGoes DEF Lst!TimedCheck
  <2>3. CASE ~expired[t] /\ state[t] # "READY"
    BY <1>4, <1>12, <2>3 DEF Lst!TimedCheck
  <2> QED BY <2>1, <2>2, <2>3
<1>13. ASSUME Lst!TimedFutex(t) PROVE ListInv'
  <2>1. CASE Lst!FutexWait(t, "timed_futex", "timed_quick")
    BY <1>8, <2>1
  <2>2. CASE ~Lst!FutexWait(t, "timed_futex", "timed_quick")
    BY <1>6, <1>13, <2>2 DEF Lst!TimedFutex
  <2> QED BY <2>1, <2>2
<1>14. ASSUME Lst!Timeout(t) PROVE ListInv'
  <2>1. CASE state[t] = "READY"
    BY <1>14, <2>1, WaiterGoes DEF Lst!Timeout
  <2>2. CASE state[t] # "READY"
    BY <1>14, <2>2, WaiterGoes DEF Lst!Timeout, Lst!Unlink
  <2> QED BY <2>1, <2>2
<1>15. ASSUME Lst!Deadline(t) PROVE ListInv'
  <2>1. UNCHANGED <<lock, w_pc, state, val, w_seen, asleep, nonyieldable>>
    BY <1>15 DEF Lst!Deadline
  <2>2. (Storing' <=> Storing) /\ (Waking' <=> Waking)
    BY <2>1 DEF Storing, Waking
  <2>3. ASSUME NEW s \in ListWaiters PROVE WillWake(s)'
    BY <2>1, <2>2 DEF ListInv, WillWake
  <2>4. ListTypes' /\ ListLocked' /\ SeenPast'
    BY <2>1 DEF ListInv, ListTypes, ListLocked, HoldsLock, SeenPast
  <2> QED BY <2>3, <2>4 DEF ListInv
<1>16. ASSUME Lst!Poll(t) PROVE ListInv'
  BY <1>9, <1>10, <1>16 DEF Lst!Poll
<1>17. ASSUME Lst!QuickCheck(t) \/ Lst!TimedQuickCheck(t) PROVE ListInv'
  BY <1>9, <1>10, <1>17 DEF Lst!QuickCheck, Lst!TimedQuickCheck
<1>18. ASSUME Lst!Wait(t) \/ Lst!TimedWait(t) PROVE ListInv'
  BY <1>1, <1>18 DEF Lst!Wait, Lst!TimedWait
<1>19. ASSUME Lst!Futex(t) PROVE ListInv'
  BY <1>8, <1>19 DEF Lst!Futex
<1> QED BY <1>2, <1>3, <1>5, <1>11, <1>12, <1>13, <1>14, <1>15, <1>16, <1>17, <1>18, <1>19
        DEF Lst!WaiterStep

\* What a waker's step does to the locations and the lock.
LEMMA WakerGoes ==
  ASSUME ListInv, NEW w \in ListWakers, NEW l \in Lst!WakerLocations,
         w_pc' = [w_pc EXCEPT ![w] = l],
         \/ w_pc[w] = "idle" /\ ~lock /\ lock' = TRUE
         \/ w_pc[w] # "idle" /\ lock' = lock
         \/ w_pc[w] # "idle" /\ l = "idle" /\ lock' = FALSE
  PROVE  /\ ListLocked'
         /\ w_pc' \in [ListWaiters \cup ListWakers -> Lst!WaiterLocations \cup Lst!WakerLocations]
         /\ lock' \in BOOLEAN /\ w_pc'[w] = l
         /\ \A t \in ListWaiters : w_pc'[t] = w_pc[t] /\ w_pc'[t] \in Lst!WaiterLocations
         /\ \A v \in ListWakers : w_pc'[v] \in Lst!WakerLocations
         /\ \A v \in ListWakers : v # w =>
              w_pc'[v] = w_pc[v] /\ (w_pc[w] # "idle" => w_pc[v] = "idle")
<1> USE DEF ListInv
<1>1. w_pc'[w] = l /\ \A x \in ListWaiters \cup ListWakers : x # w => w_pc'[x] = w_pc[x]
  BY DEF ListTypes
<1>2. w \notin ListWaiters /\ \A v \in ListWakers : v \notin ListWaiters
  BY StructuresAssumption DEF Lst!WaitlistConstants, ListWaiters
<1>3. \A x \in ListWaiters \cup ListWakers : x # w => (HoldsLock(x)' <=> HoldsLock(x))
  BY <1>1 DEF HoldsLock
<1>4. (HoldsLock(w)' <=> l # "idle") /\ (HoldsLock(w) <=> w_pc[w] # "idle")
  BY <1>1, <1>2 DEF HoldsLock
<1>5. \A v \in ListWakers : HoldsLock(v) <=> w_pc[v] # "idle"
  BY <1>2 DEF HoldsLock
<1> HIDE DEF HoldsLock
<1>6. lock \in BOOLEAN /\ lock' \in BOOLEAN
  BY DEF ListTypes
<1>7. ListLocked'
  BY <1>3, <1>4, <1>6 DEF ListLocked
<1>8. \A v \in ListWakers : v # w /\ w_pc[w] # "idle" => w_pc[v] = "idle"
  BY <1>4, <1>5 DEF ListLocked
<1>9. \A t \in ListWaiters : w_pc'[t] = w_pc[t] /\ w_pc'[t] \in Lst!WaiterLocations
  BY <1>1, <1>2 DEF ListTypes
<1>10. \A v \in ListWakers : w_pc'[v] \in Lst!WakerLocations
  BY <1>1 DEF ListTypes
<1>11. w_pc' \in [ListWaiters \cup ListWakers -> Lst!WaiterLocations \cup Lst!WakerLocations]
  BY DEF ListTypes
<1> QED BY <1>1, <1>6, <1>7, <1>8, <1>9, <1>10, <1>11

\* A waker makes a waiter READY only with a store to val still ahead of it, or when the
\* waiter is a suspended ULT; and it wakes the sleepers after it has changed val.
LEMMA WakerStepInv ==
  ASSUME ListInv, NEW w \in ListWakers, Lst!WakerStep(w)
  PROVE  ListInv'
<1> USE DEF Lst!Goto, Lst!listVars, Lst!futexVars, Lst!wakerVars, Lst!callVars,
            Lst!WakerLocations
<1>1. ASSUME NEW l \in {"ready", "ready_all"}, Lst!Begin(w, l) PROVE ListInv'
  <2> USE <1>1 DEF Lst!Begin
  <2>1. UNCHANGED <<state, val, w_seen, asleep, nonyieldable>>
    OBVIOUS
  <2>2. CASE p_head = NULL
    <3>1. UNCHANGED <<lock, w_pc>>
      BY <2>2
    <3>2. (Storing' <=> Storing) /\ (Waking' <=> Waking)
      BY <2>1, <3>1 DEF Storing, Waking
    <3>3. ASSUME NEW s \in ListWaiters PROVE WillWake(s)'
      BY <2>1, <3>1, <3>2 DEF ListInv, WillWake
    <3>4. ListTypes' /\ ListLocked' /\ SeenPast'
      BY <2>1, <3>1 DEF ListInv, ListTypes, ListLocked, HoldsLock, SeenPast
    <3> QED BY <3>3, <3>4 DEF ListInv
  <2>3. CASE p_head # NULL
    <3>1. w_pc' = [w_pc EXCEPT ![w] = l] /\ w_pc[w] = "idle" /\ ~lock /\ lock' = TRUE
      BY <2>3
    <3> HIDE <1>1
    <3>2. /\ ListLocked' /\ lock' \in BOOLEAN /\ w_pc'[w] = l
          /\ w_pc' \in [ListWaiters \cup ListWakers -> Lst!WaiterLocations \cup Lst!WakerLocations]
          /\ \A t \in ListWaiters : w_pc'[t] = w_pc[t] /\ w_pc'[t] \in Lst!WaiterLocations
          /\ \A v \in ListWakers : w_pc'[v] \in Lst!WakerLocations
          /\ \A v \in ListWakers : v # w => w_pc'[v] = w_pc[v]
      BY <3>1, WakerGoes
    <3>3. ListTypes' /\ SeenPast'
      BY <2>1, <3>2 DEF ListInv, ListTypes, SeenPast
    <3>4. ~Storing /\ ~Waking
      <4>1. \A v \in ListWakers : v \notin ListWaiters
        BY StructuresAssumption DEF Lst!WaitlistConstants, ListWaiters
      <4>2. \A v \in ListWakers : w_pc[v] = "idle"
        BY <3>1, <4>1 DEF ListInv, ListLocked, HoldsLock
      <4> QED BY <4>2 DEF Storing, Waking
    <3>5. ASSUME NEW s \in ListWaiters PROVE WillWake(s)'
      BY <2>1, <3>2, <3>4 DEF ListInv, WillWake
    <3> QED BY <3>2, <3>3, <3>5 DEF ListInv
  <2> QED BY <2>2, <2>3
\* What the steps of a waker that has the lock have in common.
<1> DEFINE Moved(l) ==
      /\ w_pc' = [w_pc EXCEPT ![w] = l] /\ w_pc[w] # "idle"
      /\ lock' = lock \/ (l = "idle" /\ lock' = FALSE)
<1>2. ASSUME NEW l \in Lst!WakerLocations, Moved(l)
      PROVE  /\ ListLocked' /\ lock' \in BOOLEAN /\ w_pc'[w] = l
             /\ w_pc' \in [ListWaiters \cup ListWakers -> Lst!WaiterLocations \cup Lst!WakerLocations]
             /\ \A t \in ListWaiters : w_pc'[t] = w_pc[t] /\ w_pc'[t] \in Lst!WaiterLocations
             /\ \A v \in ListWakers : w_pc'[v] \in Lst!WakerLocations
             /\ \A v \in ListWakers : v # w => w_pc[v] = "idle" /\ w_pc'[v] = "idle"
  <2>1. /\ w_pc' = [w_pc EXCEPT ![w] = l] /\ w_pc[w] # "idle"
        /\ lock' = lock \/ (l = "idle" /\ lock' = FALSE)
    BY <1>2
  <2>2. /\ ListLocked' /\ lock' \in BOOLEAN /\ w_pc'[w] = l
        /\ w_pc' \in [ListWaiters \cup ListWakers -> Lst!WaiterLocations \cup Lst!WakerLocations]
        /\ \A t \in ListWaiters : w_pc'[t] = w_pc[t] /\ w_pc'[t] \in Lst!WaiterLocations
        /\ \A v \in ListWakers : w_pc'[v] \in Lst!WakerLocations
        /\ \A v \in ListWakers : v # w =>
             w_pc'[v] = w_pc[v] /\ (w_pc[w] # "idle" => w_pc[v] = "idle")
    BY ONLY <2>1, <1>2, ListInv, w \in ListWakers, WakerGoes
  <2> QED BY <2>1, <2>2
\* Those that neither make anybody READY nor touch the futex.
<1>3. ASSUME NEW l \in {"ready_all", "idle"}, Moved(l),
             UNCHANGED <<state, val, w_seen, asleep>>, nonyieldable' \in BOOLEAN,
             Storing' <=> Storing, ~Waking
      PROVE  ListInv'
  <2> HIDE DEF Moved
  <2>1. l \in Lst!WakerLocations
    OBVIOUS
  <2>2. /\ ListLocked' /\ lock' \in BOOLEAN
        /\ w_pc' \in [ListWaiters \cup ListWakers -> Lst!WaiterLocations \cup Lst!WakerLocations]
        /\ \A t \in ListWaiters : w_pc'[t] = w_pc[t] /\ w_pc'[t] \in Lst!WaiterLocations
        /\ \A v \in ListWakers : w_pc'[v] \in Lst!WakerLocations
    BY <1>2, <1>3, <2>1
  <2>3. ListTypes' /\ SeenPast'
    BY <1>3, <2>2 DEF ListInv, ListTypes, SeenPast
  <2>4. ASSUME NEW s \in ListWaiters PROVE WillWake(s)'
    BY <1>3, <2>2 DEF ListInv, WillWake
  <2> QED BY <2>2, <2>3, <2>4 DEF ListInv
<1>4. CASE Lst!SignalReady(w)
  <2> USE <1>4 DEF Lst!SignalReady, Lst!SetReady, Lst!IsYthread
  <2> DEFINE l == IF w_pc[p_thread] = "blocked" THEN "unlink" ELSE "futex_store"
  <2>1. Moved(l) /\ l \in Lst!WakerLocations /\ w_pc[w] = "ready"
    OBVIOUS
  <2>2. /\ state' = [state EXCEPT ![p_thread] = "READY"]
        /\ UNCHANGED <<val, w_seen, asleep, nonyieldable>>
    OBVIOUS
  <2> HIDE <1>4 DEF Moved
  <2>3. /\ ListLocked' /\ lock' \in BOOLEAN /\ w_pc'[w] = l
        /\ w_pc' \in [ListWaiters \cup ListWakers -> Lst!WaiterLocations \cup Lst!WakerLocations]
        /\ \A t \in ListWaiters : w_pc'[t] = w_pc[t] /\ w_pc'[t] \in Lst!WaiterLocations
        /\ \A v \in ListWakers : w_pc'[v] \in Lst!WakerLocations
        /\ \A v \in ListWakers : v # w => w_pc[v] = "idle" /\ w_pc'[v] = "idle"
    BY <1>2, <2>1
  <2>4. ListTypes' /\ SeenPast'
    BY <2>2, <2>3 DEF ListInv, ListTypes, SeenPast
  <2>5. ~Storing /\ ~Waking
    BY <2>1, <2>3 DEF Storing, Waking
  <2>6. ASSUME NEW s \in ListWaiters PROVE WillWake(s)'
    <3>1. CASE s = p_thread /\ w_pc[s] \in Futexes
      <4>1. Storing'
        BY <2>3, <3>1 DEF Storing, Futexes
      <4> QED BY <4>1 DEF WillWake
    <3>2. CASE s # p_thread
      <4>1. state'[s] = state[s]
        BY <2>2, <3>2 DEF ListInv, ListTypes
      <4> QED BY <2>2, <2>3, <2>5, <4>1 DEF ListInv, WillWake
    <3>3. CASE w_pc[s] \notin Futexes
      BY <2>3, <3>3 DEF WillWake
    <3> QED BY <3>1, <3>2, <3>3
  <2> QED BY <2>3, <2>4, <2>6 DEF ListInv
<1>5. CASE Lst!BroadcastReady(w)
  <2> USE <1>5 DEF Lst!BroadcastReady, Lst!SetReady, Lst!IsYthread
  <2> DEFINE l == IF wp_next = NULL THEN "unlink_all" ELSE "next_all"
  <2>1. Moved(l) /\ l \in Lst!WakerLocations /\ w_pc[w] = "ready_all"
    OBVIOUS
  <2>2. /\ state' = [state EXCEPT ![p_thread] = "READY"]
        /\ UNCHANGED <<val, w_seen, asleep>>
        /\ nonyieldable' = (nonyieldable \/ w_pc[p_thread] # "blocked")
    OBVIOUS
  <2> HIDE <1>5 DEF Moved
  <2>3. /\ ListLocked' /\ lock' \in BOOLEAN /\ w_pc'[w] = l
        /\ w_pc' \in [ListWaiters \cup ListWakers -> Lst!WaiterLocations \cup Lst!WakerLocations]
        /\ \A t \in ListWaiters : w_pc'[t] = w_pc[t] /\ w_pc'[t] \in Lst!WaiterLocations
        /\ \A v \in ListWakers : w_pc'[v] \in Lst!WakerLocations
        /\ \A v \in ListWakers : v # w => w_pc[v] = "idle" /\ w_pc'[v] = "idle"
    BY <1>2, <2>1
  <2>4. nonyieldable \in BOOLEAN /\ nonyieldable' \in BOOLEAN
    BY <2>2 DEF ListInv, ListTypes
  <2>5. ListTypes' /\ SeenPast'
    BY <2>2, <2>3, <2>4 DEF ListInv, ListTypes, SeenPast
  <2>6. (Storing => nonyieldable) /\ ~Waking /\ (nonyieldable' => Storing')
    BY <2>1, <2>3 DEF Storing, Waking
  <2>7. ASSUME NEW s \in ListWaiters PROVE WillWake(s)'
    <3>1. CASE s = p_thread /\ w_pc[s] \in Futexes
      <4>1. nonyieldable'
        BY <2>2, <3>1 DEF Futexes
      <4> QED BY <2>6, <4>1 DEF WillWake
    <3>2. CASE s # p_thread
      <4>1. state'[s] = state[s]
        BY <2>2, <3>2 DEF ListInv, ListTypes
      <4> QED BY <2>2, <2>3, <2>6, <4>1 DEF ListInv, WillWake
    <3>3. CASE w_pc[s] \notin Futexes
      BY <2>3, <3>3 DEF WillWake
    <3> QED BY <3>1, <3>2, <3>3
  <2> QED BY <2>3, <2>5, <2>7 DEF ListInv
<1>6. CASE Lst!SignalUnlink(w)
  <2> USE <1>6 DEF Lst!SignalUnlink
  <2>1. Moved("idle") /\ w_pc[w] = "unlink" /\ UNCHANGED <<state, val, w_seen, asleep, nonyieldable>>
    OBVIOUS
  <2> HIDE <1>6 DEF Moved
  <2>2. /\ w_pc'[w] = "idle"
        /\ \A v \in ListWakers : v # w => w_pc[v] = "idle" /\ w_pc'[v] = "idle"
    BY <1>2, <2>1
  <2>3. ~Storing /\ ~Waking /\ ~Storing'
    BY <2>1, <2>2 DEF Storing, Waking
  <2> QED BY <1>3, <2>1, <2>3 DEF ListInv, ListTypes
<1>7. CASE Lst!BroadcastNext(w)
  <2> USE <1>7 DEF Lst!BroadcastNext
  <2>1. Moved("ready_all") /\ w_pc[w] = "next_all" /\ UNCHANGED <<state, val, w_seen, asleep, nonyieldable>>
    OBVIOUS
  <2> HIDE <1>7 DEF Moved
  <2>2. /\ w_pc'[w] = "ready_all"
        /\ \A v \in ListWakers : v # w => w_pc[v] = "idle" /\ w_pc'[v] = "idle"
    BY <1>2, <2>1
  <2>3. (Storing' <=> Storing) /\ ~Waking
    BY <2>1, <2>2 DEF Storing, Waking
  <2> QED BY <1>3, <2>1, <2>3 DEF ListInv, ListTypes
<1>8. CASE Lst!BroadcastUnlink(w)
  <2> USE <1>8 DEF Lst!BroadcastUnlink
  <2>1. w_pc[w] = "unlink_all" /\ lock /\ nonyieldable \in BOOLEAN
    <3>1. HoldsLock(w)
      BY StructuresAssumption DEF HoldsLock, Lst!WaitlistConstants, ListWaiters
    <3> QED BY <3>1 DEF ListInv, ListTypes, ListLocked
  <2>2. CASE nonyieldable
    <3>1. Moved("futex_store_all") /\ UNCHANGED <<state, val, w_seen, asleep>>
      BY <2>1, <2>2
    <3>2. nonyieldable' = FALSE
      OBVIOUS
    <3> HIDE <1>8 DEF Moved
    <3>3. /\ ListLocked' /\ lock' \in BOOLEAN /\ w_pc'[w] = "futex_store_all"
          /\ w_pc' \in [ListWaiters \cup ListWakers -> Lst!WaiterLocations \cup Lst!WakerLocations]
          /\ \A t \in ListWaiters : w_pc'[t] = w_pc[t] /\ w_pc'[t] \in Lst!WaiterLocations
          /\ \A v \in ListWakers : w_pc'[v] \in Lst!WakerLocations
      BY <1>2, <3>1
    <3>4. ListTypes' /\ SeenPast'
      BY <3>1, <3>2, <3>3 DEF ListInv, ListTypes, SeenPast
    <3>5. Storing'
      BY <3>3 DEF Storing
    <3> QED BY <3>3, <3>4, <3>5 DEF ListInv, WillWake
  <2>3. CASE ~nonyieldable
    <3>1. Moved("idle") /\ UNCHANGED <<state, val, w_seen, asleep>> /\ nonyieldable' = FALSE
      BY <2>1, <2>3
    <3> HIDE <1>8 DEF Moved
    <3>2. /\ w_pc'[w] = "idle"
          /\ \A v \in ListWakers : v # w => w_pc[v] = "idle" /\ w_pc'[v] = "idle"
      BY <1>2, <3>1
    <3>3. ~Storing /\ ~Waking /\ ~Storing'
      BY <2>1, <2>3, <3>2 DEF Storing, Waking
    <3> QED BY <1>3, <3>1, <3>3
  <2> QED BY <2>1, <2>2, <2>3
<1>9. CASE Lst!FutexStore(w)
  <2> USE <1>9 DEF Lst!FutexStore
  <2>1. PICK l \in {"futex_wake", "futex_wake_all"} : Moved(l)
    OBVIOUS
  <2>2. val' = val + 1 /\ UNCHANGED <<state, w_seen, asleep, nonyieldable>>
    OBVIOUS
  <2> HIDE <1>9 DEF Moved
  <2>3. /\ ListLocked' /\ lock' \in BOOLEAN /\ w_pc'[w] = l
        /\ w_pc' \in [ListWaiters \cup ListWakers -> Lst!WaiterLocations \cup Lst!WakerLocations]
        /\ \A t \in ListWaiters : w_pc'[t] = w_pc[t] /\ w_pc'[t] \in Lst!WaiterLocations
        /\ \A v \in ListWakers : w_pc'[v] \in Lst!WakerLocations
    BY <1>2, <2>1
  <2>4. ListTypes' /\ SeenPast'
    BY <2>2, <2>3 DEF ListInv, ListTypes, SeenPast
  <2>5. Waking'
    BY <2>3 DEF Waking
  <2>6. ASSUME NEW s \in ListWaiters PROVE val' # w_seen'[s]
    BY <2>2 DEF ListInv, ListTypes, SeenPast
  <2> QED BY <2>3, <2>4, <2>5, <2>6 DEF ListInv, WillWake
<1>10. CASE Lst!FutexWake(w)
  <2> USE <1>10 DEF Lst!FutexWake
  <2>1. PICK l \in {"unlink", "idle"} : Moved(l) /\ w_pc[w] \in {"futex_wake", "futex_wake_all"}
    OBVIOUS
  <2>2. asleep' = {} /\ UNCHANGED <<state, w_seen, val, nonyieldable>>
    OBVIOUS
  <2> HIDE <1>10 DEF Moved
  <2>3. /\ ListLocked' /\ lock' \in BOOLEAN /\ w_pc'[w] = l
        /\ w_pc' \in [ListWaiters \cup ListWakers -> Lst!WaiterLocations \cup Lst!WakerLocations]
        /\ \A t \in ListWaiters : w_pc'[t] = w_pc[t] /\ w_pc'[t] \in Lst!WaiterLocations
        /\ \A v \in ListWakers : w_pc'[v] \in Lst!WakerLocations
        /\ \A v \in ListWakers : v # w => w_pc[v] = "idle"
    BY <1>2, <2>1
  <2>4. ListTypes' /\ SeenPast'
    BY <2>2, <2>3 DEF ListInv, ListTypes, SeenPast
  <2>5. ~Storing
    BY <2>1, <2>3 DEF Storing
  <2> QED BY <2>2, <2>3, <2>4, <2>5 DEF ListInv, WillWake
<1> QED BY <1>1, <1>4, <1>5, <1>6, <1>7, <1>8, <1>9, <1>10
        DEF Lst!WakerStep, Lst!Signal, Lst!Broadcast

\* No step of the wait list makes anybody miss a wake-up.
LEMMA ListStep == ListInv /\ [Lst!Next]_(Lst!vars) => ListInv'
<1> SUFFICES ASSUME ListInv, [Lst!Next]_(Lst!vars) PROVE ListInv'
  OBVIOUS
<1>1. ASSUME UNCHANGED Lst!vars PROVE ListInv'
  BY <1>1 DEF Lst!vars, ListInv, ListTypes, ListLocked, HoldsLock, SeenPast, WillWake,
              Storing, Waking
<1>2. ASSUME Lst!Next PROVE ListInv'
  <2>1. ASSUME NEW t \in ListWaiters, Lst!WaiterStep(t) \/ Lst!Deadline(t) PROVE ListInv'
    BY <2>1, WaiterStepInv
  <2>2. ASSUME NEW w \in ListWakers, Lst!WakerStep(w) PROVE ListInv'
    BY <2>2, WakerStepInv
  <2>3. CASE Lst!Terminated
    BY <2>3, <1>1 DEF Lst!Terminated
  <2> QED BY <1>2, <2>1, <2>2, <2>3 DEF Lst!Next, ListWaiters
<1> QED BY <1>1, <1>2

\* What the invariant says of whoever sleeps.
LEMMA ListSafe == ListInv => Lst!NoSleeperForgotten
<1> SUFFICES ASSUME ListInv, NEW t \in ListWaiters,
                    state[t] = "READY", w_pc[t] \in {"futex", "timed_futex"}
             PROVE  \/ t \notin asleep /\ val # w_seen[t]
                    \/ Lst!WakerAt({"futex_store", "ready_all", "next_all", "unlink_all",
                                    "futex_store_all"})
                    \/ t \in asleep /\ Lst!WakerAt({"futex_wake", "futex_wake_all"})
  BY DEF Lst!NoSleeperForgotten, ListWaiters
<1>1. Storing => Lst!WakerAt({"futex_store", "ready_all", "next_all", "unlink_all",
                              "futex_store_all"})
  BY DEF Storing, Lst!WakerAt
<1>2. Waking => Lst!WakerAt({"futex_wake", "futex_wake_all"})
  BY DEF Waking, Lst!WakerAt
<1> QED BY <1>1, <1>2 DEF ListInv, WillWake, Futexes

------------------------------------------------------------------------------
(* Memory: what each thread may still read *)

\* A set of numbers has a least one.
LEMMA LeastOf ==
  ASSUME NEW S \in SUBSET Nat, S # {}
  PROVE  \E x \in S : \A y \in S : x <= y
<1> DEFINE R == OpToRel(<, Nat)
<1>1. \E x \in S : \A y \in S : <<y, x>> \notin R
  BY NatLessThanWellFounded, WFMin
<1>2. PICK x \in S : \A y \in S : <<y, x>> \notin R
  BY <1>1
<1>3. ASSUME NEW y \in S PROVE x <= y
  <2>1. x \in Nat /\ y \in Nat
    OBVIOUS
  <2>2. <<y, x>> \in Nat \X Nat /\ <<y, x>>[1] = y /\ <<y, x>>[2] = x
    BY <2>1
  <2>3. R = {ss \in Nat \X Nat : ss[1] < ss[2]}
    BY DEF OpToRel
  <2>4. ~(y < x)
    BY <1>2, <2>2, <2>3
  <2> QED BY <2>1, <2>4
<1> QED BY <1>3

\* What may be read of l with a view: the values of the messages not older than it.
Vals(m, v, l) == {m[l][i].val : i \in Atm!At(v, l)..Len(m[l])}

\* Every location has a message, and every view is of messages that there are.
GoodMem(m, s) ==
    \A l \in DOMAIN m :
      /\ Len(m[l]) \in Nat \ {0} /\ m[l] = [i \in 1..Len(m[l]) |-> m[l][i]]
      /\ \A t \in Callers : Atm!At(s[t], l) \in 1..Len(m[l])
      /\ \A k \in DOMAIN m : \A i \in 1..Len(m[k]) : Atm!At(m[k][i].view, l) \in 1..Len(m[l])

\* The views in memory m with threads s allow no more than those in the state did: nobody
\* can read more of a location, each message is one there was, and the newest is the same.
Narrows(m, s) ==
    \A l \in DOMAIN m :
      /\ \A t \in Callers : Vals(mem', seen'[t], l) \subseteq Vals(m, s[t], l)
      /\ mem'[l][Len(mem'[l])].val = m[l][Len(m[l])].val
      /\ \A k \in DOMAIN m : Vals(mem', mem'[l][Len(mem'[l])].view, k)
                               \subseteq Vals(m, m[l][Len(m[l])].view, k)
      /\ \A i \in 1..Len(mem'[l]) : \E j \in 1..Len(m[l]) :
            /\ mem'[l][i].val = m[l][j].val
            /\ \A k \in DOMAIN m : Vals(mem', mem'[l][i].view, k)
                                     \subseteq Vals(m, m[l][j].view, k)

\* Dropping the messages that nobody may read any more allows nobody anything new.
LEMMA CommitNarrows ==
  ASSUME NEW m, NEW s, Callers # {}, GoodMem(m, s), Atm!Commit(m, s)
  PROVE  /\ DOMAIN mem' = DOMAIN m /\ GoodMem(mem', seen') /\ Narrows(m, s)
         /\ mem' = [l \in DOMAIN mem' |-> mem'[l]] /\ seen' = [t \in Callers |-> seen'[t]]
<1> DEFINE old(l) == Atm!Min({Atm!At(s[t], l) : t \in Callers}) - 1
           Cut(v) == [l \in {k \in DOMAIN v : v[k] - old(k) > 1} |-> v[l] - old(l)]
           new(l) == [i \in 1..Len(m[l]) - old(l) |->
                        [val |-> m[l][i + old(l)].val, view |-> Cut(m[l][i + old(l)].view)]]
<1>1. /\ mem' = [l \in DOMAIN m |-> new(l)]
      /\ seen' = [t \in Callers |-> Cut(s[t])]
  BY Zenon DEF Atm!Commit
<1>2. ASSUME NEW l \in DOMAIN m
      PROVE  /\ old(l) \in Nat /\ old(l) < Len(m[l])
             /\ \A t \in Callers : Atm!At(s[t], l) > old(l)
  <2> DEFINE S == {Atm!At(s[t], l) : t \in Callers}
  <2>1. S \in SUBSET (1..Len(m[l])) /\ S # {} /\ Len(m[l]) \in Nat
    BY DEF GoodMem
  <2>2. S \in SUBSET Nat
    BY <2>1
  <2>3. PICK x \in S : \A y \in S : x <= y
    BY <2>1, <2>2, LeastOf
  <2>4. Atm!Min(S) \in S /\ \A y \in S : Atm!Min(S) <= y
    BY <2>3 DEF Atm!Min
  <2>5. Atm!Min(S) \in 1..Len(m[l]) /\ old(l) = Atm!Min(S) - 1
    BY <2>1, <2>4
  <2>6. \A t \in Callers : Atm!At(s[t], l) \in S
    OBVIOUS
  <2>7. \A y \in S : y \in Nat
    BY <2>2
  <2> HIDE DEF S, old
  <2>8. old(l) \in Nat /\ old(l) < Len(m[l])
    BY <2>1, <2>5
  <2>9. \A y \in S : y > old(l)
    BY <2>4, <2>5, <2>7, <2>1
  <2> QED BY <2>6, <2>8, <2>9
<1>3. ASSUME NEW v, NEW l \in DOMAIN m, Atm!At(v, l) \in 1..Len(m[l])
      PROVE  Atm!At(Cut(v), l) = IF Atm!At(v, l) > old(l) THEN Atm!At(v, l) - old(l) ELSE 1
  <2>1. old(l) \in Nat
    BY <1>2
  <2>2. DOMAIN Cut(v) = {k \in DOMAIN v : v[k] - old(k) > 1}
    OBVIOUS
  <2>3. l \in DOMAIN Cut(v) => Cut(v)[l] = v[l] - old(l)
    OBVIOUS
  <2>4. Atm!At(v, l) \in Nat /\ Atm!At(v, l) >= 1
    BY <1>3, <1>2
  <2> HIDE DEF old, Cut
  <2> QED BY <2>1, <2>2, <2>3, <2>4 DEF Atm!At
<1>4. ASSUME NEW l \in DOMAIN m
      PROVE  /\ mem'[l] = new(l) /\ Len(mem'[l]) = Len(m[l]) - old(l)
             /\ Len(mem'[l]) \in Nat \ {0}
             /\ \A i \in 1..Len(mem'[l]) :
                  /\ i + old(l) \in 1..Len(m[l])
                  /\ mem'[l][i].val = m[l][i + old(l)].val
                  /\ mem'[l][i].view = Cut(m[l][i + old(l)].view)
  <2>1. mem'[l] = new(l)
    BY <1>1
  <2>2. old(l) \in Nat /\ old(l) < Len(m[l]) /\ Len(m[l]) \in Nat
    BY <1>2 DEF GoodMem
  <2> DEFINE n == Len(m[l]) - old(l)
  <2>3. n \in Nat \ {0} /\ \A i \in 1..n : i + old(l) \in 1..Len(m[l])
    <3> HIDE DEF old
    <3> QED BY <2>2
  <2>4. DOMAIN new(l) = 1..n
    OBVIOUS
  <2>5. Len(new(l)) = n
    <3> HIDE DEF new, n
    <3> QED BY <2>3, <2>4
  <2>6. \A i \in 1..n : new(l)[i] = [val |-> m[l][i + old(l)].val,
                                     view |-> Cut(m[l][i + old(l)].view)]
    OBVIOUS
  <2> HIDE DEF new, Cut, old
  <2> QED BY <2>1, <2>3, <2>5, <2>6
<1>5. /\ DOMAIN mem' = DOMAIN m /\ mem' = [l \in DOMAIN mem' |-> mem'[l]]
      /\ seen' = [t \in Callers |-> seen'[t]]
  BY <1>1
<1>6. ASSUME NEW v, NEW l \in DOMAIN m, Atm!At(v, l) \in 1..Len(m[l])
      PROVE  /\ Atm!At(Cut(v), l) \in 1..Len(mem'[l])
             /\ Vals(mem', Cut(v), l) \subseteq Vals(m, v, l)
  <2>1. /\ old(l) \in Nat /\ old(l) < Len(m[l]) /\ Len(m[l]) \in Nat
        /\ Len(mem'[l]) = Len(m[l]) - old(l)
        /\ \A i \in 1..Len(mem'[l]) : mem'[l][i].val = m[l][i + old(l)].val
    BY <1>2, <1>4 DEF GoodMem
  <2> HIDE DEF old, Cut
  <2>2. /\ Atm!At(Cut(v), l) \in 1..Len(mem'[l])
        /\ \A i \in Atm!At(Cut(v), l)..Len(mem'[l]) :
              i \in 1..Len(mem'[l]) /\ i + old(l) \in Atm!At(v, l)..Len(m[l])
    BY <1>6, <1>3, <2>1
  <2> QED BY <2>1, <2>2 DEF Vals
<1> HIDE DEF Cut, old, new
<1>7. GoodMem(mem', seen')
  <2> SUFFICES ASSUME NEW l \in DOMAIN m
      PROVE  /\ Len(mem'[l]) \in Nat \ {0} /\ mem'[l] = [i \in 1..Len(mem'[l]) |-> mem'[l][i]]
             /\ \A t \in Callers : Atm!At(seen'[t], l) \in 1..Len(mem'[l])
             /\ \A k \in DOMAIN m : \A i \in 1..Len(mem'[k]) :
                  Atm!At(mem'[k][i].view, l) \in 1..Len(mem'[l])
    BY <1>5 DEF GoodMem
  <2>1. mem'[l] = [i \in 1..Len(mem'[l]) |-> mem'[l][i]]
    BY <1>4 DEF new
  <2>2. \A t \in Callers : Atm!At(seen'[t], l) \in 1..Len(mem'[l])
    BY <1>1, <1>6 DEF GoodMem
  <2>3. ASSUME NEW k \in DOMAIN m, NEW i \in 1..Len(mem'[k])
        PROVE  Atm!At(mem'[k][i].view, l) \in 1..Len(mem'[l])
    <3>1. i + old(k) \in 1..Len(m[k]) /\ mem'[k][i].view = Cut(m[k][i + old(k)].view)
      BY <1>4
    <3>2. Atm!At(m[k][i + old(k)].view, l) \in 1..Len(m[l])
      BY <3>1 DEF GoodMem
    <3> QED BY <3>1, <3>2, <1>6
  <2> QED BY <2>1, <2>2, <2>3, <1>4
<1>8. Narrows(m, s)
  <2> SUFFICES ASSUME NEW l \in DOMAIN m
      PROVE
      /\ \A t \in Callers : Vals(mem', seen'[t], l) \subseteq Vals(m, s[t], l)
      /\ mem'[l][Len(mem'[l])].val = m[l][Len(m[l])].val
      /\ \A k \in DOMAIN m : Vals(mem', mem'[l][Len(mem'[l])].view, k)
                               \subseteq Vals(m, m[l][Len(m[l])].view, k)
      /\ \A i \in 1..Len(mem'[l]) : \E j \in 1..Len(m[l]) :
            /\ mem'[l][i].val = m[l][j].val
            /\ \A k \in DOMAIN m : Vals(mem', mem'[l][i].view, k)
                                     \subseteq Vals(m, m[l][j].view, k)
    BY DEF Narrows
  <2>1. \A t \in Callers : Vals(mem', seen'[t], l) \subseteq Vals(m, s[t], l)
    BY <1>1, <1>6 DEF GoodMem
  <2>2. ASSUME NEW i \in 1..Len(mem'[l])
        PROVE  /\ i + old(l) \in 1..Len(m[l]) /\ mem'[l][i].val = m[l][i + old(l)].val
               /\ \A k \in DOMAIN m : Vals(mem', mem'[l][i].view, k)
                                        \subseteq Vals(m, m[l][i + old(l)].view, k)
    <3>1. /\ i + old(l) \in 1..Len(m[l]) /\ mem'[l][i].view = Cut(m[l][i + old(l)].view)
          /\ mem'[l][i].val = m[l][i + old(l)].val
      BY <1>4
    <3>2. \A k \in DOMAIN m : Atm!At(m[l][i + old(l)].view, k) \in 1..Len(m[k])
      BY <3>1 DEF GoodMem
    <3> QED BY <3>1, <3>2, <1>6
  <2>3. Len(mem'[l]) \in 1..Len(mem'[l]) /\ Len(mem'[l]) + old(l) = Len(m[l])
    BY <1>2, <1>4 DEF GoodMem
  <2> QED BY <2>1, <2>2, <2>3
<1> QED BY <1>5, <1>7, <1>8

\* What t may read of l; what the newest message of l lets its reader read of k; and what
\* some message of l with the value x does.
Has(t, l) == Vals(mem, seen[t], l)
Sent(l, k) == Vals(mem, mem[l][Len(mem[l])].view, k)
Told(l, x, k) ==
    UNION {Vals(mem, mem[l][i].view, k) : i \in {j \in 1..Len(mem[l]) : mem[l][j].val = x}}

Memory ==
    /\ GoodMem(mem, seen)
    /\ mem = [l \in DOMAIN mem |-> mem[l]] /\ seen = [t \in Callers |-> seen[t]]

\* A load: nobody knows less than before.
LoadEffect ==
    /\ Memory' /\ DOMAIN mem' = DOMAIN mem
    /\ \A l \in DOMAIN mem :
         /\ Atm!Newest(l)' = Atm!Newest(l)
         /\ \A t \in Callers : Has(t, l)' \subseteq Has(t, l)
         /\ \A k \in DOMAIN mem : /\ Sent(l, k)' \subseteq Sent(l, k)
                                  /\ \A x : Told(l, x, k)' \subseteq Told(l, x, k)

\* A write of v to l by t: everybody may read it and t nothing older.
WriteEffect(t, l, v) ==
    LET New(k) == IF k = l THEN {v} ELSE {}
    IN  /\ Memory' /\ DOMAIN mem' = DOMAIN mem
        /\ Has(t, l)' \subseteq {v} /\ Sent(l, l)' \subseteq {v}
        /\ \A k \in DOMAIN mem :
             /\ Atm!Newest(k)' = IF k = l THEN v ELSE Atm!Newest(k)
             /\ \A c \in Callers : Has(c, k)' \subseteq Has(c, k) \cup New(k)
             /\ \A n \in DOMAIN mem : n # l => Sent(n, k)' \subseteq Sent(n, k) \cup New(k)
             /\ \A n \in DOMAIN mem : \A x :
                  n # l \/ x # v => Told(n, x, k)' \subseteq Told(n, x, k) \cup New(k)

\* A join of views is of the newer message, location by location.
LEMMA JoinAt ==
  ASSUME NEW v, NEW w, NEW l, Atm!At(v, l) \in Nat \ {0}, Atm!At(w, l) \in Nat \ {0}
  PROVE  Atm!At(Atm!Join(v, w), l) =
           IF Atm!At(v, l) > Atm!At(w, l) THEN Atm!At(v, l) ELSE Atm!At(w, l)
BY DEF Atm!At, Atm!Join

\* A view of one message.
LEMMA OnlyAt ==
  ASSUME NEW l, NEW i
  PROVE  Atm!At(Atm!Only(l, i), l) = i /\ \A k : k # l => Atm!At(Atm!Only(l, i), k) = 1
BY DEF Atm!At, Atm!Only

\* A newer view allows less.
LEMMA NewerVals ==
  ASSUME NEW m, NEW v, NEW w, NEW l, Len(m[l]) \in Nat,
         Atm!At(v, l) \in Nat, Atm!At(w, l) \in Nat, Atm!At(v, l) <= Atm!At(w, l)
  PROVE  Vals(m, w, l) \subseteq Vals(m, v, l)
BY DEF Vals

\* The newest value can always be read.
LEMMA NewestVals ==
  ASSUME NEW l \in DOMAIN mem, Len(mem[l]) \in Nat \ {0}, NEW v, Atm!At(v, l) \in 1..Len(mem[l])
  PROVE  Atm!Newest(l) \in Vals(mem, v, l)
<1>1. Len(mem[l]) \in Atm!At(v, l)..Len(mem[l])
  OBVIOUS
<1> QED BY <1>1 DEF Vals, Atm!Newest

\* What may be read includes what is there.
LEMMA NewestHas ==
  ASSUME Memory, NEW l \in DOMAIN mem
  PROVE  /\ \A t \in Callers : Atm!Newest(l) \in Has(t, l)
         /\ \A k \in DOMAIN mem : Atm!Newest(l) \in Sent(k, l)
<1>1. ASSUME NEW t \in Callers PROVE Atm!Newest(l) \in Has(t, l)
  BY NewestVals DEF Memory, GoodMem, Has
<1>2. ASSUME NEW k \in DOMAIN mem PROVE Atm!Newest(l) \in Sent(k, l)
  <2>1. Len(mem[k]) \in 1..Len(mem[k])
    BY DEF Memory, GoodMem
  <2> QED BY <2>1, NewestVals DEF Memory, GoodMem, Sent
<1> QED BY <1>1, <1>2

\* A step that only moves the view of t.
LEMMA ReadStep ==
  ASSUME Memory, NEW t \in Callers, NEW w, Atm!Commit(mem, [seen EXCEPT ![t] = w]),
         \A k \in DOMAIN mem : Atm!At(w, k) \in Atm!At(seen[t], k)..Len(mem[k])
  PROVE  LoadEffect /\ \A k \in DOMAIN mem : Has(t, k)' \subseteq Vals(mem, w, k)
<1> DEFINE s == [seen EXCEPT ![t] = w]
<1>1. s[t] = w /\ \A c \in Callers : c # t => s[c] = seen[c]
  BY DEF Memory
<1>2. GoodMem(mem, s)
  <2> SUFFICES ASSUME NEW l \in DOMAIN mem, NEW c \in Callers
               PROVE  Atm!At(s[c], l) \in 1..Len(mem[l])
    BY DEF GoodMem, Memory
  <2>1. Atm!At(seen[c], l) \in 1..Len(mem[l]) /\ Atm!At(seen[t], l) \in 1..Len(mem[l])
        /\ Len(mem[l]) \in Nat
    BY DEF Memory, GoodMem
  <2>2. Atm!At(w, l) \in 1..Len(mem[l])
    BY <2>1
  <2> HIDE DEF s
  <2> QED BY <1>1, <2>1, <2>2
<1>3. Callers # {} /\ Atm!Commit(mem, s)
  OBVIOUS
<1> HIDE DEF s
<1>4. /\ DOMAIN mem' = DOMAIN mem /\ GoodMem(mem', seen') /\ Narrows(mem, s)
      /\ mem' = [l \in DOMAIN mem' |-> mem'[l]] /\ seen' = [c \in Callers |-> seen'[c]]
  BY <1>2, <1>3, CommitNarrows
<1>5. Memory'
  BY <1>4 DEF Memory
<1>6. ASSUME NEW l \in DOMAIN mem, NEW c \in Callers
      PROVE  Has(c, l)' \subseteq Has(c, l)
  <2>1. Has(c, l)' \subseteq Vals(mem, s[c], l)
    BY <1>4 DEF Narrows, Has
  <2>2. Atm!At(seen[t], l) \in 1..Len(mem[l]) /\ Len(mem[l]) \in Nat
    BY DEF Memory, GoodMem
  <2>3. Atm!At(seen[t], l) \in Nat /\ Atm!At(w, l) \in Nat /\ Atm!At(seen[t], l) <= Atm!At(w, l)
    BY <2>2
  <2>4. Vals(mem, w, l) \subseteq Vals(mem, seen[t], l)
    BY <2>2, <2>3, NewerVals
  <2> QED BY <1>1, <2>1, <2>4 DEF Has
<1>7. ASSUME NEW l \in DOMAIN mem, NEW k \in DOMAIN mem, NEW x
      PROVE  Told(l, x, k)' \subseteq Told(l, x, k)
  <2> SUFFICES ASSUME NEW i \in 1..Len(mem'[l]), mem'[l][i].val = x
               PROVE  Vals(mem', mem'[l][i].view, k) \subseteq Told(l, x, k)
    BY DEF Told
  <2>1. PICK j \in 1..Len(mem[l]) :
           /\ mem'[l][i].val = mem[l][j].val
           /\ Vals(mem', mem'[l][i].view, k) \subseteq Vals(mem, mem[l][j].view, k)
    BY <1>4 DEF Narrows
  <2> QED BY <2>1 DEF Told
<1>8. ASSUME NEW l \in DOMAIN mem
      PROVE  Atm!Newest(l)' = Atm!Newest(l)
             /\ \A k \in DOMAIN mem : Sent(l, k)' \subseteq Sent(l, k)
  BY <1>4 DEF Narrows, Atm!Newest, Sent
<1>9. \A k \in DOMAIN mem : Has(t, k)' \subseteq Vals(mem, w, k)
  BY <1>1, <1>4 DEF Narrows, Has
<1> QED BY <1>4, <1>5, <1>6, <1>7, <1>8, <1>9 DEF LoadEffect

\* Good views, in plain numbers.
LEMMA ViewsFit ==
  ASSUME Memory, NEW l \in DOMAIN mem
  PROVE  /\ Len(mem[l]) \in Nat \ {0}
         /\ \A t \in Callers : Atm!At(seen[t], l) \in 1..Len(mem[l])
         /\ \A k \in DOMAIN mem : \A i \in 1..Len(mem[k]) :
              Atm!At(mem[k][i].view, l) \in 1..Len(mem[l])
BY DEF Memory, GoodMem

\* A relaxed load.
LEMMA RelaxedLoadEffect ==
  ASSUME Memory, NEW t \in Callers, NEW l \in DOMAIN mem, NEW i \in Atm!Readable(t, l),
         Atm!RelaxedLoad(t, l, i)
  PROVE  LoadEffect /\ mem[l][i].val \in Has(t, l)
<1> DEFINE w == Atm!Join(seen[t], Atm!Only(l, i))
<1>1. Atm!Commit(mem, [seen EXCEPT ![t] = w])
  BY DEF Atm!RelaxedLoad
<1>2. ASSUME NEW k \in DOMAIN mem
      PROVE  Atm!At(w, k) \in Atm!At(seen[t], k)..Len(mem[k])
  <2>1. /\ Atm!At(seen[t], k) \in 1..Len(mem[k]) /\ Len(mem[k]) \in Nat
        /\ Atm!At(seen[t], l) \in 1..Len(mem[l]) /\ i \in Atm!At(seen[t], l)..Len(mem[l])
        /\ Len(mem[l]) \in Nat
    BY ViewsFit DEF Atm!Readable
  <2>2. Atm!At(Atm!Only(l, i), k) = IF k = l THEN i ELSE 1
    BY OnlyAt
  <2>3. Atm!At(Atm!Only(l, i), k) \in Nat \ {0} /\ Atm!At(seen[t], k) \in Nat \ {0}
    BY <2>1, <2>2
  <2>4. Atm!At(w, k) = IF Atm!At(seen[t], k) > Atm!At(Atm!Only(l, i), k)
                       THEN Atm!At(seen[t], k) ELSE Atm!At(Atm!Only(l, i), k)
    BY <2>3, JoinAt
  <2> HIDE DEF w
  <2> QED BY <2>1, <2>2, <2>4
<1> HIDE DEF w
<1>3. LoadEffect
  BY <1>1, <1>2, ReadStep
<1>4. mem[l][i].val \in Has(t, l)
  BY DEF Has, Vals, Atm!Readable
<1> QED BY <1>3, <1>4

\* An acquiring load takes over what the message's writer let its readers read.
LEMMA AcquireLoadEffect ==
  ASSUME Memory, NEW t \in Callers, NEW l \in DOMAIN mem, NEW i \in Atm!Readable(t, l),
         Atm!AcquireLoad(t, l, i)
  PROVE  /\ LoadEffect /\ mem[l][i].val \in Has(t, l)
         /\ \A k \in DOMAIN mem : Has(t, k)' \subseteq Told(l, mem[l][i].val, k)
<1> DEFINE v == Atm!Join(seen[t], Atm!Only(l, i))
           w == Atm!Join(v, mem[l][i].view)
<1>1. Atm!Commit(mem, [seen EXCEPT ![t] = w])
  BY DEF Atm!AcquireLoad
<1>0. i \in 1..Len(mem[l]) /\ i \in Atm!At(seen[t], l)..Len(mem[l])
  BY ViewsFit DEF Atm!Readable
<1>2. ASSUME NEW k \in DOMAIN mem
      PROVE  /\ Atm!At(w, k) \in Atm!At(seen[t], k)..Len(mem[k])
             /\ Atm!At(mem[l][i].view, k) \in Nat /\ Atm!At(mem[l][i].view, k) <= Atm!At(w, k)
  <2>1. /\ Atm!At(seen[t], k) \in 1..Len(mem[k]) /\ Len(mem[k]) \in Nat
        /\ Atm!At(seen[t], l) \in 1..Len(mem[l]) /\ Len(mem[l]) \in Nat
        /\ Atm!At(mem[l][i].view, k) \in 1..Len(mem[k])
    BY ViewsFit, <1>0
  <2>2. Atm!At(Atm!Only(l, i), k) = IF k = l THEN i ELSE 1
    BY OnlyAt
  <2>3. Atm!At(Atm!Only(l, i), k) \in Nat \ {0} /\ Atm!At(seen[t], k) \in Nat \ {0}
    BY <1>0, <2>1, <2>2
  <2>4. Atm!At(v, k) = IF Atm!At(seen[t], k) > Atm!At(Atm!Only(l, i), k)
                       THEN Atm!At(seen[t], k) ELSE Atm!At(Atm!Only(l, i), k)
    BY <2>3, JoinAt
  <2> HIDE DEF v
  <2>5. Atm!At(v, k) \in Atm!At(seen[t], k)..Len(mem[k])
    BY <1>0, <2>1, <2>2, <2>4
  <2>6. Atm!At(v, k) \in Nat \ {0} /\ Atm!At(mem[l][i].view, k) \in Nat \ {0}
    BY <2>1, <2>5
  <2>7. Atm!At(w, k) = IF Atm!At(v, k) > Atm!At(mem[l][i].view, k)
                       THEN Atm!At(v, k) ELSE Atm!At(mem[l][i].view, k)
    BY <2>6, JoinAt
  <2> HIDE DEF w
  <2> QED BY <2>1, <2>5, <2>7
<1> HIDE DEF v, w
<1>3. LoadEffect /\ \A k \in DOMAIN mem : Has(t, k)' \subseteq Vals(mem, w, k)
  BY <1>1, <1>2, ReadStep
<1>4. mem[l][i].val \in Has(t, l)
  BY DEF Has, Vals, Atm!Readable
<1>5. ASSUME NEW k \in DOMAIN mem
      PROVE  Has(t, k)' \subseteq Told(l, mem[l][i].val, k)
  <2>1. Len(mem[k]) \in Nat /\ Atm!At(w, k) \in Nat
    BY <1>2, ViewsFit
  <2>2. Vals(mem, w, k) \subseteq Vals(mem, mem[l][i].view, k)
    BY <1>2, <2>1, NewerVals
  <2>3. Vals(mem, mem[l][i].view, k) \subseteq Told(l, mem[l][i].val, k)
    BY <1>0 DEF Told
  <2> QED BY <1>3, <2>2, <2>3
<1> QED BY <1>3, <1>4, <1>5

\* A message more at the end of a location.
LEMMA Appended ==
  ASSUME Memory, NEW l \in DOMAIN mem, NEW msg
  PROVE  LET m == [mem EXCEPT ![l] = Append(@, msg)]
             n == Len(mem[l])
         IN  /\ DOMAIN m = DOMAIN mem /\ \A k \in DOMAIN mem : k # l => m[k] = mem[k]
             /\ n \in Nat \ {0} /\ Len(m[l]) = n + 1 /\ m[l][n + 1] = msg
             /\ \A i \in 1..n : m[l][i] = mem[l][i]
             /\ m[l] = [i \in 1..Len(m[l]) |-> m[l][i]]
<1> DEFINE q == mem[l]
           n == Len(q)
           S == {q[i] : i \in 1..n} \cup {msg}
<1>1. n \in Nat \ {0} /\ q = [i \in 1..n |-> q[i]]
  BY DEF Memory, GoodMem
<1>2. q \in Seq(S)
  <2>1. q \in [1..n -> S]
    BY <1>1
  <2> QED BY <1>1, <2>1
<1> DEFINE r == Append(q, msg)
<1>3. msg \in S
  OBVIOUS
<1> HIDE DEF S
<1>4. /\ r \in Seq(S) /\ Len(r) = n + 1 /\ r[n + 1] = msg /\ \A i \in 1..n : r[i] = q[i]
  BY <1>2, <1>3
<1> HIDE DEF r
<1>5. r = [i \in 1..Len(r) |-> r[i]]
  <2>1. r \in [1..Len(r) -> S]
    BY <1>4
  <2> QED BY <2>1
<1>6. [mem EXCEPT ![l] = Append(@, msg)] = [mem EXCEPT ![l] = r]
  BY DEF r
<1>7. [mem EXCEPT ![l] = r][l] = r /\ DOMAIN [mem EXCEPT ![l] = r] = DOMAIN mem
      /\ \A k \in DOMAIN mem : k # l => [mem EXCEPT ![l] = r][k] = mem[k]
  BY DEF Memory
<1> QED BY <1>1, <1>4, <1>5, <1>6, <1>7

\* A step that writes v to l with a view, after which t has another view.
LEMMA WriteStep ==
  ASSUME Memory, NEW t \in Callers, NEW l \in DOMAIN mem, NEW v, NEW after, NEW view,
         Atm!Write(t, l, v, after, view),
         \A k \in DOMAIN mem :
           /\ Atm!At(after, k) \in Atm!At(seen[t], k)..Len(mem[k]) \/ k = l
           /\ Atm!At(view, k) \in 1..Len(mem[k]) \/ k = l,
         Atm!At(after, l) = Len(mem[l]) + 1, Atm!At(view, l) = Len(mem[l]) + 1
  PROVE  /\ WriteEffect(t, l, v)
         /\ \A k \in DOMAIN mem : k # l =>
              /\ Has(t, k)' \subseteq Vals(mem, after, k)
              /\ Sent(l, k)' \subseteq Vals(mem, view, k)
              /\ Told(l, v, k)' \subseteq Told(l, v, k) \cup Vals(mem, view, k)
<1> DEFINE msg == [val |-> v, view |-> view]
           m == [mem EXCEPT ![l] = Append(@, msg)]
           s == [seen EXCEPT ![t] = after]
           n == Len(mem[l])
<1>1. /\ DOMAIN m = DOMAIN mem /\ \A k \in DOMAIN mem : k # l => m[k] = mem[k]
      /\ n \in Nat \ {0} /\ Len(m[l]) = n + 1 /\ m[l][n + 1] = msg
      /\ \A i \in 1..n : m[l][i] = mem[l][i]
      /\ m[l] = [i \in 1..Len(m[l]) |-> m[l][i]]
  <2> HIDE DEF msg
  <2> QED BY Appended, Zenon
<1>2. s[t] = after /\ \A c \in Callers : c # t => s[c] = seen[c]
  BY DEF Memory
<1>3. Callers # {} /\ Atm!Commit(m, s)
  BY DEF Atm!Write
<1>4. msg.val = v /\ msg.view = view
  OBVIOUS
<1> HIDE DEF m, s, msg
<1>5. ASSUME NEW w, NEW k \in DOMAIN mem, Atm!At(w, k) \in 1..Len(mem[k])
      PROVE  /\ Atm!At(w, k) \in 1..Len(m[k])
             /\ Vals(m, w, k) \subseteq Vals(mem, w, k) \cup (IF k = l THEN {v} ELSE {})
  <2>1. CASE k # l
    BY <1>1, <1>5, <2>1 DEF Vals
  <2>2. CASE k = l
    <3>1. Atm!At(w, l) \in 1..n
      BY <1>5, <2>2
    <3>2. ASSUME NEW i \in Atm!At(w, l)..(n + 1) PROVE m[l][i].val \in Vals(mem, w, l) \cup {v}
      <4>1. CASE i = n + 1
        BY <4>1, <1>1, <1>4
      <4>2. CASE i # n + 1
        <5>1. i \in 1..n /\ i \in Atm!At(w, l)..n
          BY <1>1, <3>1, <3>2, <4>2
        <5> QED BY <5>1, <1>1 DEF Vals
      <4> QED BY <4>1, <4>2
    <3>3. Atm!At(w, l) \in 1..(n + 1)
      BY <1>1, <3>1
    <3> QED BY <1>1, <2>2, <3>2, <3>3 DEF Vals
  <2> QED BY <2>1, <2>2
<1>6. ASSUME NEW w, Atm!At(w, l) = n + 1
      PROVE  Atm!At(w, l) \in 1..Len(m[l]) /\ Vals(m, w, l) \subseteq {v}
  <2>1. Atm!At(w, l)..Len(m[l]) = {n + 1}
    BY <1>1, <1>6
  <2> QED BY <1>1, <1>4, <1>6, <2>1 DEF Vals
<1>7. ASSUME NEW c \in Callers, NEW k \in DOMAIN mem
      PROVE  /\ Atm!At(s[c], k) \in 1..Len(m[k])
             /\ Vals(m, s[c], k) \subseteq Has(c, k) \cup (IF k = l THEN {v} ELSE {})
             /\ c = t /\ k = l => Vals(m, s[c], k) \subseteq {v}
             /\ c = t /\ k # l => Vals(m, s[c], k) \subseteq Vals(mem, after, k)
  <2>1. CASE c # t
    BY <1>2, <1>5, <2>1, ViewsFit DEF Has
  <2>2. CASE c = t /\ k = l
    BY <1>2, <1>6, <2>2
  <2>3. CASE c = t /\ k # l
    <3>1. Atm!At(after, k) \in Atm!At(seen[t], k)..Len(mem[k])
      BY <2>3
    <3>2. Atm!At(seen[t], k) \in 1..Len(mem[k]) /\ Len(mem[k]) \in Nat
      BY ViewsFit
    <3>3. /\ Atm!At(after, k) \in 1..Len(mem[k]) /\ Atm!At(after, k) \in Nat
          /\ Atm!At(seen[t], k) \in Nat /\ Atm!At(seen[t], k) <= Atm!At(after, k)
      BY <3>1, <3>2
    <3>4. Vals(mem, after, k) \subseteq Has(t, k)
      BY <3>2, <3>3, NewerVals DEF Has
    <3>5. /\ Atm!At(after, k) \in 1..Len(m[k]) /\ Vals(m, after, k) \subseteq Vals(mem, after, k)
      BY <1>5, <2>3, <3>3
    <3> QED BY <1>2, <2>3, <3>4, <3>5
  <2> QED BY <2>1, <2>2, <2>3
\* The messages of m: those of mem, and the new one.
<1>8. ASSUME NEW k \in DOMAIN mem, NEW i \in 1..Len(m[k])
      PROVE  \/ i \in 1..Len(mem[k]) /\ m[k][i] = mem[k][i]
             \/ k = l /\ i = n + 1 /\ m[k][i] = msg
  BY <1>1
<1>9. ASSUME NEW k \in DOMAIN mem, NEW i \in 1..Len(m[k]), NEW j \in DOMAIN mem
      PROVE  Atm!At(m[k][i].view, j) \in 1..Len(m[j])
  <2>1. CASE i \in 1..Len(mem[k]) /\ m[k][i] = mem[k][i]
    BY <2>1, <1>5, ViewsFit
  <2>2. CASE k = l /\ i = n + 1 /\ m[k][i] = msg
    BY <2>2, <1>4, <1>5, <1>6
  <2> QED BY <1>8, <2>1, <2>2
<1>10. GoodMem(m, s)
  <2>1. ASSUME NEW k \in DOMAIN mem
        PROVE  Len(m[k]) \in Nat \ {0} /\ m[k] = [i \in 1..Len(m[k]) |-> m[k][i]]
    <3>1. CASE k = l
      BY <1>1, <3>1
    <3>2. CASE k # l
      BY <1>1, <3>2 DEF Memory, GoodMem
    <3> QED BY <3>1, <3>2
  <2> QED BY <1>1, <1>7, <1>9, <2>1 DEF GoodMem
<1>11. /\ DOMAIN mem' = DOMAIN mem /\ GoodMem(mem', seen') /\ Narrows(m, s)
       /\ mem' = [k \in DOMAIN mem' |-> mem'[k]] /\ seen' = [c \in Callers |-> seen'[c]]
  BY <1>1, <1>3, <1>10, CommitNarrows
<1>12. Memory'
  BY <1>11 DEF Memory
<1>13. ASSUME NEW c \in Callers, NEW k \in DOMAIN mem
       PROVE  Has(c, k)' \subseteq Vals(m, s[c], k)
  BY <1>1, <1>11 DEF Narrows, Has
<1>14. ASSUME NEW k \in DOMAIN mem
       PROVE  Atm!Newest(k)' = IF k = l THEN v ELSE Atm!Newest(k)
  <2>1. Atm!Newest(k)' = m[k][Len(m[k])].val
    BY <1>1, <1>11 DEF Narrows, Atm!Newest
  <2> QED BY <1>1, <1>4, <2>1 DEF Atm!Newest
<1>15. ASSUME NEW k \in DOMAIN mem, NEW j \in DOMAIN mem
       PROVE  /\ k # l => Sent(k, j)' \subseteq Sent(k, j) \cup (IF j = l THEN {v} ELSE {})
              /\ k = l /\ j # l => Sent(k, j)' \subseteq Vals(mem, view, j)
              /\ k = l /\ j = l => Sent(k, j)' \subseteq {v}
  <2>1. Sent(k, j)' \subseteq Vals(m, m[k][Len(m[k])].view, j)
    BY <1>1, <1>11 DEF Narrows, Sent
  <2>2. CASE k # l
    <3>1. m[k] = mem[k] /\ Len(mem[k]) \in 1..Len(mem[k])
      BY <1>1, <2>2, ViewsFit
    <3>2. Atm!At(mem[k][Len(mem[k])].view, j) \in 1..Len(mem[j])
      BY <3>1, ViewsFit
    <3> QED BY <1>5, <2>1, <2>2, <3>1, <3>2 DEF Sent
  <2>3. CASE k = l
    <3>1. m[k][Len(m[k])].view = view
      BY <1>1, <1>4, <2>3
    <3> QED BY <1>5, <1>6, <2>1, <2>3, <3>1
  <2> QED BY <2>2, <2>3
<1>16. ASSUME NEW k \in DOMAIN mem, NEW j \in DOMAIN mem, NEW x
       PROVE  Told(k, x, j)' \subseteq Told(k, x, j) \cup (IF j = l THEN {v} ELSE {})
                \cup (IF k = l /\ x = v THEN Vals(m, view, j) ELSE {})
  <2> SUFFICES ASSUME NEW i \in 1..Len(mem'[k]), mem'[k][i].val = x
               PROVE  Vals(mem', mem'[k][i].view, j)
                        \subseteq Told(k, x, j) \cup (IF j = l THEN {v} ELSE {})
                          \cup (IF k = l /\ x = v THEN Vals(m, view, j) ELSE {})
    BY DEF Told
  <2>1. PICK h \in 1..Len(m[k]) :
           /\ mem'[k][i].val = m[k][h].val
           /\ Vals(mem', mem'[k][i].view, j) \subseteq Vals(m, m[k][h].view, j)
    BY <1>1, <1>11 DEF Narrows
  <2>2. CASE h \in 1..Len(mem[k]) /\ m[k][h] = mem[k][h]
    <3>1. Vals(mem, mem[k][h].view, j) \subseteq Told(k, x, j)
      BY <2>1, <2>2 DEF Told
    <3> QED BY <1>5, <2>1, <2>2, <3>1, ViewsFit
  <2>3. CASE k = l /\ h = n + 1 /\ m[k][h] = msg
    BY <1>4, <2>1, <2>3
  <2> QED BY <1>8, <2>2, <2>3
<1>17. \A k \in DOMAIN mem : k # l => Vals(m, view, k) \subseteq Vals(mem, view, k)
  BY <1>5
<1>18. WriteEffect(t, l, v)
  <2>1. Has(t, l)' \subseteq {v} /\ Sent(l, l)' \subseteq {v}
    BY <1>7, <1>13, <1>15
  <2> QED BY <1>7, <1>11, <1>12, <1>13, <1>14, <1>15, <1>16, <2>1 DEF WriteEffect
<1> QED BY <1>7, <1>13, <1>15, <1>16, <1>17, <1>18

\* The views after a write of t to l: what it saw and its own message, and for a
\* read-modify-write operation what the message it met brought along.
LEMMA WriteViews ==
  ASSUME Memory, NEW t \in Callers, NEW l \in DOMAIN mem
  PROVE  LET n == Len(mem[l])
             new == Atm!Only(l, n + 1)
             saw == Atm!Join(seen[t], new)
             met == mem[l][n].view
             all == Atm!Join(saw, met)
             tas == Atm!Join(new, met)
         IN  /\ \A v \in {new, saw, all, tas} : Atm!At(v, l) = n + 1
             /\ \A k \in DOMAIN mem : k # l =>
                  /\ \A v \in {new, saw, all, tas} : Atm!At(v, k) \in 1..Len(mem[k])
                  /\ \A v \in {saw, all} : Atm!At(v, k) \in Atm!At(seen[t], k)..Len(mem[k])
                  /\ \A v \in {saw, all} : Vals(mem, v, k) \subseteq Has(t, k)
                  /\ \A v \in {all, tas} : Vals(mem, v, k) \subseteq Sent(l, k)
<1> DEFINE n == Len(mem[l])
           new == Atm!Only(l, n + 1)
           saw == Atm!Join(seen[t], new)
           met == mem[l][n].view
           all == Atm!Join(saw, met)
           tas == Atm!Join(new, met)
<1>1. n \in Nat \ {0} /\ n \in 1..n
  BY ViewsFit
<1>2. Atm!At(new, l) = n + 1 /\ \A k : k # l => Atm!At(new, k) = 1
  BY OnlyAt
<1> HIDE DEF new
<1>3. ASSUME NEW k \in DOMAIN mem
      PROVE  /\ Len(mem[k]) \in Nat \ {0} /\ Atm!At(new, k) \in Nat \ {0}
             /\ Atm!At(seen[t], k) \in 1..Len(mem[k]) /\ Atm!At(seen[t], k) \in Nat \ {0}
             /\ Atm!At(met, k) \in 1..Len(mem[k]) /\ Atm!At(met, k) \in Nat \ {0}
  <2>1. /\ Len(mem[k]) \in Nat \ {0} /\ Atm!At(seen[t], k) \in 1..Len(mem[k])
        /\ Atm!At(met, k) \in 1..Len(mem[k])
    BY <1>1, ViewsFit
  <2>2. Atm!At(new, k) \in Nat \ {0}
    BY <1>1, <1>2
  <2> HIDE DEF met
  <2> QED BY <2>1, <2>2
<1>4. ASSUME NEW k \in DOMAIN mem
      PROVE  Atm!At(saw, k) = IF Atm!At(seen[t], k) > Atm!At(new, k)
                              THEN Atm!At(seen[t], k) ELSE Atm!At(new, k)
  BY <1>3, JoinAt
<1>5. ASSUME NEW k \in DOMAIN mem
      PROVE  Atm!At(tas, k) = IF Atm!At(new, k) > Atm!At(met, k)
                              THEN Atm!At(new, k) ELSE Atm!At(met, k)
  BY <1>3, JoinAt
<1> HIDE DEF saw, tas
<1>6. ASSUME NEW k \in DOMAIN mem
      PROVE  Atm!At(all, k) = IF Atm!At(saw, k) > Atm!At(met, k)
                              THEN Atm!At(saw, k) ELSE Atm!At(met, k)
  <2>1. Atm!At(saw, k) \in Nat \ {0}
    BY <1>3, <1>4
  <2> QED BY <2>1, <1>3, JoinAt
<1> HIDE DEF all, met
<1>7. \A v \in {new, saw, all, tas} : Atm!At(v, l) = n + 1
  <2>1. Atm!At(saw, l) = n + 1 /\ Atm!At(tas, l) = n + 1
    BY <1>1, <1>2, <1>3, <1>4, <1>5
  <2>2. Atm!At(all, l) = n + 1
    BY <1>1, <1>3, <1>6, <2>1
  <2> QED BY <1>2, <2>1, <2>2
<1>8. ASSUME NEW k \in DOMAIN mem, k # l
      PROVE  /\ \A v \in {new, saw, all, tas} : Atm!At(v, k) \in 1..Len(mem[k])
             /\ \A v \in {saw, all} : Atm!At(v, k) \in Atm!At(seen[t], k)..Len(mem[k])
             /\ \A v \in {all, tas} : Atm!At(v, k) \in Atm!At(met, k)..Len(mem[k])
  <2>1. /\ Atm!At(new, k) = 1 /\ Atm!At(saw, k) \in Atm!At(seen[t], k)..Len(mem[k])
        /\ Atm!At(tas, k) \in Atm!At(met, k)..Len(mem[k])
    BY <1>2, <1>3, <1>4, <1>5, <1>8
  <2>2. /\ Atm!At(all, k) \in Atm!At(seen[t], k)..Len(mem[k])
        /\ Atm!At(all, k) \in Atm!At(met, k)..Len(mem[k])
    BY <1>3, <1>6, <2>1
  <2> QED BY <1>3, <2>1, <2>2
<1>9. ASSUME NEW k \in DOMAIN mem, k # l
      PROVE  /\ \A v \in {saw, all} : Vals(mem, v, k) \subseteq Has(t, k)
             /\ \A v \in {all, tas} : Vals(mem, v, k) \subseteq Sent(l, k)
  <2>1. ASSUME NEW v \in {saw, all} PROVE Vals(mem, v, k) \subseteq Has(t, k)
    <3>1. Atm!At(v, k) \in Atm!At(seen[t], k)..Len(mem[k])
      BY <1>8, <1>9
    <3>2. /\ Len(mem[k]) \in Nat /\ Atm!At(seen[t], k) \in Nat /\ Atm!At(v, k) \in Nat
          /\ Atm!At(seen[t], k) <= Atm!At(v, k)
      BY <1>3, <3>1
    <3> QED BY <3>2, NewerVals DEF Has
  <2>2. ASSUME NEW v \in {all, tas} PROVE Vals(mem, v, k) \subseteq Sent(l, k)
    <3>1. Atm!At(v, k) \in Atm!At(met, k)..Len(mem[k])
      BY <1>8, <1>9
    <3>2. /\ Len(mem[k]) \in Nat /\ Atm!At(met, k) \in Nat /\ Atm!At(v, k) \in Nat
          /\ Atm!At(met, k) <= Atm!At(v, k)
      BY <1>3, <3>1
    <3>3. Vals(mem, v, k) \subseteq Vals(mem, met, k)
      BY <3>2, NewerVals
    <3> QED BY <3>3 DEF Sent, met
  <2> QED BY <2>1, <2>2
<1>10. \A k \in DOMAIN mem : k # l =>
         /\ \A v \in {new, saw, all, tas} : Atm!At(v, k) \in 1..Len(mem[k])
         /\ \A v \in {saw, all} : Atm!At(v, k) \in Atm!At(seen[t], k)..Len(mem[k])
         /\ \A v \in {saw, all} : Vals(mem, v, k) \subseteq Has(t, k)
         /\ \A v \in {all, tas} : Vals(mem, v, k) \subseteq Sent(l, k)
  BY <1>8, <1>9
<1>11. new = Atm!Only(l, n + 1) /\ met = mem[l][n].view /\ saw = Atm!Join(seen[t], new)
       /\ all = Atm!Join(saw, met) /\ tas = Atm!Join(new, met)
  BY DEF new, met, saw, all, tas
<1> QED BY <1>7, <1>10, <1>11, Zenon

\* The stores.
LEMMA StoreEffect ==
  ASSUME Memory, NEW t \in Callers, NEW l \in DOMAIN mem, NEW v
  PROVE  /\ Atm!RelaxedStore(t, l, v) => WriteEffect(t, l, v)
         /\ Atm!ReleaseStore(t, l, v) =>
              /\ WriteEffect(t, l, v)
              /\ \A k \in DOMAIN mem : k # l =>
                   Sent(l, k)' \subseteq Has(t, k) /\ Told(l, v, k)' \subseteq Told(l, v, k) \cup Has(t, k)
<1> DEFINE n == Len(mem[l])
           new == Atm!Only(l, n + 1)
           saw == Atm!Join(seen[t], new)
<1>1. /\ \A w \in {new, saw} : Atm!At(w, l) = n + 1
      /\ \A k \in DOMAIN mem : k # l =>
           /\ \A w \in {new, saw} : Atm!At(w, k) \in 1..Len(mem[k])
           /\ Atm!At(saw, k) \in Atm!At(seen[t], k)..Len(mem[k])
           /\ Vals(mem, saw, k) \subseteq Has(t, k)
  <2> HIDE DEF new, saw
  <2> QED BY WriteViews DEF new, saw
<1>2. ASSUME Atm!RelaxedStore(t, l, v) PROVE Atm!Write(t, l, v, saw, new)
  BY <1>2 DEF Atm!RelaxedStore
<1>3. ASSUME Atm!ReleaseStore(t, l, v) PROVE Atm!Write(t, l, v, saw, saw)
  BY <1>3 DEF Atm!ReleaseStore
<1> HIDE DEF new, saw
<1>4. ASSUME Atm!RelaxedStore(t, l, v) PROVE WriteEffect(t, l, v)
  BY <1>1, <1>2, <1>4, WriteStep
<1>5. ASSUME Atm!ReleaseStore(t, l, v)
      PROVE  /\ WriteEffect(t, l, v)
             /\ \A k \in DOMAIN mem : k # l =>
                   Sent(l, k)' \subseteq Has(t, k) /\ Told(l, v, k)' \subseteq Told(l, v, k) \cup Has(t, k)
  <2>1. /\ WriteEffect(t, l, v)
        /\ \A k \in DOMAIN mem : k # l =>
             /\ Sent(l, k)' \subseteq Vals(mem, saw, k)
             /\ Told(l, v, k)' \subseteq Told(l, v, k) \cup Vals(mem, saw, k)
    BY <1>1, <1>3, <1>5, WriteStep
  <2> QED BY <1>1, <2>1
<1> QED BY <1>4, <1>5

\* The operations that read and write: what was sent to the writer is sent on.
LEMMA UpdateEffect ==
  ASSUME Memory, NEW t \in Callers, NEW l \in DOMAIN mem, NEW v
  PROVE  /\ Atm!Update(t, l, v) =>
              /\ WriteEffect(t, l, v)
              /\ \A k \in DOMAIN mem : k # l =>
                   Has(t, k)' \subseteq Sent(l, k) /\ Sent(l, k)' \subseteq Has(t, k) \cap Sent(l, k)
         /\ Atm!TestAndSet(t, l, v) =>
              /\ v = Atm!Newest(l) /\ WriteEffect(t, l, TRUE)
              /\ \A k \in DOMAIN mem : k # l => Has(t, k)' \subseteq Sent(l, k)
<1> DEFINE n == Len(mem[l])
           new == Atm!Only(l, n + 1)
           saw == Atm!Join(seen[t], new)
           met == mem[l][n].view
           all == Atm!Join(saw, met)
           tas == Atm!Join(new, met)
<1>1. /\ \A w \in {all, tas} : Atm!At(w, l) = n + 1
      /\ \A k \in DOMAIN mem : k # l =>
           /\ \A w \in {all, tas} : Atm!At(w, k) \in 1..Len(mem[k])
           /\ Atm!At(all, k) \in Atm!At(seen[t], k)..Len(mem[k])
           /\ Vals(mem, all, k) \subseteq Has(t, k)
           /\ Vals(mem, all, k) \subseteq Sent(l, k)
  <2> HIDE DEF new, saw, met, all, tas
  <2> QED BY WriteViews DEF new, saw, met, all, tas
<1>2. ASSUME Atm!Update(t, l, v) PROVE Atm!Write(t, l, v, all, all)
  BY <1>2 DEF Atm!Update, Atm!Acquired
<1>3. ASSUME Atm!TestAndSet(t, l, v)
      PROVE  v = Atm!Newest(l) /\ Atm!Write(t, l, TRUE, all, tas)
  BY <1>3 DEF Atm!TestAndSet, Atm!Acquired
<1> HIDE DEF new, saw, met, all, tas
<1>4. ASSUME Atm!Update(t, l, v)
      PROVE  /\ WriteEffect(t, l, v)
             /\ \A k \in DOMAIN mem : k # l =>
                   Has(t, k)' \subseteq Sent(l, k) /\ Sent(l, k)' \subseteq Has(t, k) \cap Sent(l, k)
  <2>1. /\ WriteEffect(t, l, v)
        /\ \A k \in DOMAIN mem : k # l =>
             /\ Has(t, k)' \subseteq Vals(mem, all, k) /\ Sent(l, k)' \subseteq Vals(mem, all, k)
    BY <1>1, <1>2, <1>4, WriteStep
  <2> QED BY <1>1, <2>1
<1>5. ASSUME Atm!TestAndSet(t, l, v)
      PROVE  /\ v = Atm!Newest(l) /\ WriteEffect(t, l, TRUE)
             /\ \A k \in DOMAIN mem : k # l => Has(t, k)' \subseteq Sent(l, k)
  <2>1. /\ v = Atm!Newest(l) /\ WriteEffect(t, l, TRUE)
        /\ \A k \in DOMAIN mem : k # l => Has(t, k)' \subseteq Vals(mem, all, k)
    BY <1>1, <1>3, <1>5, WriteStep
  <2> QED BY <1>1, <2>1
<1> QED BY <1>4, <1>5

\* The compare-and-swaps: they write the new value over the expected one, or load.
LEMMA CasEffect ==
  ASSUME Memory, NEW t \in Callers, NEW l \in DOMAIN mem, NEW old, NEW new
  PROVE  /\ \A weak, ok \in BOOLEAN : Atm!BoolCas(t, l, old, new, weak, ok) =>
              IF ok THEN Atm!Newest(l) = old /\ WriteEffect(t, l, new) ELSE LoadEffect
         /\ \A ret : Atm!ValCasStrong(t, l, old, new, ret) =>
              IF ret = old THEN Atm!Newest(l) = old /\ WriteEffect(t, l, new) ELSE LoadEffect
<1>1. ASSUME NEW i \in Atm!Readable(t, l), NEW weak, Atm!CasFails(t, l, old, i, weak)
      PROVE  LoadEffect /\ (weak \/ mem[l][i].val # old)
  BY <1>1, AcquireLoadEffect DEF Atm!CasFails
<1>2. Atm!Update(t, l, new) => WriteEffect(t, l, new)
  BY UpdateEffect
<1>3. ASSUME NEW weak \in BOOLEAN, NEW ok \in BOOLEAN, Atm!BoolCas(t, l, old, new, weak, ok)
      PROVE  IF ok THEN Atm!Newest(l) = old /\ WriteEffect(t, l, new) ELSE LoadEffect
  BY <1>1, <1>2, <1>3 DEF Atm!BoolCas
<1>4. ASSUME NEW ret, Atm!ValCasStrong(t, l, old, new, ret)
      PROVE  IF ret = old THEN Atm!Newest(l) = old /\ WriteEffect(t, l, new) ELSE LoadEffect
  BY <1>1, <1>2, <1>4 DEF Atm!ValCasStrong, Atm!ValCas
<1> QED BY <1>3, <1>4

\* At first there is one message in each location, and nobody has seen anything.
Fresh(init) ==
    /\ Memory /\ DOMAIN mem = DOMAIN init
    /\ \A l \in DOMAIN mem :
         /\ Atm!Newest(l) = init[l] /\ \A t \in Callers : Has(t, l) \subseteq {init[l]}
         /\ \A k \in DOMAIN mem : \A x :
              /\ Sent(k, l) \subseteq {init[l]} /\ Told(k, x, l) \subseteq {init[l]}
              /\ x # init[k] => Told(k, x, l) = {}

\* So memory is set up.
LEMMA MemoryInit ==
  ASSUME NEW init, Atm!AtomicInit(init)
  PROVE  Fresh(init)
<1>1. /\ DOMAIN mem = DOMAIN init /\ mem = [l \in DOMAIN mem |-> mem[l]]
      /\ \A l \in DOMAIN mem : mem[l] = <<[val |-> init[l], view |-> <<>>]>>
      /\ seen = [t \in Callers |-> seen[t]] /\ \A t \in Callers : seen[t] = <<>>
  BY DEF Atm!AtomicInit
<1>2. ASSUME NEW l \in DOMAIN mem
      PROVE  /\ Len(mem[l]) = 1 /\ mem[l] = [i \in 1..Len(mem[l]) |-> mem[l][i]]
             /\ mem[l][1].val = init[l] /\ mem[l][1].view = <<>>
  <2> DEFINE msg == [val |-> init[l], view |-> <<>>]
  <2>1. msg.val = init[l] /\ msg.view = <<>>
    OBVIOUS
  <2>2. mem[l] = <<msg>>
    BY <1>1
  <2> HIDE DEF msg
  <2>3. Len(mem[l]) = 1 /\ mem[l][1] = msg
    BY <2>2
  <2>4. mem[l] = [i \in 1..1 |-> mem[l][i]]
    BY <2>2
  <2> QED BY <2>1, <2>3, <2>4
<1>3. \A l : Atm!At(<<>>, l) = 1
  BY DEF Atm!At
<1>4. ASSUME NEW k \in DOMAIN mem, NEW i \in 1..Len(mem[k])
      PROVE  i = 1 /\ mem[k][i].view = <<>>
  <2>1. Len(mem[k]) = 1 /\ mem[k][1].view = <<>>
    BY <1>2
  <2>2. i = 1
    BY <2>1
  <2> QED BY <2>1, <2>2
<1>5. Memory
  BY <1>1, <1>2, <1>3, <1>4 DEF Memory, GoodMem
<1>6. ASSUME NEW l \in DOMAIN mem
      PROVE  Vals(mem, <<>>, l) = {init[l]}
  BY <1>2, <1>3 DEF Vals
<1>7. ASSUME NEW l \in DOMAIN mem
      PROVE  Atm!Newest(l) = init[l] /\ \A t \in Callers : Has(t, l) \subseteq {init[l]}
  BY <1>1, <1>2, <1>6 DEF Atm!Newest, Has
<1>8. ASSUME NEW l \in DOMAIN mem, NEW k \in DOMAIN mem, NEW x
      PROVE  /\ Sent(k, l) \subseteq {init[l]} /\ Told(k, x, l) \subseteq {init[l]}
             /\ x # init[k] => Told(k, x, l) = {}
  <2>1. Sent(k, l) \subseteq {init[l]}
    BY <1>2, <1>6 DEF Sent
  <2>2. \A i \in {j \in 1..Len(mem[k]) : mem[k][j].val = x} :
          x = init[k] /\ Vals(mem, mem[k][i].view, l) = {init[l]}
    BY <1>2, <1>4, <1>6
  <2> QED BY <2>1, <2>2 DEF Told
<1> QED BY <1>1, <1>5, <1>7, <1>8 DEF Fresh

------------------------------------------------------------------------------
(* The counter, the flags and the data behind the spinlock *)

AtomicsInv ==
    kind = "atomics" =>
      /\ Memory /\ DOMAIN mem = {Atm!Count, Atm!Flags}
      /\ count \in Nat /\ Atm!Newest(Atm!Count) = Atm!Wrap(count) /\ Atm!Newest(Atm!Flags) = flags
      /\ a_pc \in [Callers -> {"idle", "weak", "strong", "value", "exchange",
                               "weak again", "strong again", "exchange again"}]

\* One thread at a time is inside, and it can only read what the last one wrote.
Inside(t) == a_pc[t] \in {"read", "write", "leave"}
SpinlockInv ==
    kind = "spinlock" =>
      /\ Memory /\ DOMAIN mem = {Atm!Spin, Atm!Data}
      /\ passed \in Nat /\ Atm!Newest(Atm!Data) = passed
      /\ a_pc \in [Callers -> {"idle", "spin", "try", "read", "write", "leave"}]
      /\ arg = [t \in Callers |-> arg[t]]
      /\ Atm!Newest(Atm!Spin) \in BOOLEAN
      /\ Atm!Newest(Atm!Spin) <=> \E t \in Callers : Inside(t)
      /\ \A t, c \in Callers : Inside(t) /\ Inside(c) => t = c
      /\ ~Atm!Newest(Atm!Spin) => Sent(Atm!Spin, Atm!Data) \subseteq {passed}
      /\ \A t \in Callers : Inside(t) => Has(t, Atm!Data) \subseteq {passed}
      /\ \A t \in Callers : a_pc[t] = "write" => arg[t] = passed

\* A remainder is unique.
LEMMA RemainderUnique ==
  ASSUME NEW m \in Nat \ {0}, NEW x \in Int, NEW y \in Int,
         NEW a \in 0..(m - 1), NEW b \in 0..(m - 1), m * x + a = m * y + b
  PROVE  a = b
<1>1. CASE x > y
  <2>1. m * x >= m * (y + 1) /\ m * (y + 1) = m * y + m
    BY <1>1
  <2>2. m * x \in Int /\ m * y \in Int
    OBVIOUS
  <2> QED BY <2>1, <2>2
<1>2. CASE x < y
  <2>1. m * y >= m * (x + 1) /\ m * (x + 1) = m * x + m
    BY <1>2
  <2>2. m * x \in Int /\ m * y \in Int
    OBVIOUS
  <2> QED BY <2>1, <2>2
<1>3. CASE x = y
  BY <1>3
<1> QED BY <1>1, <1>2, <1>3

\* Integers may wrap before or after something is added to them.
LEMMA WrapAdd ==
  ASSUME NEW m \in Nat \ {0}, NEW a \in Nat, NEW b \in Nat
  PROVE  ((a % m) + b) % m = (a + b) % m
<1> DEFINE x == (a % m) + b
           y == a + b
           q == a \div m
<1>1. a = m * q + (a % m) /\ q \in Int /\ a % m \in 0..(m - 1)
  OBVIOUS
<1>2. y = x + m * q
  BY <1>1
<1>3. x \in Nat /\ y \in Nat
  BY <1>1
<1>4. x = m * (x \div m) + (x % m) /\ x \div m \in Int /\ x % m \in 0..(m - 1)
  BY <1>3
<1>5. y = m * (y \div m) + (y % m) /\ y \div m \in Int /\ y % m \in 0..(m - 1)
  BY <1>3
<1>6. q \in Int
  BY <1>1
<1> HIDE DEF x, y, q
<1>7. (x \div m) + q \in Int /\ m * ((x \div m) + q) = m * (x \div m) + m * q
  BY <1>4, <1>6
<1>8. m * ((x \div m) + q) + (x % m) = m * (y \div m) + (y % m)
  <2>1. m * (x \div m) \in Int /\ m * q \in Int /\ x % m \in Int
    BY <1>4, <1>6
  <2> QED BY <1>2, <1>4, <1>5, <1>7, <2>1
<1>9. x % m = y % m
  BY <1>4, <1>5, <1>7, <1>8, RemainderUnique
<1> QED BY <1>9 DEF x, y

\* Read-modify-write operations of the counter and the flags.
LEMMA ArithmeticCounts ==
  ASSUME AtomicsInv, kind = "atomics", NEW t \in Callers, Atm!Arithmetic(t)
  PROVE  AtomicsInv'
<1> DEFINE C == Atm!Count
           F == Atm!Flags
           M == 2^Width
<1>1. M \in Nat \ {0} /\ M > 2
  BY StructuresAssumption
<1> HIDE DEF M
<1>2. /\ Memory /\ DOMAIN mem = {C, F} /\ count \in Nat
      /\ Atm!Newest(C) = count % M /\ Atm!Newest(F) = flags
      /\ kind' = kind /\ a_pc' = a_pc
  BY DEF AtomicsInv, Atm!Wrap, M, Atm!Arithmetic
<1>3. C # F
  BY DEF Atm!Count, Atm!Flags
<1>4. ASSUME NEW l \in {C, F}, NEW v, Atm!Update(t, l, v)
      PROVE  /\ Memory' /\ DOMAIN mem' = DOMAIN mem /\ Atm!Newest(l)' = v
             /\ \A k \in {C, F} : k # l => Atm!Newest(k)' = Atm!Newest(k)
  <2>1. WriteEffect(t, l, v)
    BY <1>2, <1>4, UpdateEffect
  <2> QED BY <1>2, <2>1 DEF WriteEffect
<1>5. ASSUME NEW n \in Nat, NEW d \in Nat, Atm!Update(t, C, n % M), count' = d, n % M = d % M,
             UNCHANGED flags
      PROVE  AtomicsInv'
  BY <1>2, <1>3, <1>4, <1>5 DEF AtomicsInv, Atm!Wrap, M
<1>6. ASSUME NEW f, Atm!Update(t, F, f), flags' = f, UNCHANGED count
      PROVE  AtomicsInv'
  BY <1>2, <1>3, <1>4, <1>6 DEF AtomicsInv, Atm!Wrap, M
<1>7. CASE Atm!FetchAdd(t, C, 3) /\ count' = count + 3 /\ UNCHANGED flags
  <2>1. (count % M) + 3 \in Nat /\ count + 3 \in Nat
    BY <1>1, <1>2
  <2>2. ((count % M) + 3) % M = (count + 3) % M
    BY <1>1, <1>2, WrapAdd
  <2>3. Atm!Update(t, C, ((count % M) + 3) % M)
    BY <1>2, <1>7 DEF Atm!FetchAdd, Atm!Wrap, M
  <2> QED BY <1>5, <1>7, <2>1, <2>2, <2>3
<1>8. CASE Atm!FetchSub(t, C, 1) /\ count' = count + 2^Width - 1 /\ UNCHANGED flags
  <2> DEFINE b == M - 1
  <2>1. b \in Nat /\ (count % M) + b \in Nat /\ count + b \in Nat
    BY <1>1, <1>2
  <2>2. (count % M) + M - 1 = (count % M) + b /\ count + M - 1 = count + b
    BY <1>1, <1>2
  <2>3. ((count % M) + b) % M = (count + b) % M
    <3> HIDE DEF b
    <3> QED BY <1>1, <1>2, <2>1, WrapAdd
  <2>4. Atm!Update(t, C, ((count % M) + M - 1) % M)
    BY <1>2, <1>8 DEF Atm!FetchSub, Atm!Wrap, M
  <2>5. count' = count + b
    BY <1>8, <2>2 DEF M
  <2> HIDE DEF b
  <2> QED BY <1>5, <1>8, <2>1, <2>2, <2>3, <2>4, <2>5
<1>9. CASE Atm!AtomicExchange(t, C, 2) /\ count' = 2 /\ UNCHANGED flags
  <2>1. 2 % M = 2
    BY <1>1
  <2> QED BY <1>5, <1>9, <2>1 DEF Atm!AtomicExchange
<1>10. ASSUME NEW b \in SUBSET Atm!Bits,
              \/ Atm!FetchAnd(t, F, b) /\ flags' = flags \cap b
              \/ Atm!FetchOr(t, F, b) /\ flags' = flags \cup b
              \/ Atm!FetchXor(t, F, b) /\ flags' = (flags \ b) \cup (b \ flags),
              UNCHANGED count
       PROVE  AtomicsInv'
  <2>1. CASE Atm!FetchAnd(t, F, b) /\ flags' = flags \cap b
    BY <1>2, <1>6, <1>10, <2>1 DEF Atm!FetchAnd
  <2>2. CASE Atm!FetchOr(t, F, b) /\ flags' = flags \cup b
    BY <1>2, <1>6, <1>10, <2>2 DEF Atm!FetchOr
  <2>3. CASE Atm!FetchXor(t, F, b) /\ flags' = (flags \ b) \cup (b \ flags)
    <3>1. (flags \cup b) \ (flags \cap b) = (flags \ b) \cup (b \ flags)
      OBVIOUS
    <3> QED BY <1>2, <1>6, <1>10, <2>3, <3>1 DEF Atm!FetchXor
  <2> QED BY <1>10, <2>1, <2>2, <2>3
<1> QED BY <1>7, <1>8, <1>9, <1>10 DEF Atm!Arithmetic

\* The loads and compare-and-swaps of the counter.
LEMMA SwapCounts ==
  ASSUME AtomicsInv, kind = "atomics", NEW t \in Callers, Atm!LoadCount(t) \/ Atm!Swap(t)
  PROVE  AtomicsInv'
<1> DEFINE C == Atm!Count
           F == Atm!Flags
           M == 2^Width
           Pcs == {"idle", "weak", "strong", "value", "exchange",
                   "weak again", "strong again", "exchange again"}
<1>1. M \in Nat \ {0}
  BY StructuresAssumption
<1> HIDE DEF M
<1>2. /\ Memory /\ DOMAIN mem = {C, F} /\ count \in Nat /\ C # F
      /\ Atm!Newest(C) = count % M /\ Atm!Newest(F) = flags
      /\ a_pc \in [Callers -> Pcs]
      /\ kind' = kind /\ flags' = flags
  BY DEF AtomicsInv, Atm!Wrap, M, Atm!LoadCount, Atm!Swap, Atm!Same, Atm!Count, Atm!Flags
<1>0. Memory /\ C \in DOMAIN mem
  BY <1>2
<1>3. ASSUME LoadEffect, UNCHANGED count, a_pc' \in [Callers -> Pcs]
      PROVE  AtomicsInv'
  BY <1>2, <1>3 DEF AtomicsInv, Atm!Wrap, M, LoadEffect
<1>4. ASSUME NEW n \in Nat, WriteEffect(t, C, n % M), count' \in Nat, count' % M = n % M,
             a_pc' \in [Callers -> Pcs]
      PROVE  AtomicsInv'
  BY <1>2, <1>4 DEF AtomicsInv, Atm!Wrap, M, WriteEffect
<1>9. count \in Nat
  BY <1>2
<1>10. count + 1 \in Nat
  BY <1>9
<1>5. CASE Atm!LoadCount(t)
  <2>1. PICK i \in Atm!Readable(t, C), how \in {"weak", "strong", "value", "exchange"} :
          Atm!RelaxedLoad(t, C, i) /\ Atm!Goto(t, how, mem[C][i].val)
    BY <1>5 DEF Atm!LoadCount
  <2>2. LoadEffect
    BY <1>2, <2>1, RelaxedLoadEffect
  <2>3. a_pc' \in [Callers -> Pcs]
    BY <1>2, <2>1 DEF Atm!Goto
  <2>4. count' = count
    BY <1>5 DEF Atm!LoadCount, Atm!Same
  <2> QED BY <1>3, <2>2, <2>3, <2>4
<1>6. CASE Atm!Swap(t)
  <2> DEFINE new == IF a_pc[t] = "exchange" THEN 0 ELSE (arg[t] + 1) % M
             Done == /\ count' = IF a_pc[t] = "exchange" THEN 0 ELSE count + 1
                     /\ Atm!Goto(t, "idle", Atm!Nothing)
  <2>1. \/ \E ok \in BOOLEAN :
             /\ \/ a_pc[t] \in {"weak", "exchange"} /\ Atm!BoolCas(t, C, arg[t], new, TRUE, ok)
                \/ a_pc[t] = "strong" /\ Atm!BoolCas(t, C, arg[t], new, FALSE, ok)
             /\ IF ok THEN Done ELSE count' = count /\ Atm!Goto(t, Atm!Again[a_pc[t]], 0)
        \/ \E ret :
             /\ a_pc[t] = "value" /\ Atm!ValCasStrong(t, C, arg[t], new, ret)
             /\ IF ret = arg[t] THEN Done ELSE count' = count /\ Atm!Goto(t, "value", ret)
        \/ \E how \in {"weak", "strong", "exchange"} :
             /\ count' = count
             /\ \E i \in Atm!Readable(t, C) :
                  Atm!AcquireLoad(t, C, i) /\ Atm!Goto(t, how, mem[C][i].val)
    BY <1>6, Zenon DEF Atm!Swap, Atm!BoolCasWeak, Atm!BoolCasStrong, Atm!Wrap, M
  <2>2. ASSUME NEW p \in Pcs, NEW a, Atm!Goto(t, p, a)
        PROVE  a_pc' \in [Callers -> Pcs]
    BY <1>2, <2>2 DEF Atm!Goto
  <2>3. ASSUME Atm!Newest(C) = arg[t], WriteEffect(t, C, new), Done
        PROVE  AtomicsInv'
    <3>1. a_pc' \in [Callers -> Pcs]
      BY <2>2, <2>3
    <3>2. CASE a_pc[t] = "exchange"
      <4>1. 0 % M = 0
        BY <1>1
      <4> QED BY <1>4, <2>3, <3>1, <3>2, <4>1
    <3>3. CASE a_pc[t] # "exchange"
      <4>0. arg[t] = count % M
        BY <1>2, <2>3
      <4>1. new = ((count % M) + 1) % M /\ count' = count + 1
        BY <4>0, <2>3, <3>3
      <4>2. ((count % M) + 1) % M = (count + 1) % M
        BY <1>1, <1>2, WrapAdd
      <4> HIDE DEF new
      <4>3. new = (count + 1) % M /\ count + 1 \in Nat
        BY <1>10, <4>1, <4>2
      <4> QED BY <1>4, <2>3, <3>1, <4>1, <4>3
    <3> QED BY <3>2, <3>3
  <2> HIDE DEF new, Done
  <2>4. ASSUME NEW ok \in BOOLEAN, NEW weak \in BOOLEAN, a_pc[t] \in {"weak", "strong", "exchange"},
               Atm!BoolCas(t, C, arg[t], new, weak, ok),
               IF ok THEN Done ELSE count' = count /\ Atm!Goto(t, Atm!Again[a_pc[t]], 0)
        PROVE  AtomicsInv'
    <3>1. IF ok THEN Atm!Newest(C) = arg[t] /\ WriteEffect(t, C, new) ELSE LoadEffect
      BY <1>0, <2>4, CasEffect
    <3>2. CASE ok
      BY <2>3, <2>4, <3>1, <3>2
    <3>3. CASE ~ok
      <4>1. Atm!Again[a_pc[t]] \in Pcs
        <5>1. /\ Atm!Again["weak"] = "weak again" /\ Atm!Again["strong"] = "strong again"
              /\ Atm!Again["exchange"] = "exchange again"
          BY DEF Atm!Again
        <5> QED BY <2>4, <5>1
      <4>2. a_pc' \in [Callers -> Pcs]
        BY <2>2, <2>4, <3>3, <4>1
      <4> QED BY <1>3, <2>4, <3>1, <3>3, <4>2
    <3> QED BY <3>2, <3>3
  <2>5. ASSUME NEW ret, Atm!ValCasStrong(t, C, arg[t], new, ret),
               IF ret = arg[t] THEN Done ELSE count' = count /\ Atm!Goto(t, "value", ret)
        PROVE  AtomicsInv'
    <3>1. IF ret = arg[t] THEN Atm!Newest(C) = arg[t] /\ WriteEffect(t, C, new) ELSE LoadEffect
      BY <1>0, <2>5, CasEffect, Zenon
    <3>2. CASE ret = arg[t]
      BY <2>3, <2>5, <3>1, <3>2
    <3>3. CASE ret # arg[t]
      <4>1. a_pc' \in [Callers -> Pcs]
        BY <2>2, <2>5, <3>3
      <4> QED BY <1>3, <2>5, <3>1, <3>3, <4>1
    <3> QED BY <3>2, <3>3
  <2>6. ASSUME NEW how \in {"weak", "strong", "exchange"}, NEW i \in Atm!Readable(t, C),
               Atm!AcquireLoad(t, C, i), Atm!Goto(t, how, mem[C][i].val), count' = count
        PROVE  AtomicsInv'
    <3>1. LoadEffect
      BY <1>2, <2>6, AcquireLoadEffect
    <3>2. a_pc' \in [Callers -> Pcs]
      BY <2>2, <2>6
    <3> QED BY <1>3, <2>6, <3>1, <3>2
  <2>7. ASSUME NEW ok \in BOOLEAN,
               \/ a_pc[t] \in {"weak", "exchange"} /\ Atm!BoolCas(t, C, arg[t], new, TRUE, ok)
               \/ a_pc[t] = "strong" /\ Atm!BoolCas(t, C, arg[t], new, FALSE, ok),
               IF ok THEN Done ELSE count' = count /\ Atm!Goto(t, Atm!Again[a_pc[t]], 0)
        PROVE  AtomicsInv'
    <3>1. CASE a_pc[t] \in {"weak", "exchange"} /\ Atm!BoolCas(t, C, arg[t], new, TRUE, ok)
      <4>1. a_pc[t] \in {"weak", "strong", "exchange"}
        BY <3>1
      <4> QED BY <2>4, <2>7, <3>1, <4>1
    <3>2. CASE a_pc[t] = "strong" /\ Atm!BoolCas(t, C, arg[t], new, FALSE, ok)
      <4>1. a_pc[t] \in {"weak", "strong", "exchange"}
        BY <3>2
      <4> QED BY <2>4, <2>7, <3>2, <4>1
    <3> QED BY <2>7, <3>1, <3>2
  <2>8. CASE \E ok \in BOOLEAN :
             /\ \/ a_pc[t] \in {"weak", "exchange"} /\ Atm!BoolCas(t, C, arg[t], new, TRUE, ok)
                \/ a_pc[t] = "strong" /\ Atm!BoolCas(t, C, arg[t], new, FALSE, ok)
             /\ IF ok THEN Done ELSE count' = count /\ Atm!Goto(t, Atm!Again[a_pc[t]], 0)
    BY <2>7, <2>8
  <2>9. CASE \E ret :
             /\ a_pc[t] = "value" /\ Atm!ValCasStrong(t, C, arg[t], new, ret)
             /\ IF ret = arg[t] THEN Done ELSE count' = count /\ Atm!Goto(t, "value", ret)
    BY <2>5, <2>9
  <2> QED BY <2>1, <2>6, <2>8, <2>9
<1> QED BY <1>5, <1>6

\* Entering: the lock is taken by one thread, which may read what the last one wrote.
LEMMA SpinTakes ==
  ASSUME SpinlockInv, kind = "spinlock", kind' = kind, NEW t \in Callers, ~Inside(t),
         NEW was \in BOOLEAN, Atm!SpinTry(t, Atm!Spin, was),
         Atm!Goto(t, IF was THEN "spin" ELSE "read", 0), UNCHANGED passed
  PROVE  SpinlockInv'
<1> DEFINE S == Atm!Spin
           D == Atm!Data
           Pcs == {"idle", "spin", "try", "read", "write", "leave"}
<1>1. /\ Memory /\ DOMAIN mem = {S, D} /\ S # D /\ a_pc \in [Callers -> Pcs]
      /\ arg = [c \in Callers |-> arg[c]]
  BY DEF SpinlockInv, Atm!Spin, Atm!Data
<1>2. /\ was = Atm!Newest(S) /\ WriteEffect(t, S, TRUE)
      /\ \A k \in DOMAIN mem : k # S => Has(t, k)' \subseteq Sent(S, k)
  BY <1>1, UpdateEffect DEF Atm!SpinTry
<1>3. /\ Memory' /\ DOMAIN mem' = {S, D} /\ Atm!Newest(S)' = TRUE /\ Atm!Newest(D)' = Atm!Newest(D)
      /\ \A c \in Callers : Has(c, D)' \subseteq Has(c, D)
      /\ Has(t, D)' \subseteq Sent(S, D)
  BY <1>1, <1>2 DEF WriteEffect
<1> HIDE DEF S, D
<1>4. /\ a_pc' \in [Callers -> Pcs] /\ arg' = [c \in Callers |-> arg'[c]]
      /\ a_pc'[t] = IF was THEN "spin" ELSE "read"
      /\ \A c \in Callers : c # t => a_pc'[c] = a_pc[c] /\ arg'[c] = arg[c]
  BY <1>1 DEF Atm!Goto
<1>5. /\ \A c \in Callers : c # t => (Inside(c)' <=> Inside(c))
      /\ Inside(t)' <=> ~was
  BY <1>4 DEF Inside
<1>6. /\ passed' \in Nat /\ Atm!Newest(D)' = passed' /\ passed' = passed
      /\ was <=> \E c \in Callers : Inside(c)
      /\ ~was => Sent(S, D) \subseteq {passed}
      /\ \A c \in Callers : Inside(c) => Has(c, D) \subseteq {passed}
      /\ \A c \in Callers : a_pc[c] = "write" => arg[c] = passed
      /\ \A c, d \in Callers : Inside(c) /\ Inside(d) => c = d
  BY <1>2, <1>3 DEF SpinlockInv, S, D
<1>7. /\ \E c \in Callers : Inside(c)'
      /\ \A c, d \in Callers : Inside(c)' /\ Inside(d)' => c = d
      /\ \A c \in Callers : Inside(c)' => Has(c, D)' \subseteq {passed'}
      /\ \A c \in Callers : a_pc'[c] = "write" => arg'[c] = passed'
  BY <1>3, <1>4, <1>5, <1>6
<1> QED BY <1>3, <1>4, <1>6, <1>7 DEF SpinlockInv, S, D

\* Waiting and reading leave memory as it is.
LEMMA SpinLoads ==
  ASSUME SpinlockInv, kind = "spinlock", kind' = kind, NEW t \in Callers, LoadEffect,
         NEW p \in {"idle", "spin", "try", "write"}, NEW a, Atm!Goto(t, p, a),
         Inside(t) <=> p = "write", p = "write" => a = passed, UNCHANGED passed
  PROVE  SpinlockInv'
<1> DEFINE S == Atm!Spin
           D == Atm!Data
           Pcs == {"idle", "spin", "try", "read", "write", "leave"}
<1>1. /\ Memory /\ DOMAIN mem = {S, D} /\ a_pc \in [Callers -> Pcs]
      /\ arg = [c \in Callers |-> arg[c]]
  BY DEF SpinlockInv
<1>2. /\ Memory' /\ DOMAIN mem' = {S, D} /\ Atm!Newest(S)' = Atm!Newest(S)
      /\ Atm!Newest(D)' = Atm!Newest(D)
      /\ \A c \in Callers : Has(c, D)' \subseteq Has(c, D)
      /\ Sent(S, D)' \subseteq Sent(S, D)
  BY <1>1 DEF LoadEffect
<1> HIDE DEF S, D
<1>3. /\ a_pc' \in [Callers -> Pcs] /\ arg' = [c \in Callers |-> arg'[c]]
      /\ a_pc'[t] = p /\ arg'[t] = a
      /\ \A c \in Callers : c # t => a_pc'[c] = a_pc[c] /\ arg'[c] = arg[c]
  BY <1>1 DEF Atm!Goto
<1>4. \A c \in Callers : Inside(c)' <=> Inside(c)
  BY <1>3 DEF Inside
<1>5. /\ passed' \in Nat /\ Atm!Newest(D)' = passed' /\ passed' = passed
      /\ Atm!Newest(S) \in BOOLEAN /\ (Atm!Newest(S) <=> \E c \in Callers : Inside(c))
      /\ ~Atm!Newest(S) => Sent(S, D) \subseteq {passed}
      /\ \A c \in Callers : Inside(c) => Has(c, D) \subseteq {passed}
      /\ \A c \in Callers : a_pc[c] = "write" => arg[c] = passed
      /\ \A c, d \in Callers : Inside(c) /\ Inside(d) => c = d
  BY <1>2 DEF SpinlockInv, S, D
<1>6. Atm!Newest(S)' \in BOOLEAN /\ (Atm!Newest(S)' <=> \E c \in Callers : Inside(c)')
  BY <1>2, <1>4, <1>5
<1>7. /\ ~Atm!Newest(S)' => Sent(S, D)' \subseteq {passed'}
      /\ \A c \in Callers : Inside(c)' => Has(c, D)' \subseteq {passed'}
      /\ \A c, d \in Callers : Inside(c)' /\ Inside(d)' => c = d
  BY <1>2, <1>4, <1>5
<1>8. \A c \in Callers : a_pc'[c] = "write" => arg'[c] = passed'
  BY <1>3, <1>5
<1> QED BY <1>2, <1>3, <1>5, <1>6, <1>7, <1>8 DEF SpinlockInv, S, D

\* The critical section.
LEMMA SectionCounts ==
  ASSUME SpinlockInv, kind = "spinlock", kind' = kind, NEW t \in Callers, Atm!Section(t)
  PROVE  SpinlockInv'
<1> DEFINE S == Atm!Spin
           D == Atm!Data
           Pcs == {"idle", "spin", "try", "read", "write", "leave"}
<1>1. /\ Memory /\ DOMAIN mem = {S, D} /\ S # D /\ a_pc \in [Callers -> Pcs]
      /\ arg = [c \in Callers |-> arg[c]]
  BY DEF SpinlockInv, Atm!Spin, Atm!Data
<1>2. Inside(t) /\ Atm!Newest(S) = TRUE
  BY DEF Inside, SpinlockInv, Atm!Section
<1>3. /\ passed \in Nat /\ Atm!Newest(D) = passed
      /\ \A c \in Callers : Inside(c) => c = t
      /\ Has(t, D) \subseteq {passed}
      /\ \A c \in Callers : a_pc[c] = "write" => arg[c] = passed /\ c = t
  BY <1>2 DEF SpinlockInv, Inside
<1>4. CASE /\ a_pc[t] = "read" /\ UNCHANGED passed
           /\ \E i \in Atm!Readable(t, D) :
                Atm!RelaxedLoad(t, D, i) /\ Atm!Goto(t, "write", mem[D][i].val)
  <2>1. PICK i \in Atm!Readable(t, D) :
                Atm!RelaxedLoad(t, D, i) /\ Atm!Goto(t, "write", mem[D][i].val)
    BY <1>4
  <2>2. LoadEffect /\ mem[D][i].val \in Has(t, D)
    BY <1>1, <2>1, RelaxedLoadEffect
  <2>3. mem[D][i].val = passed
    BY <1>3, <2>2
  <2> HIDE DEF D
  <2> QED BY <1>2, <1>4, <2>1, <2>2, <2>3, SpinLoads
<1>5. CASE /\ a_pc[t] = "write" /\ Atm!RelaxedStore(t, D, arg[t] + 1)
           /\ Atm!Goto(t, "leave", 0) /\ passed' = passed + 1
  <2>1. WriteEffect(t, D, passed') /\ passed' \in Nat
    BY <1>1, <1>3, <1>5, StoreEffect
  <2>2. /\ Memory' /\ DOMAIN mem' = {S, D} /\ Atm!Newest(S)' = TRUE /\ Atm!Newest(D)' = passed'
        /\ Has(t, D)' \subseteq {passed'}
    BY <1>1, <1>2, <2>1 DEF WriteEffect
  <2> HIDE DEF S, D
  <2>3. /\ a_pc' \in [Callers -> Pcs] /\ arg' = [c \in Callers |-> arg'[c]]
        /\ a_pc'[t] = "leave" /\ \A c \in Callers : c # t => a_pc'[c] = a_pc[c]
    BY <1>1, <1>5 DEF Atm!Goto
  <2>4. \A c \in Callers : Inside(c)' <=> Inside(c)
    BY <1>2, <2>3 DEF Inside
  <2>5. \A c \in Callers : a_pc'[c] # "write"
    BY <1>3, <2>3
  <2> QED BY <1>2, <1>3, <2>1, <2>2, <2>3, <2>4, <2>5 DEF SpinlockInv, S, D
<1>6. CASE a_pc[t] = "leave" /\ Atm!SpinRelease(t, S) /\ Atm!Goto(t, "idle", Atm!Nothing)
           /\ UNCHANGED passed
  <2>1. /\ WriteEffect(t, S, FALSE)
        /\ \A k \in DOMAIN mem : k # S => Sent(S, k)' \subseteq Has(t, k)
    BY <1>1, <1>6, StoreEffect DEF Atm!SpinRelease, Atm!ReleaseClear
  <2>2. /\ Memory' /\ DOMAIN mem' = {S, D} /\ Atm!Newest(S)' = FALSE /\ Atm!Newest(D)' = passed
        /\ Sent(S, D)' \subseteq {passed}
    BY <1>1, <1>3, <2>1 DEF WriteEffect
  <2> HIDE DEF S, D
  <2>3. /\ a_pc' \in [Callers -> Pcs] /\ arg' = [c \in Callers |-> arg'[c]]
        /\ a_pc'[t] = "idle" /\ \A c \in Callers : c # t => a_pc'[c] = a_pc[c]
    BY <1>1, <1>6 DEF Atm!Goto
  <2>4. \A c \in Callers : ~Inside(c)'
    BY <1>3, <2>3 DEF Inside
  <2>5. \A c \in Callers : a_pc'[c] # "write"
    BY <2>4 DEF Inside
  <2> QED BY <1>3, <1>6, <2>2, <2>3, <2>4, <2>5 DEF SpinlockInv, S, D
<1> QED BY <1>4, <1>5, <1>6 DEF Atm!Section

\* Nothing moves.
LEMMA MemoryStays ==
  ASSUME UNCHANGED <<mem, seen>>
  PROVE  /\ Memory' <=> Memory
         /\ \A l, k : /\ Atm!Newest(l)' = Atm!Newest(l) /\ Sent(l, k)' = Sent(l, k)
                     /\ \A t : Has(t, l)' = Has(t, l) /\ \A x : Told(l, x, k)' = Told(l, x, k)
<1>1. Memory' <=> Memory
  BY DEF Memory, GoodMem, Atm!At
<1>2. \A l, k : Atm!Newest(l)' = Atm!Newest(l) /\ Sent(l, k)' = Sent(l, k)
  BY DEF Atm!Newest, Sent, Vals, Atm!At
<1>3. \A l, t : Has(t, l)' = Has(t, l)
  BY DEF Has, Vals, Atm!At
<1>4. \A l, k, x : Told(l, x, k)' = Told(l, x, k)
  BY DEF Told, Vals, Atm!At
<1> QED BY <1>1, <1>2, <1>3, <1>4

\* A step of the clients of the atomic operations.
LEMMA ClientsStep ==
  ASSUME AtomicsInv, SpinlockInv, kind' = kind,
         (kind \in {"atomics", "spinlock"} /\ Atm!Next) \/ UNCHANGED atomicVars
  PROVE  AtomicsInv' /\ SpinlockInv'
<1>1. CASE UNCHANGED atomicVars
  <2>1. UNCHANGED <<mem, seen, a_pc, arg, count, flags, passed>>
    BY <1>1 DEF atomicVars
  <2>2. AtomicsInv'
    BY <2>1, MemoryStays DEF AtomicsInv, Atm!Wrap
  <2>3. SpinlockInv'
    BY <2>1, MemoryStays DEF SpinlockInv, Inside
  <2> QED BY <2>2, <2>3
<1>2. ASSUME NEW t \in Callers, Atm!Clients(t), kind = "atomics"
      PROVE  AtomicsInv' /\ SpinlockInv'
  <2>1. a_pc[t] \in {"idle", "weak", "strong", "value", "exchange",
                     "weak again", "strong again", "exchange again"}
    BY <1>2 DEF AtomicsInv
  <2>2. ~Atm!Enter(t) /\ ~Atm!Section(t) /\ ~Atm!StackLoad(t) /\ ~Atm!StackLink(t)
        /\ ~Atm!StackSwap(t)
    BY <1>2, <2>1 DEF Atm!Enter, Atm!Section, Atm!StackLoad, Atm!StackLink, Atm!StackSwap, Atm!Begin
  <2>3. Atm!Arithmetic(t) \/ Atm!LoadCount(t) \/ Atm!Swap(t)
    BY <1>2, <2>2 DEF Atm!Clients
  <2>4. AtomicsInv'
    BY <1>2, <2>3, ArithmeticCounts, SwapCounts
  <2> QED BY <1>2, <2>4 DEF SpinlockInv
<1>3. ASSUME NEW t \in Callers, Atm!Clients(t), kind = "spinlock"
      PROVE  AtomicsInv' /\ SpinlockInv'
  <2>1. a_pc[t] \in {"idle", "spin", "try", "read", "write", "leave"}
    BY <1>3 DEF SpinlockInv
  <2>2. ~Atm!Arithmetic(t) /\ ~Atm!LoadCount(t) /\ ~Atm!StackLoad(t) /\ ~Atm!StackLink(t)
        /\ ~Atm!StackSwap(t)
    BY <1>3, <2>1 DEF Atm!Arithmetic, Atm!LoadCount, Atm!StackLoad, Atm!StackLink, Atm!StackSwap,
                      Atm!Begin
  <2>3. ~Atm!Swap(t)
    <3>1. /\ Atm!Again["weak"] = "weak again" /\ Atm!Again["strong"] = "strong again"
          /\ Atm!Again["exchange"] = "exchange again"
      BY DEF Atm!Again
    <3> QED BY <2>1, <3>1 DEF Atm!Swap
  <2>4. Atm!Enter(t) \/ Atm!Section(t)
    BY <1>3, <2>2, <2>3 DEF Atm!Clients
  <2>5. CASE Atm!Enter(t)
    <3>1. UNCHANGED passed
      BY <2>5 DEF Atm!Enter, Atm!Same
    <3>2. CASE /\ a_pc[t] \in {"idle", "try"}
               /\ \E was \in BOOLEAN : /\ Atm!SpinTry(t, Atm!Spin, was)
                                       /\ Atm!Goto(t, IF was THEN "spin" ELSE "read", 0)
      <4>1. ~Inside(t)
        BY <3>2 DEF Inside
      <4> QED BY <1>3, <3>1, <3>2, <4>1, SpinTakes DEF AtomicsInv
    <3>3. CASE /\ a_pc[t] = "spin"
               /\ \E i \in Atm!Readable(t, Atm!Spin) :
                    /\ Atm!AcquireLoad(t, Atm!Spin, i)
                    /\ Atm!Goto(t, IF mem[Atm!Spin][i].val THEN "spin" ELSE "try", 0)
      <4>1. Memory /\ Atm!Spin \in DOMAIN mem
        BY <1>3 DEF SpinlockInv
      <4>2. PICK i \in Atm!Readable(t, Atm!Spin), p \in {"spin", "try"} :
              Atm!AcquireLoad(t, Atm!Spin, i) /\ Atm!Goto(t, p, 0)
        BY <3>3
      <4>3. LoadEffect
        BY <4>1, <4>2, AcquireLoadEffect
      <4>4. SpinlockInv'
        BY <1>3, <3>1, <3>3, <4>2, <4>3, SpinLoads DEF Inside
      <4> QED BY <1>3, <4>4 DEF AtomicsInv
    <3> QED BY <1>3, <2>5, <3>2, <3>3, SpinTakes DEF Atm!Enter, Atm!Begin, AtomicsInv, Atm!SpinIsLocked
  <2>6. CASE Atm!Section(t)
    BY <1>3, <2>6, SectionCounts DEF AtomicsInv
  <2> QED BY <2>4, <2>5, <2>6
<1> QED BY <1>1, <1>2, <1>3 DEF Atm!Next

------------------------------------------------------------------------------
(* The unit map: what a thread knows of a bucket *)

LockAt(b) == <<"lock", b>>
ListAt(b) == <<"list", b>>
OwnerAt(u) == <<"owner", u>>
UnitAt(e) == <<"unit", e>>
ThreadAt(e) == <<"thread", e>>
NextAt(e) == <<"next", e>>

Bucket(t) == Atm!HashIndex(umUnit[t])
Held == [e \in Elems |-> Atm!Newest(UnitAt(e))]
HasAll(t) == [k \in DOMAIN mem |-> Has(t, k)]
SentAll(l) == [k \in DOMAIN mem |-> Sent(l, k)]

\* The elements of a bucket are s, oldest first: the newest is the head of its list.
LastOf(s) == IF s = <<>> THEN NULL ELSE s[Len(s)]
NextOf(s, i) == IF i = 1 THEN NULL ELSE s[i - 1]

\* With W, the values that may be read of each location: the links of the first j elements are
\* known, ...
KnowsNext(s, W, j) == \A i \in 1..j : W[NextAt(s[i])] \subseteq {NextOf(s, i)}

\* ... everything in bucket b is, ...
KnowsList(s, W, H, b) ==
    /\ W[ListAt(b)] \subseteq {LastOf(s)} /\ KnowsNext(s, W, Len(s))
    /\ \A i \in 1..Len(s) : W[UnitAt(s[i])] \subseteq {H[s[i]]}

\* ... the unit u is nowhere, ...
KnowsFree(W, u) == \A e \in Elems : u \notin W[UnitAt(e)]

\* ... u is in e and nowhere else, ...
OnlyIn(W, u, e) ==
    W[UnitAt(e)] \subseteq {u} /\ \A f \in Elems : f # e => u \notin W[UnitAt(f)]

\* ... and e is element p of its bucket b and holds thread x.
Finds(s, W, u, b, x, p) ==
    /\ W[ListAt(b)] \subseteq {s[j] : j \in p..Len(s)}
    /\ OnlyIn(W, u, s[p]) /\ W[ThreadAt(s[p])] \subseteq {x}

------------------------------------------------------------------------------
(* The unit map: the invariant *)

NewPcs == {"new unit", "new thread", "new next", "publish"}
LockPcs == NewPcs \cup {"map list", "map test", "map next", "reuse unit", "reuse thread",
            "map unlock", "map fail",
            "unmap list", "unmap test", "unmap next", "unmap store", "unmap unlock"}
FreePcs == {"map", "map spin", "map list", "map test", "map next", "reuse unit", "new unit",
            "map fail", "give free", "unmap unlock"}
WrotePcs == {"reuse thread", "new thread", "new next", "publish"}
MappedPcs == {"map unlock", "give pool", "get list", "got", "unmap", "unmap spin", "unmap list"}
WalkPcs == {"get test", "get next", "get thread", "unmap test", "unmap next", "unmap store"}
ThreadPcs == {"map", "map spin", "map list", "map test", "map next", "reuse unit",
              "reuse thread", "new unit", "new thread", "got"}
UmPcs == {"idle"} \cup FreePcs \cup WrotePcs \cup MappedPcs \cup WalkPcs

\* The unit a thread works on is its own.
Works(t) ==
    /\ umPc[t] # "idle" => umUnit[t] \in Units /\ Atm!Newest(OwnerAt(umUnit[t])) = "taken"
    /\ umPc[t] \in ThreadPcs => umThread[t] = mapped[umUnit[t]]

\* In the critical section of its bucket.
InLock(q, t) ==
    /\ umPc[t] \in LockPcs => KnowsList(q[Bucket(t)], HasAll(t), Held, Bucket(t))
    /\ umPc[t] = "map test" => umCur[t] = NULL \/ Listed(q[Bucket(t)], umCur[t])
    /\ umPc[t] \in {"map next", "reuse unit", "reuse thread"} => Listed(q[Bucket(t)], umCur[t])
    /\ umPc[t] = "reuse unit" => Held[umCur[t]] = NULL

\* Mapping a unit.
Maps(q, t) ==
    /\ umPc[t] \in FreePcs => KnowsFree(HasAll(t), umUnit[t])
    /\ umPc[t] \in WrotePcs => OnlyIn(HasAll(t), umUnit[t], umCur[t])
    /\ umPc[t] \in NewPcs => /\ umCur[t] \in Elems \ umFree
                             /\ \A b \in Atm!UmBuckets : ~Listed(q[b], umCur[t])
    /\ umPc[t] = "new unit" => Held[umCur[t]] \notin Units
    /\ umPc[t] \in {"new next", "publish"} =>
         Has(t, ThreadAt(umCur[t])) \subseteq {mapped[umUnit[t]]}
    /\ umPc[t] = "publish" => Has(t, NextAt(umCur[t])) \subseteq {LastOf(q[Bucket(t)])}

\* Looking for a unit that is mapped.
Looks(q, t) ==
    LET s == q[Bucket(t)]
        Found(p) == Finds(s, HasAll(t), umUnit[t], Bucket(t), mapped[umUnit[t]], p)
    IN  /\ umPc[t] \in MappedPcs => \E p \in 1..Len(s) : Found(p)
        /\ umPc[t] \in WalkPcs =>
             \E p \in 1..Len(s) : \E j \in p..Len(s) :
               /\ Found(p) /\ KnowsNext(s, HasAll(t), j) /\ umCur[t] = s[j]
               /\ umPc[t] \in {"get next", "unmap next"} => p # j
               /\ umPc[t] \in {"get thread", "unmap store"} => p = j

\* Threads have units, locks and new elements of their own.
Apart ==
    \A t, c \in Callers : t # c =>
      /\ umPc[t] # "idle" /\ umPc[c] # "idle" => umUnit[t] # umUnit[c]
      /\ umPc[t] \in LockPcs /\ umPc[c] \in LockPcs => Bucket(t) # Bucket(c)
      /\ umPc[t] \in NewPcs /\ umPc[c] \in NewPcs => umCur[t] # umCur[c]

\* An element is in one bucket, once.
Buckets(q) ==
    /\ q \in [Atm!UmBuckets -> Seq(Elems)]
    /\ \A b \in Atm!UmBuckets : Distinct(q[b])
    /\ \A b, c \in Atm!UmBuckets : \A e : Listed(q[b], e) /\ Listed(q[c], e) => b = c
    /\ \A b \in Atm!UmBuckets : \A e : Listed(q[b], e) => e \notin umFree

\* Whoever gets a head from the list gets the links behind it.
Chained(q) ==
    \A b \in Atm!UmBuckets :
      /\ Atm!Newest(ListAt(b)) = LastOf(q[b])
      /\ \A j \in 1..Len(q[b]) : \A i \in 1..j :
           Told(ListAt(b), q[b][j], NextAt(q[b][i])) \subseteq {NextOf(q[b], i)}
      /\ \A e \in Elems : ~Listed(q[b], e) =>
           \A k \in Atm!UnitMapLocs : Told(ListAt(b), e, k) = {}

\* Whoever gets a unit gets what is known of it.
OwnerOf(q, u) ==
    LET s == q[Atm!HashIndex(u)]
    IN  /\ Atm!Newest(OwnerAt(u)) \in {"free", "pool", "taken"}
        /\ Atm!Newest(OwnerAt(u)) = "free" => KnowsFree(SentAll(OwnerAt(u)), u)
        /\ Atm!Newest(OwnerAt(u)) = "pool" =>
             \E p \in 1..Len(s) : Finds(s, SentAll(OwnerAt(u)), u, Atm!HashIndex(u), mapped[u], p)

\* Whoever gets a lock gets its bucket.
LockOf(q, b) ==
    /\ Atm!Newest(LockAt(b)) \in BOOLEAN
    /\ Atm!Newest(LockAt(b)) <=> \E t \in Callers : umPc[t] \in LockPcs /\ Bucket(t) = b
    /\ ~Atm!Newest(LockAt(b)) => KnowsList(q[b], SentAll(LockAt(b)), Held, b)

\* Elements hold units or nothing, but for new ones.
Elements ==
    /\ umFree \subseteq Elems
    /\ \A e \in umFree : Held[e] \notin Units
    /\ \A e \in Elems \ umFree : \/ Held[e] \in Units \cup {NULL}
                                 \/ \E t \in Callers : umPc[t] = "new unit" /\ umCur[t] = e

TableTypes ==
    /\ umPc \in [Callers -> UmPcs] /\ umUnit = [t \in Callers |-> umUnit[t]]
    /\ umThread = [t \in Callers |-> umThread[t]] /\ umCur = [t \in Callers |-> umCur[t]]
    /\ mapped = [u \in Units |-> mapped[u]]
    /\ Memory /\ DOMAIN mem = Atm!UnitMapLocs

TableIs(q) ==
    /\ TableTypes /\ Apart /\ Buckets(q) /\ Chained(q) /\ Elements
    /\ \A u \in Units : OwnerOf(q, u)
    /\ \A b \in Atm!UmBuckets : LockOf(q, b)
    /\ \A t \in Callers : Works(t) /\ InLock(q, t) /\ Maps(q, t) /\ Looks(q, t)

UnitMapInv ==
    kind = "table" =>
      /\ a_pc \in [Callers -> {"idle"}]
      /\ \/ \A t \in Callers : umPc[t] = "end"
         \/ \E q : TableIs(q)

------------------------------------------------------------------------------
(* What a write to one location leaves known *)

\* From V to W, the readers of location l may have got v to read and nothing else.
Grows(V, W, l, v) ==
    \A k \in Atm!UnitMapLocs : W[k] \subseteq V[k] \cup (IF k = l THEN {v} ELSE {})

\* Locations differ when their fields or their indices do.
LEMMA Locations ==
  /\ \A b : /\ LockAt(b)[1] = "lock" /\ LockAt(b)[2] = b
            /\ ListAt(b)[1] = "list" /\ ListAt(b)[2] = b
            /\ b \in Atm!UmBuckets => LockAt(b) \in Atm!UnitMapLocs /\ ListAt(b) \in Atm!UnitMapLocs
  /\ \A u : /\ OwnerAt(u)[1] = "owner" /\ OwnerAt(u)[2] = u
            /\ u \in Units => OwnerAt(u) \in Atm!UnitMapLocs /\ Atm!HashIndex(u) \in Atm!UmBuckets
  /\ \A e : /\ UnitAt(e)[1] = "unit" /\ UnitAt(e)[2] = e
            /\ ThreadAt(e)[1] = "thread" /\ ThreadAt(e)[2] = e
            /\ NextAt(e)[1] = "next" /\ NextAt(e)[2] = e
            /\ e \in Elems => /\ UnitAt(e) \in Atm!UnitMapLocs
                              /\ ThreadAt(e) \in Atm!UnitMapLocs /\ NextAt(e) \in Atm!UnitMapLocs
<1> DEFINE Locs == (({"lock", "list"} \X Atm!UmBuckets) \cup ({"owner"} \X Units))
                      \cup ({"unit", "thread", "next"} \X Elems)
<1>1. Atm!UnitMapLocs = Locs
  BY DEF Atm!UnitMapLocs
<1>2. \A u \in Units : Atm!HashIndex(u) \in Atm!UmBuckets
  BY DEF Atm!UmBuckets
<1>3. \A b : b \in Atm!UmBuckets => LockAt(b) \in Locs /\ ListAt(b) \in Locs
  BY DEF LockAt, ListAt
<1>4. \A u : u \in Units => OwnerAt(u) \in Locs
  BY DEF OwnerAt
<1>5. \A e : e \in Elems => UnitAt(e) \in Locs /\ ThreadAt(e) \in Locs /\ NextAt(e) \in Locs
  BY DEF UnitAt, ThreadAt, NextAt
<1>6. \A b : LockAt(b)[1] = "lock" /\ LockAt(b)[2] = b /\ ListAt(b)[1] = "list" /\ ListAt(b)[2] = b
  BY DEF LockAt, ListAt
<1>7. \A u : OwnerAt(u)[1] = "owner" /\ OwnerAt(u)[2] = u
  BY DEF OwnerAt
<1>8. \A e : /\ UnitAt(e)[1] = "unit" /\ UnitAt(e)[2] = e
             /\ ThreadAt(e)[1] = "thread" /\ ThreadAt(e)[2] = e
             /\ NextAt(e)[1] = "next" /\ NextAt(e)[2] = e
  BY DEF UnitAt, ThreadAt, NextAt
<1> HIDE DEF Locs
<1> QED BY <1>1, <1>2, <1>3, <1>4, <1>5, <1>6, <1>7, <1>8

\* The links.
LEMMA NextKept ==
  ASSUME NEW s \in Seq(Elems), NEW r \in Seq(Elems), NEW V, NEW W, NEW l, NEW v, Grows(V, W, l, v),
         NEW j \in 0..Len(s), KnowsNext(s, V, j), \A f : l = NextAt(f) => ~Listed(s, f),
         r = s \/ \E e \in Elems : r = Append(s, e)
  PROVE  KnowsNext(r, W, j)
<1> SUFFICES ASSUME NEW i \in 1..j PROVE W[NextAt(r[i])] \subseteq {NextOf(r, i)}
  BY DEF KnowsNext
<1>1. /\ i \in 1..Len(s) /\ (i # 1 => i - 1 \in 1..Len(s)) /\ i \in Int
  OBVIOUS
<1>2. \A k \in 1..Len(s) : r[k] = s[k]
  OBVIOUS
<1>3. r[i] = s[i] /\ NextOf(r, i) = NextOf(s, i) /\ s[i] \in Elems /\ Listed(s, s[i])
  BY <1>1, <1>2 DEF NextOf, Listed
<1>4. NextAt(s[i]) \in Atm!UnitMapLocs /\ NextAt(s[i]) # l
  BY <1>3, Locations
<1>5. W[NextAt(s[i])] \subseteq V[NextAt(s[i])]
  BY <1>4 DEF Grows
<1>6. V[NextAt(s[i])] \subseteq {NextOf(s, i)}
  BY DEF KnowsNext
<1> QED BY <1>3, <1>5, <1>6

\* The whole bucket.
LEMMA BucketKept ==
  ASSUME NEW s \in Seq(Elems), NEW V, NEW W, NEW l, NEW v, Grows(V, W, l, v), NEW H, NEW G,
         NEW b \in Atm!UmBuckets, KnowsList(s, V, H, b), l # ListAt(b),
         \A f : l = NextAt(f) \/ l = UnitAt(f) => ~Listed(s, f),
         \A e \in Elems : Listed(s, e) => G[e] = H[e]
  PROVE  KnowsList(s, W, G, b)
<1>1. W[ListAt(b)] \subseteq {LastOf(s)}
  BY Locations DEF Grows, KnowsList
<1>2. KnowsNext(s, W, Len(s))
  <2>1. KnowsNext(s, V, Len(s)) /\ Len(s) \in 0..Len(s)
    BY DEF KnowsList
  <2> QED BY <2>1, NextKept
<1>3. ASSUME NEW i \in 1..Len(s) PROVE W[UnitAt(s[i])] \subseteq {G[s[i]]}
  <2>1. s[i] \in Elems /\ Listed(s, s[i])
    BY DEF Listed
  <2>2. UnitAt(s[i]) \in Atm!UnitMapLocs /\ UnitAt(s[i]) # l
    BY <2>1, Locations
  <2>3. W[UnitAt(s[i])] \subseteq V[UnitAt(s[i])]
    BY <2>2 DEF Grows
  <2>4. V[UnitAt(s[i])] \subseteq {H[s[i]]}
    BY DEF KnowsList
  <2> QED BY <2>1, <2>3, <2>4
<1> QED BY <1>1, <1>2, <1>3 DEF KnowsList

\* A unit that is nowhere.
LEMMA FreeKept ==
  ASSUME NEW V, NEW W, NEW l, NEW v, Grows(V, W, l, v), NEW u, KnowsFree(V, u),
         \A f : l = UnitAt(f) => v # u
  PROVE  KnowsFree(W, u)
<1> SUFFICES ASSUME NEW e \in Elems PROVE u \notin W[UnitAt(e)]
  BY DEF KnowsFree
<1>1. W[UnitAt(e)] \subseteq V[UnitAt(e)] \cup (IF UnitAt(e) = l THEN {v} ELSE {})
  BY Locations DEF Grows
<1> QED BY <1>1 DEF KnowsFree

\* A unit that is in e.
LEMMA OnlyKept ==
  ASSUME NEW V, NEW W, NEW l, NEW v, Grows(V, W, l, v), NEW u, NEW e \in Elems, OnlyIn(V, u, e),
         \A f : l = UnitAt(f) => v # u /\ f # e
  PROVE  OnlyIn(W, u, e)
<1>1. ASSUME NEW f \in Elems
      PROVE  W[UnitAt(f)] \subseteq V[UnitAt(f)] \cup (IF UnitAt(f) = l THEN {v} ELSE {})
  BY Locations DEF Grows
<1>2. W[UnitAt(e)] \subseteq {u}
  BY <1>1 DEF OnlyIn
<1>3. ASSUME NEW f \in Elems, f # e PROVE u \notin W[UnitAt(f)]
  BY <1>1, <1>3 DEF OnlyIn
<1> QED BY <1>2, <1>3 DEF OnlyIn

\* A unit that is in its bucket; the bucket may grow.
LEMMA FindsKept ==
  ASSUME NEW s \in Seq(Elems), NEW r \in Seq(Elems), NEW V, NEW W, NEW l, NEW v, Grows(V, W, l, v),
         NEW u, NEW b \in Atm!UmBuckets, NEW x, NEW p \in 1..Len(s), Finds(s, V, u, b, x, p),
         (r = s /\ l # ListAt(b)) \/ (r = Append(s, v) /\ v \in Elems /\ l = ListAt(b)),
         \A f : l = UnitAt(f) => v # u /\ f # s[p],
         l # ThreadAt(s[p])
  PROVE  p \in 1..Len(r) /\ Finds(r, W, u, b, x, p)
<1>1. s[p] \in Elems /\ r[p] = s[p] /\ p \in 1..Len(r)
  OBVIOUS
<1>2. OnlyIn(W, u, r[p])
  <2>1. OnlyIn(V, u, s[p])
    BY DEF Finds
  <2> QED BY <1>1, <2>1, OnlyKept
<1>3. W[ThreadAt(r[p])] \subseteq {x}
  <2>1. W[ThreadAt(s[p])] \subseteq V[ThreadAt(s[p])]
    BY <1>1, Locations DEF Grows
  <2> QED BY <1>1, <2>1 DEF Finds
<1>4. W[ListAt(b)] \subseteq {r[j] : j \in p..Len(r)}
  <2>1. W[ListAt(b)] \subseteq V[ListAt(b)] \cup (IF ListAt(b) = l THEN {v} ELSE {})
    BY Locations DEF Grows
  <2>2. V[ListAt(b)] \subseteq {s[j] : j \in p..Len(s)}
    BY DEF Finds
  <2>3. CASE r = s /\ l # ListAt(b)
    BY <2>1, <2>2, <2>3
  <2>4. CASE r = Append(s, v) /\ v \in Elems /\ l = ListAt(b)
    <3>1. Len(r) = Len(s) + 1 /\ r[Len(s) + 1] = v /\ \A j \in 1..Len(s) : r[j] = s[j]
      BY <2>4
    <3>2. Len(s) \in Nat /\ p \in Int /\ p >= 1 /\ p <= Len(s)
      OBVIOUS
    <3>3. \A j \in p..Len(s) : j \in p..Len(r) /\ r[j] = s[j]
      BY <3>1, <3>2
    <3>4. {s[j] : j \in p..Len(s)} \subseteq {r[j] : j \in p..Len(r)}
      BY <3>3
    <3>5. v \in {r[j] : j \in p..Len(r)}
      BY <3>1, <3>2
    <3> QED BY <2>1, <2>2, <3>4, <3>5
  <2> QED BY <2>3, <2>4
<1> QED BY <1>1, <1>2, <1>3, <1>4 DEF Finds

------------------------------------------------------------------------------
(* What a step of one thread on its unit leaves to the others *)

\* Everybody may read v of location l now, and there is nothing else to read.
Effect(l, v) ==
    LET New(k) == IF k = l THEN {v} ELSE {}
    IN  /\ Memory' /\ DOMAIN mem' = DOMAIN mem
        /\ \A k \in DOMAIN mem :
             /\ Atm!Newest(k)' = IF k = l THEN v ELSE Atm!Newest(k)
             /\ \A c \in Callers : Has(c, k)' \subseteq Has(c, k) \cup New(k)
             /\ \A n \in DOMAIN mem : n # l => Sent(n, k)' \subseteq Sent(n, k) \cup New(k)
             /\ \A n \in DOMAIN mem : \A x :
                  n # l \/ x # v => Told(n, x, k)' \subseteq Told(n, x, k) \cup New(k)

\* The elements t may write: those of the bucket it has locked, and its new one.
Mine(q, t, e) ==
    \/ umPc[t] \in LockPcs /\ Listed(q[Bucket(t)], e)
    \/ umPc[t] \in NewPcs /\ umCur[t] = e

\* The locations t may write while it works on unit u.
Writes(q, t, u, l, v) ==
    \/ l = OwnerAt(u)
    \/ l = LockAt(Atm!HashIndex(u))
    \/ \E e \in Elems \ umFree :
         /\ Mine(q, t, e)
         /\ \/ l = UnitAt(e) /\ v \in {u, NULL} /\ Held[e] \notin Units \ {u}
            \/ l = ThreadAt(e) /\ Held[e] = u
            \/ l = NextAt(e) /\ umPc[t] \in NewPcs /\ umCur[t] = e

\* The new element becomes the head of its list.
Puts(q, r, t, l, v) ==
    /\ umPc[t] = "publish" /\ l = ListAt(Bucket(t)) /\ v = umCur[t]
    /\ r = [q EXCEPT ![Bucket(t)] = Append(q[Bucket(t)], v)]

OthersStay(t, u) ==
    /\ \A c \in Callers \ {t} : /\ umPc'[c] = umPc[c] /\ umUnit'[c] = umUnit[c]
                                /\ umThread'[c] = umThread[c] /\ umCur'[c] = umCur[c]
    /\ umFree' \subseteq umFree
    /\ \A w \in Units \ {u} : mapped'[w] = mapped[w]

StepOf(q, r, t, u, l, v) ==
    /\ Effect(l, v) /\ OthersStay(t, u)
    /\ u \in Units
    /\ Atm!Newest(OwnerAt(u)) # "taken" \/ (umPc[t] # "idle" /\ umUnit[t] = u)
    /\ (r = q /\ Writes(q, t, u, l, v)) \/ Puts(q, r, t, l, v)

\* The elements t writes are nobody else's.
LEMMA MineAlone ==
  ASSUME NEW q, TableIs(q), NEW t \in Callers, NEW e, Mine(q, t, e)
  PROVE  /\ \A c \in Callers \ {t} : umPc[c] \in LockPcs => ~Listed(q[Bucket(c)], e)
         /\ \A c \in Callers \ {t} : umPc[c] \in NewPcs => umCur[c] # e
         /\ umPc[t] \in NewPcs /\ umCur[t] = e => \A b \in Atm!UmBuckets : ~Listed(q[b], e)
<1>1. /\ \A c \in Callers : umPc[c] \in LockPcs => Bucket(c) \in Atm!UmBuckets
      /\ \A c \in Callers : umPc[c] \in NewPcs =>
           umPc[c] \in LockPcs /\ \A b \in Atm!UmBuckets : ~Listed(q[b], umCur[c])
  <2>1. \A c \in Callers : umPc[c] \in LockPcs => umUnit[c] \in Units
    BY DEF TableIs, Works, LockPcs, NewPcs
  <2>2. \A c \in Callers : umPc[c] \in LockPcs => Bucket(c) \in Atm!UmBuckets
    BY <2>1, Locations DEF Bucket
  <2>3. \A c \in Callers : umPc[c] \in NewPcs => \A b \in Atm!UmBuckets : ~Listed(q[b], umCur[c])
    BY DEF TableIs, Maps
  <2> QED BY <2>2, <2>3 DEF LockPcs
<1>2. ASSUME NEW c \in Callers \ {t}
      PROVE  /\ umPc[c] \in LockPcs /\ umPc[t] \in LockPcs => Bucket(c) # Bucket(t)
             /\ umPc[c] \in NewPcs /\ umPc[t] \in NewPcs => umCur[c] # umCur[t]
  BY DEF TableIs, Apart
<1>3. \A b, d \in Atm!UmBuckets : Listed(q[b], e) /\ Listed(q[d], e) => b = d
  BY DEF TableIs, Buckets
<1> QED BY <1>1, <1>2, <1>3 DEF Mine

\* The buckets after the step.
LEMMA BucketsAfter ==
  ASSUME NEW q, NEW r, TableIs(q), NEW t \in Callers, NEW u, NEW l, NEW v, StepOf(q, r, t, u, l, v)
  PROVE  /\ r \in [Atm!UmBuckets -> Seq(Elems)] /\ q \in [Atm!UmBuckets -> Seq(Elems)]
         /\ \A b \in Atm!UmBuckets :
              \/ r[b] = q[b] /\ l # ListAt(b)
              \/ /\ r[b] = Append(q[b], v) /\ v \in Elems /\ l = ListAt(b)
                 /\ umPc[t] = "publish" /\ b = Bucket(t) /\ v = umCur[t]
<1>1. q \in [Atm!UmBuckets -> Seq(Elems)]
  BY DEF TableIs, Buckets
<1>2. CASE r = q /\ Writes(q, t, u, l, v)
  <2>1. \A b : l # ListAt(b)
    BY <1>2, Locations DEF Writes
  <2> QED BY <1>1, <1>2, <2>1
<1>3. CASE Puts(q, r, t, l, v)
  <2>1. umUnit[t] \in Units /\ umCur[t] \in Elems
    BY <1>3 DEF Puts, TableIs, Works, Maps, NewPcs
  <2>2. Bucket(t) \in Atm!UmBuckets /\ v \in Elems
    BY <1>3, <2>1, Locations DEF Bucket, Puts
  <2>3. \A b : l = ListAt(b) <=> b = Bucket(t)
    BY <1>3, Locations DEF Puts
  <2>4. Append(q[Bucket(t)], v) \in Seq(Elems)
    BY <1>1, <2>2
  <2>5. r \in [Atm!UmBuckets -> Seq(Elems)]
    BY <1>1, <1>3, <2>2, <2>4 DEF Puts
  <2> QED BY <1>1, <1>3, <2>2, <2>3, <2>5 DEF Puts
<1> QED BY <1>1, <1>2, <1>3 DEF StepOf

\* What the step does not touch.
Untouched(q, t, u, l, v) ==
    /\ \A f : l = UnitAt(f) =>
         /\ v \in {u, NULL} /\ v \notin Units \ {u} /\ f \in Elems \ umFree
         /\ Held[f] \notin Units \ {u} /\ Mine(q, t, f)
    /\ \A f : l = ThreadAt(f) => f \in Elems \ umFree /\ Held[f] = u /\ Mine(q, t, f)
    /\ \A f : l = NextAt(f) => Mine(q, t, f) /\ \A b \in Atm!UmBuckets : ~Listed(q[b], f)
    /\ \A w : l = OwnerAt(w) => w = u
    /\ \A b : l = LockAt(b) => b = Atm!HashIndex(u)

\* A step that makes room for nothing else leaves all that alone.
LEMMA HandsOff ==
  ASSUME NEW q, NEW r, TableIs(q), NEW t \in Callers, NEW u, NEW l, NEW v, StepOf(q, r, t, u, l, v)
  PROVE  Untouched(q, t, u, l, v)
<1>1. NULL \notin Units
  BY StructuresAssumption
<1>2. CASE r = q /\ Writes(q, t, u, l, v)
  <2>1. \A f : l = UnitAt(f) => /\ v \in {u, NULL} /\ f \in Elems \ umFree /\ Mine(q, t, f)
                                /\ Held[f] \notin Units \ {u}
    BY <1>2, Locations DEF Writes
  <2>2. \A f : l = ThreadAt(f) => f \in Elems \ umFree /\ Held[f] = u /\ Mine(q, t, f)
    BY <1>2, Locations DEF Writes
  <2>3. \A f : l = NextAt(f) => Mine(q, t, f) /\ umPc[t] \in NewPcs /\ umCur[t] = f
    BY <1>2, Locations DEF Writes
  <2>4. \A w : l = OwnerAt(w) => w = u
    BY <1>2, Locations DEF Writes
  <2>5. \A b : l = LockAt(b) => b = Atm!HashIndex(u)
    BY <1>2, Locations DEF Writes
  <2>6. \A f : l = NextAt(f) => Mine(q, t, f) /\ \A b \in Atm!UmBuckets : ~Listed(q[b], f)
    BY <2>3, MineAlone
  <2>7. \A f : l = UnitAt(f) => /\ v \in {u, NULL} /\ v \notin Units \ {u} /\ f \in Elems \ umFree
                                /\ Held[f] \notin Units \ {u} /\ Mine(q, t, f)
    BY <1>1, <2>1
  <2> QED BY <2>2, <2>4, <2>5, <2>6, <2>7 DEF Untouched
<1>3. CASE Puts(q, r, t, l, v)
  BY <1>3, Locations DEF Puts, Untouched
<1> QED BY <1>2, <1>3 DEF StepOf

\* What everybody knows grows by the write, as does what the newest messages say.
LEMMA EffectGrows ==
  ASSUME Memory, DOMAIN mem = Atm!UnitMapLocs, NEW l, NEW v, Effect(l, v)
  PROVE  /\ \A c \in Callers : Grows(HasAll(c), HasAll(c)', l, v)
         /\ \A n \in Atm!UnitMapLocs : n # l => Grows(SentAll(n), SentAll(n)', l, v)
         /\ \A e \in Elems : Held'[e] = IF l = UnitAt(e) THEN v ELSE Held[e]
<1>1. \A k \in Atm!UnitMapLocs :
        /\ \A c \in Callers : HasAll(c)[k] = Has(c, k) /\ HasAll(c)'[k] = Has(c, k)'
        /\ \A n : SentAll(n)[k] = Sent(n, k) /\ SentAll(n)'[k] = Sent(n, k)'
  BY DEF HasAll, SentAll, Effect
<1>2. \A e \in Elems : /\ UnitAt(e) \in Atm!UnitMapLocs
                       /\ Held[e] = Atm!Newest(UnitAt(e)) /\ Held'[e] = Atm!Newest(UnitAt(e))'
  BY Locations DEF Held
<1>3. ASSUME NEW c \in Callers PROVE Grows(HasAll(c), HasAll(c)', l, v)
  BY <1>1 DEF Grows, Effect
<1>4. ASSUME NEW n \in Atm!UnitMapLocs, n # l PROVE Grows(SentAll(n), SentAll(n)', l, v)
  BY <1>1, <1>4 DEF Grows, Effect
<1>5. \A e \in Elems : Held'[e] = IF l = UnitAt(e) THEN v ELSE Held[e]
  BY <1>2 DEF Effect
<1> QED BY <1>3, <1>4, <1>5

\* Another thread's unit is another one.
LEMMA OtherUnit ==
  ASSUME NEW q, NEW r, TableIs(q), NEW t \in Callers, NEW u, NEW l, NEW v, StepOf(q, r, t, u, l, v),
         NEW c \in Callers \ {t}
  PROVE  /\ umPc'[c] = umPc[c] /\ umUnit'[c] = umUnit[c] /\ umThread'[c] = umThread[c]
         /\ umCur'[c] = umCur[c] /\ Bucket(c)' = Bucket(c)
         /\ umPc[c] # "idle" => /\ umUnit[c] \in Units /\ umUnit[c] # u
                                /\ mapped'[umUnit[c]] = mapped[umUnit[c]]
                                /\ Bucket(c) \in Atm!UmBuckets
<1>1. /\ umPc'[c] = umPc[c] /\ umUnit'[c] = umUnit[c] /\ umThread'[c] = umThread[c]
      /\ umCur'[c] = umCur[c]
  BY DEF StepOf, OthersStay
<1>2. Bucket(c)' = Bucket(c)
  BY <1>1 DEF Bucket
<1>3. ASSUME umPc[c] # "idle"
      PROVE  umUnit[c] \in Units /\ umUnit[c] # u
  <2>1. umUnit[c] \in Units /\ Atm!Newest(OwnerAt(umUnit[c])) = "taken"
    BY <1>3 DEF TableIs, Works
  <2>2. umPc[t] # "idle" => umUnit[c] # umUnit[t]
    BY <1>3 DEF TableIs, Apart
  <2> QED BY <2>1, <2>2 DEF StepOf
<1>4. umPc[c] # "idle" => Bucket(c) \in Atm!UmBuckets /\ mapped'[umUnit[c]] = mapped[umUnit[c]]
  <2>1. umPc[c] # "idle" => umUnit[c] \in Units \ {u}
    BY <1>3
  <2> QED BY <2>1, Locations DEF Bucket, StepOf, OthersStay
<1> QED BY <1>1, <1>2, <1>3, <1>4

\* What another thread knows about its unit and its bucket stays true.
LEMMA WorkerStays ==
  ASSUME NEW q, NEW r, TableIs(q), NEW t \in Callers, NEW u, NEW l, NEW v, StepOf(q, r, t, u, l, v),
         NEW c \in Callers \ {t}
  PROVE  Works(c)' /\ InLock(r, c)' /\ Maps(r, c)' /\ Looks(r, c)'
<1> DEFINE w == umUnit[c]
           b == Bucket(c)
           s == q[b]
<1>1. /\ umPc'[c] = umPc[c] /\ umUnit'[c] = w /\ umThread'[c] = umThread[c]
      /\ umCur'[c] = umCur[c] /\ Bucket(c)' = b
      /\ umPc[c] # "idle" => w \in Units /\ w # u /\ mapped'[w] = mapped[w] /\ b \in Atm!UmBuckets
  BY OtherUnit
<1>2. /\ r \in [Atm!UmBuckets -> Seq(Elems)] /\ q \in [Atm!UmBuckets -> Seq(Elems)]
      /\ \A d \in Atm!UmBuckets :
           \/ r[d] = q[d] /\ l # ListAt(d)
           \/ /\ r[d] = Append(q[d], v) /\ v \in Elems /\ l = ListAt(d)
              /\ umPc[t] = "publish" /\ d = Bucket(t) /\ v = umCur[t]
  BY BucketsAfter
<1>3. /\ \A f : l = UnitAt(f) => v \notin Units \ {u} /\ f \in Elems \ umFree /\ Held[f] \notin Units \ {u}
      /\ \A f : l = ThreadAt(f) => f \in Elems \ umFree /\ Held[f] = u
      /\ \A f : l = NextAt(f) => \A d \in Atm!UmBuckets : ~Listed(q[d], f)
      /\ \A f : l = UnitAt(f) \/ l = NextAt(f) => Mine(q, t, f)
      /\ \A f : l = ThreadAt(f) => Mine(q, t, f)
      /\ \A d : l = OwnerAt(d) => d = u
  <2>1. Untouched(q, t, u, l, v)
    BY HandsOff
  <2> QED BY <2>1 DEF Untouched
<1>4. /\ Grows(HasAll(c), HasAll(c)', l, v)
      /\ \A e \in Elems : Held'[e] = IF l = UnitAt(e) THEN v ELSE Held[e]
      /\ Memory /\ Memory' /\ DOMAIN mem = Atm!UnitMapLocs /\ DOMAIN mem' = DOMAIN mem
  <2>1. Memory /\ DOMAIN mem = Atm!UnitMapLocs /\ Effect(l, v)
    BY DEF TableIs, TableTypes, StepOf
  <2>2. Memory' /\ DOMAIN mem' = DOMAIN mem
    BY <2>1 DEF Effect
  <2> QED BY <2>1, <2>2, EffectGrows
<1>5. ASSUME NEW f, l = UnitAt(f) \/ l = NextAt(f) \/ l = ThreadAt(f)
      PROVE  /\ umPc[c] \in LockPcs => ~Listed(s, f)
             /\ umPc[c] \in NewPcs => umCur[c] # f
  <2>1. Mine(q, t, f)
    BY <1>3, <1>5
  <2> QED BY <2>1, MineAlone
<1>6. Works(c) /\ InLock(q, c) /\ Maps(q, c) /\ Looks(q, c)
  BY DEF TableIs
<1>7. \A k \in Atm!UnitMapLocs : HasAll(c)[k] = Has(c, k) /\ HasAll(c)'[k] = Has(c, k)'
  BY <1>4 DEF HasAll
<1>8. umPc[c] \in LockPcs => r[b] = s /\ l # ListAt(b)
  <2>1. umPc[c] \in LockPcs /\ umPc[t] = "publish" => Bucket(t) # b
    BY DEF TableIs, Apart, LockPcs, NewPcs
  <2>2. umPc[c] \in LockPcs => umPc[c] # "idle"
    BY DEF LockPcs, NewPcs
  <2> QED BY <1>1, <1>2, <2>1, <2>2
<1>13. \A k \in Atm!UnitMapLocs : Atm!Newest(k)' = IF k = l THEN v ELSE Atm!Newest(k)
  BY <1>4 DEF StepOf, Effect
<1>14. \A k \in Atm!UnitMapLocs : k # l => Has(c, k)' \subseteq Has(c, k)
  BY <1>4, <1>7 DEF Grows
<1>9. Works(c)'
  <2>1. ASSUME umPc[c] # "idle" PROVE Atm!Newest(OwnerAt(umUnit[c]))' = "taken"
    <3>1. OwnerAt(w) \in Atm!UnitMapLocs /\ l # OwnerAt(w)
      BY <1>1, <1>3, <2>1, Locations
    <3>2. Atm!Newest(OwnerAt(w)) = "taken"
      BY <1>6, <2>1 DEF Works
    <3>3. \A k : k = OwnerAt(w) => Atm!Newest(k)' = "taken"
      BY <1>13, <3>1, <3>2
    <3>4. OwnerAt(umUnit'[c]) = OwnerAt(w)
      BY <1>1
    <3> QED BY <3>3, <3>4
  <2>2. umPc[c] \in ThreadPcs => umPc[c] # "idle"
    BY DEF ThreadPcs
  <2>3. umPc[c] \in ThreadPcs => umThread[c] = mapped[w]
    BY <1>6 DEF Works
  <2> QED BY <1>1, <2>1, <2>2, <2>3 DEF Works
<1>10. InLock(r, c)'
  <2>1. ASSUME umPc[c] \in LockPcs PROVE KnowsList(r[b], HasAll(c)', Held', b)
    <3>1. KnowsList(s, HasAll(c), Held, b)
      BY <1>6, <2>1 DEF InLock
    <3>2. umPc[c] # "idle"
      BY <2>1 DEF LockPcs, NewPcs
    <3>3. s \in Seq(Elems) /\ b \in Atm!UmBuckets
      BY <1>1, <1>2, <3>2
    <3>4. \A f : l = NextAt(f) \/ l = UnitAt(f) => ~Listed(s, f)
      BY <1>5, <2>1
    <3>5. \A e \in Elems : Listed(s, e) => Held'[e] = Held[e]
      BY <1>4, <3>4
    <3>6. KnowsList(s, HasAll(c)', Held', b)
      <4> HIDE DEF s, b
      <4> QED BY <1>4, <1>8, <2>1, <3>1, <3>3, <3>4, <3>5, BucketKept
    <3> QED BY <1>8, <2>1, <3>6
  <2>2. /\ umPc[c] = "map test" => umCur[c] = NULL \/ Listed(s, umCur[c])
        /\ umPc[c] \in {"map next", "reuse unit", "reuse thread"} => Listed(s, umCur[c])
    BY <1>6 DEF InLock
  <2>3. umPc[c] \in {"map test", "map next", "reuse unit", "reuse thread"} =>
           umPc[c] \in LockPcs
    BY DEF LockPcs
  <2>4. umPc[c] = "reuse unit" => Held'[umCur[c]] = NULL
    <3>1. ASSUME umPc[c] = "reuse unit" PROVE Held'[umCur[c]] = NULL
      <4>1. Held[umCur[c]] = NULL /\ Listed(s, umCur[c]) /\ umPc[c] \in LockPcs /\ umPc[c] # "idle"
        BY <1>6, <3>1 DEF InLock, LockPcs
      <4>2. umCur[c] \in Elems
        BY <1>1, <1>2, <4>1, ListedType
      <4>3. l # UnitAt(umCur[c])
        BY <1>5, <4>1
      <4> QED BY <1>4, <4>1, <4>2, <4>3
    <3> QED BY <3>1
  <2> HIDE DEF w, b, s
  <2> QED BY <1>1, <1>8, <2>1, <2>2, <2>3, <2>4 DEF InLock
<1>11. Maps(r, c)'
  <2>1. \A f : l = UnitAt(f) => v # w \/ umPc[c] = "idle"
    BY <1>1, <1>3
  <2>2. umPc[c] \in FreePcs => KnowsFree(HasAll(c)', w)
    <3>1. umPc[c] \in FreePcs => KnowsFree(HasAll(c), w) /\ umPc[c] # "idle"
      BY <1>6 DEF Maps, FreePcs
    <3> HIDE DEF w
    <3> QED BY <1>4, <2>1, <3>1, FreeKept
  <2>3. ASSUME umPc[c] \in WrotePcs PROVE OnlyIn(HasAll(c)', w, umCur[c])
    <3>1. OnlyIn(HasAll(c), w, umCur[c]) /\ umPc[c] # "idle" /\ umPc[c] \in LockPcs
      BY <1>6, <2>3 DEF Maps, WrotePcs, LockPcs, NewPcs
    <3>2. umPc[c] = "reuse thread" \/ umPc[c] \in NewPcs
      BY <2>3 DEF WrotePcs, NewPcs
    <3>3. \A f : l = UnitAt(f) => f # umCur[c]
      <4>1. umPc[c] = "reuse thread" => Listed(s, umCur[c])
        BY <1>6 DEF InLock
      <4> QED BY <1>5, <3>1, <3>2, <4>1
    <3>4. umCur[c] \in Elems
      <4>1. CASE umPc[c] = "reuse thread"
        <5>1. Listed(s, umCur[c])
          BY <1>6, <4>1 DEF InLock
        <5> QED BY <1>1, <1>2, <3>1, <5>1, ListedType
      <4>2. CASE umPc[c] \in NewPcs
        BY <1>6, <4>2 DEF Maps
      <4> QED BY <3>2, <4>1, <4>2
    <3> HIDE DEF w
    <3> QED BY <1>4, <2>1, <3>1, <3>3, <3>4, OnlyKept
  <2>4. ASSUME umPc[c] \in NewPcs
        PROVE  /\ umCur[c] \in Elems \ umFree'
               /\ \A d \in Atm!UmBuckets : ~Listed(r[d], umCur[c])
               /\ l # UnitAt(umCur[c]) /\ l # ThreadAt(umCur[c]) /\ l # NextAt(umCur[c])
    <3>1. umCur[c] \in Elems \ umFree /\ \A d \in Atm!UmBuckets : ~Listed(q[d], umCur[c])
      BY <1>6, <2>4 DEF Maps
    <3>2. umFree' \subseteq umFree
      BY DEF StepOf, OthersStay
    <3>3. l # UnitAt(umCur[c]) /\ l # ThreadAt(umCur[c]) /\ l # NextAt(umCur[c])
      BY <1>5, <2>4
    <3>4. umPc[t] = "publish" => umCur[t] # umCur[c]
      BY <2>4 DEF TableIs, Apart, NewPcs
    <3>5. ASSUME NEW d \in Atm!UmBuckets PROVE ~Listed(r[d], umCur[c])
      <4>1. CASE r[d] = q[d]
        BY <3>1, <4>1
      <4>2. CASE r[d] = Append(q[d], v) /\ v # umCur[c]
        <5>1. \A i \in 1..Len(r[d]) : r[d][i] = IF i <= Len(q[d]) THEN q[d][i] ELSE v
          BY <1>2, <4>2
        <5>2. Len(q[d]) \in Nat /\ \A i \in 1..Len(r[d]) : i <= Len(q[d]) => i \in 1..Len(q[d])
          BY <1>2
        <5> QED BY <3>1, <4>2, <5>1, <5>2 DEF Listed
      <4> QED BY <1>2, <3>4, <4>1, <4>2
    <3> QED BY <3>1, <3>2, <3>3, <3>5
  <2>5. umPc[c] = "new unit" => Held'[umCur[c]] \notin Units
    <3>1. umPc[c] = "new unit" => Held[umCur[c]] \notin Units
      BY <1>6 DEF Maps
    <3> QED BY <1>4, <2>4, <3>1 DEF NewPcs
  <2>6. umPc[c] \in {"new next", "publish"} =>
          Has(c, ThreadAt(umCur[c]))' \subseteq {mapped[w]}
    <3>1. umPc[c] \in {"new next", "publish"} => Has(c, ThreadAt(umCur[c])) \subseteq {mapped[w]}
      BY <1>6 DEF Maps
    <3>2. umPc[c] \in {"new next", "publish"} =>
            ThreadAt(umCur[c]) \in Atm!UnitMapLocs /\ l # ThreadAt(umCur[c])
      BY <2>4, Locations DEF NewPcs
    <3>3. umPc[c] \in {"new next", "publish"} =>
            Has(c, ThreadAt(umCur[c]))' \subseteq Has(c, ThreadAt(umCur[c]))
      BY <1>1, <1>14, <3>2
    <3> QED BY <3>1, <3>3
  <2>7. umPc[c] = "publish" => Has(c, NextAt(umCur[c]))' \subseteq {LastOf(s)}
    <3>1. umPc[c] = "publish" => Has(c, NextAt(umCur[c])) \subseteq {LastOf(s)}
      BY <1>6 DEF Maps
    <3>2. umPc[c] = "publish" => NextAt(umCur[c]) \in Atm!UnitMapLocs /\ l # NextAt(umCur[c])
      BY <2>4, Locations DEF NewPcs
    <3>3. umPc[c] = "publish" => Has(c, NextAt(umCur[c]))' \subseteq Has(c, NextAt(umCur[c]))
      BY <1>1, <1>14, <3>2
    <3> QED BY <3>1, <3>3
  <2>8. /\ umPc[c] \in FreePcs \cup WrotePcs \cup NewPcs \cup {"new next", "publish"} => umPc[c] # "idle"
        /\ umPc[c] = "publish" => umPc[c] \in LockPcs
    BY DEF FreePcs, WrotePcs, NewPcs, LockPcs
  <2> HIDE DEF w, b, s
  <2> QED BY <1>1, <1>8, <2>2, <2>3, <2>4, <2>5, <2>6, <2>7, <2>8 DEF Maps
<1>12. Looks(r, c)'
  <2>1. ASSUME umPc[c] # "idle", NEW p \in 1..Len(s),
               Finds(s, HasAll(c), w, b, mapped[w], p)
        PROVE  p \in 1..Len(r[b]) /\ Finds(r[b], HasAll(c)', w, b, mapped'[w], p)
    <3>1. s \in Seq(Elems) /\ r[b] \in Seq(Elems) /\ b \in Atm!UmBuckets /\ s[p] \in Elems
      BY <1>1, <1>2, <2>1
    <3>2. Held[s[p]] = w
      <4>1. HasAll(c)[UnitAt(s[p])] \subseteq {w}
        BY <2>1 DEF Finds, OnlyIn
      <4>2. UnitAt(s[p]) \in Atm!UnitMapLocs /\ Held[s[p]] = Atm!Newest(UnitAt(s[p]))
        BY <3>1, Locations DEF Held
      <4>3. Atm!Newest(UnitAt(s[p])) \in Has(c, UnitAt(s[p]))
        BY <1>4, <4>2, NewestHas
      <4> QED BY <1>7, <4>1, <4>2, <4>3
    <3>3. (\A f : l = UnitAt(f) => v # w /\ f # s[p]) /\ l # ThreadAt(s[p])
      BY <1>1, <1>3, <2>1, <3>2
    <3>4. (r[b] = s /\ l # ListAt(b)) \/ (r[b] = Append(s, v) /\ v \in Elems /\ l = ListAt(b))
      BY <1>2, <3>1
    <3>5. mapped'[w] = mapped[w]
      BY <1>1, <2>1
    <3> HIDE DEF w, b, s
    <3> QED BY <1>4, <2>1, <3>1, <3>3, <3>4, <3>5, FindsKept
  <2>2. umPc[c] \in MappedPcs => \E p \in 1..Len(s) : Finds(s, HasAll(c), w, b, mapped[w], p)
    BY <1>6 DEF Looks
  <2>3. umPc[c] \in WalkPcs =>
             \E p \in 1..Len(s) : \E j \in p..Len(s) :
               /\ Finds(s, HasAll(c), w, b, mapped[w], p) /\ KnowsNext(s, HasAll(c), j)
               /\ umCur[c] = s[j]
               /\ umPc[c] \in {"get next", "unmap next"} => p # j
               /\ umPc[c] \in {"get thread", "unmap store"} => p = j
    BY <1>6 DEF Looks
  <2>4. umPc[c] \in MappedPcs \cup WalkPcs => umPc[c] # "idle"
    BY DEF MappedPcs, WalkPcs
  <2>5. ASSUME umPc[c] # "idle", NEW j \in 1..Len(s), KnowsNext(s, HasAll(c), j)
        PROVE  j \in 1..Len(r[b]) /\ KnowsNext(r[b], HasAll(c)', j) /\ r[b][j] = s[j]
    <3>1. s \in Seq(Elems) /\ r[b] \in Seq(Elems) /\ b \in Atm!UmBuckets
      BY <1>1, <1>2, <2>5
    <3>2. r[b] = s \/ \E e \in Elems : r[b] = Append(s, e)
      BY <1>2, <3>1
    <3>3. \A f : l = NextAt(f) => ~Listed(s, f)
      BY <1>3, <3>1
    <3>4. j \in 0..Len(s)
      OBVIOUS
    <3>5. j \in 1..Len(r[b]) /\ r[b][j] = s[j]
      <4> HIDE DEF s, b
      <4> QED BY <3>1, <3>2, <2>5
    <3> HIDE DEF w, b, s
    <3> QED BY <1>4, <2>5, <3>1, <3>2, <3>3, <3>4, <3>5, NextKept
  <2>6. umPc[c] \in MappedPcs => \E p \in 1..Len(r[b]) : Finds(r[b], HasAll(c)', w, b, mapped'[w], p)
    <3> HIDE DEF w, b, s
    <3> QED BY <2>1, <2>2, <2>4
  <2>7. ASSUME umPc[c] \in WalkPcs
        PROVE \E p \in 1..Len(r[b]) : \E j \in p..Len(r[b]) :
               /\ Finds(r[b], HasAll(c)', w, b, mapped'[w], p) /\ KnowsNext(r[b], HasAll(c)', j)
               /\ umCur[c] = r[b][j]
               /\ umPc[c] \in {"get next", "unmap next"} => p # j
               /\ umPc[c] \in {"get thread", "unmap store"} => p = j
    <3>0. b \in Atm!UmBuckets
      BY <1>1, <2>4, <2>7
    <3>1. Len(s) \in Nat /\ Len(r[b]) \in Nat
      BY <1>2, <3>0
    <3> HIDE DEF w, b, s
    <3>8. PICK p \in 1..Len(s) : \E j \in p..Len(s) :
               /\ Finds(s, HasAll(c), w, b, mapped[w], p) /\ KnowsNext(s, HasAll(c), j)
               /\ umCur[c] = s[j]
               /\ umPc[c] \in {"get next", "unmap next"} => p # j
               /\ umPc[c] \in {"get thread", "unmap store"} => p = j
      BY <2>3, <2>7
    <3>2. PICK j \in p..Len(s) :
               /\ Finds(s, HasAll(c), w, b, mapped[w], p) /\ KnowsNext(s, HasAll(c), j)
               /\ umCur[c] = s[j]
               /\ umPc[c] \in {"get next", "unmap next"} => p # j
               /\ umPc[c] \in {"get thread", "unmap store"} => p = j
      BY <3>8
    <3>3. j \in 1..Len(s)
      BY <3>1
    <3>4. p \in 1..Len(r[b]) /\ Finds(r[b], HasAll(c)', w, b, mapped'[w], p)
      BY <2>1, <2>4, <2>7, <3>2
    <3>5. j \in 1..Len(r[b]) /\ KnowsNext(r[b], HasAll(c)', j) /\ r[b][j] = s[j]
      BY <2>4, <2>5, <2>7, <3>2, <3>3
    <3>6. j \in p..Len(r[b])
      BY <3>1, <3>4, <3>5
    <3>7. /\ Finds(r[b], HasAll(c)', w, b, mapped'[w], p) /\ KnowsNext(r[b], HasAll(c)', j)
          /\ umCur[c] = r[b][j]
          /\ umPc[c] \in {"get next", "unmap next"} => p # j
          /\ umPc[c] \in {"get thread", "unmap store"} => p = j
      BY <3>2, <3>4, <3>5
    <3> QED BY <3>4, <3>6, <3>7
  <2> HIDE DEF w, b, s
  <2> QED BY <1>1, <2>6, <2>7 DEF Looks
<1> QED BY <1>9, <1>10, <1>11, <1>12

\* What the newest message says of the owners of other units.
LEMMA OwnersStay ==
  ASSUME NEW q, NEW r, TableIs(q), NEW t \in Callers, NEW u, NEW l, NEW v, StepOf(q, r, t, u, l, v),
         NEW w \in Units \ {u}
  PROVE  OwnerOf(r, w)'
<1> DEFINE b == Atm!HashIndex(w)
           s == q[b]
           k == OwnerAt(w)
<1>1. /\ r \in [Atm!UmBuckets -> Seq(Elems)] /\ q \in [Atm!UmBuckets -> Seq(Elems)]
      /\ \A d \in Atm!UmBuckets :
           \/ r[d] = q[d] /\ l # ListAt(d)
           \/ /\ r[d] = Append(q[d], v) /\ v \in Elems /\ l = ListAt(d)
              /\ umPc[t] = "publish" /\ d = Bucket(t) /\ v = umCur[t]
  BY BucketsAfter
<1>2. Untouched(q, t, u, l, v)
  BY HandsOff
<1>3. /\ Memory /\ DOMAIN mem = Atm!UnitMapLocs /\ Effect(l, v)
      /\ b \in Atm!UmBuckets /\ k \in Atm!UnitMapLocs /\ k # l
  BY <1>2, Locations DEF TableIs, TableTypes, StepOf, Untouched
<1>4. Grows(SentAll(k), SentAll(k)', l, v)
  BY <1>3, EffectGrows
<1>5. Atm!Newest(k)' = Atm!Newest(k) /\ mapped'[w] = mapped[w]
  BY <1>3 DEF Effect, StepOf, OthersStay
<1>6. OwnerOf(q, w)
  BY DEF TableIs
<1>7. \A f : l = UnitAt(f) => v # w
  BY <1>2 DEF Untouched
<1>8. Atm!Newest(k) = "free" => KnowsFree(SentAll(k)', w)
  <2>1. Atm!Newest(k) = "free" => KnowsFree(SentAll(k), w)
    BY <1>6 DEF OwnerOf
  <2> HIDE DEF k
  <2> QED BY <1>4, <1>7, <2>1, FreeKept
<1>9. ASSUME NEW p \in 1..Len(s), Finds(s, SentAll(k), w, b, mapped[w], p)
      PROVE  p \in 1..Len(r[b]) /\ Finds(r[b], SentAll(k)', w, b, mapped'[w], p)
  <2>1. s \in Seq(Elems) /\ r[b] \in Seq(Elems) /\ s[p] \in Elems
    BY <1>1, <1>3
  <2>2. Held[s[p]] = w
    <3>1. SentAll(k)[UnitAt(s[p])] \subseteq {w}
      BY <1>9 DEF Finds, OnlyIn
    <3>2. UnitAt(s[p]) \in Atm!UnitMapLocs /\ Held[s[p]] = Atm!Newest(UnitAt(s[p]))
      BY <2>1, Locations DEF Held
    <3>3. Atm!Newest(UnitAt(s[p])) \in Sent(k, UnitAt(s[p]))
      BY <1>3, <3>2, NewestHas
    <3>4. SentAll(k)[UnitAt(s[p])] = Sent(k, UnitAt(s[p]))
      BY <1>3, <3>2 DEF SentAll
    <3> QED BY <3>1, <3>2, <3>3, <3>4
  <2>3. (\A f : l = UnitAt(f) => v # w /\ f # s[p]) /\ l # ThreadAt(s[p])
    BY <1>2, <1>7, <2>2 DEF Untouched
  <2>4. (r[b] = s /\ l # ListAt(b)) \/ (r[b] = Append(s, v) /\ v \in Elems /\ l = ListAt(b))
    BY <1>1, <1>3
  <2> HIDE DEF b, s, k
  <2> QED BY <1>3, <1>4, <1>5, <1>9, <2>1, <2>3, <2>4, FindsKept
<1>10. Atm!Newest(k) = "pool" =>
         \E p \in 1..Len(r[b]) : Finds(r[b], SentAll(k)', w, b, mapped'[w], p)
  <2>1. Atm!Newest(k) = "pool" => \E p \in 1..Len(s) : Finds(s, SentAll(k), w, b, mapped[w], p)
    BY <1>6 DEF OwnerOf
  <2> HIDE DEF b, s, k
  <2> QED BY <1>9, <2>1
<1>11. Atm!Newest(k) \in {"free", "pool", "taken"}
  BY <1>6 DEF OwnerOf
<1> QED BY <1>5, <1>8, <1>10, <1>11 DEF OwnerOf

\* A lock that is not written protects what it did.
LEMMA LockStays ==
  ASSUME NEW q, NEW r, TableIs(q), NEW t \in Callers, NEW u, NEW l, NEW v, StepOf(q, r, t, u, l, v),
         NEW b \in Atm!UmBuckets, l # LockAt(b),
         (umPc[t] \in LockPcs /\ Bucket(t) = b) <=> (umPc'[t] \in LockPcs /\ Bucket(t)' = b)
  PROVE  LockOf(r, b)'
<1> DEFINE k == LockAt(b)
           s == q[b]
<1>1. /\ r \in [Atm!UmBuckets -> Seq(Elems)] /\ q \in [Atm!UmBuckets -> Seq(Elems)]
      /\ \A d \in Atm!UmBuckets :
           \/ r[d] = q[d] /\ l # ListAt(d)
           \/ /\ r[d] = Append(q[d], v) /\ v \in Elems /\ l = ListAt(d)
              /\ umPc[t] = "publish" /\ d = Bucket(t) /\ v = umCur[t]
  BY BucketsAfter
<1>2. Untouched(q, t, u, l, v)
  BY HandsOff
<1>3. /\ Memory /\ DOMAIN mem = Atm!UnitMapLocs /\ Effect(l, v) /\ k \in Atm!UnitMapLocs /\ k # l
  BY Locations DEF TableIs, TableTypes, StepOf
<1>4. /\ Grows(SentAll(k), SentAll(k)', l, v)
      /\ \A e \in Elems : Held'[e] = IF l = UnitAt(e) THEN v ELSE Held[e]
  BY <1>3, EffectGrows
<1>5. Atm!Newest(k)' = Atm!Newest(k)
  BY <1>3 DEF Effect
<1>6. LockOf(q, b)
  BY DEF TableIs
<1>7. \A c \in Callers : (umPc[c] \in LockPcs /\ Bucket(c) = b)
                           <=> (umPc'[c] \in LockPcs /\ Bucket(c)' = b)
  <2>1. \A c \in Callers \ {t} : umPc'[c] = umPc[c] /\ Bucket(c)' = Bucket(c)
    BY OtherUnit
  <2> QED BY <2>1
<1>8. Atm!Newest(k)' \in BOOLEAN
      /\ (Atm!Newest(k)' <=> \E c \in Callers : umPc'[c] \in LockPcs /\ Bucket(c)' = b)
  <2>1. Atm!Newest(k) \in BOOLEAN
        /\ (Atm!Newest(k) <=> \E c \in Callers : umPc[c] \in LockPcs /\ Bucket(c) = b)
    BY <1>6 DEF LockOf
  <2> QED BY <1>5, <1>7, <2>1
<1>9. ASSUME ~Atm!Newest(k) PROVE KnowsList(r[b], SentAll(k)', Held', b)
  <2>1. ~(umPc[t] \in LockPcs /\ Bucket(t) = b) /\ KnowsList(s, SentAll(k), Held, b)
    BY <1>6, <1>9 DEF LockOf
  <2>2. r[b] = s /\ l # ListAt(b) /\ s \in Seq(Elems)
    BY <1>1, <2>1 DEF LockPcs, NewPcs
  <2>3. ASSUME NEW f, Mine(q, t, f) PROVE ~Listed(s, f)
    <3>1. umPc[t] \in NewPcs /\ umCur[t] = f => ~Listed(s, f)
      BY <2>3, MineAlone
    <3>2. ASSUME umPc[t] \in LockPcs, Listed(q[Bucket(t)], f) PROVE ~Listed(s, f)
      <4>1. umUnit[t] \in Units
        BY <3>2 DEF TableIs, Works, LockPcs, NewPcs
      <4>2. Bucket(t) \in Atm!UmBuckets /\ Bucket(t) # b
        BY <2>1, <3>2, <4>1, Locations DEF Bucket
      <4> QED BY <3>2, <4>2 DEF TableIs, Buckets
    <3> QED BY <2>3, <3>1, <3>2 DEF Mine
  <2>4. \A f : l = NextAt(f) \/ l = UnitAt(f) => ~Listed(s, f)
    BY <1>2, <2>3 DEF Untouched
  <2>5. \A e \in Elems : Listed(s, e) => Held'[e] = Held[e]
    BY <1>4, <2>4
  <2>6. KnowsList(s, SentAll(k)', Held', b)
    <3> HIDE DEF s, k
    <3> QED BY <1>4, <2>1, <2>2, <2>4, <2>5, BucketKept
  <2> QED BY <2>2, <2>6
<1> QED BY <1>5, <1>8, <1>9 DEF LockOf

\* There is always something to read.
LEMMA SomethingTold ==
  ASSUME NEW m, NEW s, GoodMem(m, s), NEW n \in DOMAIN m, NEW j \in DOMAIN m,
         NEW i \in 1..Len(m[n])
  PROVE  Vals(m, m[n][i].view, j) # {}
<1>1. Atm!At(m[n][i].view, j) \in 1..Len(m[j]) /\ Len(m[j]) \in Nat \ {0}
  BY DEF GoodMem
<1>2. Len(m[j]) \in Atm!At(m[n][i].view, j)..Len(m[j])
  BY <1>1
<1> QED BY <1>2 DEF Vals

\* If nobody is told anything of one location with a value, there is no such message.
LEMMA NoneTold ==
  ASSUME Memory', NEW n \in DOMAIN mem', NEW x, NEW j \in DOMAIN mem', NEW k \in DOMAIN mem',
         Told(n, x, j)' = {}
  PROVE  Told(n, x, k)' = {}
<1>1. ASSUME NEW i \in 1..Len(mem'[n]), mem'[n][i].val = x PROVE FALSE
  <2>1. Vals(mem', mem'[n][i].view, j) \subseteq Told(n, x, j)'
    BY <1>1 DEF Told
  <2>2. GoodMem(mem', seen')
    BY DEF Memory
  <2>3. Vals(mem', mem'[n][i].view, j) # {}
    BY <2>2, SomethingTold
  <2> QED BY <2>1, <2>3
<1> QED BY <1>1 DEF Told

\* The buckets and their lists stay, but for a list that is written.
LEMMA ChainsStay ==
  ASSUME NEW q, TableIs(q), NEW t \in Callers, NEW u, NEW l, NEW v, StepOf(q, q, t, u, l, v),
         Writes(q, t, u, l, v)
  PROVE  Buckets(q)' /\ Chained(q)'
<1>1. /\ q \in [Atm!UmBuckets -> Seq(Elems)]
      /\ Memory /\ DOMAIN mem = Atm!UnitMapLocs /\ Effect(l, v)
      /\ umFree' \subseteq umFree
  BY DEF TableIs, Buckets, TableTypes, StepOf, OthersStay
<1>2. Untouched(q, t, u, l, v)
  BY HandsOff
<1>3. \A b \in Atm!UmBuckets : l # ListAt(b) /\ ListAt(b) \in Atm!UnitMapLocs
  BY Locations DEF Writes
<1>4. Buckets(q)'
  BY <1>1 DEF TableIs, Buckets
<1>5. ASSUME NEW b \in Atm!UmBuckets
      PROVE  /\ Atm!Newest(ListAt(b))' = LastOf(q[b])
             /\ \A j \in 1..Len(q[b]) : \A i \in 1..j :
                  Told(ListAt(b), q[b][j], NextAt(q[b][i]))' \subseteq {NextOf(q[b], i)}
             /\ \A e \in Elems : ~Listed(q[b], e) =>
                  \A k \in Atm!UnitMapLocs : Told(ListAt(b), e, k)' = {}
  <2> DEFINE n == ListAt(b)
             s == q[b]
  <2>1. n \in DOMAIN mem /\ n # l /\ s \in Seq(Elems)
    BY <1>1, <1>3
  <2>2. /\ Memory' /\ DOMAIN mem' = DOMAIN mem /\ Atm!Newest(n)' = Atm!Newest(n)
        /\ \A x : \A k \in DOMAIN mem :
             Told(n, x, k)' \subseteq Told(n, x, k) \cup (IF k = l THEN {v} ELSE {})
    BY <1>1, <2>1 DEF Effect
  <2>3. Chained(q)
    BY DEF TableIs
  <2>4. Atm!Newest(n)' = LastOf(s)
    BY <2>2, <2>3 DEF Chained
  <2>5. ASSUME NEW j \in 1..Len(s), NEW i \in 1..j
        PROVE  Told(n, s[j], NextAt(s[i]))' \subseteq {NextOf(s, i)}
    <3>1. Told(n, s[j], NextAt(s[i])) \subseteq {NextOf(s, i)}
      BY <2>3 DEF Chained
    <3>2. i \in 1..Len(s) /\ s[i] \in Elems /\ Listed(s, s[i])
      BY <2>1, <2>5 DEF Listed
    <3>3. NextAt(s[i]) # l /\ NextAt(s[i]) \in DOMAIN mem
      BY <1>1, <1>2, <3>2, Locations DEF Untouched
    <3> QED BY <2>2, <3>1, <3>3
  <2>6. ASSUME NEW e \in Elems, ~Listed(s, e), NEW k \in Atm!UnitMapLocs
        PROVE  Told(n, e, k)' = {}
    <3>1. Told(n, e, n) = {}
      BY <1>1, <2>1, <2>3, <2>6 DEF Chained
    <3>2. Told(n, e, n)' = {}
      BY <2>1, <2>2, <3>1
    <3> HIDE DEF n
    <3>3. n \in DOMAIN mem' /\ k \in DOMAIN mem'
      BY <1>1, <2>1, <2>2
    <3>4. Told(n, e, k)' = {}
      BY <2>2, <3>2, <3>3, NoneTold
    <3> QED BY <3>4
  <2> QED BY <2>4, <2>5, <2>6
<1> QED BY <1>4, <1>5 DEF Chained

\* How t goes on: it works on u, it enters the section of the bucket of u only with the lock,
\* a new element comes out of memory that nobody uses, and it is filled first.
Moves(t, u, l) ==
    /\ umPc'[t] \in UmPcs
    /\ umPc[t] # "idle" => umUnit[t] = u
    /\ umPc'[t] # "idle" => umUnit'[t] = u
    /\ umPc'[t] \in LockPcs =>
         umPc[t] \in LockPcs \/ ~Atm!Newest(LockAt(Atm!HashIndex(u)))
    /\ umPc'[t] \in NewPcs =>
         (umPc[t] \in NewPcs /\ umCur'[t] = umCur[t]) \/ umCur'[t] \in umFree
    /\ umPc[t] = "new unit" => l = UnitAt(umCur[t])
    /\ \A e \in umFree \ umFree' : umPc'[t] = "new unit" /\ umCur'[t] = e

Shaped ==
    /\ umPc' = [c \in Callers |-> umPc'[c]] /\ umUnit' = [c \in Callers |-> umUnit'[c]]
    /\ umThread' = [c \in Callers |-> umThread'[c]] /\ umCur' = [c \in Callers |-> umCur'[c]]
    /\ mapped' = [w \in Units |-> mapped'[w]]

\* Units, locks and new elements stay apart.
LEMMA ApartStays ==
  ASSUME NEW q, NEW r, TableIs(q), NEW t \in Callers, NEW u, NEW l, NEW v, StepOf(q, r, t, u, l, v),
         Moves(t, u, l)
  PROVE  Apart'
<1>1. ASSUME NEW c \in Callers \ {t}
      PROVE  /\ umPc'[t] # "idle" /\ umPc'[c] # "idle" => umUnit'[t] # umUnit'[c]
             /\ umPc'[t] \in LockPcs /\ umPc'[c] \in LockPcs => Bucket(t)' # Bucket(c)'
             /\ umPc'[t] \in NewPcs /\ umPc'[c] \in NewPcs => umCur'[t] # umCur'[c]
  <2>1. /\ umPc'[c] = umPc[c] /\ umUnit'[c] = umUnit[c] /\ umCur'[c] = umCur[c]
        /\ Bucket(c)' = Bucket(c) /\ (umPc[c] # "idle" => umUnit[c] # u)
    BY OtherUnit
  <2>2. umPc'[t] \in LockPcs => Bucket(t)' = Atm!HashIndex(u) /\ u \in Units
    BY DEF Moves, LockPcs, NewPcs, Bucket, StepOf
  <2>3. ASSUME umPc'[t] \in LockPcs, umPc[c] \in LockPcs PROVE Bucket(c) # Atm!HashIndex(u)
    <3>1. CASE umPc[t] \in LockPcs
      <4>1. Bucket(t) = Atm!HashIndex(u)
        BY <3>1 DEF Moves, LockPcs, NewPcs, Bucket
      <4>2. Bucket(t) # Bucket(c)
        BY <2>3, <3>1 DEF TableIs, Apart
      <4> QED BY <4>1, <4>2
    <3>2. CASE ~Atm!Newest(LockAt(Atm!HashIndex(u)))
      <4>1. Atm!HashIndex(u) \in Atm!UmBuckets
        BY <2>2, <2>3, Locations
      <4>2. LockOf(q, Atm!HashIndex(u))
        BY <4>1 DEF TableIs
      <4> QED BY <2>3, <3>2, <4>2 DEF LockOf
    <3> QED BY <2>3, <3>1, <3>2 DEF Moves
  <2>4. ASSUME umPc'[t] \in NewPcs, umPc[c] \in NewPcs PROVE umCur'[t] # umCur[c]
    <3>1. umCur[c] \notin umFree
      BY <2>4 DEF TableIs, Maps
    <3>2. umPc[t] \in NewPcs => umCur[t] # umCur[c]
      BY <2>4 DEF TableIs, Apart
    <3> QED BY <2>4, <3>1, <3>2 DEF Moves
  <2> QED BY <2>1, <2>2, <2>3, <2>4 DEF Moves
<1>2. ASSUME NEW c \in Callers \ {t}, NEW d \in Callers \ {t}, c # d
      PROVE  /\ umPc'[d] # "idle" /\ umPc'[c] # "idle" => umUnit'[d] # umUnit'[c]
             /\ umPc'[d] \in LockPcs /\ umPc'[c] \in LockPcs => Bucket(d)' # Bucket(c)'
             /\ umPc'[d] \in NewPcs /\ umPc'[c] \in NewPcs => umCur'[d] # umCur'[c]
  <2>1. /\ umPc'[c] = umPc[c] /\ umUnit'[c] = umUnit[c] /\ umCur'[c] = umCur[c]
        /\ Bucket(c)' = Bucket(c)
    BY OtherUnit
  <2>2. /\ umPc'[d] = umPc[d] /\ umUnit'[d] = umUnit[d] /\ umCur'[d] = umCur[d]
        /\ Bucket(d)' = Bucket(d)
    BY OtherUnit
  <2> QED BY <1>2, <2>1, <2>2 DEF TableIs, Apart
<1> QED BY <1>1, <1>2 DEF Apart

\* Elements hold units or nothing.
LEMMA ElementsStay ==
  ASSUME NEW q, NEW r, TableIs(q), NEW t \in Callers, NEW u, NEW l, NEW v, StepOf(q, r, t, u, l, v),
         Moves(t, u, l)
  PROVE  Elements'
<1>1. Untouched(q, t, u, l, v) /\ u \in Units /\ umFree' \subseteq umFree
  BY HandsOff DEF StepOf, OthersStay
<1>2. \A e \in Elems : Held'[e] = IF l = UnitAt(e) THEN v ELSE Held[e]
  BY EffectGrows DEF TableIs, TableTypes, StepOf
<1>3. /\ umFree \subseteq Elems /\ \A e \in umFree : Held[e] \notin Units
      /\ \A e \in Elems \ umFree : \/ Held[e] \in Units \cup {NULL}
                                   \/ \E c \in Callers : umPc[c] = "new unit" /\ umCur[c] = e
  BY DEF TableIs, Elements
<1>4. ASSUME NEW e \in umFree' PROVE Held'[e] \notin Units
  <2>1. e \in umFree /\ l # UnitAt(e)
    BY <1>1 DEF Untouched
  <2> QED BY <1>2, <1>3, <2>1
<1>5. ASSUME NEW e \in Elems \ umFree'
      PROVE  \/ Held'[e] \in Units \cup {NULL}
             \/ \E c \in Callers : umPc'[c] = "new unit" /\ umCur'[c] = e
  <2>1. CASE l = UnitAt(e)
    BY <1>1, <1>2, <2>1 DEF Untouched
  <2>2. CASE l # UnitAt(e) /\ e \in umFree
    BY <1>5, <2>2 DEF Moves
  <2>3. CASE l # UnitAt(e) /\ e \notin umFree
    <3>1. CASE Held[e] \in Units \cup {NULL}
      BY <1>2, <2>3, <3>1
    <3>2. ASSUME NEW c \in Callers, umPc[c] = "new unit", umCur[c] = e
          PROVE  umPc'[c] = "new unit" /\ umCur'[c] = e
      <4>1. c # t
        BY <2>3, <3>2 DEF Moves
      <4>2. c \in Callers \ {t}
        BY <4>1
      <4>3. umPc'[c] = umPc[c] /\ umCur'[c] = umCur[c]
        BY <4>2, OtherUnit
      <4> QED BY <3>2, <4>3
    <3> QED BY <1>3, <2>3, <3>1, <3>2
  <2> QED BY <2>1, <2>2, <2>3
<1> QED BY <1>1, <1>3, <1>4, <1>5 DEF Elements

\* A step of t leaves the table right if t has done its own part.
LEMMA TableStep ==
  ASSUME NEW q, NEW r, TableIs(q), NEW t \in Callers, NEW u, NEW l, NEW v, StepOf(q, r, t, u, l, v),
         Moves(t, u, l), Shaped, Buckets(r)', Chained(r)', OwnerOf(r, u)',
         LockOf(r, Atm!HashIndex(u))',
         Works(t)', InLock(r, t)', Maps(r, t)', Looks(r, t)'
  PROVE  TableIs(r)'
<1>1. TableTypes'
  <2>1. umPc' \in [Callers -> UmPcs]
    <3>1. \A c \in Callers \ {t} : umPc'[c] = umPc[c]
      BY OtherUnit
    <3>2. \A c \in Callers : umPc[c] \in UmPcs
      BY DEF TableIs, TableTypes
    <3> QED BY <3>1, <3>2 DEF Moves, Shaped
  <2>2. Memory' /\ DOMAIN mem' = Atm!UnitMapLocs
    BY DEF StepOf, Effect, TableIs, TableTypes
  <2>3. Atm!UnitMapLocs' = Atm!UnitMapLocs
    BY DEF Atm!UnitMapLocs, Atm!UmBuckets, Atm!HashIndex
  <2> QED BY <2>1, <2>2, <2>3 DEF TableTypes, Shaped
<1>2. Apart' /\ Elements'
  BY ApartStays, ElementsStay
<1>3. \A w \in Units : OwnerOf(r, w)'
  BY OwnersStay
<1>4. ASSUME NEW b \in Atm!UmBuckets, b # Atm!HashIndex(u) PROVE LockOf(r, b)'
  <2>3. Untouched(q, t, u, l, v)
    BY HandsOff
  <2>1. l # LockAt(b)
    BY <1>4, <2>3 DEF Untouched
  <2>2. ~(umPc[t] \in LockPcs /\ Bucket(t) = b) /\ ~(umPc'[t] \in LockPcs /\ Bucket(t)' = b)
    BY <1>4 DEF Moves, LockPcs, NewPcs, Bucket
  <2> QED BY <2>1, <2>2, LockStays
<1>5. \A b \in Atm!UmBuckets : LockOf(r, b)'
  BY <1>4
<1>6. \A c \in Callers : Works(c)' /\ InLock(r, c)' /\ Maps(r, c)' /\ Looks(r, c)'
  BY WorkerStays
<1> QED BY <1>1, <1>2, <1>3, <1>5, <1>6 DEF TableIs

\* A step that writes neither the owner nor the lock nor a list.
LEMMA QuietStep ==
  ASSUME NEW q, TableIs(q), NEW t \in Callers, NEW u, NEW l, NEW v, StepOf(q, q, t, u, l, v),
         Writes(q, t, u, l, v),
         Moves(t, u, l), Shaped,
         OwnerOf(q, u)' \/ (l # OwnerAt(u) /\ umPc[t] # "idle"),
         \/ LockOf(q, Atm!HashIndex(u))'
         \/ l # LockAt(Atm!HashIndex(u)) /\ (umPc[t] \in LockPcs <=> umPc'[t] \in LockPcs),
         Works(t)', InLock(q, t)', Maps(q, t)', Looks(q, t)'
  PROVE  TableIs(q)'
<1>1. u \in Units /\ Atm!HashIndex(u) \in Atm!UmBuckets
  BY Locations DEF StepOf
<1>2. Buckets(q)' /\ Chained(q)'
  BY ChainsStay
<1>3. OwnerOf(q, u)'
  <2>1. CASE l # OwnerAt(u) /\ umPc[t] # "idle"
    <3>1. OwnerAt(u) \in DOMAIN mem
      BY <1>1, Locations DEF TableIs, TableTypes
    <3>2. Atm!Newest(OwnerAt(u)) = "taken"
      BY <2>1 DEF Moves, TableIs, Works
    <3>3. Atm!Newest(OwnerAt(u))' = "taken"
      BY <2>1, <3>1, <3>2 DEF StepOf, Effect
    <3> QED BY <3>3 DEF OwnerOf
  <2> QED BY <2>1
<1>4. LockOf(q, Atm!HashIndex(u))'
  <2>1. CASE l # LockAt(Atm!HashIndex(u)) /\ (umPc[t] \in LockPcs <=> umPc'[t] \in LockPcs)
    <3>1. /\ umPc[t] \in LockPcs => Bucket(t) = Atm!HashIndex(u)
          /\ umPc'[t] \in LockPcs => Bucket(t)' = Atm!HashIndex(u)
      BY DEF Moves, LockPcs, NewPcs, Bucket
    <3>2. (umPc[t] \in LockPcs /\ Bucket(t) = Atm!HashIndex(u))
            <=> (umPc'[t] \in LockPcs /\ Bucket(t)' = Atm!HashIndex(u))
      BY <2>1, <3>1
    <3> QED BY <1>1, <2>1, <3>2, LockStays
  <2> QED BY <2>1
<1> QED BY <1>2, <1>3, <1>4, TableStep

------------------------------------------------------------------------------
(* What the thread that takes the step knows itself *)

MyList(q, t) == KnowsList(q[Bucket(t)], HasAll(t), Held, Bucket(t))
MyNext(q, t, j) == KnowsNext(q[Bucket(t)], HasAll(t), j)
MyFree(t) == KnowsFree(HasAll(t), umUnit[t])
MyOnly(t, e) == OnlyIn(HasAll(t), umUnit[t], e)
MyFind(q, t, p) ==
    Finds(q[Bucket(t)], HasAll(t), umUnit[t], Bucket(t), mapped[umUnit[t]], p)

\* What t has for its unit and its bucket.
LEMMA Mine1 ==
  ASSUME NEW q, TableIs(q), NEW t \in Callers, umPc[t] # "idle"
  PROVE  /\ umUnit[t] \in Units /\ Bucket(t) \in Atm!UmBuckets /\ q[Bucket(t)] \in Seq(Elems)
         /\ Atm!HashIndex(umUnit[t]) = Bucket(t) /\ Atm!Newest(OwnerAt(umUnit[t])) = "taken"
         /\ Memory /\ DOMAIN mem = Atm!UnitMapLocs
<1>1. umUnit[t] \in Units /\ Atm!Newest(OwnerAt(umUnit[t])) = "taken"
  BY DEF TableIs, Works
<1>2. Bucket(t) \in Atm!UmBuckets /\ Atm!HashIndex(umUnit[t]) = Bucket(t)
  BY <1>1, Locations DEF Bucket
<1>3. q[Bucket(t)] \in Seq(Elems)
  BY <1>2 DEF TableIs, Buckets
<1> QED BY <1>1, <1>2, <1>3 DEF TableIs, TableTypes

\* The variables of a step within map, get or unmap.
LEMMA Keeping ==
  ASSUME NEW q, TableIs(q), NEW t \in Callers, umPc[t] # "idle", NEW p \in UmPcs, NEW x,
         Atm!UmGoto(t, p), Atm!UmKeep,
         (UNCHANGED umCur /\ x = umCur[t]) \/ Atm!UmSetCur(t, x)
  PROVE  /\ Shaped /\ OthersStay(t, umUnit[t])
         /\ umPc'[t] = p /\ umCur'[t] = x
         /\ umUnit' = umUnit /\ umThread' = umThread /\ mapped' = mapped /\ umFree' = umFree
         /\ Bucket(t)' = Bucket(t)
<1>1. /\ umPc = [c \in Callers |-> umPc[c]] /\ umUnit = [c \in Callers |-> umUnit[c]]
      /\ umThread = [c \in Callers |-> umThread[c]] /\ umCur = [c \in Callers |-> umCur[c]]
      /\ mapped = [w \in Units |-> mapped[w]]
  BY DEF TableIs, TableTypes
<1>2. umPc' = [umPc EXCEPT ![t] = p]
      /\ UNCHANGED <<umUnit, umThread, umFree, umCalls, mapped>>
  BY DEF Atm!UmGoto, Atm!UmKeep
<1>3. umPc' = [c \in Callers |-> umPc'[c]] /\ umPc'[t] = p
      /\ \A c \in Callers \ {t} : umPc'[c] = umPc[c]
  BY <1>1, <1>2
<1>4. umCur' = [c \in Callers |-> umCur'[c]] /\ umCur'[t] = x
      /\ \A c \in Callers \ {t} : umCur'[c] = umCur[c]
  BY <1>1 DEF Atm!UmSetCur
<1>5. umUnit' = umUnit /\ umThread' = umThread /\ mapped' = mapped /\ umFree' = umFree
  BY <1>2
<1>6. Bucket(t)' = Bucket(t)
  BY <1>5 DEF Bucket
<1>7. Shaped
  BY <1>1, <1>3, <1>4, <1>5 DEF Shaped
<1>8. OthersStay(t, umUnit[t])
  BY <1>3, <1>4, <1>5 DEF OthersStay
<1> QED BY <1>3, <1>4, <1>5, <1>6, <1>7, <1>8

\* What a step of t on another location leaves it knowing.
LEMMA OwnKept ==
  ASSUME NEW q, TableIs(q), NEW t \in Callers, umPc[t] # "idle", NEW l, NEW v, Effect(l, v),
         umUnit' = umUnit, mapped' = mapped
  PROVE  LET s == q[Bucket(t)]
             u == umUnit[t]
         IN  /\ (\A f : l = NextAt(f) => ~Listed(s, f))
                => \A j \in 0..Len(s) : MyNext(q, t, j) => MyNext(q, t, j)'
             /\ (l # ListAt(Bucket(t)) /\ \A f : l = NextAt(f) \/ l = UnitAt(f) => ~Listed(s, f))
                => (MyList(q, t) => MyList(q, t)')
             /\ (\A f : l = UnitAt(f) => v # u) => (MyFree(t) => MyFree(t)')
             /\ \A e \in Elems : (\A f : l = UnitAt(f) => v # u /\ f # e)
                => (MyOnly(t, e) => MyOnly(t, e)')
             /\ \A p \in 1..Len(s) :
                  (/\ l # ListAt(Bucket(t)) /\ l # ThreadAt(s[p])
                   /\ \A f : l = UnitAt(f) => v # u /\ f # s[p])
                  => (MyFind(q, t, p) => MyFind(q, t, p)')
<1> DEFINE b == Bucket(t)
           s == q[b]
           u == umUnit[t]
           V == HasAll(t)
           W == HasAll(t)'
           H == Held
           G == Held'
           x == mapped[u]
<1>1. /\ u \in Units /\ b \in Atm!UmBuckets /\ s \in Seq(Elems)
      /\ Memory /\ DOMAIN mem = Atm!UnitMapLocs
  BY Mine1
<1>2. Grows(V, W, l, v) /\ \A e \in Elems : G[e] = IF l = UnitAt(e) THEN v ELSE H[e]
  BY <1>1, EffectGrows
<1>3. /\ MyList(q, t)' <=> KnowsList(s, W, G, b)
      /\ MyFree(t)' <=> KnowsFree(W, u)
      /\ \A e : MyOnly(t, e)' <=> OnlyIn(W, u, e)
      /\ \A p : MyFind(q, t, p)' <=> Finds(s, W, u, b, x, p)
      /\ \A j : MyNext(q, t, j)' <=> KnowsNext(s, W, j)
  BY DEF MyList, MyFree, MyOnly, MyFind, MyNext, Bucket
<1>4. /\ MyList(q, t) <=> KnowsList(s, V, H, b)
      /\ MyFree(t) <=> KnowsFree(V, u)
      /\ \A e : MyOnly(t, e) <=> OnlyIn(V, u, e)
      /\ \A p : MyFind(q, t, p) <=> Finds(s, V, u, b, x, p)
      /\ \A j : MyNext(q, t, j) <=> KnowsNext(s, V, j)
  BY DEF MyList, MyFree, MyOnly, MyFind, MyNext
<1> HIDE DEF b, s, u, V, W, H, G, x
<1>5. ASSUME \A f : l = NextAt(f) => ~Listed(s, f), NEW j \in 0..Len(s), KnowsNext(s, V, j)
      PROVE  KnowsNext(s, W, j)
  BY <1>1, <1>2, <1>5, NextKept
<1>6. ASSUME l # ListAt(b), \A f : l = NextAt(f) \/ l = UnitAt(f) => ~Listed(s, f),
             KnowsList(s, V, H, b)
      PROVE  KnowsList(s, W, G, b)
  <2>1. \A e \in Elems : Listed(s, e) => G[e] = H[e]
    BY <1>2, <1>6
  <2> QED BY <1>1, <1>2, <1>6, <2>1, BucketKept
<1>7. ASSUME \A f : l = UnitAt(f) => v # u, KnowsFree(V, u) PROVE KnowsFree(W, u)
  BY <1>2, <1>7, FreeKept
<1>8. ASSUME NEW e \in Elems, \A f : l = UnitAt(f) => v # u /\ f # e, OnlyIn(V, u, e)
      PROVE  OnlyIn(W, u, e)
  BY <1>2, <1>8, OnlyKept
<1>9. ASSUME NEW p \in 1..Len(s), l # ListAt(b), l # ThreadAt(s[p]),
             \A f : l = UnitAt(f) => v # u /\ f # s[p], Finds(s, V, u, b, x, p)
      PROVE  Finds(s, W, u, b, x, p)
  <2>1. (s = s /\ l # ListAt(b)) \/ (s = Append(s, v) /\ v \in Elems /\ l = ListAt(b))
    BY <1>9
  <2> QED BY <1>1, <1>2, <1>9, <2>1, FindsKept
<1> USE DEF b, s, u
<1>10. (\A f : l = NextAt(f) => ~Listed(s, f))
          => \A j \in 0..Len(s) : MyNext(q, t, j) => MyNext(q, t, j)'
  BY <1>3, <1>4, <1>5
<1>11. (l # ListAt(Bucket(t)) /\ \A f : l = NextAt(f) \/ l = UnitAt(f) => ~Listed(s, f))
                => (MyList(q, t) => MyList(q, t)')
  BY <1>3, <1>4, <1>6
<1>12. (\A f : l = UnitAt(f) => v # u) => (MyFree(t) => MyFree(t)')
  BY <1>3, <1>4, <1>7
<1>13. \A e \in Elems : (\A f : l = UnitAt(f) => v # u /\ f # e)
                => (MyOnly(t, e) => MyOnly(t, e)')
  BY <1>3, <1>4, <1>8
<1>14. \A p \in 1..Len(s) :
                  (/\ l # ListAt(Bucket(t)) /\ l # ThreadAt(s[p])
                   /\ \A f : l = UnitAt(f) => v # u /\ f # s[p])
                  => (MyFind(q, t, p) => MyFind(q, t, p)')
  BY <1>3, <1>4, <1>9
<1> QED BY <1>10, <1>11, <1>12, <1>13, <1>14

\* Owners and locks say nothing of the elements.
LEMMA OutsideKept ==
  ASSUME NEW q, TableIs(q), NEW t \in Callers, umPc[t] # "idle", NEW l, NEW v, Effect(l, v),
         umUnit' = umUnit, mapped' = mapped, (\E u : l = OwnerAt(u)) \/ (\E b : l = LockAt(b))
  PROVE  /\ MyList(q, t) => MyList(q, t)'
         /\ MyFree(t) => MyFree(t)'
         /\ \A e \in Elems : MyOnly(t, e) => MyOnly(t, e)'
         /\ \A p \in 1..Len(q[Bucket(t)]) : MyFind(q, t, p) => MyFind(q, t, p)'
         /\ \A j \in 0..Len(q[Bucket(t)]) : MyNext(q, t, j) => MyNext(q, t, j)'
         /\ \A e \in Elems : Held'[e] = Held[e]
         /\ \A k \in Atm!UnitMapLocs : k # l => Has(t, k)' \subseteq Has(t, k)
<1>1. /\ Memory /\ DOMAIN mem = Atm!UnitMapLocs
  BY Mine1
<1>2. /\ \A f : l # UnitAt(f) /\ l # NextAt(f) /\ l # ThreadAt(f) /\ l # ListAt(f)
  BY Locations
<1>3. \A e \in Elems : Held'[e] = Held[e]
  BY <1>1, <1>2, EffectGrows
<1>4. \A k \in Atm!UnitMapLocs : k # l => Has(t, k)' \subseteq Has(t, k)
  BY <1>1 DEF Effect
<1>5. /\ \A j \in 0..Len(q[Bucket(t)]) : MyNext(q, t, j) => MyNext(q, t, j)'
      /\ MyList(q, t) => MyList(q, t)'
      /\ MyFree(t) => MyFree(t)'
      /\ \A e \in Elems : MyOnly(t, e) => MyOnly(t, e)'
      /\ \A p \in 1..Len(q[Bucket(t)]) : MyFind(q, t, p) => MyFind(q, t, p)'
  BY <1>2, OwnKept
<1> QED BY <1>3, <1>4, <1>5

------------------------------------------------------------------------------
(* Loads *)

\* A load on the way to step p, with p_cur at x.
Loads(q, t, p, x) ==
    /\ TableIs(q) /\ t \in Callers /\ umPc[t] # "idle" /\ p \in UmPcs
    /\ Atm!UmGoto(t, p) /\ Atm!UmKeep
    /\ (UNCHANGED umCur /\ x = umCur[t]) \/ Atm!UmSetCur(t, x)
    /\ LoadEffect

Part(q, t) == Works(t) /\ InLock(q, t) /\ Maps(q, t) /\ Looks(q, t)

\* Nothing known is lost by a load.
LEMMA LoadKeeps ==
  ASSUME NEW q, NEW t, NEW p, NEW x, Loads(q, t, p, x)
  PROVE  /\ umPc'[t] = p /\ umCur'[t] = x /\ umUnit' = umUnit /\ umThread' = umThread
         /\ mapped' = mapped /\ umFree' = umFree /\ Bucket(t)' = Bucket(t)
         /\ umUnit[t] \in Units /\ Atm!Newest(OwnerAt(umUnit[t]))' = "taken"
         /\ MyList(q, t) => MyList(q, t)'
         /\ MyFree(t) => MyFree(t)'
         /\ \A e \in Elems : MyOnly(t, e) => MyOnly(t, e)'
         /\ \A i \in 1..Len(q[Bucket(t)]) : MyFind(q, t, i) => MyFind(q, t, i)'
         /\ \A j \in 0..Len(q[Bucket(t)]) : MyNext(q, t, j) => MyNext(q, t, j)'
         /\ \A e \in Elems : Held'[e] = Held[e]
         /\ \A k \in Atm!UnitMapLocs : k # OwnerAt(umUnit[t]) => Has(t, k)' \subseteq Has(t, k)
         /\ Shaped /\ OthersStay(t, umUnit[t]) /\ Effect(OwnerAt(umUnit[t]), "taken")
<1> DEFINE l == OwnerAt(umUnit[t])
<1>1. /\ TableIs(q) /\ t \in Callers /\ umPc[t] # "idle" /\ p \in UmPcs
      /\ Atm!UmGoto(t, p) /\ Atm!UmKeep
      /\ (UNCHANGED umCur /\ x = umCur[t]) \/ Atm!UmSetCur(t, x)
      /\ LoadEffect
  BY DEF Loads
<1>2. /\ umPc'[t] = p /\ umCur'[t] = x /\ umUnit' = umUnit /\ umThread' = umThread
      /\ mapped' = mapped /\ umFree' = umFree /\ Bucket(t)' = Bucket(t)
      /\ Shaped /\ OthersStay(t, umUnit[t])
  BY <1>1, Keeping
<1>3. /\ umUnit[t] \in Units /\ Atm!Newest(l) = "taken"
      /\ Memory /\ DOMAIN mem = Atm!UnitMapLocs /\ l \in DOMAIN mem
  BY <1>1, Mine1, Locations
<1>4. Effect(l, "taken")
  BY <1>1, <1>3 DEF LoadEffect, Effect
<1>5. Atm!Newest(l)' = "taken" /\ OwnerAt(umUnit'[t]) = l
  <2>1. \A k : k = l => Atm!Newest(k)' = "taken"
    BY <1>1, <1>3 DEF LoadEffect
  <2>2. OwnerAt(umUnit'[t]) = l
    BY <1>2
  <2> QED BY <2>1, <2>2
<1>6. \E u : l = OwnerAt(u)
  OBVIOUS
<1>7. /\ MyList(q, t) => MyList(q, t)'
      /\ MyFree(t) => MyFree(t)'
      /\ \A e \in Elems : MyOnly(t, e) => MyOnly(t, e)'
      /\ \A i \in 1..Len(q[Bucket(t)]) : MyFind(q, t, i) => MyFind(q, t, i)'
      /\ \A j \in 0..Len(q[Bucket(t)]) : MyNext(q, t, j) => MyNext(q, t, j)'
      /\ \A e \in Elems : Held'[e] = Held[e]
      /\ \A k \in Atm!UnitMapLocs : k # l => Has(t, k)' \subseteq Has(t, k)
  <2> HIDE DEF l
  <2> QED BY <1>1, <1>2, <1>4, <1>6, OutsideKept
<1> QED BY <1>2, <1>3, <1>4, <1>5, <1>7

\* A load is a step of t on its unit.
LEMMA LoadStep ==
  ASSUME NEW q, NEW t, NEW p, NEW x, Loads(q, t, p, x), umPc[t] # "new unit",
         umPc[t] \in LockPcs <=> p \in LockPcs,
         p \in NewPcs => umPc[t] \in NewPcs /\ x = umCur[t],
         Part(q, t)'
  PROVE  TableIs(q)'
<1>0. PICK u : u = umUnit[t]
  OBVIOUS
<1> DEFINE l == OwnerAt(u)
<1>1. TableIs(q) /\ t \in Callers /\ umPc[t] # "idle" /\ p \in UmPcs
  BY DEF Loads
<1>2. /\ umPc'[t] = p /\ umCur'[t] = x /\ umUnit' = umUnit
      /\ umFree' = umFree
      /\ u \in Units /\ Atm!Newest(OwnerAt(umUnit[t]))' = "taken"
      /\ Shaped /\ OthersStay(t, u) /\ Effect(l, "taken")
  <2>1. /\ umPc'[t] = p /\ umCur'[t] = x /\ umUnit' = umUnit
        /\ umFree' = umFree
        /\ umUnit[t] \in Units /\ Atm!Newest(OwnerAt(umUnit[t]))' = "taken"
        /\ Shaped /\ OthersStay(t, umUnit[t]) /\ Effect(OwnerAt(umUnit[t]), "taken")
    BY LoadKeeps
  <2> QED BY <1>0, <2>1
<1>3. Writes(q, t, u, l, "taken")
  BY DEF Writes
<1>4. StepOf(q, q, t, u, l, "taken")
  BY <1>0, <1>1, <1>2, <1>3 DEF StepOf
<1>5. Moves(t, u, l)
  BY <1>0, <1>1, <1>2 DEF Moves
<1>6. OwnerOf(q, u)'
  <2>1. umUnit'[t] = u
    BY <1>0, <1>2
  <2> QED BY <1>2, <2>1 DEF OwnerOf
<1>7. l # LockAt(Atm!HashIndex(u)) /\ (umPc[t] \in LockPcs <=> umPc'[t] \in LockPcs)
  <2>1. OwnerAt(u) # LockAt(Atm!HashIndex(u))
    BY DEF OwnerAt, LockAt
  <2>2. umPc[t] \in LockPcs <=> umPc'[t] \in LockPcs
    BY <1>2
  <2> QED BY <2>1, <2>2
<1>8. Works(t)' /\ InLock(q, t)' /\ Maps(q, t)' /\ Looks(q, t)'
  BY DEF Part
<1> HIDE DEF l
<1> QED BY <1>1, <1>2, <1>3, <1>4, <1>5, <1>6, <1>7, <1>8, QuietStep DEF l

\* It is enough that t knows what the next step asks for, before the load or after.
Ready(q, t, p, x) ==
    /\ p \notin NewPcs \cup WrotePcs /\ umPc[t] # "new unit" /\ (umPc[t] \in LockPcs <=> p \in LockPcs)
    /\ p \in ThreadPcs => umThread[t] = mapped[umUnit[t]]
    /\ p \in LockPcs => MyList(q, t)
    /\ p = "map test" => x = NULL \/ Listed(q[Bucket(t)], x)
    /\ p \in {"map next", "reuse unit"} => Listed(q[Bucket(t)], x)
    /\ p = "reuse unit" => x \in Elems /\ Held[x] = NULL
    /\ p \in FreePcs => MyFree(t)
    /\ p \in MappedPcs => \E i \in 1..Len(q[Bucket(t)]) : MyFind(q, t, i)
    /\ p \in WalkPcs =>
         \E i \in 1..Len(q[Bucket(t)]) : \E j \in i..Len(q[Bucket(t)]) :
           /\ MyFind(q, t, i) /\ MyNext(q, t, j)' /\ x = q[Bucket(t)][j]
           /\ p \in {"get next", "unmap next"} => i # j
           /\ p \in {"get thread", "unmap store"} => i = j

\* A load that is ready to go on keeps the table.
LEMMA LoadDone ==
  ASSUME NEW q, NEW t, NEW p, NEW x, Loads(q, t, p, x), Ready(q, t, p, x)
  PROVE  TableIs(q)'
<1>1. /\ umPc'[t] = p /\ umCur'[t] = x /\ umUnit' = umUnit /\ umThread' = umThread
      /\ mapped' = mapped /\ Bucket(t)' = Bucket(t)
      /\ umUnit[t] \in Units /\ Atm!Newest(OwnerAt(umUnit[t]))' = "taken"
      /\ MyList(q, t) => MyList(q, t)'
      /\ MyFree(t) => MyFree(t)'
      /\ \A i \in 1..Len(q[Bucket(t)]) : MyFind(q, t, i) => MyFind(q, t, i)'
      /\ \A e \in Elems : Held'[e] = Held[e]
  BY LoadKeeps
<1>2. Works(t)'
  BY <1>1 DEF Works, Ready
<1>3. InLock(q, t)'
  <2>1. p \in LockPcs => MyList(q, t)'
    BY <1>1 DEF Ready
  <2>2. MyList(q, t)' <=> KnowsList(q[Bucket(t)'], HasAll(t)', Held', Bucket(t)')
    BY DEF MyList
  <2>3. p \in {"map next", "reuse unit", "reuse thread"} => Listed(q[Bucket(t)], x)
    BY DEF WrotePcs, Ready
  <2>4. p = "reuse unit" => Held'[x] = NULL
    BY <1>1 DEF Ready
  <2> QED BY <1>1, <2>1, <2>2, <2>3, <2>4 DEF InLock, Ready
<1>4. Maps(q, t)'
  <2>1. p \in FreePcs => KnowsFree(HasAll(t)', umUnit'[t])
    BY <1>1 DEF MyFree, Ready
  <2>2. p \notin NewPcs /\ p \notin WrotePcs /\ p \notin {"new unit", "new next", "publish"}
    BY DEF NewPcs, Ready
  <2> QED BY <1>1, <2>1, <2>2 DEF Maps
<1>5. Looks(q, t)'
  <2> DEFINE s == q[Bucket(t)]
  <2>1. \A i : MyFind(q, t, i)' <=>
          Finds(s, HasAll(t)', umUnit'[t], Bucket(t)', mapped'[umUnit'[t]], i)
    BY <1>1 DEF MyFind
  <2>2. \A j : MyNext(q, t, j)' <=> KnowsNext(s, HasAll(t)', j)
    BY <1>1 DEF MyNext
  <2>3. p \in MappedPcs => \E i \in 1..Len(s) : MyFind(q, t, i)'
    BY <1>1 DEF Ready
  <2>4. p \in WalkPcs =>
           \E i \in 1..Len(s) : \E j \in i..Len(s) :
             /\ MyFind(q, t, i)' /\ MyNext(q, t, j)' /\ x = s[j]
             /\ p \in {"get next", "unmap next"} => i # j
             /\ p \in {"get thread", "unmap store"} => i = j
    BY <1>1 DEF Ready
  <2> HIDE DEF s
  <2>5. s = q[Bucket(t)']
    BY <1>1 DEF s
  <2> QED BY <1>1, <2>1, <2>2, <2>3, <2>4, <2>5 DEF Looks
<1> QED BY <1>2, <1>3, <1>4, <1>5, LoadStep DEF Part, Ready

\* What the invariant says of t, in its own terms.
LEMMA Knows ==
  ASSUME NEW q, TableIs(q), NEW t \in Callers
  PROVE  /\ umPc[t] \in ThreadPcs => umThread[t] = mapped[umUnit[t]]
         /\ umPc[t] \in LockPcs => MyList(q, t)
         /\ umPc[t] = "map test" => umCur[t] = NULL \/ Listed(q[Bucket(t)], umCur[t])
         /\ umPc[t] \in {"map next", "reuse unit", "reuse thread"} => Listed(q[Bucket(t)], umCur[t])
         /\ umPc[t] = "reuse unit" => Held[umCur[t]] = NULL
         /\ umPc[t] \in FreePcs => MyFree(t)
         /\ umPc[t] \in WrotePcs => MyOnly(t, umCur[t])
         /\ umPc[t] \in MappedPcs => \E i \in 1..Len(q[Bucket(t)]) : MyFind(q, t, i)
         /\ umPc[t] \in WalkPcs =>
              \E i \in 1..Len(q[Bucket(t)]) : \E j \in i..Len(q[Bucket(t)]) :
                /\ MyFind(q, t, i) /\ MyNext(q, t, j) /\ umCur[t] = q[Bucket(t)][j]
                /\ umPc[t] \in {"get next", "unmap next"} => i # j
                /\ umPc[t] \in {"get thread", "unmap store"} => i = j
<1>1. Works(t) /\ InLock(q, t) /\ Maps(q, t) /\ Looks(q, t)
  BY DEF TableIs
<1>2. umPc[t] \in ThreadPcs => umThread[t] = mapped[umUnit[t]]
  BY <1>1 DEF Works
<1>3. /\ umPc[t] \in LockPcs => MyList(q, t)
      /\ umPc[t] = "map test" => umCur[t] = NULL \/ Listed(q[Bucket(t)], umCur[t])
      /\ umPc[t] \in {"map next", "reuse unit", "reuse thread"} => Listed(q[Bucket(t)], umCur[t])
      /\ umPc[t] = "reuse unit" => Held[umCur[t]] = NULL
  BY <1>1 DEF InLock, MyList
<1>4. /\ umPc[t] \in FreePcs => MyFree(t)
      /\ umPc[t] \in WrotePcs => MyOnly(t, umCur[t])
  BY <1>1 DEF Maps, MyFree, MyOnly
<1>5. /\ umPc[t] \in MappedPcs => \E i \in 1..Len(q[Bucket(t)]) : MyFind(q, t, i)
      /\ umPc[t] \in WalkPcs =>
              \E i \in 1..Len(q[Bucket(t)]) : \E j \in i..Len(q[Bucket(t)]) :
                /\ MyFind(q, t, i) /\ MyNext(q, t, j) /\ umCur[t] = q[Bucket(t)][j]
                /\ umPc[t] \in {"get next", "unmap next"} => i # j
                /\ umPc[t] \in {"get thread", "unmap store"} => i = j
  BY <1>1 DEF Looks, MyFind, MyNext
<1> QED BY <1>2, <1>3, <1>4, <1>5

\* What a load of t reads.
LEMMA ReadHas ==
  ASSUME NEW q, TableIs(q), NEW t \in Callers, NEW l \in Atm!UnitMapLocs,
         NEW i \in Atm!Readable(t, l)
  PROVE  /\ Atm!RelaxedLoad(t, l, i) => LoadEffect /\ mem[l][i].val \in HasAll(t)[l]
         /\ Atm!AcquireLoad(t, l, i) =>
              /\ LoadEffect /\ mem[l][i].val \in HasAll(t)[l]
              /\ \A k \in Atm!UnitMapLocs : HasAll(t)'[k] \subseteq Told(l, mem[l][i].val, k)
<1>1. Memory /\ DOMAIN mem = Atm!UnitMapLocs
  BY DEF TableIs, TableTypes
<1>2. HasAll(t)[l] = Has(t, l)
  BY <1>1 DEF HasAll
<1>3. Atm!RelaxedLoad(t, l, i) => LoadEffect /\ mem[l][i].val \in HasAll(t)[l]
  BY <1>1, <1>2, RelaxedLoadEffect
<1>4. ASSUME Atm!AcquireLoad(t, l, i)
      PROVE  /\ LoadEffect /\ mem[l][i].val \in HasAll(t)[l]
             /\ \A k \in Atm!UnitMapLocs : HasAll(t)'[k] \subseteq Told(l, mem[l][i].val, k)
  <2>1. /\ LoadEffect /\ mem[l][i].val \in Has(t, l)
        /\ \A k \in DOMAIN mem : Has(t, k)' \subseteq Told(l, mem[l][i].val, k)
    BY <1>1, <1>4, AcquireLoadEffect
  <2>2. DOMAIN mem' = Atm!UnitMapLocs
    BY <1>1, <2>1 DEF LoadEffect
  <2>3. \A k \in Atm!UnitMapLocs : HasAll(t)'[k] = Has(t, k)'
    BY <2>2 DEF HasAll
  <2> QED BY <1>1, <1>2, <2>1, <2>3
<1> QED BY <1>3, <1>4

\* A step within map, get or unmap that loads.
LEMMA LoadsNow ==
  ASSUME NEW q, TableIs(q), NEW t \in Callers, NEW p \in UmPcs, NEW x, umPc[t] # "idle",
         Atm!UmGoto(t, p), Atm!UmKeep, (UNCHANGED umCur /\ x = umCur[t]) \/ Atm!UmSetCur(t, x),
         LoadEffect
  PROVE  Loads(q, t, p, x)
BY DEF Loads

\* The locations of t.
LEMMA MyLocs ==
  ASSUME NEW q, TableIs(q), NEW t \in Callers, umPc[t] # "idle"
  PROVE  /\ Atm!UmLock(umUnit[t]) = LockAt(Bucket(t)) /\ Atm!UmList(umUnit[t]) = ListAt(Bucket(t))
         /\ LockAt(Bucket(t)) \in Atm!UnitMapLocs /\ ListAt(Bucket(t)) \in Atm!UnitMapLocs
         /\ OwnerAt(umUnit[t]) \in Atm!UnitMapLocs
<1>1. Atm!UmLock(umUnit[t]) = LockAt(Bucket(t)) /\ Atm!UmList(umUnit[t]) = ListAt(Bucket(t))
  BY DEF Atm!UmLock, Atm!UmList, LockAt, ListAt, Bucket
<1> QED BY <1>1, Mine1, Locations

------------------------------------------------------------------------------
(* Steps without a store: the spinlock's wait, walks and ends *)

\* The steps of a call of the spinlock: before it, while it waits, and after it.
Spinning(top, spin) == <<top, spin>> \in {<<"map", "map spin">>, <<"unmap", "unmap spin">>}
Entering(top, spin, in) ==
    <<top, spin, in>> \in {<<"map", "map spin", "map list">>,
                           <<"unmap", "unmap spin", "unmap list">>}
Leaving(at, p) ==
    <<at, p>> \in {<<"map unlock", "give pool">>, <<"map fail", "give free">>,
                   <<"unmap unlock", "give free">>}

\* Waiting for the lock.
LEMMA SpinWaits ==
  ASSUME NEW q, TableIs(q), NEW t \in Callers, Atm!UmKeep, UNCHANGED umCur,
         NEW top, NEW spin, Spinning(top, spin),
         umPc[t] = spin,
         \E i \in Atm!Readable(t, Atm!UmLock(umUnit[t])) :
           /\ Atm!SpinIsLocked(t, Atm!UmLock(umUnit[t]), i)
           /\ Atm!UmGoto(t, IF mem[Atm!UmLock(umUnit[t])][i].val THEN spin ELSE top)
  PROVE  TableIs(q)'
<1> USE DEF Spinning
<1> DEFINE l == Atm!UmLock(umUnit[t])
<1>1. umPc[t] # "idle" /\ l \in Atm!UnitMapLocs
  BY MyLocs
<1>2. PICK i \in Atm!Readable(t, l), p \in {top, spin} :
        Atm!AcquireLoad(t, l, i) /\ Atm!UmGoto(t, p)
  BY DEF Atm!SpinIsLocked
<1> HIDE DEF l
<1>3. LoadEffect
  BY <1>1, <1>2, ReadHas
<1>4. p \in UmPcs
  BY DEF UmPcs, FreePcs, MappedPcs
<1>5. Loads(q, t, p, umCur[t])
  BY <1>1, <1>2, <1>3, <1>4, LoadsNow
<1>6. Ready(q, t, p, umCur[t])
  <2>1. /\ p \in {"map", "map spin"} =>
             /\ umThread[t] = mapped[umUnit[t]] /\ MyFree(t)
        /\ p \in {"unmap", "unmap spin"} => \E k \in 1..Len(q[Bucket(t)]) : MyFind(q, t, k)
    BY Knows DEF FreePcs, MappedPcs, ThreadPcs
  <2>2. /\ p \notin NewPcs \cup WrotePcs /\ umPc[t] # "new unit"
        /\ umPc[t] \notin LockPcs /\ p \notin LockPcs /\ p \notin WalkPcs
        /\ p \notin {"map test", "map next", "reuse unit"}
        /\ (p \in ThreadPcs \/ p \in FreePcs) => p \in {"map", "map spin"}
        /\ p \in MappedPcs => p \in {"unmap", "unmap spin"}
    BY DEF NewPcs, WrotePcs, LockPcs, WalkPcs, FreePcs, MappedPcs, ThreadPcs
  <2> QED BY <2>1, <2>2 DEF Ready
<1> QED BY <1>5, <1>6, LoadDone

\* What a head or a link points to.
LEMMA LinksListed ==
  ASSUME NEW S, NEW s \in Seq(S)
  PROVE  /\ s # <<>> => Len(s) \in 1..Len(s)
         /\ LastOf(s) = NULL \/ Listed(s, LastOf(s))
         /\ \A k \in 1..Len(s) : /\ k # 1 => k - 1 \in 1..Len(s) /\ NextOf(s, k) = s[k - 1]
                                 /\ NextOf(s, k) = NULL \/ Listed(s, NextOf(s, k))
<1>1. s # <<>> => Len(s) \in 1..Len(s)
  OBVIOUS
<1>2. \A k \in 1..Len(s) : k # 1 => k - 1 \in 1..Len(s)
  OBVIOUS
<1> QED BY <1>1, <1>2 DEF LastOf, NextOf, Listed

\* The head of the list under the lock.
LEMMA MapLoadsList ==
  ASSUME NEW q, TableIs(q), NEW t \in Callers, Atm!UmKeep,
         Atm!LoadList(t, "map list", "map test")
  PROVE  TableIs(q)'
<1> DEFINE b == Bucket(t)
           s == q[b]
           l == Atm!UmList(umUnit[t])
<1>1. umPc[t] = "map list" /\ umPc[t] # "idle" /\ Atm!UmGoto(t, "map test")
  BY DEF Atm!LoadList
<1>2. l = ListAt(b) /\ l \in Atm!UnitMapLocs
  BY <1>1, MyLocs
<1>3. PICK i \in Atm!Readable(t, l) :
        Atm!RelaxedLoad(t, l, i) /\ Atm!UmSetCur(t, mem[l][i].val)
  BY DEF Atm!LoadList
<1>4. PICK x : x = mem[l][i].val
  OBVIOUS
<1>5. LoadEffect /\ x \in HasAll(t)[ListAt(b)] /\ Atm!UmSetCur(t, x)
  <2> HIDE DEF b
  <2>1. LoadEffect /\ mem[l][i].val \in HasAll(t)[l]
    BY <1>2, <1>3, ReadHas
  <2> QED BY <1>2, <1>3, <1>4, <2>1
<1> HIDE DEF l
<1>6. /\ umThread[t] = mapped[umUnit[t]] /\ MyFree(t) /\ MyList(q, t)
  BY <1>1, Knows DEF FreePcs, LockPcs, ThreadPcs
<1>7. x = NULL \/ Listed(s, x)
  <2>1. x = LastOf(s)
    BY <1>5, <1>6 DEF MyList, KnowsList
  <2>2. s \in Seq(Elems)
    BY <1>1, Mine1
  <2> HIDE DEF s
  <2> QED BY <2>1, <2>2, LinksListed
<1>8. Loads(q, t, "map test", x)
  BY <1>1, <1>5, LoadsNow DEF UmPcs, FreePcs
<1>9. Ready(q, t, "map test", x)
  BY <1>1, <1>6, <1>7 DEF Ready, NewPcs, WrotePcs, LockPcs, WalkPcs, FreePcs, MappedPcs, ThreadPcs
<1> QED BY <1>8, <1>9, LoadDone

\* The unit of an element under the lock.
LEMMA MapLoadsUnit ==
  ASSUME NEW q, TableIs(q), NEW t \in Callers, Atm!UmKeep, UNCHANGED umCur,
         umPc[t] = "map test", umCur[t] \in Elems,
         NEW i \in Atm!Readable(t, UnitAt(umCur[t])), Atm!RelaxedLoad(t, UnitAt(umCur[t]), i),
         NEW v, v = mem[UnitAt(umCur[t])][i].val,
         Atm!UmGoto(t, IF v = NULL THEN "reuse unit" ELSE "map next")
  PROVE  TableIs(q)'
<1> DEFINE b == Bucket(t)
           s == q[b]
<1>0. PICK e : e = umCur[t]
  OBVIOUS
<1>1. UnitAt(e) \in Atm!UnitMapLocs /\ e \in Elems
  BY <1>0, Locations
<1>2. LoadEffect /\ v \in HasAll(t)[UnitAt(e)]
  BY <1>0, <1>1, ReadHas
<1>3. /\ umThread[t] = mapped[umUnit[t]] /\ MyFree(t) /\ MyList(q, t)
      /\ e = NULL \/ Listed(s, e)
  BY <1>0, Knows DEF FreePcs, LockPcs, ThreadPcs
<1>4. e # NULL
  BY <1>1, StructuresAssumption DEF Lifo!SyncLifoConstants
<1>5. Listed(s, e) /\ Held[e] = v
  BY <1>2, <1>3, <1>4 DEF MyList, KnowsList, Listed
<1>6. PICK p : p = IF v = NULL THEN "reuse unit" ELSE "map next"
  OBVIOUS
<1>7. Loads(q, t, p, e)
  BY <1>0, <1>2, <1>6, LoadsNow DEF UmPcs, FreePcs
<1>8. Ready(q, t, p, e)
  BY <1>1, <1>3, <1>5, <1>6
     DEF Ready, NewPcs, WrotePcs, LockPcs, WalkPcs, FreePcs, MappedPcs, ThreadPcs
<1> QED BY <1>7, <1>8, LoadDone

\* The next element under the lock.
LEMMA MapLoadsNext ==
  ASSUME NEW q, TableIs(q), NEW t \in Callers, Atm!UmKeep,
         Atm!LoadNext(t, "map next", "map test")
  PROVE  TableIs(q)'
<1> DEFINE b == Bucket(t)
           s == q[b]
<1>0. PICK l : l = NextAt(umCur[t])
  OBVIOUS
<1>1. /\ umPc[t] = "map next" /\ umPc[t] # "idle" /\ Atm!UmGoto(t, "map test")
      /\ \E i \in Atm!Readable(t, l) : Atm!RelaxedLoad(t, l, i) /\ Atm!UmSetCur(t, mem[l][i].val)
  BY <1>0 DEF Atm!LoadNext, NextAt
<1>2. PICK i \in Atm!Readable(t, l) :
        Atm!RelaxedLoad(t, l, i) /\ Atm!UmSetCur(t, mem[l][i].val)
  BY <1>1
<1>3. PICK x : x = mem[l][i].val
  OBVIOUS
<1>4. /\ umThread[t] = mapped[umUnit[t]] /\ MyFree(t) /\ MyList(q, t)
      /\ Listed(s, umCur[t])
  BY <1>1, Knows DEF FreePcs, LockPcs, ThreadPcs
<1>5. s \in Seq(Elems) /\ umCur[t] \in Elems /\ l \in Atm!UnitMapLocs
  <2>1. s \in Seq(Elems)
    BY <1>1, Mine1
  <2>2. umCur[t] \in Elems
    <3> HIDE DEF s
    <3> QED BY <1>4, <2>1, ListedType
  <2> QED BY <1>0, <2>1, <2>2, Locations
<1>6. LoadEffect /\ x \in HasAll(t)[l] /\ Atm!UmSetCur(t, x)
  BY <1>2, <1>3, <1>5, ReadHas
<1>7. x = NULL \/ Listed(s, x)
  <2>1. PICK k \in 1..Len(s) : umCur[t] = s[k]
    BY <1>4 DEF Listed
  <2>2. x = NextOf(s, k)
    BY <1>0, <1>4, <1>6, <2>1 DEF MyList, KnowsList, KnowsNext
  <2> HIDE DEF s
  <2> QED BY <1>5, <2>1, <2>2, LinksListed
<1>8. Loads(q, t, "map test", x)
  BY <1>1, <1>6, LoadsNow DEF UmPcs, FreePcs
<1>9. Ready(q, t, "map test", x)
  BY <1>1, <1>4, <1>7 DEF Ready, NewPcs, WrotePcs, LockPcs, WalkPcs, FreePcs, MappedPcs, ThreadPcs
<1> QED BY <1>8, <1>9, LoadDone

\* Places in a list of n.
LEMMA Places ==
  ASSUME NEW n \in Nat, NEW m \in 1..n, NEW j \in m..n
  PROVE  /\ j \in 1..n /\ j \in 0..n /\ j \in 1..j /\ \A k \in 1..j : k \in 1..n
         /\ m # j => /\ j - 1 \in m..n /\ j - 1 \in 0..n /\ j # 1
                    /\ \A k \in 1..(j - 1) : k \in 1..j
OBVIOUS

\* The last place is not before any other.
LEMMA LastPlace ==
  ASSUME NEW n \in Nat, NEW m \in 1..n
  PROVE  n \in m..n
OBVIOUS

\* The list of the bucket of t.
LEMMA MyPlaces ==
  ASSUME NEW q, TableIs(q), NEW t \in Callers, umPc[t] # "idle"
  PROVE  \E s, n : /\ s = q[Bucket(t)] /\ n = Len(s) /\ n \in Nat /\ s \in Seq(Elems) /\ Distinct(s)
                   /\ \A k \in 1..n : s[k] \in Elems
<1>1. q[Bucket(t)] \in Seq(Elems) /\ Bucket(t) \in Atm!UmBuckets
  BY Mine1
<1>2. Distinct(q[Bucket(t)])
  BY <1>1 DEF TableIs, Buckets
<1>3. ASSUME NEW s \in Seq(Elems) PROVE Len(s) \in Nat /\ \A k \in 1..Len(s) : s[k] \in Elems
  OBVIOUS
<1> QED BY <1>1, <1>2, <1>3

\* Where a walk is.
LEMMA MyWalk ==
  ASSUME NEW q, TableIs(q), NEW t \in Callers, umPc[t] \in WalkPcs
  PROVE  \E m \in 1..Len(q[Bucket(t)]) : \E j \in m..Len(q[Bucket(t)]) :
           /\ MyFind(q, t, m) /\ MyNext(q, t, j) /\ umCur[t] = q[Bucket(t)][j]
           /\ umPc[t] \in {"get next", "unmap next"} => m # j
           /\ umPc[t] \in {"get thread", "unmap store"} => m = j
<1>1. Looks(q, t)
  BY DEF TableIs
<1> QED BY <1>1 DEF Looks, MyFind, MyNext

\* Where its unit is.
LEMMA MyPlace ==
  ASSUME NEW q, TableIs(q), NEW t \in Callers, umPc[t] \in MappedPcs
  PROVE  \E m \in 1..Len(q[Bucket(t)]) : MyFind(q, t, m)
<1>1. Looks(q, t)
  BY DEF TableIs
<1> QED BY <1>1 DEF Looks, MyFind

\* A walk finds its unit where it is and nowhere else.
LEMMA WalksUnit ==
  ASSUME NEW q, TableIs(q), NEW t \in Callers, Atm!UmKeep, UNCHANGED umCur,
         NEW at, umPc[t] = at, umCur[t] \in Elems,
         NEW i \in Atm!Readable(t, UnitAt(umCur[t])), Atm!RelaxedLoad(t, UnitAt(umCur[t]), i),
         NEW v, v = mem[UnitAt(umCur[t])][i].val,
         NEW p, Atm!UmGoto(t, p),
         \/ at = "get test" /\ p = IF v = umUnit[t] THEN "get thread" ELSE "get next"
         \/ at = "unmap test" /\ p = IF v = umUnit[t] THEN "unmap store" ELSE "unmap next"
  PROVE  TableIs(q)'
<1>0. PICK e : e = umCur[t]
  OBVIOUS
<1>5. PICK s, n : /\ s = q[Bucket(t)] /\ n = Len(s) /\ n \in Nat /\ s \in Seq(Elems) /\ Distinct(s)
                  /\ \A k \in 1..n : s[k] \in Elems
  <2>1. umPc[t] # "idle"
    OBVIOUS
  <2> QED BY <2>1, MyPlaces
<1>1. umPc[t] # "idle" /\ UnitAt(e) \in Atm!UnitMapLocs /\ e \in Elems
  BY <1>0, Locations
<1>2. LoadEffect /\ v \in HasAll(t)[UnitAt(e)]
  BY <1>0, <1>1, ReadHas
<1>3. \E m \in 1..n : \E j \in m..n : MyFind(q, t, m) /\ MyNext(q, t, j) /\ e = s[j]
  <2>1. umPc[t] \in WalkPcs
    BY DEF WalkPcs
  <2>2. \E m \in 1..Len(q[Bucket(t)]) : \E j \in m..Len(q[Bucket(t)]) :
          MyFind(q, t, m) /\ MyNext(q, t, j) /\ umCur[t] = q[Bucket(t)][j]
    <3>1. \E m \in 1..Len(q[Bucket(t)]) : \E j \in m..Len(q[Bucket(t)]) :
           /\ MyFind(q, t, m) /\ MyNext(q, t, j) /\ umCur[t] = q[Bucket(t)][j]
           /\ umPc[t] \in {"get next", "unmap next"} => m # j
           /\ umPc[t] \in {"get thread", "unmap store"} => m = j
      BY <2>1, MyWalk
    <3> QED BY <3>1
  <2> QED BY <1>0, <1>5, <2>2
<1>4. PICK m \in 1..n : \E j \in m..n : MyFind(q, t, m) /\ MyNext(q, t, j) /\ e = s[j]
  BY <1>3
<1>6. PICK j \in m..n : MyFind(q, t, m) /\ MyNext(q, t, j) /\ e = s[j]
  BY <1>4
<1>14. j \in 1..n /\ j \in 0..n
  BY <1>4, <1>5, <1>6, Places
<1>7. OnlyIn(HasAll(t), umUnit[t], s[m])
  BY <1>5, <1>6 DEF MyFind, Finds
<1>8. v = umUnit[t] <=> m = j
  <2>1. m = j => v = umUnit[t]
    BY <1>2, <1>6, <1>7 DEF OnlyIn
  <2>2. m # j => s[m] # e
    BY <1>4, <1>5, <1>6, <1>14 DEF Distinct
  <2>3. m # j => v # umUnit[t]
    BY <1>1, <1>2, <1>7, <2>2 DEF OnlyIn
  <2> QED BY <2>1, <2>3
<1>9. p \in UmPcs /\ p \in WalkPcs
  BY DEF UmPcs, WalkPcs
<1>10. Loads(q, t, p, e)
  BY <1>0, <1>1, <1>2, <1>9, LoadsNow
<1>11. MyNext(q, t, j)'
  <2>1. \A k \in 0..Len(q[Bucket(t)]) : MyNext(q, t, k) => MyNext(q, t, k)'
    BY <1>10, LoadKeeps
  <2> QED BY <1>5, <1>6, <1>14, <2>1
<1>12. p \in LockPcs => MyList(q, t)
  BY Knows DEF LockPcs, NewPcs
<1>13. Ready(q, t, p, e)
  <2>1. /\ p \notin NewPcs \cup WrotePcs /\ umPc[t] # "new unit" /\ (umPc[t] \in LockPcs <=> p \in LockPcs)
        /\ p \notin ThreadPcs /\ p \notin FreePcs /\ p \notin MappedPcs
        /\ p \notin {"map test", "map next", "reuse unit"}
    BY DEF NewPcs, WrotePcs, LockPcs, FreePcs, MappedPcs, ThreadPcs
  <2>2. /\ p \in {"get next", "unmap next"} => m # j
        /\ p \in {"get thread", "unmap store"} => m = j
    BY <1>8
  <2>3. m \in 1..Len(q[Bucket(t)]) /\ j \in m..Len(q[Bucket(t)]) /\ e = q[Bucket(t)][j]
    BY <1>5, <1>4, <1>6
  <2> QED BY <1>6, <1>11, <1>12, <2>1, <2>2, <2>3 DEF Ready
<1> QED BY <1>10, <1>13, LoadDone

\* A walk goes on to an older element, not past its own.
LEMMA WalksNext ==
  ASSUME NEW q, TableIs(q), NEW t \in Callers, Atm!UmKeep,
         NEW at, NEW p, Atm!LoadNext(t, at, p),
         <<at, p>> \in {<<"get next", "get test">>, <<"unmap next", "unmap test">>}
  PROVE  TableIs(q)'
<1>0. PICK l : l = NextAt(umCur[t])
  OBVIOUS
<1>6. PICK s, n : /\ s = q[Bucket(t)] /\ n = Len(s) /\ n \in Nat /\ s \in Seq(Elems) /\ Distinct(s)
                  /\ \A k \in 1..n : s[k] \in Elems
  <2>1. umPc[t] # "idle"
    BY DEF Atm!LoadNext
  <2> QED BY <2>1, MyPlaces
<1>1. /\ umPc[t] = at /\ umPc[t] # "idle" /\ Atm!UmGoto(t, p)
      /\ \E i \in Atm!Readable(t, l) : Atm!RelaxedLoad(t, l, i) /\ Atm!UmSetCur(t, mem[l][i].val)
  BY <1>0 DEF Atm!LoadNext, NextAt
<1>2. PICK i \in Atm!Readable(t, l) :
        Atm!RelaxedLoad(t, l, i) /\ Atm!UmSetCur(t, mem[l][i].val)
  BY <1>1
<1>3. PICK x : x = mem[l][i].val
  OBVIOUS
<1>16. \E m \in 1..n : \E j \in m..n : MyFind(q, t, m) /\ MyNext(q, t, j) /\ umCur[t] = s[j] /\ m # j
  <2>1. umPc[t] \in WalkPcs /\ umPc[t] \in {"get next", "unmap next"}
    BY <1>1 DEF WalkPcs
  <2> QED BY <1>6, <2>1, MyWalk
<1>4. PICK m \in 1..n : \E j \in m..n : MyFind(q, t, m) /\ MyNext(q, t, j) /\ umCur[t] = s[j] /\ m # j
  BY <1>16
<1>5. PICK j \in m..n : MyFind(q, t, m) /\ MyNext(q, t, j) /\ umCur[t] = s[j] /\ m # j
  BY <1>4
<1>7. /\ j \in 1..n /\ j - 1 \in m..n /\ j - 1 \in 0..n
      /\ j # 1 /\ s[j] \in Elems /\ j \in 1..j /\ \A k \in 1..(j - 1) : k \in 1..j
  <2>2. /\ j \in 1..n /\ j - 1 \in m..n /\ j - 1 \in 0..n
        /\ j # 1 /\ j \in 1..j /\ \A k \in 1..(j - 1) : k \in 1..j
    BY <1>4, <1>5, <1>6, Places
  <2> QED BY <1>6, <2>2
<1>8. l \in Atm!UnitMapLocs
  BY <1>0, <1>5, <1>7, Locations
<1>9. LoadEffect /\ x \in HasAll(t)[l] /\ Atm!UmSetCur(t, x)
  BY <1>2, <1>3, <1>8, ReadHas
<1>10. x = s[j - 1] /\ MyNext(q, t, j - 1)
  <2>1. KnowsNext(s, HasAll(t), j)
    BY <1>5, <1>6 DEF MyNext
  <2>2. j \in 1..j /\ \A k \in 1..(j - 1) : k \in 1..j
    BY <1>7
  <2>3. x = NextOf(s, j)
    BY <1>0, <1>5, <1>9, <2>1, <2>2 DEF KnowsNext
  <2>4. KnowsNext(s, HasAll(t), j - 1)
    BY <2>1, <2>2 DEF KnowsNext
  <2> QED BY <1>6, <1>7, <2>3, <2>4 DEF NextOf, MyNext
<1>11. p \in UmPcs /\ p \in WalkPcs
  BY DEF UmPcs, WalkPcs
<1>12. Loads(q, t, p, x)
  BY <1>1, <1>9, <1>11, LoadsNow
<1>13. MyNext(q, t, j - 1)'
  <2>1. \A k \in 0..Len(q[Bucket(t)]) : MyNext(q, t, k) => MyNext(q, t, k)'
    BY <1>12, LoadKeeps
  <2> QED BY <1>6, <1>7, <1>10, <2>1
<1>14. p \in LockPcs => MyList(q, t)
  BY <1>1, Knows DEF LockPcs, NewPcs
<1>15. Ready(q, t, p, x)
  <2>1. /\ p \notin NewPcs \cup WrotePcs /\ umPc[t] # "new unit" /\ (umPc[t] \in LockPcs <=> p \in LockPcs)
        /\ p \notin ThreadPcs /\ p \notin FreePcs /\ p \notin MappedPcs
        /\ p \notin {"map test", "map next", "reuse unit"}
        /\ p \notin {"get next", "unmap next", "get thread", "unmap store"}
    BY <1>1 DEF NewPcs, WrotePcs, LockPcs, FreePcs, MappedPcs, ThreadPcs
  <2>2. m \in 1..Len(q[Bucket(t)]) /\ j - 1 \in m..Len(q[Bucket(t)]) /\ x = q[Bucket(t)][j - 1]
    BY <1>4, <1>6, <1>7, <1>10
  <2> QED BY <1>5, <1>13, <1>14, <2>1, <2>2 DEF Ready
<1> QED BY <1>12, <1>15, LoadDone

\* The head that unmap reads under the lock.
LEMMA UnmapLoadsList ==
  ASSUME NEW q, TableIs(q), NEW t \in Callers, Atm!UmKeep,
         Atm!LoadList(t, "unmap list", "unmap test")
  PROVE  TableIs(q)'
<1>0. PICK l : l = Atm!UmList(umUnit[t])
  OBVIOUS
<1>8. PICK s, n : /\ s = q[Bucket(t)] /\ n = Len(s) /\ n \in Nat /\ s \in Seq(Elems) /\ Distinct(s)
                  /\ \A k \in 1..n : s[k] \in Elems
  <2>1. umPc[t] # "idle"
    BY DEF Atm!LoadList
  <2> QED BY <2>1, MyPlaces
<1>1. umPc[t] = "unmap list" /\ umPc[t] # "idle" /\ Atm!UmGoto(t, "unmap test")
  BY DEF Atm!LoadList
<1>2. l = ListAt(Bucket(t)) /\ l \in Atm!UnitMapLocs
  BY <1>0, <1>1, MyLocs
<1>3. PICK i \in Atm!Readable(t, l) :
        Atm!RelaxedLoad(t, l, i) /\ Atm!UmSetCur(t, mem[l][i].val)
  BY <1>0 DEF Atm!LoadList
<1>4. PICK x : x = mem[l][i].val
  OBVIOUS
<1>5. LoadEffect /\ x \in HasAll(t)[ListAt(Bucket(t))] /\ Atm!UmSetCur(t, x)
  <2>1. LoadEffect /\ mem[l][i].val \in HasAll(t)[l]
    BY <1>2, <1>3, ReadHas
  <2> QED BY <1>2, <1>3, <1>4, <2>1
<1>6. MyList(q, t) /\ \E m \in 1..n : MyFind(q, t, m)
  <2>1. umPc[t] \in MappedPcs /\ umPc[t] \in LockPcs
    BY <1>1 DEF MappedPcs, LockPcs
  <2>2. \E m \in 1..n : MyFind(q, t, m)
    BY <1>8, <2>1, MyPlace
  <2> QED BY <2>1, <2>2, Knows
<1>7. PICK m \in 1..n : MyFind(q, t, m)
  BY <1>6
<1>9. PICK j \in m..n : x = s[j]
  BY <1>5, <1>7, <1>8 DEF MyFind, Finds
<1>10. MyNext(q, t, j) /\ j \in 0..n
  <2>1. KnowsNext(s, HasAll(t), n)
    BY <1>6, <1>8 DEF MyList, KnowsList
  <2>2. j \in 0..n /\ \A k \in 1..j : k \in 1..n
    BY <1>7, <1>8, <1>9, Places
  <2> QED BY <1>8, <2>1, <2>2 DEF KnowsNext, MyNext
<1>11. Loads(q, t, "unmap test", x)
  BY <1>1, <1>5, LoadsNow DEF UmPcs, WalkPcs
<1>12. MyNext(q, t, j)'
  <2>1. \A k \in 0..Len(q[Bucket(t)]) : MyNext(q, t, k) => MyNext(q, t, k)'
    BY <1>11, LoadKeeps
  <2> QED BY <1>8, <1>10, <2>1
<1>13. Ready(q, t, "unmap test", x)
  <2>1. m \in 1..Len(q[Bucket(t)]) /\ j \in m..Len(q[Bucket(t)]) /\ x = q[Bucket(t)][j]
    BY <1>7, <1>8, <1>9
  <2> QED BY <1>1, <1>6, <1>7, <1>12, <2>1
          DEF Ready, NewPcs, WrotePcs, LockPcs, WalkPcs, FreePcs, MappedPcs, ThreadPcs
<1> QED BY <1>11, <1>13, LoadDone

\* The head that get reads without it: whatever was published with it can be read.
LEMMA GetLoadsList ==
  ASSUME NEW q, TableIs(q), NEW t \in Callers, Atm!UmKeep,
         Atm!AcquireList(t, "get list", "get test")
  PROVE  TableIs(q)'
<1>0. PICK l, b : l = Atm!UmList(umUnit[t]) /\ b = Bucket(t)
  OBVIOUS
<1>8. PICK s, n : /\ s = q[Bucket(t)] /\ n = Len(s) /\ n \in Nat /\ s \in Seq(Elems) /\ Distinct(s)
                  /\ \A k \in 1..n : s[k] \in Elems
  <2>1. umPc[t] # "idle"
    BY DEF Atm!AcquireList
  <2> QED BY <2>1, MyPlaces
<1>1. umPc[t] = "get list" /\ umPc[t] # "idle" /\ Atm!UmGoto(t, "get test")
  BY DEF Atm!AcquireList
<1>2. l = ListAt(b) /\ l \in Atm!UnitMapLocs
  BY <1>0, <1>1, MyLocs
<1>3. PICK i \in Atm!Readable(t, l) :
        Atm!AcquireLoad(t, l, i) /\ Atm!UmSetCur(t, mem[l][i].val)
  BY <1>0 DEF Atm!AcquireList
<1>4. PICK x : x = mem[l][i].val
  OBVIOUS
<1>5. /\ LoadEffect /\ x \in HasAll(t)[ListAt(b)] /\ Atm!UmSetCur(t, x)
      /\ \A k \in Atm!UnitMapLocs : HasAll(t)'[k] \subseteq Told(ListAt(b), x, k)
  <2>1. /\ LoadEffect /\ mem[l][i].val \in HasAll(t)[l]
        /\ \A k \in Atm!UnitMapLocs : HasAll(t)'[k] \subseteq Told(l, mem[l][i].val, k)
    BY <1>2, <1>3, ReadHas
  <2> QED BY <1>2, <1>3, <1>4, <2>1
<1>6. \E m \in 1..n : MyFind(q, t, m)
  <2>1. umPc[t] \in MappedPcs
    BY <1>1 DEF MappedPcs
  <2> QED BY <1>8, <2>1, MyPlace
<1>7. PICK m \in 1..n : MyFind(q, t, m)
  BY <1>6
<1>9. PICK j \in m..n : x = s[j]
  BY <1>0, <1>5, <1>7, <1>8 DEF MyFind, Finds
<1>10. j \in 1..n /\ \A k \in 1..j : k \in 1..n /\ s[k] \in Elems
  BY <1>7, <1>8, <1>9, Places
<1>11. KnowsNext(s, HasAll(t)', j)
  <2>3. b \in Atm!UmBuckets
    BY <1>0, <1>1, Mine1
  <2>1. \A k \in 1..j : Told(ListAt(b), s[j], NextAt(s[k])) \subseteq {NextOf(s, k)}
    BY <1>0, <1>8, <1>10, <2>3 DEF TableIs, Chained
  <2>2. \A k \in 1..j : NextAt(s[k]) \in Atm!UnitMapLocs
    BY <1>10, Locations
  <2> QED BY <1>5, <1>9, <2>1, <2>2 DEF KnowsNext
<1>12. Loads(q, t, "get test", x)
  BY <1>1, <1>5, LoadsNow DEF UmPcs, WalkPcs
<1>13. MyNext(q, t, j)'
  <2>1. Bucket(t)' = Bucket(t)
    BY <1>12, LoadKeeps
  <2> QED BY <1>8, <1>11, <2>1 DEF MyNext
<1>14. Ready(q, t, "get test", x)
  <2>1. m \in 1..Len(q[Bucket(t)]) /\ j \in m..Len(q[Bucket(t)]) /\ x = q[Bucket(t)][j]
    BY <1>7, <1>8, <1>9
  <2> QED BY <1>1, <1>7, <1>13, <2>1
          DEF Ready, NewPcs, WrotePcs, LockPcs, WalkPcs, FreePcs, MappedPcs, ThreadPcs
<1> QED BY <1>12, <1>14, LoadDone

\* Memory that stays as it is.
LEMMA NothingLoads ==
  ASSUME Memory, UNCHANGED <<mem, seen>>
  PROVE  LoadEffect
BY MemoryStays DEF LoadEffect

\* A step of t that writes nothing, whatever variables of t it changes.
LEMMA LoadStays ==
  ASSUME NEW q, TableIs(q), NEW t \in Callers, umPc[t] # "idle", LoadEffect,
         Shaped, OthersStay(t, umUnit[t]), Moves(t, umUnit[t], OwnerAt(umUnit[t])),
         umUnit' = umUnit, umPc[t] \in LockPcs <=> umPc'[t] \in LockPcs,
         Works(t)', InLock(q, t)', Maps(q, t)', Looks(q, t)'
  PROVE  TableIs(q)'
<1>0. PICK u : u = umUnit[t]
  OBVIOUS
<1> DEFINE l == OwnerAt(u)
<1>1. /\ u \in Units /\ Atm!Newest(l) = "taken"
      /\ Memory /\ DOMAIN mem = Atm!UnitMapLocs
  BY <1>0, Mine1
<1>2. l \in Atm!UnitMapLocs
  BY <1>1, Locations
<1> HIDE DEF l
<1>3. Effect(l, "taken") /\ Atm!Newest(l)' = "taken"
  BY <1>1, <1>2 DEF LoadEffect, Effect
<1> USE DEF l
<1>4. Writes(q, t, u, l, "taken")
  BY DEF Writes
<1>5. StepOf(q, q, t, u, l, "taken")
  BY <1>0, <1>1, <1>3, <1>4 DEF StepOf
<1>6. OwnerOf(q, u)'
  BY <1>3 DEF OwnerOf
<1>7. l # LockAt(Atm!HashIndex(u)) /\ Moves(t, u, l)
  BY <1>0, Locations
<1> HIDE DEF l
<1> QED BY <1>4, <1>5, <1>6, <1>7, QuietStep

\* What get returns.
LEMMA GetReturns ==
  ASSUME NEW q, TableIs(q), NEW t \in Callers, Atm!GetReturn(t)
  PROVE  TableIs(q)'
<1>0. PICK l, u : l = ThreadAt(umCur[t]) /\ u = umUnit[t]
  OBVIOUS
<1>1. /\ umPc[t] = "get thread" /\ umPc[t] # "idle" /\ Atm!UmGoto(t, "got")
      /\ \E i \in Atm!Readable(t, l) :
           Atm!RelaxedLoad(t, l, i) /\ umThread' = [umThread EXCEPT ![t] = mem[l][i].val]
      /\ UNCHANGED <<umUnit, umCur, umFree, umCalls, mapped>>
  BY <1>0 DEF Atm!GetReturn, ThreadAt
<1>2. PICK i \in Atm!Readable(t, l) :
        Atm!RelaxedLoad(t, l, i) /\ umThread' = [umThread EXCEPT ![t] = mem[l][i].val]
  BY <1>1
<1>3. PICK x : x = mem[l][i].val
  OBVIOUS
<1>4. PICK s, n : /\ s = q[Bucket(t)] /\ n = Len(s) /\ n \in Nat /\ s \in Seq(Elems) /\ Distinct(s)
                  /\ \A k \in 1..n : s[k] \in Elems
  BY <1>1, MyPlaces
<1>5. \E m \in 1..n : MyFind(q, t, m) /\ umCur[t] = s[m]
  <2>1. umPc[t] \in WalkPcs
    BY <1>1 DEF WalkPcs
  <2>2. \E m \in 1..Len(q[Bucket(t)]) : \E j \in m..Len(q[Bucket(t)]) :
           /\ MyFind(q, t, m) /\ MyNext(q, t, j) /\ umCur[t] = q[Bucket(t)][j]
           /\ umPc[t] \in {"get next", "unmap next"} => m # j
           /\ umPc[t] \in {"get thread", "unmap store"} => m = j
    BY <2>1, MyWalk
  <2> QED BY <1>1, <1>4, <2>2
<1>6. PICK m \in 1..n : MyFind(q, t, m) /\ umCur[t] = s[m]
  BY <1>5
<1>7. l \in Atm!UnitMapLocs
  BY <1>0, <1>4, <1>6, Locations
<1>8. LoadEffect /\ x \in HasAll(t)[l] /\ umThread' = [umThread EXCEPT ![t] = x]
  BY <1>2, <1>3, <1>7, ReadHas
<1>9. x = mapped[u]
  BY <1>0, <1>4, <1>6, <1>8 DEF MyFind, Finds
<1>10. /\ umPc = [c \in Callers |-> umPc[c]] /\ umUnit = [c \in Callers |-> umUnit[c]]
       /\ umThread = [c \in Callers |-> umThread[c]] /\ umCur = [c \in Callers |-> umCur[c]]
       /\ mapped = [w \in Units |-> mapped[w]]
  BY DEF TableIs, TableTypes
<1>11. /\ umPc' = [c \in Callers |-> umPc'[c]] /\ umPc'[t] = "got"
       /\ \A c \in Callers \ {t} : umPc'[c] = umPc[c]
       /\ umThread' = [c \in Callers |-> umThread'[c]] /\ umThread'[t] = x
       /\ \A c \in Callers \ {t} : umThread'[c] = umThread[c]
       /\ umUnit' = umUnit /\ umCur' = umCur /\ mapped' = mapped /\ umFree' = umFree
  BY <1>1, <1>8, <1>10 DEF Atm!UmGoto
<1>12. Shaped /\ OthersStay(t, u)
  BY <1>10, <1>11 DEF Shaped, OthersStay
<1>13. Moves(t, u, OwnerAt(u))
  BY <1>0, <1>1, <1>11 DEF Moves, UmPcs, MappedPcs, LockPcs, NewPcs
<1>14. u \in Units /\ Atm!Newest(OwnerAt(u)) = "taken" /\ OwnerAt(u) \in DOMAIN mem
       /\ Memory /\ DOMAIN mem = Atm!UnitMapLocs
  BY <1>0, <1>1, Mine1, Locations
<1>15. Effect(OwnerAt(u), "taken") /\ Atm!Newest(OwnerAt(u))' = "taken"
  <2> DEFINE o == OwnerAt(u)
  <2>1. o \in DOMAIN mem /\ Atm!Newest(o) = "taken" /\ Memory /\ DOMAIN mem = Atm!UnitMapLocs
    BY <1>14
  <2> HIDE DEF o
  <2>2. Effect(o, "taken") /\ Atm!Newest(o)' = "taken"
    BY <1>8, <2>1 DEF LoadEffect, Effect
  <2> QED BY <2>2 DEF o
<1>16. MyFind(q, t, m)'
  <2>1. \E w : OwnerAt(u) = OwnerAt(w)
    OBVIOUS
  <2>2. \A k \in 1..Len(q[Bucket(t)]) : MyFind(q, t, k) => MyFind(q, t, k)'
    BY <1>1, <1>11, <1>15, <2>1, OutsideKept
  <2> QED BY <1>4, <1>6, <2>2
<1>17. umUnit'[t] = u /\ mapped'[umUnit'[t]] = mapped[u] /\ Bucket(t)' = Bucket(t)
  BY <1>0, <1>11 DEF Bucket
<1>18. Works(t)'
  BY <1>9, <1>11, <1>14, <1>15, <1>17 DEF Works
<1>19. InLock(q, t)' /\ Maps(q, t)'
  BY <1>11 DEF InLock, Maps, LockPcs, NewPcs, FreePcs, WrotePcs
<1>20. Looks(q, t)'
  <2>1. \E k \in 1..Len(q[Bucket(t)']) :
          Finds(q[Bucket(t)'], HasAll(t)', umUnit'[t], Bucket(t)', mapped'[umUnit'[t]], k)
    BY <1>4, <1>16, <1>17 DEF MyFind
  <2>2. umPc'[t] \notin WalkPcs
    BY <1>11 DEF WalkPcs
  <2> QED BY <2>1, <2>2 DEF Looks
<1>21. umPc[t] \in LockPcs <=> umPc'[t] \in LockPcs
  BY <1>1, <1>11 DEF LockPcs, NewPcs
<1> QED BY <1>0, <1>1, <1>8, <1>11, <1>12, <1>13, <1>18, <1>19, <1>20, <1>21, LoadStays

\* After a lookup the unit goes on.
LEMMA AfterGetStep ==
  ASSUME NEW q, TableIs(q), NEW t \in Callers, Atm!AfterGet(t)
  PROVE  TableIs(q)'
<1>1. PICK p \in {"give pool", "unmap"} : Atm!UmGoto(t, p)
  BY DEF Atm!AfterGet
<1>2. umPc[t] = "got" /\ UNCHANGED <<mem, seen>> /\ UNCHANGED umCur /\ Atm!UmKeep
  BY DEF Atm!AfterGet, Atm!atomicVars
<1>3. LoadEffect
  BY <1>2, NothingLoads DEF TableIs, TableTypes
<1>4. p \in UmPcs
  BY DEF UmPcs, MappedPcs
<1>5. Loads(q, t, p, umCur[t])
  BY <1>1, <1>2, <1>3, <1>4, LoadsNow
<1>6. \E m \in 1..Len(q[Bucket(t)]) : MyFind(q, t, m)
  BY <1>2, MyPlace DEF MappedPcs
<1>7. Ready(q, t, p, umCur[t])
  <2>1. /\ p \notin NewPcs \cup WrotePcs /\ umPc[t] # "new unit"
        /\ umPc[t] \notin LockPcs /\ p \notin LockPcs
        /\ p \notin ThreadPcs /\ p \notin FreePcs /\ p \notin WalkPcs
        /\ p \notin {"map test", "map next", "reuse unit"}
    BY <1>2 DEF NewPcs, WrotePcs, LockPcs, FreePcs, ThreadPcs, WalkPcs
  <2> QED BY <1>6, <2>1 DEF Ready
<1> QED BY <1>5, <1>7, LoadDone

\* No element is empty: a new one, or none.
LEMMA MallocStep ==
  ASSUME NEW q, TableIs(q), NEW t \in Callers, Atm!MapMalloc(t)
  PROVE  TableIs(q)'
<1>1. /\ umPc[t] = "map test" /\ umPc[t] # "idle" /\ UNCHANGED <<mem, seen>>
      /\ UNCHANGED <<umUnit, umThread, umCalls, mapped>>
  BY DEF Atm!MapMalloc, Atm!atomicVars
<1>2. LoadEffect
  BY <1>1, NothingLoads DEF TableIs, TableTypes
<1>3. umThread[t] = mapped[umUnit[t]] /\ MyFree(t) /\ MyList(q, t)
  BY <1>1, Knows DEF ThreadPcs, FreePcs, LockPcs
<1>4. CASE Atm!UmGoto(t, "map fail") /\ UNCHANGED <<umFree, umCur>>
  <2>1. Loads(q, t, "map fail", umCur[t])
    BY <1>1, <1>2, <1>4, LoadsNow DEF Atm!UmKeep, UmPcs, FreePcs
  <2>2. Ready(q, t, "map fail", umCur[t])
    BY <1>1, <1>3 DEF Ready, NewPcs, WrotePcs, LockPcs, WalkPcs, FreePcs, MappedPcs, ThreadPcs
  <2> QED BY <2>1, <2>2, LoadDone
<1>5. CASE /\ \E e \in umFree : umFree' = umFree \ {e} /\ Atm!UmSetCur(t, e)
           /\ Atm!UmGoto(t, "new unit")
  <2>1. PICK e \in umFree : umFree' = umFree \ {e} /\ Atm!UmSetCur(t, e)
    BY <1>5
  <2>0. PICK u : u = umUnit[t]
    OBVIOUS
  <2>2. /\ umPc = [c \in Callers |-> umPc[c]] /\ umUnit = [c \in Callers |-> umUnit[c]]
        /\ umThread = [c \in Callers |-> umThread[c]] /\ umCur = [c \in Callers |-> umCur[c]]
        /\ mapped = [w \in Units |-> mapped[w]]
    BY DEF TableIs, TableTypes
  <2>3. /\ umPc' = [c \in Callers |-> umPc'[c]] /\ umPc'[t] = "new unit"
        /\ \A c \in Callers \ {t} : umPc'[c] = umPc[c]
        /\ umCur' = [c \in Callers |-> umCur'[c]] /\ umCur'[t] = e
        /\ \A c \in Callers \ {t} : umCur'[c] = umCur[c]
        /\ umUnit' = umUnit /\ umThread' = umThread /\ mapped' = mapped
    BY <1>1, <1>5, <2>1, <2>2 DEF Atm!UmGoto, Atm!UmSetCur
  <2>4. Shaped /\ OthersStay(t, u)
    BY <2>1, <2>2, <2>3 DEF Shaped, OthersStay
  <2>5. /\ e \in Elems /\ Held[e] \notin Units /\ \A b \in Atm!UmBuckets : ~Listed(q[b], e)
    BY <2>1 DEF TableIs, Elements, Buckets
  <2>6. Moves(t, u, OwnerAt(u))
    BY <1>1, <2>0, <2>1, <2>3 DEF Moves, UmPcs, FreePcs, LockPcs
  <2>7. u \in Units /\ Atm!Newest(OwnerAt(u)) = "taken" /\ OwnerAt(u) \in DOMAIN mem
        /\ Memory /\ DOMAIN mem = Atm!UnitMapLocs
    BY <1>1, <2>0, Mine1, Locations
  <2>8. Effect(OwnerAt(u), "taken") /\ Atm!Newest(OwnerAt(u))' = "taken"
    <3> DEFINE o == OwnerAt(u)
    <3>1. o \in DOMAIN mem /\ Atm!Newest(o) = "taken" /\ Memory /\ DOMAIN mem = Atm!UnitMapLocs
      BY <2>7
    <3> HIDE DEF o
    <3>2. Effect(o, "taken") /\ Atm!Newest(o)' = "taken"
      BY <1>2, <3>1 DEF LoadEffect, Effect
    <3> QED BY <3>2 DEF o
  <2>9. MyList(q, t)' /\ MyFree(t)' /\ \A f \in Elems : Held'[f] = Held[f]
    <3>1. \E w : OwnerAt(u) = OwnerAt(w)
      OBVIOUS
    <3>2. /\ MyList(q, t) => MyList(q, t)'
          /\ MyFree(t) => MyFree(t)'
          /\ \A f \in Elems : Held'[f] = Held[f]
      BY <1>1, <2>3, <2>8, <3>1, OutsideKept
    <3> QED BY <1>3, <3>2
  <2>10. umUnit'[t] = u /\ mapped'[umUnit'[t]] = mapped[u] /\ Bucket(t)' = Bucket(t)
    BY <2>0, <2>3 DEF Bucket
  <2>11. Works(t)'
    BY <1>3, <2>0, <2>3, <2>7, <2>8, <2>10 DEF Works
  <2>12. InLock(q, t)'
    BY <2>3, <2>9 DEF InLock, MyList
  <2>13. Maps(q, t)'
    <3>1. Atm!UmBuckets' = Atm!UmBuckets
      BY DEF Atm!UmBuckets, Atm!HashIndex
    <3>2. KnowsFree(HasAll(t)', umUnit'[t])
      BY <2>9 DEF MyFree
    <3>3. e \in Elems \ umFree' /\ Held'[e] \notin Units /\ umPc'[t] \notin WrotePcs
      BY <2>1, <2>3, <2>5, <2>9 DEF WrotePcs
    <3> QED BY <2>3, <2>5, <3>1, <3>2, <3>3 DEF Maps
  <2>14. Looks(q, t)'
    BY <2>3 DEF Looks, MappedPcs, WalkPcs
  <2>15. umPc[t] \in LockPcs <=> umPc'[t] \in LockPcs
    BY <1>1, <2>3 DEF LockPcs, NewPcs
  <2> QED BY <1>1, <1>2, <2>0, <2>3, <2>4, <2>6, <2>11, <2>12, <2>13, <2>14, <2>15, LoadStays
<1> QED BY <1>4, <1>5 DEF Atm!MapMalloc

------------------------------------------------------------------------------
(* Stores to an element in a critical section *)

\* In its section t writes v to a location l of the element it is at, on the way to step p.
Stores(q, t, p, l, v) ==
    /\ TableIs(q) /\ t \in Callers /\ umPc[t] \in LockPcs /\ p \in LockPcs
    /\ Atm!UmGoto(t, p) /\ Atm!UmKeep /\ UNCHANGED umCur
    /\ umCur[t] \in Elems \ umFree /\ l \in {UnitAt(umCur[t]), ThreadAt(umCur[t]), NextAt(umCur[t])}
    /\ Atm!RelaxedStore(t, l, v)

\* What such a step changes.
LEMMA StoreKeeps ==
  ASSUME NEW q, NEW t, NEW p, NEW l, NEW v, Stores(q, t, p, l, v)
  PROVE  /\ umPc'[t] = p /\ umUnit' = umUnit /\ umThread' = umThread /\ umCur' = umCur
         /\ mapped' = mapped /\ umFree' = umFree /\ Bucket(t)' = Bucket(t)
         /\ umUnit[t] \in Units /\ Atm!Newest(OwnerAt(umUnit[t]))' = "taken"
         /\ \A k \in Atm!UnitMapLocs : /\ HasAll(t)'[k] = Has(t, k)'
                                       /\ k = l => HasAll(t)'[k] \subseteq {v}
                                       /\ k # l => HasAll(t)'[k] \subseteq HasAll(t)[k]
         /\ \A e \in Elems : Held'[e] = IF l = UnitAt(e) THEN v ELSE Held[e]
         /\ l \in Atm!UnitMapLocs /\ Shaped /\ OthersStay(t, umUnit[t]) /\ Effect(l, v)
<1>1. /\ TableIs(q) /\ t \in Callers /\ umPc[t] \in LockPcs /\ p \in LockPcs
      /\ Atm!UmGoto(t, p) /\ Atm!UmKeep /\ UNCHANGED umCur
      /\ umCur[t] \in Elems \ umFree
      /\ l \in {UnitAt(umCur[t]), ThreadAt(umCur[t]), NextAt(umCur[t])}
      /\ Atm!RelaxedStore(t, l, v)
  BY DEF Stores
<1>2. umPc[t] # "idle" /\ p \in UmPcs
  BY <1>1 DEF LockPcs, NewPcs, UmPcs, FreePcs, WrotePcs, MappedPcs, WalkPcs
<1>3. /\ umPc'[t] = p /\ umUnit' = umUnit /\ umThread' = umThread
      /\ mapped' = mapped /\ umFree' = umFree /\ Bucket(t)' = Bucket(t)
      /\ Shaped /\ OthersStay(t, umUnit[t])
  <2>1. /\ Shaped /\ OthersStay(t, umUnit[t])
         /\ umPc'[t] = p /\ umCur'[t] = umCur[t]
         /\ umUnit' = umUnit /\ umThread' = umThread /\ mapped' = mapped /\ umFree' = umFree
         /\ Bucket(t)' = Bucket(t)
    BY <1>1, <1>2, Keeping
  <2> QED BY <2>1
<1>4. /\ umUnit[t] \in Units /\ Atm!Newest(OwnerAt(umUnit[t])) = "taken"
      /\ Memory /\ DOMAIN mem = Atm!UnitMapLocs
  BY <1>1, <1>2, Mine1
<1>5. l \in Atm!UnitMapLocs
  BY <1>1, Locations
<1>6. WriteEffect(t, l, v)
  BY <1>1, <1>4, <1>5, StoreEffect
<1>7. Effect(l, v)
  BY <1>6 DEF WriteEffect, Effect
<1>8. OwnerAt(umUnit[t]) # l /\ OwnerAt(umUnit[t]) \in Atm!UnitMapLocs
  BY <1>1, <1>4, Locations
<1>9. Atm!Newest(OwnerAt(umUnit[t]))' = "taken"
  <2>1. \A k \in Atm!UnitMapLocs : k # l => Atm!Newest(k)' = Atm!Newest(k)
    BY <1>4, <1>7 DEF Effect
  <2>2. PICK k \in Atm!UnitMapLocs : k = OwnerAt(umUnit[t])
    BY <1>8
  <2>3. k = OwnerAt(umUnit'[t])
    BY <1>3, <2>2
  <2> QED BY <1>4, <1>8, <2>1, <2>2, <2>3
<1>10. \A k \in Atm!UnitMapLocs : /\ HasAll(t)'[k] = Has(t, k)'
                                  /\ k = l => HasAll(t)'[k] \subseteq {v}
                                  /\ k # l => HasAll(t)'[k] \subseteq HasAll(t)[k]
  <2>1. DOMAIN mem' = Atm!UnitMapLocs
    BY <1>4, <1>6 DEF WriteEffect
  <2>2. \A k \in Atm!UnitMapLocs : HasAll(t)'[k] = Has(t, k)' /\ HasAll(t)[k] = Has(t, k)
    BY <1>4, <2>1 DEF HasAll
  <2>3. \A k \in Atm!UnitMapLocs : /\ k = l => Has(t, k)' \subseteq {v}
                                   /\ k # l => Has(t, k)' \subseteq Has(t, k)
    BY <1>1, <1>4, <1>6 DEF WriteEffect
  <2> QED BY <2>2, <2>3
<1>11. \A e \in Elems : Held'[e] = IF l = UnitAt(e) THEN v ELSE Held[e]
  BY <1>4, <1>7, EffectGrows
<1> QED BY <1>1, <1>3, <1>4, <1>5, <1>7, <1>9, <1>10, <1>11

\* What t must know after it.
Stored(q, t, p, l, v) ==
    LET s == q[Bucket(t)]
        u == umUnit[t]
        e == umCur[t]
    IN  /\ Mine(q, t, e) /\ (umPc[t] = "new unit" => l = UnitAt(e))
        /\ \/ l = UnitAt(e) /\ v \in {u, NULL} /\ Held[e] \notin Units \ {u}
           \/ l = ThreadAt(e) /\ Held[e] = u
           \/ l = NextAt(e) /\ umPc[t] \in NewPcs
        /\ p \notin WalkPcs \cup {"map test", "map next", "reuse unit", "new unit"}
        /\ p \in ThreadPcs => umThread[t] = mapped[u]
        /\ MyList(q, t)'
        /\ p = "reuse thread" => Listed(s, e)
        /\ p \in FreePcs => MyFree(t)'
        /\ p \in WrotePcs => MyOnly(t, e)'
        /\ p \in NewPcs => umPc[t] \in NewPcs
        /\ p \in {"new next", "publish"} => HasAll(t)'[ThreadAt(e)] \subseteq {mapped[u]}
        /\ p = "publish" => HasAll(t)'[NextAt(e)] \subseteq {LastOf(s)}
        /\ p \in MappedPcs => \E i \in 1..Len(s) : MyFind(q, t, i)'

\* A store that is known keeps the table.
LEMMA StoreDone ==
  ASSUME NEW q, NEW t, NEW p, NEW l, NEW v, Stores(q, t, p, l, v), Stored(q, t, p, l, v)
  PROVE  TableIs(q)'
<1>0. PICK u, e, s : u = umUnit[t] /\ e = umCur[t] /\ s = q[Bucket(t)]
  OBVIOUS
<1>1. /\ TableIs(q) /\ t \in Callers /\ umPc[t] \in LockPcs /\ p \in LockPcs
      /\ e \in Elems \ umFree /\ p \in UmPcs /\ umPc[t] # "idle"
  BY <1>0 DEF Stores, LockPcs, NewPcs, UmPcs, FreePcs, WrotePcs, MappedPcs, WalkPcs
<1>2. /\ umPc'[t] = p /\ umUnit' = umUnit /\ umThread' = umThread /\ umCur' = umCur
      /\ mapped' = mapped /\ umFree' = umFree /\ Bucket(t)' = Bucket(t)
      /\ umUnit[t] \in Units /\ Atm!Newest(OwnerAt(umUnit[t]))' = "taken"
      /\ \A k \in Atm!UnitMapLocs : HasAll(t)'[k] = Has(t, k)'
      /\ l \in Atm!UnitMapLocs /\ Shaped /\ OthersStay(t, umUnit[t]) /\ Effect(l, v)
  BY StoreKeeps
<1>3. /\ umUnit'[t] = u /\ umCur'[t] = e /\ q[Bucket(t)'] = s /\ mapped'[umUnit'[t]] = mapped[u]
      /\ u \in Units
  BY <1>0, <1>2
<1>4. /\ Mine(q, t, e) /\ (umPc[t] = "new unit" => l = UnitAt(e))
      /\ \/ l = UnitAt(e) /\ v \in {u, NULL} /\ Held[e] \notin Units \ {u}
         \/ l = ThreadAt(e) /\ Held[e] = u
         \/ l = NextAt(e) /\ umPc[t] \in NewPcs
      /\ p \notin WalkPcs \cup {"map test", "map next", "reuse unit", "new unit"}
      /\ p \in ThreadPcs => umThread[t] = mapped[u]
      /\ p = "reuse thread" => Listed(s, e)
      /\ p \in NewPcs => umPc[t] \in NewPcs
  BY <1>0 DEF Stored
<1>5. /\ MyList(q, t)'
      /\ p \in FreePcs => MyFree(t)'
      /\ p \in WrotePcs => MyOnly(t, e)'
      /\ p \in {"new next", "publish"} => HasAll(t)'[ThreadAt(e)] \subseteq {mapped[u]}
      /\ p = "publish" => HasAll(t)'[NextAt(e)] \subseteq {LastOf(s)}
      /\ p \in MappedPcs => \E i \in 1..Len(s) : MyFind(q, t, i)'
  <2>1. MyList(q, t)' /\ (p \in FreePcs => MyFree(t)')
    BY DEF Stored
  <2>2. p \in WrotePcs => MyOnly(t, e)'
    <3>1. p \in WrotePcs => MyOnly(t, umCur[t])'
      BY DEF Stored
    <3>2. MyOnly(t, umCur[t])' <=> MyOnly(t, e)'
      BY <1>2, <1>3 DEF MyOnly
    <3> QED BY <3>1, <3>2
  <2>3. /\ p \in {"new next", "publish"} => HasAll(t)'[ThreadAt(umCur[t])] \subseteq {mapped[umUnit[t]]}
        /\ p = "publish" => HasAll(t)'[NextAt(umCur[t])] \subseteq {LastOf(q[Bucket(t)])}
    BY DEF Stored
  <2>4. p \in MappedPcs => \E i \in 1..Len(q[Bucket(t)]) : MyFind(q, t, i)'
    BY DEF Stored
  <2> QED BY <1>0, <2>1, <2>2, <2>3, <2>4
<1>6. Works(t)'
  BY <1>0, <1>2, <1>3, <1>4 DEF Works
<1>7. InLock(q, t)'
  BY <1>2, <1>3, <1>4, <1>5 DEF InLock, MyList
<1>8. Maps(q, t)'
  <2>1. Atm!UmBuckets' = Atm!UmBuckets
    BY DEF Atm!UmBuckets, Atm!HashIndex
  <2>2. p \in NewPcs => /\ umCur'[t] \in Elems \ umFree'
                        /\ \A b \in Atm!UmBuckets' : ~Listed(q[b], umCur'[t])
    <3>1. p \in NewPcs => Maps(q, t) /\ umPc[t] \in NewPcs
      BY <1>1, <1>4 DEF TableIs
    <3> QED BY <1>0, <1>1, <1>2, <1>3, <2>1, <3>1 DEF Maps
  <2>3. /\ p \in FreePcs => KnowsFree(HasAll(t)', umUnit'[t])
        /\ p \in WrotePcs => OnlyIn(HasAll(t)', umUnit'[t], umCur'[t])
    BY <1>3, <1>5 DEF MyFree, MyOnly
  <2>4. /\ p \in {"new next", "publish"} =>
             Has(t, ThreadAt(umCur[t]))' \subseteq {mapped'[umUnit'[t]]}
        /\ p = "publish" => Has(t, NextAt(umCur[t]))' \subseteq {LastOf(q[Bucket(t)'])}
    <3>1. PICK j, k : j = ThreadAt(e) /\ k = NextAt(e)
      OBVIOUS
    <3>2. j \in Atm!UnitMapLocs /\ k \in Atm!UnitMapLocs
      BY <1>1, <3>1, Locations
    <3>3. /\ p \in {"new next", "publish"} => Has(t, j)' \subseteq {mapped[u]}
          /\ p = "publish" => Has(t, k)' \subseteq {LastOf(s)}
      BY <1>2, <1>5, <3>1, <3>2
    <3>4. j = ThreadAt(umCur'[t]) /\ k = NextAt(umCur'[t])
      BY <1>3, <3>1
    <3> QED BY <1>3, <3>3, <3>4
  <2> QED BY <1>2, <1>4, <2>2, <2>3, <2>4 DEF Maps
<1>9. Looks(q, t)'
  BY <1>2, <1>3, <1>4, <1>5 DEF Looks, MyFind
<1>10. Writes(q, t, u, l, v)
  BY <1>0, <1>1, <1>4 DEF Writes
<1>11. StepOf(q, q, t, u, l, v)
  BY <1>0, <1>1, <1>2, <1>3, <1>10 DEF StepOf
<1>12. Moves(t, u, l)
  BY <1>0, <1>1, <1>2, <1>3, <1>4 DEF Moves
<1>13. l # OwnerAt(u) /\ l # LockAt(Atm!HashIndex(u))
  <2>1. l \in {UnitAt(e), ThreadAt(e), NextAt(e)}
    BY <1>4
  <2> QED BY <2>1 DEF UnitAt, ThreadAt, NextAt, OwnerAt, LockAt
<1>14. umPc[t] \in LockPcs <=> umPc'[t] \in LockPcs
  BY <1>1, <1>2
<1> QED BY <1>1, <1>2, <1>6, <1>7, <1>8, <1>9, <1>10, <1>11, <1>12, <1>13, <1>14, QuietStep

\* It can read less of other locations.
Shrinks(t, l) == \A k \in Atm!UnitMapLocs : k # l => HasAll(t)'[k] \subseteq HasAll(t)[k]

\* A store lets its thread read nothing more elsewhere.
LEMMA StoreShrinks ==
  ASSUME NEW q, NEW t, NEW p, NEW l, NEW v, Stores(q, t, p, l, v)
  PROVE  Shrinks(t, l)
BY StoreKeeps DEF Shrinks

\* The unit of t is nowhere but, perhaps, in e.
Elsewhere(t, e) == \A f \in Elems : f # e => umUnit[t] \notin HasAll(t)[UnitAt(f)]

\* What t knows after it.
LEMMA StoreKnows ==
  ASSUME NEW q, NEW t, NEW p, NEW l, NEW v, Stores(q, t, p, l, v), NEW e, e = umCur[t]
  PROVE  /\ l # NextAt(e) \/ ~Listed(q[Bucket(t)], e) => MyList(q, t)'
         /\ l = UnitAt(e) /\ v = umUnit[t] /\ Elsewhere(t, e) => MyOnly(t, e)'
         /\ l # UnitAt(e) /\ MyOnly(t, e) => MyOnly(t, e)'
         /\ l = UnitAt(e) /\ v # umUnit[t] /\ Elsewhere(t, e) => MyFree(t)'
<1>0. PICK u, b, s : u = umUnit[t] /\ b = Bucket(t) /\ s = q[Bucket(t)]
  OBVIOUS
<1> DEFINE V == HasAll(t)
           W == HasAll(t)'
           G == Held'
<1>1. /\ TableIs(q) /\ t \in Callers /\ umPc[t] \in LockPcs /\ e \in Elems
      /\ l \in {UnitAt(e), ThreadAt(e), NextAt(e)} /\ umPc[t] # "idle"
  BY DEF Stores, LockPcs, NewPcs
<1>2. /\ umUnit' = umUnit /\ Bucket(t)' = Bucket(t)
      /\ \A k \in Atm!UnitMapLocs : /\ k = l => W[k] \subseteq {v}
                                    /\ k # l => W[k] \subseteq V[k]
      /\ \A f \in Elems : G[f] = IF l = UnitAt(f) THEN v ELSE Held[f]
  BY StoreKeeps
<1>3. MyList(q, t) /\ s \in Seq(Elems) /\ b \in Atm!UmBuckets
  BY <1>0, <1>1, Knows, Mine1
<1>4. /\ MyList(q, t)' <=> KnowsList(s, W, G, b)
      /\ MyList(q, t) <=> KnowsList(s, V, Held, b)
      /\ MyOnly(t, e)' <=> OnlyIn(W, u, e)
      /\ MyOnly(t, e) <=> OnlyIn(V, u, e)
      /\ MyFree(t)' <=> KnowsFree(W, u)
  BY <1>0, <1>2 DEF MyList, MyOnly, MyFree
<1> HIDE DEF V, W, G
<1>5. /\ \A f \in Elems : /\ UnitAt(f) \in Atm!UnitMapLocs /\ NextAt(f) \in Atm!UnitMapLocs
                          /\ l = UnitAt(f) => f = e
                          /\ l = NextAt(f) => f = e /\ l = NextAt(e)
      /\ ListAt(b) \in Atm!UnitMapLocs /\ l # ListAt(b)
  <2>1. ListAt(b) \in Atm!UnitMapLocs /\ l # ListAt(b)
    BY <1>1, <1>3, Locations
  <2>2. \A f \in Elems : /\ UnitAt(f) \in Atm!UnitMapLocs /\ NextAt(f) \in Atm!UnitMapLocs
                         /\ l = UnitAt(f) => f = e
                         /\ l = NextAt(f) => f = e /\ l = NextAt(e)
    <3>1. \A f \in Elems : UnitAt(f) \in Atm!UnitMapLocs /\ NextAt(f) \in Atm!UnitMapLocs
      BY Locations
    <3>2. \A f : (l = UnitAt(f) => f = e) /\ (l = NextAt(f) => f = e /\ l = NextAt(e))
      BY <1>1 DEF UnitAt, NextAt, ThreadAt
    <3> QED BY <3>1, <3>2
  <2> QED BY <2>1, <2>2
<1>6. ASSUME l # NextAt(e) \/ ~Listed(s, e) PROVE KnowsList(s, W, G, b)
  <2>0. \A i \in 1..Len(s) : s[i] \in Elems /\ Listed(s, s[i])
    BY <1>3 DEF Listed
  <2>1. W[ListAt(b)] \subseteq {LastOf(s)}
    BY <1>2, <1>3, <1>4, <1>5 DEF KnowsList
  <2>2. ASSUME NEW i \in 1..Len(s) PROVE W[NextAt(s[i])] \subseteq {NextOf(s, i)}
    <3>1. NextAt(s[i]) # l /\ NextAt(s[i]) \in Atm!UnitMapLocs
      BY <1>5, <1>6, <2>0
    <3> QED BY <1>2, <1>3, <1>4, <3>1 DEF KnowsList, KnowsNext
  <2>3. ASSUME NEW i \in 1..Len(s) PROVE W[UnitAt(s[i])] \subseteq {G[s[i]]}
    <3>1. UnitAt(s[i]) \in Atm!UnitMapLocs /\ s[i] \in Elems
      BY <1>5, <2>0
    <3>2. CASE l = UnitAt(s[i])
      BY <1>2, <3>1, <3>2
    <3>3. CASE l # UnitAt(s[i])
      <4>1. V[UnitAt(s[i])] \subseteq {Held[s[i]]}
        BY <1>3, <1>4 DEF KnowsList
      <4> QED BY <1>2, <3>1, <3>3, <4>1
    <3> QED BY <3>2, <3>3
  <2> QED BY <2>1, <2>2, <2>3 DEF KnowsList, KnowsNext
<1>7. ASSUME l = UnitAt(e), v = u, \A f \in Elems : f # e => u \notin V[UnitAt(f)]
      PROVE  OnlyIn(W, u, e)
  BY <1>1, <1>2, <1>5, <1>7 DEF OnlyIn
<1>8. ASSUME l # UnitAt(e), OnlyIn(V, u, e) PROVE OnlyIn(W, u, e)
  <2>1. \A f \in Elems : l # UnitAt(f) /\ UnitAt(f) \in Atm!UnitMapLocs
    BY <1>5, <1>8
  <2>2. \A f \in Elems : W[UnitAt(f)] \subseteq V[UnitAt(f)]
    BY <1>2, <2>1
  <2> QED BY <1>1, <1>8, <2>2 DEF OnlyIn
<1>9. ASSUME l = UnitAt(e), v # u, \A f \in Elems : f # e => u \notin V[UnitAt(f)]
      PROVE  KnowsFree(W, u)
  BY <1>1, <1>2, <1>5, <1>9 DEF KnowsFree
<1> USE DEF V
<1>10. l # NextAt(e) \/ ~Listed(q[Bucket(t)], e) => MyList(q, t)'
  BY <1>0, <1>4, <1>6
<1>11. l = UnitAt(e) /\ v = umUnit[t] /\ Elsewhere(t, e) => MyOnly(t, e)'
  BY <1>0, <1>4, <1>7 DEF Elsewhere
<1>12. l # UnitAt(e) /\ MyOnly(t, e) => MyOnly(t, e)'
  BY <1>4, <1>8
<1>13. l = UnitAt(e) /\ v # umUnit[t] /\ Elsewhere(t, e) => MyFree(t)'
  BY <1>0, <1>4, <1>9 DEF Elsewhere
<1> QED BY <1>10, <1>11, <1>12, <1>13

\* The unit that is in an element t knows of is what the element holds.
LEMMA OnlyHeld ==
  ASSUME NEW q, TableIs(q), NEW t \in Callers, NEW e \in Elems, MyOnly(t, e)
  PROVE  Held[e] = umUnit[t] /\ Elsewhere(t, e)
<1>1. Memory /\ DOMAIN mem = Atm!UnitMapLocs /\ UnitAt(e) \in DOMAIN mem
  BY Locations DEF TableIs, TableTypes
<1>2. Atm!Newest(UnitAt(e)) \in Has(t, UnitAt(e))
  <2> DEFINE k == UnitAt(e)
  <2>1. k \in DOMAIN mem
    BY <1>1
  <2> HIDE DEF k
  <2>2. Atm!Newest(k) \in Has(t, k)
    BY <1>1, <2>1, NewestHas
  <2> QED BY <2>2 DEF k
<1>3. HasAll(t)[UnitAt(e)] = Has(t, UnitAt(e)) /\ Held[e] = Atm!Newest(UnitAt(e))
  BY <1>1 DEF HasAll, Held
<1> QED BY <1>2, <1>3 DEF MyOnly, OnlyIn, Elsewhere

\* What the invariant says of a new element.
LEMMA NewMine ==
  ASSUME NEW q, TableIs(q), NEW t \in Callers, umPc[t] \in NewPcs
  PROVE  /\ umCur[t] \in Elems \ umFree /\ \A b \in Atm!UmBuckets : ~Listed(q[b], umCur[t])
         /\ ~Listed(q[Bucket(t)], umCur[t]) /\ Mine(q, t, umCur[t])
         /\ umPc[t] \in LockPcs /\ umPc[t] # "idle"
         /\ umPc[t] = "new unit" => Held[umCur[t]] \notin Units
         /\ umPc[t] \in {"new next", "publish"} =>
              HasAll(t)[ThreadAt(umCur[t])] \subseteq {mapped[umUnit[t]]}
         /\ umPc[t] = "publish" =>
              HasAll(t)[NextAt(umCur[t])] \subseteq {LastOf(q[Bucket(t)])}
<1>1. Maps(q, t) /\ umPc[t] \in LockPcs /\ umPc[t] # "idle"
  BY DEF TableIs, LockPcs, NewPcs
<1>2. /\ umCur[t] \in Elems \ umFree /\ \A b \in Atm!UmBuckets : ~Listed(q[b], umCur[t])
      /\ umPc[t] = "new unit" => Held[umCur[t]] \notin Units
  BY <1>1 DEF Maps
<1>3. Bucket(t) \in Atm!UmBuckets
  BY <1>1, Mine1
<1>4. DOMAIN mem = Atm!UnitMapLocs
  BY DEF TableIs, TableTypes
<1>5. /\ HasAll(t)[ThreadAt(umCur[t])] = Has(t, ThreadAt(umCur[t]))
      /\ HasAll(t)[NextAt(umCur[t])] = Has(t, NextAt(umCur[t]))
  BY <1>2, <1>4, Locations DEF HasAll
<1>6. /\ umPc[t] \in {"new next", "publish"} =>
           HasAll(t)[ThreadAt(umCur[t])] \subseteq {mapped[umUnit[t]]}
      /\ umPc[t] = "publish" =>
           HasAll(t)[NextAt(umCur[t])] \subseteq {LastOf(q[Bucket(t)])}
  BY <1>1, <1>5 DEF Maps
<1> QED BY <1>1, <1>2, <1>3, <1>6 DEF Mine

\* What it says of an element of the bucket.
LEMMA ListedMine ==
  ASSUME NEW q, TableIs(q), NEW t \in Callers, umPc[t] \in LockPcs, NEW e, Listed(q[Bucket(t)], e)
  PROVE  e \in Elems \ umFree /\ (e = umCur[t] => Mine(q, t, umCur[t]))
<1>1. umPc[t] # "idle"
  BY DEF LockPcs, NewPcs
<1>2. Bucket(t) \in Atm!UmBuckets /\ q[Bucket(t)] \in Seq(Elems)
  BY <1>1, Mine1
<1>3. e \in Elems
  BY <1>2, ListedType
<1>4. e \notin umFree
  BY <1>2 DEF TableIs, Buckets
<1> QED BY <1>3, <1>4 DEF Mine

\* An emptied element gets the unit.
LEMMA ReuseUnit ==
  ASSUME NEW q, TableIs(q), NEW t \in Callers, Atm!UmKeep, UNCHANGED umCur,
         umPc[t] = "reuse unit", Atm!UmGoto(t, "reuse thread"),
         Atm!RelaxedStore(t, UnitAt(umCur[t]), umUnit[t])
  PROVE  TableIs(q)'
<1>0. PICK e, u, l : e = umCur[t] /\ u = umUnit[t] /\ l = UnitAt(e)
  OBVIOUS
<1>1. umPc[t] \in LockPcs /\ umPc[t] # "idle" /\ umPc[t] \notin NewPcs
  BY DEF LockPcs, NewPcs
<1>2. /\ Listed(q[Bucket(t)], e) /\ Held[e] = NULL /\ MyFree(t) /\ MyList(q, t)
      /\ umThread[t] = mapped[u]
  BY <1>0, <1>1, Knows DEF FreePcs, ThreadPcs
<1>3. e \in Elems \ umFree /\ Mine(q, t, e)
  BY <1>0, <1>1, <1>2, ListedMine
<1>4. Stores(q, t, "reuse thread", l, u)
  BY <1>0, <1>1, <1>3 DEF Stores, LockPcs
<1>5. l # NextAt(e)
  BY <1>0 DEF UnitAt, NextAt
<1>6. MyList(q, t)'
  BY <1>0, <1>4, <1>5, StoreKnows
<1>7. MyOnly(t, e)'
  <2>1. Elsewhere(t, e)
    BY <1>2 DEF MyFree, KnowsFree, Elsewhere
  <2> QED BY <1>0, <1>4, <2>1, StoreKnows
<1>8. NULL \notin Units
  BY StructuresAssumption
<1>10. MyOnly(t, umCur[t])'
  <2>1. umCur'[t] = e /\ umUnit' = umUnit
    BY <1>0, <1>4, StoreKeeps
  <2> QED BY <1>7, <2>1 DEF MyOnly
<1>9. Stored(q, t, "reuse thread", l, u)
  BY <1>0, <1>2, <1>3, <1>6, <1>8, <1>10
     DEF Stored, NewPcs, WrotePcs, LockPcs, WalkPcs, FreePcs, MappedPcs, ThreadPcs
<1> QED BY <1>4, <1>9, StoreDone

\* Then its thread.
LEMMA ReuseThread ==
  ASSUME NEW q, TableIs(q), NEW t \in Callers, Atm!UmKeep, UNCHANGED umCur,
         umPc[t] = "reuse thread", Atm!UmGoto(t, "map unlock"),
         Atm!RelaxedStore(t, ThreadAt(umCur[t]), umThread[t])
  PROVE  TableIs(q)'
<1>0. PICK e, u, l, v : e = umCur[t] /\ u = umUnit[t] /\ l = ThreadAt(e) /\ v = umThread[t]
  OBVIOUS
<1>1. umPc[t] \in LockPcs /\ umPc[t] # "idle" /\ umPc[t] \notin NewPcs
  BY DEF LockPcs, NewPcs
<1>2. Listed(q[Bucket(t)], e) /\ MyOnly(t, e) /\ MyList(q, t) /\ v = mapped[u]
  <2>1. umPc[t] \in WrotePcs /\ umPc[t] \in ThreadPcs
    BY DEF WrotePcs, ThreadPcs
  <2> QED BY <1>0, <1>1, <2>1, Knows
<1>3. e \in Elems \ umFree /\ Mine(q, t, e)
  BY <1>0, <1>1, <1>2, ListedMine
<1>4. Stores(q, t, "map unlock", l, v)
  BY <1>0, <1>1, <1>3 DEF Stores, LockPcs
<1>5. l # NextAt(e) /\ l # UnitAt(e)
  BY <1>0 DEF UnitAt, NextAt, ThreadAt
<1>6. MyList(q, t)'
  BY <1>0, <1>4, <1>5, StoreKnows
<1>7. MyOnly(t, e)'
  BY <1>0, <1>2, <1>4, <1>5, StoreKnows
<1>8. Held[e] = u
  BY <1>0, <1>2, <1>3, OnlyHeld
<1>9. \E m \in 1..Len(q[Bucket(t)]) : MyFind(q, t, m)'
  <2>1. PICK s, n : /\ s = q[Bucket(t)] /\ n = Len(s) /\ n \in Nat /\ s \in Seq(Elems) /\ Distinct(s)
                    /\ \A k \in 1..n : s[k] \in Elems
    BY <1>1, MyPlaces
  <2>9. n \in Nat
    BY <2>1
  <2>2. PICK m \in 1..n : s[m] = e
    BY <1>2, <2>1 DEF Listed
  <2>3. /\ umUnit' = umUnit /\ Bucket(t)' = Bucket(t) /\ mapped' = mapped
        /\ l \in Atm!UnitMapLocs /\ \A k \in Atm!UnitMapLocs : k = l => HasAll(t)'[k] \subseteq {v}
    BY <1>4, StoreKeeps
  <2>4. HasAll(t)'[ThreadAt(s[m])] \subseteq {mapped[u]}
    BY <1>0, <1>2, <2>2, <2>3
  <2>5. OnlyIn(HasAll(t)', u, s[m])
    BY <1>0, <1>7, <2>2, <2>3 DEF MyOnly
  <2>6. HasAll(t)'[ListAt(Bucket(t))] \subseteq {s[j] : j \in m..n}
    <3>1. HasAll(t)'[ListAt(Bucket(t))] \subseteq {LastOf(s)}
      <4>1. KnowsList(s, HasAll(t)', Held', Bucket(t))
        BY <1>6, <2>1, <2>3 DEF MyList
      <4> QED BY <4>1 DEF KnowsList
    <3>2. n \in m..n
      BY <2>2, <2>9, LastPlace
    <3>3. s # <<>>
      <4>1. ~Listed(<<>>, e)
        BY EmptyList
      <4> QED BY <1>2, <2>1, <4>1
    <3> QED BY <2>1, <3>1, <3>2, <3>3 DEF LastOf
  <2>7. Finds(s, HasAll(t)', u, Bucket(t), mapped[u], m)
    BY <2>1, <2>4, <2>5, <2>6 DEF Finds
  <2>8. MyFind(q, t, m)'
    BY <1>0, <2>1, <2>3, <2>7 DEF MyFind
  <2> QED BY <2>1, <2>8
<1>10. Stored(q, t, "map unlock", l, v)
  BY <1>0, <1>2, <1>3, <1>6, <1>8, <1>9
     DEF Stored, NewPcs, WrotePcs, LockPcs, WalkPcs, FreePcs, MappedPcs, ThreadPcs
<1> QED BY <1>4, <1>10, StoreDone

\* The writes to a new element.
LEMMA NewUnit ==
  ASSUME NEW q, TableIs(q), NEW t \in Callers, Atm!UmKeep, UNCHANGED umCur,
         umPc[t] = "new unit", Atm!UmGoto(t, "new thread"),
         Atm!RelaxedStore(t, UnitAt(umCur[t]), umUnit[t])
  PROVE  TableIs(q)'
<1>0. PICK e, u, l : e = umCur[t] /\ u = umUnit[t] /\ l = UnitAt(e)
  OBVIOUS
<1>1. umPc[t] \in NewPcs /\ umPc[t] \in LockPcs
  BY DEF LockPcs, NewPcs
<1>2. /\ e \in Elems \ umFree /\ ~Listed(q[Bucket(t)], e) /\ Mine(q, t, e) /\ Held[e] \notin Units
      /\ MyFree(t) /\ umThread[t] = mapped[u]
  <2>1. /\ e \in Elems \ umFree /\ ~Listed(q[Bucket(t)], e) /\ Mine(q, t, e) /\ Held[e] \notin Units
    BY <1>0, <1>1, NewMine
  <2>2. MyFree(t) /\ umThread[t] = mapped[u]
    BY <1>0, Knows DEF FreePcs, ThreadPcs
  <2> QED BY <2>1, <2>2
<1>3. Stores(q, t, "new thread", l, u)
  BY <1>0, <1>1, <1>2 DEF Stores, LockPcs, NewPcs
<1>4. MyList(q, t)'
  BY <1>0, <1>2, <1>3, StoreKnows
<1>5. MyOnly(t, e)'
  <2>1. Elsewhere(t, e)
    BY <1>2 DEF MyFree, KnowsFree, Elsewhere
  <2> QED BY <1>0, <1>3, <2>1, StoreKnows
<1>6. MyOnly(t, umCur[t])'
  <2>1. umCur'[t] = e /\ umUnit' = umUnit
    BY <1>0, <1>3, StoreKeeps
  <2> QED BY <1>5, <2>1 DEF MyOnly
<1>7. Stored(q, t, "new thread", l, u)
  BY <1>0, <1>1, <1>2, <1>4, <1>6
     DEF Stored, NewPcs, WrotePcs, LockPcs, WalkPcs, FreePcs, MappedPcs, ThreadPcs
<1> QED BY <1>3, <1>7, StoreDone

\* A new element gets its thread, ...
LEMMA NewThread ==
  ASSUME NEW q, TableIs(q), NEW t \in Callers, Atm!UmKeep, UNCHANGED umCur,
         umPc[t] = "new thread", Atm!UmGoto(t, "new next"),
         Atm!RelaxedStore(t, ThreadAt(umCur[t]), umThread[t])
  PROVE  TableIs(q)'
<1>0. PICK e, u, l, v : e = umCur[t] /\ u = umUnit[t] /\ l = ThreadAt(e) /\ v = umThread[t]
  OBVIOUS
<1>1. umPc[t] \in NewPcs /\ umPc[t] \in LockPcs
  BY DEF LockPcs, NewPcs
<1>2. /\ e \in Elems \ umFree /\ ~Listed(q[Bucket(t)], e) /\ Mine(q, t, e)
      /\ MyOnly(t, e) /\ v = mapped[u] /\ Held[e] = u
  <2>1. /\ e \in Elems \ umFree /\ ~Listed(q[Bucket(t)], e) /\ Mine(q, t, e)
    BY <1>0, <1>1, NewMine
  <2>2. MyOnly(t, e) /\ v = mapped[u]
    BY <1>0, Knows DEF WrotePcs, ThreadPcs
  <2> QED BY <1>0, <2>1, <2>2, OnlyHeld
<1>3. Stores(q, t, "new next", l, v)
  BY <1>0, <1>1, <1>2 DEF Stores, LockPcs, NewPcs
<1>4. l # UnitAt(e) /\ l # NextAt(e)
  BY <1>0 DEF UnitAt, NextAt, ThreadAt
<1>5. MyList(q, t)' /\ MyOnly(t, e)'
  <2>1. MyList(q, t)'
    BY <1>0, <1>2, <1>3, StoreKnows
  <2>2. MyOnly(t, e)'
    BY <1>0, <1>2, <1>3, <1>4, StoreKnows
  <2> QED BY <2>1, <2>2
<1>6. MyOnly(t, umCur[t])'
  <2>1. umCur'[t] = e /\ umUnit' = umUnit
    BY <1>0, <1>3, StoreKeeps
  <2> QED BY <1>5, <2>1 DEF MyOnly
<1>7. HasAll(t)'[ThreadAt(umCur[t])] \subseteq {mapped[u]}
  <2>1. l \in Atm!UnitMapLocs /\ \A k \in Atm!UnitMapLocs : k = l => HasAll(t)'[k] \subseteq {v}
    BY <1>3, StoreKeeps
  <2> QED BY <1>0, <1>2, <2>1
<1>8. Stored(q, t, "new next", l, v)
  BY <1>0, <1>1, <1>2, <1>5, <1>6, <1>7
     DEF Stored, NewPcs, WrotePcs, LockPcs, WalkPcs, FreePcs, MappedPcs, ThreadPcs
<1> QED BY <1>3, <1>8, StoreDone

\* ... and its link to the newest element of its bucket.
LEMMA NewNext ==
  ASSUME NEW q, TableIs(q), NEW t \in Callers, Atm!UmKeep, UNCHANGED umCur,
         umPc[t] = "new next", Atm!UmGoto(t, "publish"),
         Atm!RelaxedStore(t, NextAt(umCur[t]), Atm!Newest(ListAt(Bucket(t))))
  PROVE  TableIs(q)'
<1>0. PICK e, u, l, v : /\ e = umCur[t] /\ u = umUnit[t] /\ l = NextAt(e)
                        /\ v = Atm!Newest(ListAt(Bucket(t)))
  OBVIOUS
<1>1. umPc[t] \in NewPcs /\ umPc[t] \in LockPcs /\ umPc[t] # "idle"
  BY DEF LockPcs, NewPcs
<1>2. /\ e \in Elems \ umFree /\ ~Listed(q[Bucket(t)], e) /\ Mine(q, t, e)
      /\ HasAll(t)[ThreadAt(e)] \subseteq {mapped[u]}
      /\ MyOnly(t, e) /\ v = LastOf(q[Bucket(t)])
  <2>1. /\ e \in Elems \ umFree /\ ~Listed(q[Bucket(t)], e) /\ Mine(q, t, e)
    BY <1>0, <1>1, NewMine
  <2>4. HasAll(t)[ThreadAt(e)] \subseteq {mapped[u]}
    BY <1>0, <1>1, NewMine
  <2>2. MyOnly(t, e)
    BY <1>0, Knows DEF WrotePcs
  <2>3. v = LastOf(q[Bucket(t)])
    <3>1. Bucket(t) \in Atm!UmBuckets
      BY <1>1, Mine1
    <3> QED BY <1>0, <3>1 DEF TableIs, Chained
  <2> QED BY <2>1, <2>2, <2>3, <2>4
<1>3. Stores(q, t, "publish", l, v)
  BY <1>0, <1>1, <1>2 DEF Stores, LockPcs, NewPcs
<1>4. l # UnitAt(e) /\ l # ThreadAt(e)
  BY <1>0 DEF UnitAt, NextAt, ThreadAt
<1>5. MyList(q, t)' /\ MyOnly(t, e)'
  <2>1. MyList(q, t)'
    BY <1>0, <1>2, <1>3, StoreKnows
  <2>2. MyOnly(t, e)'
    BY <1>0, <1>2, <1>3, <1>4, StoreKnows
  <2> QED BY <2>1, <2>2
<1>6. MyOnly(t, umCur[t])'
  <2>1. umCur'[t] = e /\ umUnit' = umUnit
    BY <1>0, <1>3, StoreKeeps
  <2> QED BY <1>5, <2>1 DEF MyOnly
<1>7. /\ HasAll(t)'[ThreadAt(umCur[t])] \subseteq {mapped[u]}
      /\ HasAll(t)'[NextAt(umCur[t])] \subseteq {LastOf(q[Bucket(t)])}
  <2>1. l \in Atm!UnitMapLocs /\ \A k \in Atm!UnitMapLocs : k = l => HasAll(t)'[k] \subseteq {v}
    BY <1>3, StoreKeeps
  <2>3. \A k \in Atm!UnitMapLocs : k # l => HasAll(t)'[k] \subseteq HasAll(t)[k]
    <3>1. Shrinks(t, l)
      BY <1>3, StoreShrinks
    <3> QED BY <3>1 DEF Shrinks
  <2>2. ThreadAt(e) \in Atm!UnitMapLocs
    BY <1>2, Locations
  <2> QED BY <1>0, <1>2, <1>4, <2>1, <2>2, <2>3
<1>8. Stored(q, t, "publish", l, v)
  BY <1>0, <1>1, <1>2, <1>5, <1>6, <1>7
     DEF Stored, NewPcs, WrotePcs, LockPcs, WalkPcs, FreePcs, MappedPcs, ThreadPcs
<1> QED BY <1>3, <1>8, StoreDone

\* The element is emptied.
LEMMA UnmapStores ==
  ASSUME NEW q, TableIs(q), NEW t \in Callers, Atm!UmKeep, UNCHANGED umCur,
         umPc[t] = "unmap store", Atm!UmGoto(t, "unmap unlock"),
         Atm!RelaxedStore(t, UnitAt(umCur[t]), NULL)
  PROVE  TableIs(q)'
<1>0. PICK e, u, l, v : e = umCur[t] /\ u = umUnit[t] /\ l = UnitAt(e) /\ v = NULL
  OBVIOUS
<1>1. umPc[t] \in LockPcs /\ umPc[t] # "idle" /\ umPc[t] \notin NewPcs /\ umPc[t] \in WalkPcs
  BY DEF LockPcs, NewPcs, WalkPcs
<1>2. MyList(q, t) /\ Listed(q[Bucket(t)], e) /\ MyOnly(t, e)
  <2>1. PICK s, n : /\ s = q[Bucket(t)] /\ n = Len(s) /\ n \in Nat /\ s \in Seq(Elems) /\ Distinct(s)
                    /\ \A k \in 1..n : s[k] \in Elems
    BY <1>1, MyPlaces
  <2>2. \E m \in 1..Len(q[Bucket(t)]) : \E j \in m..Len(q[Bucket(t)]) :
           /\ MyFind(q, t, m) /\ MyNext(q, t, j) /\ umCur[t] = q[Bucket(t)][j]
           /\ umPc[t] \in {"get next", "unmap next"} => m # j
           /\ umPc[t] \in {"get thread", "unmap store"} => m = j
    BY <1>1, MyWalk
  <2>3. PICK m \in 1..n : MyFind(q, t, m) /\ e = s[m]
    BY <1>0, <2>1, <2>2
  <2>4. MyOnly(t, e)
    BY <2>1, <2>3 DEF MyFind, Finds, MyOnly
  <2>5. Listed(q[Bucket(t)], e)
    BY <2>1, <2>3 DEF Listed
  <2> QED BY <1>1, <2>4, <2>5, Knows
<1>3. e \in Elems \ umFree /\ Mine(q, t, e)
  BY <1>0, <1>1, <1>2, ListedMine
<1>4. Held[e] = u /\ Elsewhere(t, e)
  BY <1>0, <1>2, <1>3, OnlyHeld
<1>5. Stores(q, t, "unmap unlock", l, v)
  BY <1>0, <1>1, <1>3 DEF Stores, LockPcs
<1>6. l # NextAt(e)
  BY <1>0 DEF UnitAt, NextAt
<1>7. v # u /\ u \in Units
  BY <1>0, <1>1, Mine1, StructuresAssumption
<1>8. MyList(q, t)'
  BY <1>0, <1>5, <1>6, StoreKnows
<1>9. MyFree(t)'
  <2>1. l = UnitAt(e) /\ v # umUnit[t] /\ Elsewhere(t, e)
    BY <1>0, <1>4, <1>7
  <2> QED BY <1>0, <1>5, <2>1, StoreKnows
<1>10. Stored(q, t, "unmap unlock", l, v)
  BY <1>0, <1>1, <1>3, <1>4, <1>8, <1>9
     DEF Stored, NewPcs, WrotePcs, LockPcs, WalkPcs, FreePcs, MappedPcs, ThreadPcs
<1> QED BY <1>5, <1>10, StoreDone

------------------------------------------------------------------------------
(* Writes to locks and owners *)

\* Reading less of every location that is neither a lock nor an owner, one knows as much.
LEMMA LessKnows ==
  ASSUME NEW V, NEW W, NEW l, (\E u : l = OwnerAt(u)) \/ (\E b : l = LockAt(b)),
         \A k \in Atm!UnitMapLocs : k # l => W[k] \subseteq V[k]
  PROVE  /\ \A s \in Seq(Elems), b \in Atm!UmBuckets : \A H, G :
              (KnowsList(s, V, H, b) /\ \A e \in Elems : G[e] = H[e]) => KnowsList(s, W, G, b)
         /\ \A u : KnowsFree(V, u) => KnowsFree(W, u)
         /\ \A s \in Seq(Elems), b \in Atm!UmBuckets : \A p \in 1..Len(s) : \A u, x :
              Finds(s, V, u, b, x, p) => Finds(s, W, u, b, x, p)
<1>1. /\ \A b \in Atm!UmBuckets : W[ListAt(b)] \subseteq V[ListAt(b)]
      /\ \A e \in Elems : /\ W[UnitAt(e)] \subseteq V[UnitAt(e)] /\ W[NextAt(e)] \subseteq V[NextAt(e)]
                          /\ W[ThreadAt(e)] \subseteq V[ThreadAt(e)]
  <2>1. \A b : l # ListAt(b) /\ \A e : l # UnitAt(e) /\ l # NextAt(e) /\ l # ThreadAt(e)
    BY Locations
  <2> QED BY <2>1, Locations
<1>2. ASSUME NEW s \in Seq(Elems), NEW b \in Atm!UmBuckets, NEW H, NEW G,
             KnowsList(s, V, H, b), \A e \in Elems : G[e] = H[e]
      PROVE  KnowsList(s, W, G, b)
  <2>1. \A i \in 1..Len(s) : s[i] \in Elems
    OBVIOUS
  <2>2. \A j : j \in 1..Len(s) => W[NextAt(s[j])] \subseteq {NextOf(s, j)}
    BY <1>1, <1>2, <2>1 DEF KnowsList, KnowsNext
  <2>3. \A i \in 1..Len(s) : W[UnitAt(s[i])] \subseteq {G[s[i]]}
    BY <1>1, <1>2, <2>1 DEF KnowsList
  <2> QED BY <1>1, <1>2, <2>2, <2>3 DEF KnowsList, KnowsNext
<1>3. \A u : KnowsFree(V, u) => KnowsFree(W, u)
  BY <1>1 DEF KnowsFree
<1>4. ASSUME NEW s \in Seq(Elems), NEW b \in Atm!UmBuckets, NEW p \in 1..Len(s), NEW u, NEW x,
             Finds(s, V, u, b, x, p)
      PROVE  Finds(s, W, u, b, x, p)
  <2>1. s[p] \in Elems
    OBVIOUS
  <2> QED BY <1>1, <1>4, <2>1 DEF Finds, OnlyIn
<1>5. \A s \in Seq(Elems), b \in Atm!UmBuckets : \A H, G :
              (KnowsList(s, V, H, b) /\ \A e \in Elems : G[e] = H[e]) => KnowsList(s, W, G, b)
  BY <1>2
<1>6. \A s \in Seq(Elems), b \in Atm!UmBuckets : \A p \in 1..Len(s) : \A u, x :
              Finds(s, V, u, b, x, p) => Finds(s, W, u, b, x, p)
  BY <1>4
<1> QED BY <1>3, <1>5, <1>6

\* A write to the lock of its bucket, on the way to step p.
Locking(q, t, p, l, v) ==
    /\ TableIs(q) /\ t \in Callers /\ umPc[t] # "idle" /\ umPc[t] # "new unit"
    /\ p \in {"map spin", "map list", "unmap spin", "unmap list", "give pool", "give free"}
    /\ Atm!UmGoto(t, p) /\ Atm!UmKeep /\ UNCHANGED umCur
    /\ l = LockAt(Bucket(t)) /\ WriteEffect(t, l, v)

\* What it changes.
LEMMA LockingKeeps ==
  ASSUME NEW q, NEW t, NEW p, NEW l, NEW v, Locking(q, t, p, l, v)
  PROVE  /\ umPc'[t] = p /\ umCur' = umCur /\ umUnit' = umUnit /\ umThread' = umThread
         /\ mapped' = mapped /\ umFree' = umFree /\ Bucket(t)' = Bucket(t)
         /\ umUnit[t] \in Units /\ Atm!Newest(OwnerAt(umUnit[t]))' = "taken"
         /\ l \in Atm!UnitMapLocs /\ Atm!Newest(l)' = v /\ Bucket(t) \in Atm!UmBuckets
         /\ MyFree(t) => MyFree(t)'
         /\ MyList(q, t) => MyList(q, t)'
         /\ \A i \in 1..Len(q[Bucket(t)]) : MyFind(q, t, i) => MyFind(q, t, i)'
         /\ \A e \in Elems : Held'[e] = Held[e]
         /\ Shaped /\ OthersStay(t, umUnit[t]) /\ Effect(l, v)
<1>1. /\ TableIs(q) /\ t \in Callers /\ umPc[t] # "idle" /\ p \in UmPcs
      /\ Atm!UmGoto(t, p) /\ Atm!UmKeep /\ UNCHANGED umCur
      /\ l = LockAt(Bucket(t)) /\ WriteEffect(t, l, v)
  BY DEF Locking, UmPcs, FreePcs, MappedPcs, WrotePcs, WalkPcs
<1>2. /\ umPc'[t] = p /\ umUnit' = umUnit /\ umThread' = umThread /\ mapped' = mapped
      /\ umFree' = umFree /\ Bucket(t)' = Bucket(t) /\ Shaped /\ OthersStay(t, umUnit[t])
  <2>1. /\ Shaped /\ OthersStay(t, umUnit[t])
         /\ umPc'[t] = p /\ umCur'[t] = umCur[t]
         /\ umUnit' = umUnit /\ umThread' = umThread /\ mapped' = mapped /\ umFree' = umFree
         /\ Bucket(t)' = Bucket(t)
    BY <1>1, Keeping
  <2> QED BY <2>1
<1>3. /\ umUnit[t] \in Units /\ Atm!Newest(OwnerAt(umUnit[t])) = "taken"
      /\ Memory /\ DOMAIN mem = Atm!UnitMapLocs /\ Bucket(t) \in Atm!UmBuckets
  BY <1>1, Mine1
<1>4. l \in Atm!UnitMapLocs
  BY <1>1, <1>3, Locations
<1>5. Effect(l, v)
  BY <1>1 DEF WriteEffect, Effect
<1>6. Atm!Newest(l)' = v
  BY <1>3, <1>4, <1>5 DEF Effect
<1>7. Atm!Newest(OwnerAt(umUnit[t]))' = "taken"
  <2>1. \A k \in Atm!UnitMapLocs : k # l => Atm!Newest(k)' = Atm!Newest(k)
    BY <1>3, <1>5 DEF Effect
  <2>2. PICK k \in Atm!UnitMapLocs : k = OwnerAt(umUnit[t])
    BY <1>3, Locations
  <2>3. k = OwnerAt(umUnit'[t])
    BY <1>2, <2>2
  <2>4. k # l
    BY <1>1, <2>2, Locations
  <2> QED BY <1>3, <2>1, <2>2, <2>3, <2>4
<1>8. /\ MyFree(t) => MyFree(t)'
      /\ MyList(q, t) => MyList(q, t)'
      /\ \A i \in 1..Len(q[Bucket(t)]) : MyFind(q, t, i) => MyFind(q, t, i)'
      /\ \A e \in Elems : Held'[e] = Held[e]
  BY <1>1, <1>2, <1>5, OutsideKept
<1> QED BY <1>1, <1>2, <1>3, <1>4, <1>5, <1>6, <1>7, <1>8

\* It leaves the table right if the lock has its bucket.
LEMMA LockingStep ==
  ASSUME NEW q, NEW t, NEW p, NEW l, NEW v, Locking(q, t, p, l, v),
         p \in {"map list", "unmap list"} => ~Atm!Newest(l) /\ MyList(q, t)',
         p \in {"map list", "map spin"} => umThread[t] = mapped[umUnit[t]],
         p \in FreePcs => MyFree(t),
         p \in MappedPcs => \E i \in 1..Len(q[Bucket(t)]) : MyFind(q, t, i),
         LockOf(q, Bucket(t))'
  PROVE  TableIs(q)'
<1>0. PICK u, b, s : u = umUnit[t] /\ b = Bucket(t) /\ s = q[Bucket(t)]
  OBVIOUS
<1>1. /\ TableIs(q) /\ t \in Callers /\ umPc[t] # "idle" /\ umPc[t] # "new unit" /\ p \in UmPcs
      /\ p \in {"map spin", "map list", "unmap spin", "unmap list", "give pool", "give free"}
      /\ l = LockAt(b)
  BY <1>0 DEF Locking, UmPcs, FreePcs, MappedPcs, WrotePcs, WalkPcs
<1>2. /\ umPc'[t] = p /\ umCur' = umCur /\ umUnit' = umUnit /\ umThread' = umThread
      /\ mapped' = mapped /\ umFree' = umFree /\ Bucket(t)' = Bucket(t)
      /\ umUnit[t] \in Units /\ Atm!Newest(OwnerAt(umUnit[t]))' = "taken"
      /\ MyFree(t) => MyFree(t)'
      /\ \A i \in 1..Len(q[Bucket(t)]) : MyFind(q, t, i) => MyFind(q, t, i)'
      /\ Shaped /\ OthersStay(t, umUnit[t]) /\ Effect(l, v)
  BY LockingKeeps
<1>3. Atm!HashIndex(u) = b /\ u \in Units
  BY <1>0, <1>1, Mine1
<1>4. Writes(q, t, u, l, v)
  BY <1>1, <1>3 DEF Writes
<1>5. StepOf(q, q, t, u, l, v)
  BY <1>0, <1>1, <1>2, <1>4 DEF StepOf
<1>6. p \notin NewPcs /\ p \notin WrotePcs /\ p \notin WalkPcs
      /\ (p \in LockPcs => p \in {"map list", "unmap list"})
      /\ (p \in ThreadPcs => p \in {"map list", "map spin"})
  BY <1>1 DEF NewPcs, WrotePcs, WalkPcs, LockPcs, ThreadPcs
<1>7. Moves(t, u, l)
  <2>1. p \in LockPcs => ~Atm!Newest(LockAt(Atm!HashIndex(u)))
    BY <1>1, <1>3, <1>6
  <2> QED BY <1>0, <1>1, <1>2, <1>6, <2>1 DEF Moves
<1>8. Works(t)'
  BY <1>2, <1>6 DEF Works
<1>9. InLock(q, t)'
  BY <1>1, <1>2, <1>6 DEF InLock, MyList
<1>10. Maps(q, t)'
  <2>1. p \in FreePcs => KnowsFree(HasAll(t)', umUnit'[t])
    BY <1>2 DEF MyFree
  <2>2. p \notin {"new unit", "new next", "publish"}
    BY <1>6 DEF NewPcs
  <2> QED BY <1>2, <1>6, <2>1, <2>2 DEF Maps
<1>11. Looks(q, t)'
  <2>1. p \in MappedPcs => \E i \in 1..Len(q[Bucket(t)]) : MyFind(q, t, i)'
    BY <1>2
  <2>2. p \in MappedPcs => \E i \in 1..Len(q[Bucket(t)']) :
          Finds(q[Bucket(t)'], HasAll(t)', umUnit'[t], Bucket(t)', mapped'[umUnit'[t]], i)
    BY <1>2, <2>1 DEF MyFind
  <2> QED BY <1>2, <1>6, <2>2 DEF Looks
<1>12. LockOf(q, Atm!HashIndex(u))'
  <2>1. Bucket(t)' = b
    BY <1>0, <1>2
  <2>2. LockOf(q, Bucket(t))' <=> LockOf(q, b)'
    BY <2>1 DEF LockOf
  <2> QED BY <1>3, <2>2
<1>13. l # OwnerAt(u)
  BY <1>1 DEF LockAt, OwnerAt
<1> QED BY <1>1, <1>2, <1>4, <1>5, <1>7, <1>8, <1>9, <1>10, <1>11, <1>12, <1>13, QuietStep

\* The lock of a bucket, held or not.
LEMMA LockFacts ==
  ASSUME NEW q, TableIs(q), NEW t \in Callers, umPc[t] # "idle"
  PROVE  LET l == LockAt(Bucket(t))
         IN  /\ Atm!Newest(l) \in BOOLEAN
             /\ Atm!Newest(l) <=> \E c \in Callers : umPc[c] \in LockPcs /\ Bucket(c) = Bucket(t)
             /\ ~Atm!Newest(l) => KnowsList(q[Bucket(t)], SentAll(l), Held, Bucket(t))
<1>1. Bucket(t) \in Atm!UmBuckets
  BY Mine1
<1>2. LockOf(q, Bucket(t))
  BY <1>1 DEF TableIs
<1> QED BY <1>2 DEF LockOf

\* Taking the lock, or finding it held.
LEMMA LockTries ==
  ASSUME NEW q, TableIs(q), NEW t \in Callers, Atm!UmKeep, UNCHANGED umCur,
         NEW top, NEW spin, NEW in, Entering(top, spin, in),
         umPc[t] = top, NEW was \in BOOLEAN, Atm!SpinTry(t, LockAt(Bucket(t)), was),
         Atm!UmGoto(t, IF was THEN spin ELSE in)
  PROVE  TableIs(q)'
<1> USE DEF Entering
<1>0. PICK l, b, s, p : /\ l = LockAt(Bucket(t)) /\ b = Bucket(t) /\ s = q[Bucket(t)]
                        /\ p = IF was THEN spin ELSE in
  OBVIOUS
<1>1. umPc[t] \in {"map", "unmap"} /\ umPc[t] # "idle" /\ umPc[t] \notin LockPcs
  BY DEF LockPcs, NewPcs
<1>2. /\ Memory /\ DOMAIN mem = Atm!UnitMapLocs /\ l \in Atm!UnitMapLocs /\ b \in Atm!UmBuckets
      /\ s \in Seq(Elems)
  BY <1>0, <1>1, Mine1, Locations
<1>3. /\ was = Atm!Newest(l) /\ WriteEffect(t, l, TRUE)
      /\ \A k \in DOMAIN mem : k # l => Has(t, k)' \subseteq Sent(l, k)
  BY <1>0, <1>2, UpdateEffect DEF Atm!SpinTry
<1>4. Locking(q, t, p, l, TRUE)
  BY <1>0, <1>1, <1>3 DEF Locking
<1>5. /\ umPc'[t] = p /\ umUnit' = umUnit /\ Bucket(t)' = Bucket(t)
      /\ Atm!Newest(l)' = TRUE /\ OthersStay(t, umUnit[t])
      /\ \A e \in Elems : Held'[e] = Held[e]
  BY <1>4, LockingKeeps
<1>6. /\ Atm!Newest(l) <=> \E c \in Callers : umPc[c] \in LockPcs /\ Bucket(c) = b
      /\ ~Atm!Newest(l) => KnowsList(s, SentAll(l), Held, b)
  BY <1>0, <1>1, LockFacts
<1>7. \E c \in Callers : umPc'[c] \in LockPcs /\ Bucket(c)' = b
  <2>1. CASE was
    <3>1. PICK c \in Callers : umPc[c] \in LockPcs /\ Bucket(c) = b
      BY <1>3, <1>6, <2>1
    <3>2. c # t
      BY <1>1, <3>1
    <3>3. umPc'[c] = umPc[c] /\ Bucket(c)' = Bucket(c)
      BY <1>5, <3>2 DEF OthersStay, Bucket
    <3> QED BY <3>1, <3>3
  <2>2. CASE ~was
    <3>1. umPc'[t] \in LockPcs
      BY <1>0, <1>5, <2>2 DEF LockPcs
    <3> QED BY <1>0, <1>5, <3>1
  <2> QED BY <2>1, <2>2
<1>8. LockOf(q, Bucket(t))'
  <2>1. Bucket(t)' = b /\ LockAt(b) = l
    BY <1>0, <1>5
  <2>2. Atm!Newest(LockAt(b))' = TRUE
    BY <1>5, <2>1
  <2>3. LockOf(q, b)'
    BY <1>7, <2>2 DEF LockOf
  <2> QED BY <2>1, <2>3 DEF LockOf
<1>9. ~was => MyList(q, t)'
  <2>1. ASSUME ~was PROVE KnowsList(s, HasAll(t)', Held', b)
    <3>1. KnowsList(s, SentAll(l), Held, b)
      BY <1>3, <1>6, <2>1
    <3>2. \A k \in Atm!UnitMapLocs : k # l => HasAll(t)'[k] \subseteq SentAll(l)[k]
      <4>1. DOMAIN mem' = Atm!UnitMapLocs
        BY <1>2, <1>3 DEF WriteEffect
      <4>2. \A k \in Atm!UnitMapLocs : HasAll(t)'[k] = Has(t, k)'
        BY <4>1 DEF HasAll
      <4>3. \A k \in Atm!UnitMapLocs : SentAll(l)[k] = Sent(l, k)
        BY <1>2 DEF SentAll
      <4> QED BY <1>2, <1>3, <4>2, <4>3
    <3>3. \E d : l = LockAt(d)
      BY <1>0
    <3>4. PICK V, W, G : V = SentAll(l) /\ W = HasAll(t)' /\ G = Held'
      OBVIOUS
    <3>5. \A k \in Atm!UnitMapLocs : k # l => W[k] \subseteq V[k]
      BY <3>2, <3>4
    <3>6. KnowsList(s, V, Held, b) /\ \A e \in Elems : G[e] = Held[e]
      BY <1>5, <3>1, <3>4
    <3>7. KnowsList(s, W, G, b)
      BY <1>2, <3>3, <3>5, <3>6, LessKnows
    <3> QED BY <3>4, <3>7
  <2> QED BY <1>0, <1>5, <2>1 DEF MyList
<1>10. /\ p \in {"map list", "unmap list"} => ~Atm!Newest(l) /\ MyList(q, t)'
       /\ p \in {"map list", "map spin"} => umThread[t] = mapped[umUnit[t]]
       /\ p \in FreePcs => MyFree(t)
       /\ p \in MappedPcs => \E i \in 1..Len(q[Bucket(t)]) : MyFind(q, t, i)
  <2>1. /\ umPc[t] = "map" => umThread[t] = mapped[umUnit[t]] /\ MyFree(t)
        /\ umPc[t] = "unmap" => \E i \in 1..Len(q[Bucket(t)]) : MyFind(q, t, i)
    BY Knows DEF ThreadPcs, FreePcs, MappedPcs
  <2>2. /\ p \in {"map list", "unmap list"} => ~was
        /\ p \in {"map list", "map spin"} => umPc[t] = "map"
        /\ p \in FreePcs => umPc[t] = "map"
        /\ p \in MappedPcs => umPc[t] = "unmap"
    BY <1>0 DEF FreePcs, MappedPcs
  <2> QED BY <1>3, <1>9, <2>1, <2>2
<1> QED BY <1>4, <1>8, <1>10, LockingStep

\* Leaving the section.
LEMMA Unlocks ==
  ASSUME NEW q, TableIs(q), NEW t \in Callers, Atm!UmKeep, UNCHANGED umCur,
         NEW at, NEW p, Leaving(at, p),
         umPc[t] = at, Atm!UmGoto(t, p), Atm!SpinRelease(t, LockAt(Bucket(t)))
  PROVE  TableIs(q)'
<1> USE DEF Leaving
<1>0. PICK l, b, s : l = LockAt(Bucket(t)) /\ b = Bucket(t) /\ s = q[Bucket(t)]
  OBVIOUS
<1>1. /\ umPc[t] \in {"map unlock", "map fail", "unmap unlock"} /\ umPc[t] # "idle"
      /\ umPc[t] \in LockPcs /\ p \in {"give pool", "give free"}
  BY DEF LockPcs
<1>2. /\ Memory /\ DOMAIN mem = Atm!UnitMapLocs /\ l \in Atm!UnitMapLocs /\ b \in Atm!UmBuckets
      /\ s \in Seq(Elems)
  BY <1>0, <1>1, Mine1, Locations
<1>3. /\ WriteEffect(t, l, FALSE)
      /\ \A k \in DOMAIN mem : k # l => Sent(l, k)' \subseteq Has(t, k)
  BY <1>0, <1>2, StoreEffect DEF Atm!SpinRelease, Atm!ReleaseClear
<1>4. Locking(q, t, p, l, FALSE)
  BY <1>0, <1>1, <1>3 DEF Locking
<1>5. /\ umPc'[t] = p /\ umUnit' = umUnit /\ Bucket(t)' = Bucket(t)
      /\ Atm!Newest(l)' = FALSE /\ OthersStay(t, umUnit[t])
      /\ \A e \in Elems : Held'[e] = Held[e]
  BY <1>4, LockingKeeps
<1>6. ASSUME NEW c \in Callers PROVE ~(umPc'[c] \in LockPcs /\ Bucket(c)' = b)
  <2>1. CASE c = t
    BY <1>1, <1>5, <2>1 DEF LockPcs, NewPcs
  <2>2. CASE c # t
    <3>1. umPc'[c] = umPc[c] /\ Bucket(c)' = Bucket(c)
      BY <1>5, <2>2 DEF OthersStay, Bucket
    <3>2. umPc[c] \in LockPcs => Bucket(c) # b
      BY <1>0, <1>1, <2>2 DEF TableIs, Apart
    <3> QED BY <3>1, <3>2
  <2> QED BY <2>1, <2>2
<1>7. KnowsList(s, SentAll(l)', Held', b)
  <2>1. KnowsList(s, HasAll(t), Held, b)
    BY <1>0, <1>1, Knows DEF MyList
  <2>2. \A k \in Atm!UnitMapLocs : k # l => SentAll(l)'[k] \subseteq HasAll(t)[k]
    <3>1. DOMAIN mem' = Atm!UnitMapLocs
      BY <1>2, <1>3 DEF WriteEffect
    <3>2. \A k \in Atm!UnitMapLocs : HasAll(t)[k] = Has(t, k) /\ SentAll(l)'[k] = Sent(l, k)'
      BY <1>2, <3>1 DEF HasAll, SentAll
    <3> QED BY <1>2, <1>3, <3>2
  <2>3. \E d : l = LockAt(d)
    BY <1>0
  <2>4. \A x \in Seq(Elems), d \in Atm!UmBuckets : \A H, G :
            (KnowsList(x, HasAll(t), H, d) /\ \A e \in Elems : G[e] = H[e])
              => KnowsList(x, SentAll(l)', G, d)
    BY <2>2, <2>3, LessKnows
  <2> QED BY <1>2, <1>5, <2>1, <2>4
<1>8. LockOf(q, Bucket(t))'
  <2>1. Bucket(t)' = b /\ LockAt(b) = l
    BY <1>0, <1>5
  <2>2. Atm!Newest(LockAt(b))' = FALSE
    BY <1>5, <2>1
  <2>3. KnowsList(q[b], SentAll(LockAt(b))', Held', b)
    BY <1>0, <1>7, <2>1
  <2>4. LockOf(q, b)'
    BY <1>6, <2>2, <2>3 DEF LockOf
  <2> QED BY <2>1, <2>4 DEF LockOf
<1>9. /\ p \in FreePcs => MyFree(t)
      /\ p \in MappedPcs => \E i \in 1..Len(q[Bucket(t)]) : MyFind(q, t, i)
      /\ p \notin {"map list", "unmap list", "map spin"}
  <2>1. /\ umPc[t] \in {"map fail", "unmap unlock"} => MyFree(t)
        /\ umPc[t] = "map unlock" => \E i \in 1..Len(q[Bucket(t)]) : MyFind(q, t, i)
    BY Knows DEF FreePcs, MappedPcs
  <2>2. /\ p \in FreePcs => umPc[t] \in {"map fail", "unmap unlock"}
        /\ p \in MappedPcs => umPc[t] = "map unlock"
    BY DEF FreePcs, MappedPcs
  <2> QED BY <1>1, <2>1, <2>2
<1> QED BY <1>4, <1>8, <1>9, LockingStep

\* The owner of a unit.
LEMMA OwnerFacts ==
  ASSUME NEW q, TableIs(q), NEW u \in Units
  PROVE  LET l == OwnerAt(u)
             b == Atm!HashIndex(u)
         IN  /\ l \in Atm!UnitMapLocs /\ b \in Atm!UmBuckets /\ q[b] \in Seq(Elems)
             /\ Memory /\ DOMAIN mem = Atm!UnitMapLocs
             /\ Atm!Newest(l) = "free" => KnowsFree(SentAll(l), u)
             /\ Atm!Newest(l) = "pool" =>
                  \E i \in 1..Len(q[b]) : Finds(q[b], SentAll(l), u, b, mapped[u], i)
<1>1. OwnerAt(u) \in Atm!UnitMapLocs /\ Atm!HashIndex(u) \in Atm!UmBuckets
  BY Locations
<1>2. q[Atm!HashIndex(u)] \in Seq(Elems)
  BY <1>1 DEF TableIs, Buckets
<1>3. OwnerOf(q, u)
  BY DEF TableIs
<1> QED BY <1>1, <1>2, <1>3 DEF OwnerOf, TableIs, TableTypes

\* Taking a unit that was freed or is in its pool.
LEMMA TakesUnit ==
  ASSUME NEW q, TableIs(q), NEW t \in Callers, umPc[t] = "idle", NEW u \in Units,
         Atm!Update(t, OwnerAt(u), "taken"),
         NEW p \in {"map", "get list"},
         Atm!Newest(OwnerAt(u)) = IF p = "map" THEN "free" ELSE "pool",
         Atm!UmGoto(t, p), umUnit' = [umUnit EXCEPT ![t] = u], UNCHANGED <<umCur, umFree>>,
         NEW x, IF p = "map" THEN /\ umThread' = [umThread EXCEPT ![t] = x]
                                  /\ mapped' = [mapped EXCEPT ![u] = x]
                             ELSE UNCHANGED <<umThread, mapped>>
  PROVE  TableIs(q)'
<1>0. PICK l, b, s : l = OwnerAt(u) /\ b = Atm!HashIndex(u) /\ s = q[b]
  OBVIOUS
<1>1. /\ l \in Atm!UnitMapLocs /\ b \in Atm!UmBuckets /\ s \in Seq(Elems)
      /\ Memory /\ DOMAIN mem = Atm!UnitMapLocs
      /\ p = "map" => KnowsFree(SentAll(l), u)
      /\ p = "get list" => \E i \in 1..Len(s) : Finds(s, SentAll(l), u, b, mapped[u], i)
  BY <1>0, OwnerFacts
<1>2. /\ WriteEffect(t, l, "taken")
      /\ \A k \in DOMAIN mem : k # l => Has(t, k)' \subseteq Sent(l, k)
  BY <1>0, <1>1, UpdateEffect
<1>3. Effect(l, "taken") /\ Atm!Newest(l)' = "taken"
  BY <1>1, <1>2 DEF WriteEffect, Effect
<1>4. /\ umPc = [c \in Callers |-> umPc[c]] /\ umUnit = [c \in Callers |-> umUnit[c]]
      /\ umThread = [c \in Callers |-> umThread[c]] /\ umCur = [c \in Callers |-> umCur[c]]
      /\ mapped = [w \in Units |-> mapped[w]]
  BY DEF TableIs, TableTypes
<1>5. /\ umPc' = [c \in Callers |-> umPc'[c]] /\ umPc'[t] = p
      /\ umUnit' = [c \in Callers |-> umUnit'[c]] /\ umUnit'[t] = u
      /\ umThread' = [c \in Callers |-> umThread'[c]] /\ (p = "map" => umThread'[t] = x)
      /\ umCur' = umCur /\ umFree' = umFree
      /\ mapped' = [w \in Units |-> mapped'[w]] /\ (p = "map" => mapped'[u] = x)
      /\ p = "get list" => mapped' = mapped
      /\ \A c \in Callers \ {t} : /\ umPc'[c] = umPc[c] /\ umUnit'[c] = umUnit[c]
                                  /\ umThread'[c] = umThread[c]
      /\ \A w \in Units \ {u} : mapped'[w] = mapped[w]
  BY <1>4 DEF Atm!UmGoto
<1>6. Shaped /\ OthersStay(t, u)
  BY <1>4, <1>5 DEF Shaped, OthersStay
<1>7. Writes(q, t, u, l, "taken")
  BY <1>0 DEF Writes
<1>8. StepOf(q, q, t, u, l, "taken")
  BY <1>0, <1>3, <1>6, <1>7 DEF StepOf
<1>9. /\ p \notin LockPcs /\ p \notin NewPcs /\ p \notin WrotePcs /\ p \notin WalkPcs /\ p \in UmPcs
      /\ p \in FreePcs => p = "map"
      /\ p \in MappedPcs => p = "get list"
      /\ p \in ThreadPcs => p = "map"
      /\ umPc[t] \notin LockPcs
  BY DEF LockPcs, NewPcs, WrotePcs, WalkPcs, UmPcs, FreePcs, MappedPcs, ThreadPcs
<1>10. Moves(t, u, l)
  BY <1>5, <1>9 DEF Moves
<1>11. OwnerOf(q, u)'
  BY <1>0, <1>3 DEF OwnerOf
<1>12. l # LockAt(Atm!HashIndex(u)) /\ (umPc[t] \in LockPcs <=> umPc'[t] \in LockPcs)
  BY <1>0, <1>5, <1>9 DEF LockAt, OwnerAt
<1>13. Works(t)'
  <2>1. Atm!Newest(OwnerAt(umUnit[t]))' = "taken"
    <3>1. OwnerAt(umUnit'[t]) = l
      BY <1>0, <1>5
    <3> QED BY <1>3, <3>1
  <2> QED BY <1>5, <1>9, <2>1 DEF Works
<1>14. InLock(q, t)'
  BY <1>5, <1>9 DEF InLock
<1>15. PICK V, W : V = SentAll(l) /\ W = HasAll(t)'
  OBVIOUS
<1>16. (\E w : l = OwnerAt(w)) /\ \A k \in Atm!UnitMapLocs : k # l => W[k] \subseteq V[k]
  <2>1. \A k \in Atm!UnitMapLocs : HasAll(t)'[k] = Has(t, k)'
    <3>1. DOMAIN mem' = Atm!UnitMapLocs
      BY <1>1, <1>2 DEF WriteEffect
    <3> QED BY <3>1 DEF HasAll
  <2>2. \A k \in Atm!UnitMapLocs : SentAll(l)[k] = Sent(l, k)
    BY <1>1 DEF SentAll
  <2> QED BY <1>0, <1>1, <1>2, <1>15, <2>1, <2>2
<1>17. /\ p = "map" => KnowsFree(W, u)
       /\ p = "get list" => \E i \in 1..Len(s) : Finds(s, W, u, b, mapped[u], i)
  <2>1. /\ \A w : KnowsFree(V, w) => KnowsFree(W, w)
        /\ \A r \in Seq(Elems), d \in Atm!UmBuckets : \A i \in 1..Len(r) : \A w, y :
              Finds(r, V, w, d, y, i) => Finds(r, W, w, d, y, i)
    BY <1>16, LessKnows
  <2> QED BY <1>1, <1>15, <2>1
<1>18. Maps(q, t)'
  <2>1. p \in FreePcs => KnowsFree(HasAll(t)', umUnit'[t])
    BY <1>5, <1>9, <1>15, <1>17
  <2> QED BY <1>5, <1>9, <2>1 DEF Maps, NewPcs
<1>19. Looks(q, t)'
  <2>1. p \in MappedPcs => \E i \in 1..Len(s) : Finds(s, HasAll(t)', u, b, mapped'[u], i)
    BY <1>5, <1>9, <1>15, <1>17
  <2>2. Bucket(t)' = b /\ q[Bucket(t)'] = s /\ umUnit'[t] = u
    BY <1>0, <1>5 DEF Bucket
  <2>3. p \in MappedPcs => \E i \in 1..Len(q[Bucket(t)']) :
          Finds(q[Bucket(t)'], HasAll(t)', umUnit'[t], Bucket(t)', mapped'[umUnit'[t]], i)
    BY <2>1, <2>2
  <2> QED BY <1>5, <1>9, <2>3 DEF Looks
<1> QED BY <1>6, <1>7, <1>8, <1>10, <1>11, <1>12, <1>13, <1>14, <1>18, <1>19, QuietStep

\* Handing a unit on.
LEMMA GivesUnit ==
  ASSUME NEW q, TableIs(q), NEW t \in Callers, Atm!GiveUnit(t)
  PROVE  TableIs(q)'
<1>0. PICK l, u, b, s : /\ l = OwnerAt(umUnit[t]) /\ u = umUnit[t] /\ b = Bucket(t)
                        /\ s = q[Bucket(t)]
  OBVIOUS
<1>1. PICK v \in {"pool", "free"} :
        /\ Atm!ReleaseStore(t, l, v)
        /\ umPc[t] = IF v = "pool" THEN "give pool" ELSE "give free"
  BY <1>0 DEF Atm!GiveUnit, OwnerAt
<1>2. /\ Atm!UmGoto(t, "idle") /\ umUnit' = [umUnit EXCEPT ![t] = NULL]
      /\ umThread' = [umThread EXCEPT ![t] = NULL] /\ Atm!UmSetCur(t, NULL)
      /\ umFree' = umFree /\ mapped' = mapped
  BY DEF Atm!GiveUnit
<1>3. umPc[t] # "idle" /\ umPc[t] \notin LockPcs /\ umPc[t] # "new unit"
  BY <1>1 DEF LockPcs, NewPcs
<1>4. /\ u \in Units /\ Memory /\ DOMAIN mem = Atm!UnitMapLocs /\ l \in Atm!UnitMapLocs
      /\ b \in Atm!UmBuckets /\ s \in Seq(Elems) /\ Atm!HashIndex(u) = b
  BY <1>0, <1>3, Mine1, Locations
<1>5. /\ WriteEffect(t, l, v)
      /\ \A k \in DOMAIN mem : k # l => Sent(l, k)' \subseteq Has(t, k)
  BY <1>1, <1>4, StoreEffect
<1>6. Effect(l, v) /\ Atm!Newest(l)' = v
  BY <1>4, <1>5 DEF WriteEffect, Effect
<1>7. /\ umPc = [c \in Callers |-> umPc[c]] /\ umUnit = [c \in Callers |-> umUnit[c]]
      /\ umThread = [c \in Callers |-> umThread[c]] /\ umCur = [c \in Callers |-> umCur[c]]
      /\ mapped = [w \in Units |-> mapped[w]]
  BY DEF TableIs, TableTypes
<1>8. /\ umPc' = [c \in Callers |-> umPc'[c]] /\ umPc'[t] = "idle"
      /\ umUnit' = [c \in Callers |-> umUnit'[c]]
      /\ umThread' = [c \in Callers |-> umThread'[c]] /\ umCur' = [c \in Callers |-> umCur'[c]]
      /\ \A c \in Callers \ {t} : /\ umPc'[c] = umPc[c] /\ umUnit'[c] = umUnit[c]
                                  /\ umThread'[c] = umThread[c] /\ umCur'[c] = umCur[c]
  BY <1>2, <1>7 DEF Atm!UmGoto, Atm!UmSetCur
<1>9. Shaped /\ OthersStay(t, u)
  BY <1>2, <1>7, <1>8 DEF Shaped, OthersStay
<1>10. Writes(q, t, u, l, v)
  BY <1>0 DEF Writes
<1>11. StepOf(q, q, t, u, l, v)
  BY <1>0, <1>3, <1>4, <1>6, <1>9, <1>10 DEF StepOf
<1>12. /\ \A S \in {LockPcs, NewPcs, WrotePcs, WalkPcs, FreePcs, MappedPcs, ThreadPcs} :
            "idle" \notin S
       /\ "idle" \in UmPcs
  BY DEF LockPcs, NewPcs, WrotePcs, WalkPcs, UmPcs, FreePcs, MappedPcs, ThreadPcs
<1>13. Moves(t, u, l)
  BY <1>0, <1>2, <1>3, <1>8, <1>12 DEF Moves
<1>14. l # LockAt(Atm!HashIndex(u)) /\ (umPc[t] \in LockPcs <=> umPc'[t] \in LockPcs)
  BY <1>0, <1>3, <1>8, <1>12 DEF LockAt, OwnerAt
<1>15. Works(t)' /\ InLock(q, t)' /\ Maps(q, t)' /\ Looks(q, t)'
  BY <1>8, <1>12 DEF Works, InLock, Maps, Looks, NewPcs
<1>16. PICK V, W : V = HasAll(t) /\ W = SentAll(l)'
  OBVIOUS
<1>17. (\E w : l = OwnerAt(w)) /\ \A k \in Atm!UnitMapLocs : k # l => W[k] \subseteq V[k]
  <2>1. \A k \in Atm!UnitMapLocs : SentAll(l)'[k] = Sent(l, k)'
    <3>1. DOMAIN mem' = Atm!UnitMapLocs
      BY <1>4, <1>5 DEF WriteEffect
    <3> QED BY <3>1 DEF SentAll
  <2>2. \A k \in Atm!UnitMapLocs : HasAll(t)[k] = Has(t, k)
    BY <1>4 DEF HasAll
  <2> QED BY <1>0, <1>4, <1>5, <1>16, <2>1, <2>2
<1>18. /\ v = "free" => KnowsFree(V, u)
       /\ v = "pool" => \E i \in 1..Len(s) : Finds(s, V, u, b, mapped[u], i)
  <2>1. /\ v = "free" => MyFree(t)
        /\ v = "pool" => \E i \in 1..Len(q[Bucket(t)]) : MyFind(q, t, i)
    BY <1>1, Knows DEF FreePcs, MappedPcs
  <2> QED BY <1>0, <1>16, <2>1 DEF MyFree, MyFind
<1>19. /\ v = "free" => KnowsFree(W, u)
       /\ v = "pool" => \E i \in 1..Len(s) : Finds(s, W, u, b, mapped[u], i)
  <2>1. /\ \A w : KnowsFree(V, w) => KnowsFree(W, w)
        /\ \A r \in Seq(Elems), d \in Atm!UmBuckets : \A i \in 1..Len(r) : \A w, y :
              Finds(r, V, w, d, y, i) => Finds(r, W, w, d, y, i)
    BY <1>17, LessKnows
  <2> QED BY <1>4, <1>18, <2>1
<1>20. OwnerOf(q, u)'
  <2>1. /\ v = "free" => KnowsFree(SentAll(l)', u)
        /\ v = "pool" => \E i \in 1..Len(s) : Finds(s, SentAll(l)', u, b, mapped'[u], i)
    BY <1>2, <1>16, <1>19
  <2>2. OwnerAt(u) = l /\ q[Atm!HashIndex(u)] = s /\ Atm!HashIndex(u) = b
    BY <1>0, <1>4
  <2>3. Atm!Newest(OwnerAt(u))' = v
    BY <1>6, <2>2
  <2>4. /\ v = "free" => KnowsFree(SentAll(OwnerAt(u))', u)
        /\ v = "pool" => \E i \in 1..Len(q[Atm!HashIndex(u)]) :
             Finds(q[Atm!HashIndex(u)], SentAll(OwnerAt(u))', u, Atm!HashIndex(u), mapped'[u], i)
    BY <2>1, <2>2
  <2> QED BY <2>3, <2>4 DEF OwnerOf
<1> QED BY <1>9, <1>10, <1>11, <1>13, <1>14, <1>15, <1>20, QuietStep

------------------------------------------------------------------------------
(* Publishing a new element *)

\* A list s of n and the list x with e behind it.
OneLonger(s, e, x, n) ==
    /\ n \in Nat /\ Len(x) = n + 1 /\ x[n + 1] = e /\ LastOf(x) = e
    /\ NextOf(x, n + 1) = LastOf(s)
    /\ \A i \in 1..n : x[i] = s[i] /\ NextOf(x, i) = NextOf(s, i) /\ s[i] \in Elems
    /\ n + 1 \in 1..(n + 1) /\ \A i \in 1..(n + 1) : i \in 1..n \/ i = n + 1
    /\ \A j \in 1..n : \A i \in 1..j : i \in 1..n
    /\ \A i \in (n + 1)..(n + 1) : i = n + 1

\* That is what appending gives.
LEMMA OneMore ==
  ASSUME NEW s \in Seq(Elems), NEW e \in Elems
  PROVE  OneLonger(s, e, Append(s, e), Len(s))
<1> DEFINE n == Len(s)
           x == Append(s, e)
<1>1. n \in Nat /\ Len(x) = n + 1 /\ x[n + 1] = e /\ \A i \in 1..n : x[i] = s[i] /\ s[i] \in Elems
  OBVIOUS
<1>2. x # <<>> /\ (s = <<>> <=> n = 0)
  <2>1. s = <<>> <=> n = 0
    OBVIOUS
  <2>2. x # <<>>
    <3>1. Len(<<>>) = 0 /\ Len(x) # 0
      BY <1>1
    <3> HIDE DEF x
    <3> QED BY <3>1
  <2> QED BY <2>1, <2>2
<1>3. LastOf(x) = e /\ NextOf(x, n + 1) = LastOf(s)
  <2>1. LastOf(x) = e
    BY <1>1, <1>2 DEF LastOf
  <2>2. CASE n = 0
    BY <1>1, <1>2, <2>2 DEF LastOf, NextOf
  <2>3. CASE n # 0
    <3>1. n + 1 # 1 /\ (n + 1) - 1 = n /\ n \in 1..n
      BY <1>1, <2>3
    <3> QED BY <1>1, <1>2, <2>3, <3>1 DEF LastOf, NextOf
  <2> QED BY <2>1, <2>2, <2>3
<1>4. ASSUME NEW i \in 1..n PROVE NextOf(x, i) = NextOf(s, i)
  <2>1. i # 1 => i - 1 \in 1..n
    BY <1>1
  <2> QED BY <1>1, <2>1 DEF NextOf
<1>5. /\ n + 1 \in 1..(n + 1) /\ \A i \in 1..(n + 1) : i \in 1..n \/ i = n + 1
      /\ \A j \in 1..n : \A i \in 1..j : i \in 1..n
      /\ \A i \in (n + 1)..(n + 1) : i = n + 1
  BY <1>1
<1> QED BY <1>1, <1>3, <1>4, <1>5 DEF OneLonger

\* t publishes its new element e.
Publishing(q, r, t, l, e) ==
    /\ TableIs(q) /\ t \in Callers /\ umPc[t] = "publish"
    /\ Atm!UmGoto(t, "map unlock") /\ Atm!UmKeep /\ UNCHANGED umCur
    /\ e = umCur[t] /\ l = ListAt(Bucket(t)) /\ Atm!ReleaseStore(t, l, e)
    /\ r = [q EXCEPT ![Bucket(t)] = Append(q[Bucket(t)], e)]

\* What it starts from and what it changes.
LEMMA PublishKeeps ==
  ASSUME NEW q, NEW r, NEW t, NEW l, NEW e, Publishing(q, r, t, l, e)
  PROVE  /\ e \in Elems \ umFree /\ \A d \in Atm!UmBuckets : ~Listed(q[d], e)
         /\ umUnit[t] \in Units /\ Bucket(t) \in Atm!UmBuckets /\ l \in Atm!UnitMapLocs
         /\ MyList(q, t) /\ MyOnly(t, e) /\ Held[e] = umUnit[t]
         /\ Has(t, ThreadAt(e)) \subseteq {mapped[umUnit[t]]}
         /\ Has(t, NextAt(e)) \subseteq {LastOf(q[Bucket(t)])}
         /\ umPc'[t] = "map unlock" /\ umUnit' = umUnit /\ umThread' = umThread /\ umCur' = umCur
         /\ mapped' = mapped /\ umFree' = umFree /\ Bucket(t)' = Bucket(t)
         /\ Shaped /\ OthersStay(t, umUnit[t]) /\ Effect(l, e) /\ WriteEffect(t, l, e)
         /\ \A k \in Atm!UnitMapLocs : k # l => Told(l, e, k)' \subseteq Told(l, e, k) \cup Has(t, k)
<1>1. /\ TableIs(q) /\ t \in Callers /\ umPc[t] = "publish"
      /\ Atm!UmGoto(t, "map unlock") /\ Atm!UmKeep /\ UNCHANGED umCur
      /\ e = umCur[t] /\ l = ListAt(Bucket(t)) /\ Atm!ReleaseStore(t, l, e)
  BY DEF Publishing
<1>2. /\ umPc[t] \in NewPcs /\ umPc[t] \in LockPcs /\ umPc[t] \in WrotePcs /\ umPc[t] # "idle"
      /\ "map unlock" \in UmPcs
  BY <1>1 DEF LockPcs, NewPcs, WrotePcs, UmPcs, MappedPcs
<1>3. /\ umUnit[t] \in Units /\ Bucket(t) \in Atm!UmBuckets
      /\ Memory /\ DOMAIN mem = Atm!UnitMapLocs
  BY <1>1, <1>2, Mine1
<1>4. l \in Atm!UnitMapLocs
  BY <1>1, <1>3, Locations
<1>5. Maps(q, t)
  BY <1>1 DEF TableIs
<1>6. /\ e \in Elems \ umFree /\ \A d \in Atm!UmBuckets : ~Listed(q[d], e)
      /\ Has(t, ThreadAt(e)) \subseteq {mapped[umUnit[t]]}
      /\ Has(t, NextAt(e)) \subseteq {LastOf(q[Bucket(t)])}
  BY <1>1, <1>2, <1>5 DEF Maps
<1>7. MyList(q, t) /\ MyOnly(t, e)
  BY <1>1, <1>2, Knows
<1>8. Held[e] = umUnit[t]
  BY <1>1, <1>6, <1>7, OnlyHeld
<1>9. /\ umPc'[t] = "map unlock" /\ umUnit' = umUnit /\ umThread' = umThread /\ umCur' = umCur
      /\ mapped' = mapped /\ umFree' = umFree /\ Bucket(t)' = Bucket(t)
      /\ Shaped /\ OthersStay(t, umUnit[t])
  <2>1. /\ Shaped /\ OthersStay(t, umUnit[t])
         /\ umPc'[t] = "map unlock" /\ umCur'[t] = umCur[t]
         /\ umUnit' = umUnit /\ umThread' = umThread /\ mapped' = mapped /\ umFree' = umFree
         /\ Bucket(t)' = Bucket(t)
    BY <1>1, <1>2, Keeping
  <2> QED BY <1>1, <2>1
<1>10. /\ WriteEffect(t, l, e)
       /\ \A k \in DOMAIN mem : k # l => Told(l, e, k)' \subseteq Told(l, e, k) \cup Has(t, k)
  BY <1>1, <1>3, <1>4, StoreEffect
<1>11. Effect(l, e)
  BY <1>10 DEF WriteEffect, Effect
<1> QED BY <1>3, <1>4, <1>6, <1>7, <1>8, <1>9, <1>10, <1>11

\* The buckets stay apart.
LEMMA PublishBuckets ==
  ASSUME NEW q, NEW r, NEW t, NEW l, NEW e, Publishing(q, r, t, l, e)
  PROVE  /\ Buckets(r)'
         /\ r[Bucket(t)] = Append(q[Bucket(t)], e)
         /\ \A d \in Atm!UmBuckets : d # Bucket(t) => r[d] = q[d]
         /\ \A d \in Atm!UmBuckets : q[d] \in Seq(Elems)
         /\ \A d \in Atm!UmBuckets : \A y :
              Listed(r[d], y) <=> Listed(q[d], y) \/ (d = Bucket(t) /\ y = e)
<1>0. PICK b, s : b = Bucket(t) /\ s = q[Bucket(t)]
  OBVIOUS
<1>1. /\ e \in Elems \ umFree /\ \A d \in Atm!UmBuckets : ~Listed(q[d], e)
      /\ b \in Atm!UmBuckets /\ umFree' = umFree
  BY <1>0, PublishKeeps
<1>2. /\ q \in [Atm!UmBuckets -> Seq(Elems)]
      /\ \A d \in Atm!UmBuckets : Distinct(q[d])
      /\ \A d, c \in Atm!UmBuckets : \A y : Listed(q[d], y) /\ Listed(q[c], y) => d = c
      /\ \A d \in Atm!UmBuckets : \A y : Listed(q[d], y) => y \notin umFree
  BY DEF Publishing, TableIs, Buckets
<1>3. r = [q EXCEPT ![b] = Append(s, e)]
  BY <1>0 DEF Publishing
<1>4. s \in Seq(Elems) /\ Distinct(s) /\ ~Listed(s, e)
  BY <1>0, <1>1, <1>2
<1>5. /\ Append(s, e) \in Seq(Elems) /\ Distinct(Append(s, e))
      /\ \A y : Listed(Append(s, e), y) <=> y = e \/ Listed(s, y)
  BY <1>1, <1>4, AppendLists
<1>6. /\ r \in [Atm!UmBuckets -> Seq(Elems)] /\ r[b] = Append(s, e)
      /\ \A d \in Atm!UmBuckets : d # b => r[d] = q[d]
  BY <1>1, <1>2, <1>3, <1>5
<1>7. \A d \in Atm!UmBuckets : \A y : Listed(r[d], y) <=> Listed(q[d], y) \/ (d = b /\ y = e)
  BY <1>0, <1>5, <1>6
<1>8. \A d \in Atm!UmBuckets : Distinct(r[d])
  BY <1>2, <1>5, <1>6
<1>9. ASSUME NEW d \in Atm!UmBuckets, NEW c \in Atm!UmBuckets, NEW y, Listed(r[d], y), Listed(r[c], y)
      PROVE  d = c
  <2>1. /\ Listed(q[d], y) \/ (d = b /\ y = e)
        /\ Listed(q[c], y) \/ (c = b /\ y = e)
    BY <1>7, <1>9
  <2>2. CASE y = e
    BY <1>1, <2>1, <2>2
  <2>3. CASE y # e
    BY <1>2, <2>1, <2>3
  <2> QED BY <2>2, <2>3
<1>10. ASSUME NEW d \in Atm!UmBuckets, NEW y, Listed(r[d], y) PROVE y \notin umFree'
  <2>1. Listed(q[d], y) \/ y = e
    BY <1>7, <1>10
  <2>2. y \notin umFree
    BY <1>1, <1>2, <2>1
  <2> QED BY <1>1, <2>2
<1>11. Atm!UmBuckets' = Atm!UmBuckets
  BY DEF Atm!UmBuckets, Atm!HashIndex
<1>12. Buckets(r)'
  <2>1. r \in [Atm!UmBuckets' -> Seq(Elems)] /\ \A d \in Atm!UmBuckets' : Distinct(r[d])
    BY <1>6, <1>8, <1>11
  <2>2. \A d, c \in Atm!UmBuckets' : \A y : Listed(r[d], y) /\ Listed(r[c], y) => d = c
    BY <1>9, <1>11
  <2>3. \A d \in Atm!UmBuckets' : \A y : Listed(r[d], y) => y \notin umFree'
    BY <1>10, <1>11
  <2> QED BY <2>1, <2>2, <2>3 DEF Buckets
<1> QED BY <1>0, <1>2, <1>6, <1>7, <1>12

\* Whoever reads the new head gets the links behind it.
LEMMA PublishChained ==
  ASSUME NEW q, NEW r, NEW t, NEW l, NEW e, Publishing(q, r, t, l, e)
  PROVE  Chained(r)'
<1>0. PICK b, s, n, x, V : /\ b = Bucket(t) /\ s = q[Bucket(t)] /\ n = Len(s) /\ x = Append(s, e)
                           /\ V = HasAll(t)
  OBVIOUS
<1>1. /\ e \in Elems /\ \A d \in Atm!UmBuckets : ~Listed(q[d], e)
      /\ b \in Atm!UmBuckets /\ l \in Atm!UnitMapLocs /\ KnowsList(s, V, Held, b)
      /\ Has(t, NextAt(e)) \subseteq {LastOf(s)}
      /\ \A k \in Atm!UnitMapLocs : k # l => Told(l, e, k)' \subseteq Told(l, e, k) \cup Has(t, k)
  BY <1>0, PublishKeeps DEF MyList
<1>2. Effect(l, e) /\ l = ListAt(b) /\ TableIs(q) /\ t \in Callers
  <2>1. Effect(l, e)
    BY PublishKeeps
  <2> QED BY <1>0, <2>1 DEF Publishing
<1>3. Memory /\ DOMAIN mem = Atm!UnitMapLocs /\ Memory' /\ DOMAIN mem' = Atm!UnitMapLocs
  BY <1>2 DEF TableIs, TableTypes, Effect
<1>4. /\ r[b] = x /\ \A d \in Atm!UmBuckets : d # b => r[d] = q[d]
      /\ \A d \in Atm!UmBuckets : q[d] \in Seq(Elems)
      /\ \A d \in Atm!UmBuckets : \A y : Listed(r[d], y) <=> Listed(q[d], y) \/ (d = b /\ y = e)
  <2>1. /\ r[Bucket(t)] = Append(q[Bucket(t)], e)
        /\ \A d \in Atm!UmBuckets : d # Bucket(t) => r[d] = q[d]
        /\ \A d \in Atm!UmBuckets : q[d] \in Seq(Elems)
        /\ \A d \in Atm!UmBuckets : \A y :
             Listed(r[d], y) <=> Listed(q[d], y) \/ (d = Bucket(t) /\ y = e)
    BY PublishBuckets
  <2> QED BY <1>0, <2>1
<1>5. s \in Seq(Elems) /\ V = [k \in Atm!UnitMapLocs |-> Has(t, k)]
  BY <1>0, <1>1, <1>3, <1>4 DEF HasAll
<1>6. /\ n \in Nat /\ Len(x) = n + 1 /\ x[n + 1] = e /\ LastOf(x) = e
      /\ NextOf(x, n + 1) = LastOf(s)
      /\ \A i \in 1..n : x[i] = s[i] /\ NextOf(x, i) = NextOf(s, i) /\ s[i] \in Elems
      /\ \A i \in 1..(n + 1) : i \in 1..n \/ i = n + 1
      /\ \A j \in 1..n : \A i \in 1..j : i \in 1..n
  <2>1. OneLonger(s, e, Append(s, e), Len(s))
    BY <1>1, <1>5, OneMore
  <2>2. OneLonger(s, e, x, n)
    BY <1>0, <2>1
  <2> QED BY <2>2 DEF OneLonger
<1>7. /\ \A k \in Atm!UnitMapLocs : Atm!Newest(k)' = IF k = l THEN e ELSE Atm!Newest(k)
      /\ \A k, m \in Atm!UnitMapLocs : \A y :
           m # l \/ y # e => Told(m, y, k)' \subseteq Told(m, y, k) \cup (IF k = l THEN {e} ELSE {})
  BY <1>2, <1>3 DEF Effect
<1>8. /\ \A d \in Atm!UmBuckets : ListAt(d) \in Atm!UnitMapLocs /\ (ListAt(d) = l <=> d = b)
      /\ \A f \in Elems : NextAt(f) \in Atm!UnitMapLocs /\ NextAt(f) # l
  BY <1>2, Locations
<1>9. \A d \in Atm!UmBuckets :
        /\ Atm!Newest(ListAt(d)) = LastOf(q[d])
        /\ \A j \in 1..Len(q[d]) : \A i \in 1..j :
             Told(ListAt(d), q[d][j], NextAt(q[d][i])) \subseteq {NextOf(q[d], i)}
        /\ \A y \in Elems : ~Listed(q[d], y) =>
             \A k \in Atm!UnitMapLocs : Told(ListAt(d), y, k) = {}
  BY <1>2 DEF TableIs, Chained
<1>10. ASSUME NEW d \in Atm!UmBuckets PROVE Atm!Newest(ListAt(d))' = LastOf(r[d])
  <2>1. PICK m \in Atm!UnitMapLocs : m = ListAt(d)
    BY <1>8
  <2>2. Atm!Newest(m)' = LastOf(r[d])
    BY <1>4, <1>6, <1>7, <1>8, <1>9, <2>1
  <2> QED BY <2>1, <2>2
<1>11. ASSUME NEW d \in Atm!UmBuckets, NEW y \in Elems, ~Listed(r[d], y), NEW k \in Atm!UnitMapLocs
       PROVE  Told(ListAt(d), y, k)' = {}
  <2>1. PICK m, j : m = ListAt(d) /\ j = NextAt(e)
    OBVIOUS
  <2>2. m \in Atm!UnitMapLocs /\ j \in Atm!UnitMapLocs /\ j # l /\ (m # l \/ y # e)
    BY <1>1, <1>4, <1>8, <1>11, <2>1
  <2>3. Told(m, y, j) = {}
    BY <1>4, <1>9, <1>11, <2>1, <2>2
  <2>4. Told(m, y, j)' = {}
    BY <1>7, <2>2, <2>3
  <2>5. m \in DOMAIN mem' /\ j \in DOMAIN mem' /\ k \in DOMAIN mem' /\ Memory'
    BY <1>3, <2>2
  <2>6. Told(m, y, k)' = {}
    BY <2>4, <2>5, NoneTold
  <2> QED BY <2>1, <2>6
<1>12. ASSUME NEW d \in Atm!UmBuckets, NEW j \in 1..Len(r[d]), NEW i \in 1..j
       PROVE  Told(ListAt(d), r[d][j], NextAt(r[d][i]))' \subseteq {NextOf(r[d], i)}
  <2>0. PICK m, y, k : m = ListAt(d) /\ y = r[d][j] /\ k = NextAt(r[d][i])
    OBVIOUS
  <2>1. CASE d # b
    <3>1. r[d] = q[d] /\ q[d] \in Seq(Elems)
      BY <1>4, <2>1
    <3>2. j \in 1..Len(q[d]) /\ i \in 1..Len(q[d]) /\ q[d][i] \in Elems
      BY <3>1
    <3>3. m \in Atm!UnitMapLocs /\ m # l /\ k \in Atm!UnitMapLocs /\ k # l
      BY <1>8, <2>0, <2>1, <3>1, <3>2
    <3>4. Told(m, y, k) \subseteq {NextOf(r[d], i)}
      BY <1>9, <2>0, <3>1, <3>2
    <3>5. Told(m, y, k)' \subseteq {NextOf(r[d], i)}
      BY <1>7, <3>3, <3>4
    <3> QED BY <2>0, <3>5
  <2>2. CASE d = b /\ j \in 1..n
    <3>1. r[d] = x /\ q[d] = s /\ m = l
      BY <1>0, <1>4, <1>8, <2>0, <2>2
    <3>2. i \in 1..n
      BY <1>6, <2>2
    <3>3. x[j] = s[j] /\ x[i] = s[i] /\ NextOf(x, i) = NextOf(s, i) /\ s[i] \in Elems
      BY <1>6, <2>2, <3>2
    <3>4. y # e
      <4>1. Listed(s, s[j])
        BY <1>0, <2>2 DEF Listed
      <4> QED BY <1>0, <1>1, <2>0, <3>1, <3>3, <4>1
    <3>5. k \in Atm!UnitMapLocs /\ k # l
      BY <1>8, <2>0, <3>1, <3>3
    <3>6. Told(m, y, k) \subseteq {NextOf(s, i)}
      <4>1. \A h \in 1..Len(q[d]) : \A g \in 1..h :
              Told(ListAt(d), q[d][h], NextAt(q[d][g])) \subseteq {NextOf(q[d], g)}
        BY <1>9
      <4>2. Told(ListAt(d), q[d][j], NextAt(q[d][i])) \subseteq {NextOf(q[d], i)}
        BY <1>0, <2>2, <3>1, <4>1
      <4> QED BY <2>0, <3>1, <3>3, <4>2
    <3>7. Told(m, y, k)' \subseteq {NextOf(s, i)}
      BY <1>1, <1>7, <3>1, <3>4, <3>5, <3>6
    <3> QED BY <2>0, <3>1, <3>3, <3>7
  <2>3. CASE d = b /\ j = n + 1
    <3>1. r[d] = x /\ q[d] = s /\ m = l /\ y = e
      BY <1>0, <1>4, <1>6, <1>8, <2>0, <2>3
    <3>2. i \in 1..n \/ i = n + 1
      BY <1>6, <2>3
    <3>3. x[i] \in Elems
      BY <1>1, <1>6, <3>2
    <3>4. k \in Atm!UnitMapLocs /\ k # l
      BY <1>8, <2>0, <3>1, <3>3
    <3>5. Told(l, e, k) = {}
      <4>1. ~Listed(q[b], e)
        BY <1>1
      <4>2. Told(ListAt(b), e, k) = {}
        BY <1>1, <1>9, <3>4, <4>1
      <4> QED BY <1>2, <4>2
    <3>6. Has(t, k) \subseteq {NextOf(x, i)}
      <4>1. CASE i = n + 1
        BY <1>1, <1>6, <2>0, <3>1, <4>1
      <4>2. CASE i \in 1..n
        <5>1. V[NextAt(s[i])] \subseteq {NextOf(s, i)}
          BY <1>0, <1>1, <4>2 DEF KnowsList, KnowsNext
        <5> QED BY <1>5, <1>6, <2>0, <3>1, <3>4, <4>2, <5>1
      <4> QED BY <3>2, <4>1, <4>2
    <3>7. Told(l, e, k)' \subseteq {NextOf(x, i)}
      BY <1>1, <3>4, <3>5, <3>6
    <3> QED BY <2>0, <3>1, <3>7
  <2>4. d = b => j \in 1..n \/ j = n + 1
    BY <1>4, <1>6
  <2> QED BY <2>1, <2>2, <2>3, <2>4
<1>13. Atm!UmBuckets' = Atm!UmBuckets /\ Atm!UnitMapLocs' = Atm!UnitMapLocs
  BY DEF Atm!UnitMapLocs, Atm!UmBuckets, Atm!HashIndex
<1> QED BY <1>10, <1>11, <1>12, <1>13 DEF Chained

\* t knows the longer list, and finds its unit at the head.
LEMMA PublishKnows ==
  ASSUME NEW q, NEW r, NEW t, NEW l, NEW e, Publishing(q, r, t, l, e)
  PROVE  /\ MyList(r, t)'
         /\ \E i \in 1..Len(r[Bucket(t)]) : MyFind(r, t, i)'
<1>0. PICK b, s, n, x, u, V, W, G :
        /\ b = Bucket(t) /\ s = q[Bucket(t)] /\ n = Len(s) /\ x = Append(s, e)
        /\ u = umUnit[t] /\ V = HasAll(t) /\ W = HasAll(t)' /\ G = Held'
  OBVIOUS
<1>1. /\ e \in Elems /\ b \in Atm!UmBuckets /\ l \in Atm!UnitMapLocs
      /\ KnowsList(s, V, Held, b) /\ OnlyIn(V, u, e) /\ Held[e] = u
      /\ Has(t, ThreadAt(e)) \subseteq {mapped[u]} /\ Has(t, NextAt(e)) \subseteq {LastOf(s)}
  <2>1. e \in Elems \ umFree
    BY PublishKeeps
  <2>4. Bucket(t) \in Atm!UmBuckets /\ l \in Atm!UnitMapLocs
    BY PublishKeeps
  <2>2. MyList(q, t) /\ MyOnly(t, e)
    BY PublishKeeps
  <2>5. Held[e] = umUnit[t]
    BY <2>1, <2>2, OnlyHeld DEF Publishing
  <2>3. /\ Has(t, ThreadAt(e)) \subseteq {mapped[umUnit[t]]}
        /\ Has(t, NextAt(e)) \subseteq {LastOf(q[Bucket(t)])}
    BY PublishKeeps
  <2> QED BY <1>0, <2>1, <2>2, <2>3, <2>4, <2>5 DEF MyList, MyOnly
<1>2. umUnit' = umUnit /\ mapped' = mapped /\ Bucket(t)' = Bucket(t) /\ WriteEffect(t, l, e)
      /\ Effect(l, e)
  BY PublishKeeps
<1>3. l = ListAt(b) /\ TableIs(q) /\ t \in Callers
  BY <1>0 DEF Publishing
<1>4. Memory /\ DOMAIN mem = Atm!UnitMapLocs /\ DOMAIN mem' = Atm!UnitMapLocs
  BY <1>2, <1>3 DEF TableIs, TableTypes, WriteEffect
<1>5. r[b] = x /\ s \in Seq(Elems)
  <2>1. /\ r[Bucket(t)] = Append(q[Bucket(t)], e)
        /\ \A d \in Atm!UmBuckets : q[d] \in Seq(Elems)
    BY PublishBuckets
  <2> QED BY <1>0, <1>1, <2>1
<1>6. /\ n \in Nat /\ Len(x) = n + 1 /\ x[n + 1] = e /\ LastOf(x) = e
      /\ NextOf(x, n + 1) = LastOf(s)
      /\ \A i \in 1..n : x[i] = s[i] /\ NextOf(x, i) = NextOf(s, i) /\ s[i] \in Elems
      /\ n + 1 \in 1..(n + 1) /\ \A i \in 1..(n + 1) : i \in 1..n \/ i = n + 1
      /\ \A i \in (n + 1)..(n + 1) : i = n + 1
  <2>1. OneLonger(s, e, Append(s, e), Len(s))
    BY <1>1, <1>5, OneMore
  <2>2. OneLonger(s, e, x, n)
    BY <1>0, <2>1
  <2> QED BY <2>2 DEF OneLonger
<1>7. /\ W[l] \subseteq {e} /\ \A k \in Atm!UnitMapLocs : k # l => W[k] \subseteq V[k]
      /\ \A k \in Atm!UnitMapLocs : V[k] = Has(t, k)
  <2>1. \A k \in Atm!UnitMapLocs : HasAll(t)'[k] = Has(t, k)'
    BY <1>4 DEF HasAll
  <2>2. \A k \in Atm!UnitMapLocs : HasAll(t)[k] = Has(t, k)
    BY <1>4 DEF HasAll
  <2>3. Has(t, l)' \subseteq {e} /\ \A k \in Atm!UnitMapLocs : k # l => Has(t, k)' \subseteq Has(t, k)
    BY <1>2, <1>3, <1>4 DEF WriteEffect
  <2> QED BY <1>0, <1>1, <2>1, <2>2, <2>3
<1>8. \A f \in Elems : /\ NextAt(f) \in Atm!UnitMapLocs /\ NextAt(f) # l
                       /\ UnitAt(f) \in Atm!UnitMapLocs /\ UnitAt(f) # l
                       /\ ThreadAt(f) \in Atm!UnitMapLocs /\ ThreadAt(f) # l
  BY <1>3, Locations
<1>9. \A f \in Elems : /\ W[NextAt(f)] \subseteq V[NextAt(f)] /\ W[UnitAt(f)] \subseteq V[UnitAt(f)]
                       /\ W[ThreadAt(f)] \subseteq V[ThreadAt(f)] /\ G[f] = Held[f]
  <2>1. \A f \in Elems : G[f] = Held[f]
    <3>1. \A f \in Elems : Held'[f] = IF l = UnitAt(f) THEN e ELSE Held[f]
      BY <1>2, <1>4, EffectGrows DEF TableIs, TableTypes, Effect, WriteEffect
    <3> QED BY <1>0, <1>8, <3>1
  <2> QED BY <1>7, <1>8, <2>1
<1>10. KnowsList(x, W, G, b)
  <2>1. W[ListAt(b)] \subseteq {LastOf(x)}
    BY <1>3, <1>6, <1>7
  <2>2. ASSUME NEW i \in 1..(n + 1)
        PROVE  W[NextAt(x[i])] \subseteq {NextOf(x, i)} /\ W[UnitAt(x[i])] \subseteq {G[x[i]]}
    <3>1. CASE i \in 1..n
      <4>1. V[NextAt(s[i])] \subseteq {NextOf(s, i)} /\ V[UnitAt(s[i])] \subseteq {Held[s[i]]}
        BY <1>0, <1>1, <3>1 DEF KnowsList, KnowsNext
      <4> QED BY <1>6, <1>9, <3>1, <4>1
    <3>2. CASE i = n + 1
      <4>1. V[NextAt(e)] \subseteq {LastOf(s)}
        BY <1>1, <1>7, <1>8
      <4>2. V[UnitAt(e)] \subseteq {Held[e]}
        BY <1>1 DEF OnlyIn
      <4> QED BY <1>1, <1>6, <1>9, <3>2, <4>1, <4>2
    <3> QED BY <1>6, <3>1, <3>2
  <2> QED BY <1>6, <2>1, <2>2 DEF KnowsList, KnowsNext
<1>11. Finds(x, W, u, b, mapped[u], n + 1)
  <2>1. W[ListAt(b)] \subseteq {x[j] : j \in (n + 1)..Len(x)}
    <3>1. n + 1 \in (n + 1)..Len(x)
      BY <1>6
    <3> QED BY <1>3, <1>6, <1>7, <3>1
  <2>2. OnlyIn(W, u, e)
    BY <1>1, <1>9 DEF OnlyIn
  <2>3. W[ThreadAt(e)] \subseteq {mapped[u]}
    BY <1>1, <1>7, <1>8, <1>9
  <2> QED BY <1>6, <2>1, <2>2, <2>3 DEF Finds
<1>12. Bucket(t)' = b /\ umUnit'[t] = u /\ mapped'[umUnit'[t]] = mapped[u]
  BY <1>0, <1>2
<1>13. MyList(r, t)'
  BY <1>0, <1>5, <1>10, <1>12 DEF MyList
<1>14. MyFind(r, t, n + 1)'
  BY <1>0, <1>5, <1>11, <1>12 DEF MyFind
<1>15. n + 1 \in 1..Len(r[Bucket(t)])
  BY <1>0, <1>5, <1>6
<1> QED BY <1>13, <1>14, <1>15

\* Publishing leaves the table right.
LEMMA Publishes ==
  ASSUME NEW q, NEW r, NEW t, NEW l, NEW e, Publishing(q, r, t, l, e)
  PROVE  TableIs(r)'
<1>0. PICK u, b : u = umUnit[t] /\ b = Bucket(t)
  OBVIOUS
<1>1. /\ TableIs(q) /\ t \in Callers /\ umPc[t] = "publish" /\ umPc[t] # "idle" /\ e = umCur[t]
      /\ l = ListAt(b) /\ r = [q EXCEPT ![Bucket(t)] = Append(q[Bucket(t)], e)]
  BY <1>0 DEF Publishing
<1>2. /\ umPc'[t] = "map unlock" /\ umUnit' = umUnit /\ umThread' = umThread
      /\ umFree' = umFree /\ Bucket(t)' = Bucket(t)
      /\ Shaped /\ OthersStay(t, umUnit[t]) /\ Effect(l, e)
  BY PublishKeeps
<1>3. Buckets(r)' /\ Chained(r)' /\ MyList(r, t)'
      /\ \E i \in 1..Len(r[Bucket(t)]) : MyFind(r, t, i)'
  BY PublishBuckets, PublishChained, PublishKnows
<1>4. /\ u \in Units /\ Atm!Newest(OwnerAt(u)) = "taken" /\ Atm!HashIndex(u) = b
      /\ Memory /\ DOMAIN mem = Atm!UnitMapLocs /\ b \in Atm!UmBuckets
  BY <1>0, <1>1, Mine1
<1>5. StepOf(q, r, t, u, l, e)
  BY <1>0, <1>1, <1>2, <1>4 DEF StepOf, Puts
<1>6. /\ "map unlock" \in UmPcs /\ "map unlock" \notin NewPcs \cup WrotePcs \cup WalkPcs
      /\ "map unlock" \notin FreePcs \cup ThreadPcs /\ "map unlock" \in LockPcs
      /\ umPc[t] \in LockPcs
  BY <1>1 DEF UmPcs, NewPcs, WrotePcs, WalkPcs, FreePcs, ThreadPcs, LockPcs, MappedPcs
<1>7. Moves(t, u, l)
  BY <1>0, <1>1, <1>2, <1>6 DEF Moves
<1>8. PICK o, k : o = OwnerAt(u) /\ k = LockAt(b)
  OBVIOUS
<1>9. /\ o \in Atm!UnitMapLocs /\ k \in Atm!UnitMapLocs /\ o # l /\ k # l
  BY <1>1, <1>4, <1>8, Locations
<1>10. Atm!Newest(o)' = "taken" /\ Atm!Newest(k)' = Atm!Newest(k)
  BY <1>2, <1>4, <1>8, <1>9 DEF Effect
<1>11. OwnerOf(r, u)'
  BY <1>8, <1>10 DEF OwnerOf
<1>12. LockOf(r, Atm!HashIndex(u))'
  <2>1. Atm!Newest(k) \in BOOLEAN /\ Atm!Newest(k)
    <3>1. /\ Atm!Newest(LockAt(Bucket(t))) \in BOOLEAN
          /\ Atm!Newest(LockAt(Bucket(t)))
               <=> \E c \in Callers : umPc[c] \in LockPcs /\ Bucket(c) = Bucket(t)
      BY <1>1, LockFacts
    <3> QED BY <1>0, <1>1, <1>6, <1>8, <3>1
  <2>2. \E c \in Callers : umPc'[c] \in LockPcs /\ Bucket(c)' = b
    BY <1>0, <1>1, <1>2, <1>6
  <2>3. Atm!Newest(LockAt(b))' = TRUE
    BY <1>8, <1>10, <2>1
  <2>4. LockOf(r, b)'
    BY <2>2, <2>3 DEF LockOf
  <2> QED BY <1>4, <2>4
<1>13. Works(t)'
  <2>1. OwnerAt(umUnit'[t]) = o
    BY <1>0, <1>2, <1>8
  <2> QED BY <1>0, <1>2, <1>4, <1>6, <1>10, <2>1 DEF Works
<1>14. InLock(r, t)'
  BY <1>2, <1>3 DEF InLock, MyList
<1>15. Maps(r, t)'
  BY <1>2, <1>6 DEF Maps, NewPcs
<1>16. Looks(r, t)'
  BY <1>2, <1>3, <1>6 DEF Looks, MyFind
<1> HIDE DEF Publishing
<1> QED BY <1>1, <1>3, <1>5, <1>7, <1>11, <1>12, <1>13, <1>14, <1>15, <1>16, <1>2, TableStep

------------------------------------------------------------------------------
(* The actions of the unit map *)

\* A walk never leaves its list.
LEMMA NoStray ==
  ASSUME NEW q, TableIs(q), NEW t \in Callers, umPc[t] \in WalkPcs
  PROVE  umCur[t] \in Elems
<1>1. umPc[t] # "idle"
  BY DEF WalkPcs
<1>2. PICK s, n : /\ s = q[Bucket(t)] /\ n = Len(s) /\ n \in Nat /\ s \in Seq(Elems) /\ Distinct(s)
                  /\ \A k \in 1..n : s[k] \in Elems
  BY <1>1, MyPlaces
<1>3. \E m \in 1..Len(q[Bucket(t)]) : \E j \in m..Len(q[Bucket(t)]) : umCur[t] = q[Bucket(t)][j]
  <2>1. \E m \in 1..Len(q[Bucket(t)]) : \E j \in m..Len(q[Bucket(t)]) :
          /\ MyFind(q, t, m) /\ MyNext(q, t, j) /\ umCur[t] = q[Bucket(t)][j]
          /\ umPc[t] \in {"get next", "unmap next"} => m # j
          /\ umPc[t] \in {"get thread", "unmap store"} => m = j
    BY MyWalk
  <2> QED BY <2>1
<1>4. PICK m \in 1..n : \E j \in m..n : umCur[t] = s[j]
  BY <1>2, <1>3
<1>5. PICK j \in m..n : umCur[t] = s[j]
  BY <1>4
<1>6. j \in 1..n
  BY <1>2, <1>4, <1>5, Places
<1> QED BY <1>2, <1>5, <1>6

\* Calls of the spinlock.
LEMMA LockSteps ==
  ASSUME NEW q, TableIs(q), NEW t \in Callers, Atm!UmKeep, UNCHANGED umCur,
         NEW top, NEW spin, NEW in, Entering(top, spin, in),
         Atm!Lock(t, top, spin, in)
  PROVE  TableIs(q)'
<1>0. top \in {"map", "unmap"} /\ spin \in {"map spin", "unmap spin"} /\ Spinning(top, spin)
  BY DEF Entering, Spinning
<1>1. CASE /\ umPc[t] = top
           /\ \E was \in BOOLEAN : Atm!SpinTry(t, Atm!UmLock(umUnit[t]), was)
                                    /\ Atm!UmGoto(t, IF was THEN spin ELSE in)
  <2>1. umPc[t] # "idle"
    BY <1>0, <1>1
  <2>2. Atm!UmLock(umUnit[t]) = LockAt(Bucket(t))
    BY <2>1, MyLocs
  <2>3. PICK was \in BOOLEAN : /\ Atm!SpinTry(t, LockAt(Bucket(t)), was)
                               /\ Atm!UmGoto(t, IF was THEN spin ELSE in)
    BY <1>1, <2>2
  <2> QED BY <1>1, <2>3, LockTries
<1>2. CASE /\ umPc[t] = spin
           /\ \E i \in Atm!Readable(t, Atm!UmLock(umUnit[t])) :
                /\ Atm!SpinIsLocked(t, Atm!UmLock(umUnit[t]), i)
                /\ Atm!UmGoto(t, IF mem[Atm!UmLock(umUnit[t])][i].val THEN spin ELSE top)
  <2> QED BY <1>0, <1>2, SpinWaits
<1> QED BY <1>1, <1>2 DEF Atm!Lock

\* Leaving a section.
LEMMA UnlockSteps ==
  ASSUME NEW q, TableIs(q), NEW t \in Callers, Atm!UmKeep, UNCHANGED umCur,
         NEW at, NEW p, Leaving(at, p),
         Atm!Unlock(t, at, p)
  PROVE  TableIs(q)'
<1>0. at \in {"map unlock", "map fail", "unmap unlock"}
  BY DEF Leaving
<1>1. umPc[t] = at /\ Atm!UmGoto(t, p) /\ Atm!SpinRelease(t, Atm!UmLock(umUnit[t]))
  BY DEF Atm!Unlock
<1>2. umPc[t] # "idle"
  BY <1>0, <1>1
<1>3. Atm!UmLock(umUnit[t]) = LockAt(Bucket(t))
  BY <1>2, MyLocs
<1>4. Atm!SpinRelease(t, LockAt(Bucket(t)))
  BY <1>1, <1>3
<1> QED BY <1>1, <1>4, Unlocks

\* The walk of map.
LEMMA MapWalks ==
  ASSUME NEW q, TableIs(q), NEW t \in Callers, Atm!MapWalk(t)
  PROVE  TableIs(q)'
<1>1. Atm!UmKeep
  BY DEF Atm!MapWalk
<1>2. CASE Atm!Lock(t, "map", "map spin", "map list") /\ UNCHANGED umCur
  <2>1. Entering("map", "map spin", "map list")
    BY DEF Entering
  <2> QED BY <1>1, <1>2, <2>1, LockSteps
<1>3. CASE Atm!LoadList(t, "map list", "map test")
  BY <1>1, <1>3, MapLoadsList
<1>4. CASE /\ UNCHANGED umCur /\ umPc[t] = "map test" /\ umCur[t] \in Elems
           /\ \E i \in Atm!Readable(t, UnitAt(umCur[t])) :
                /\ Atm!RelaxedLoad(t, UnitAt(umCur[t]), i)
                /\ Atm!UmGoto(t, IF mem[UnitAt(umCur[t])][i].val = NULL THEN "reuse unit" ELSE "map next")
  BY <1>1, <1>4, MapLoadsUnit
<1>5. CASE Atm!LoadNext(t, "map next", "map test")
  BY <1>1, <1>5, MapLoadsNext
<1> QED BY <1>2, <1>3, <1>4, <1>5 DEF Atm!MapWalk, Atm!LoadUnit, UnitAt

\* An empty element is used again.
LEMMA MapReuses ==
  ASSUME NEW q, TableIs(q), NEW t \in Callers, Atm!MapReuse(t)
  PROVE  TableIs(q)'
<1>1. Atm!UmKeep /\ UNCHANGED umCur
  BY DEF Atm!MapReuse
<1>2. CASE /\ umPc[t] = "reuse unit" /\ Atm!UmGoto(t, "reuse thread")
           /\ Atm!StoreUnit(t, umUnit[t])
  BY <1>1, <1>2, ReuseUnit DEF Atm!StoreUnit, UnitAt
<1>3. CASE /\ umPc[t] = "reuse thread" /\ Atm!UmGoto(t, "map unlock")
           /\ Atm!RelaxedStore(t, <<"thread", umCur[t]>>, umThread[t])
  BY <1>1, <1>3, ReuseThread DEF ThreadAt
<1>4. CASE Atm!Unlock(t, "map unlock", "give pool")
  <2>1. Leaving("map unlock", "give pool")
    BY DEF Leaving
  <2> QED BY <1>1, <1>4, <2>1, UnlockSteps
<1> QED BY <1>2, <1>3, <1>4 DEF Atm!MapReuse

\* A new element is filled and published.
LEMMA MapNews ==
  ASSUME NEW q, TableIs(q), NEW t \in Callers, Atm!MapNew(t)
  PROVE  \E r : TableIs(r)'
<1>1. Atm!UmKeep /\ UNCHANGED umCur
  BY DEF Atm!MapNew
<1>2. CASE umPc[t] = "new unit" /\ Atm!UmGoto(t, "new thread") /\ Atm!StoreUnit(t, umUnit[t])
  BY <1>1, <1>2, NewUnit DEF Atm!StoreUnit, UnitAt
<1>3. CASE /\ umPc[t] = "new thread" /\ Atm!UmGoto(t, "new next")
           /\ Atm!RelaxedStore(t, <<"thread", umCur[t]>>, umThread[t])
  BY <1>1, <1>3, NewThread DEF ThreadAt
<1>4. CASE /\ umPc[t] = "new next" /\ Atm!UmGoto(t, "publish")
           /\ Atm!RelaxedStore(t, <<"next", umCur[t]>>, Atm!Newest(Atm!UmList(umUnit[t])))
  <2>1. Atm!UmList(umUnit[t]) = ListAt(Bucket(t))
    BY <1>4, MyLocs
  <2> QED BY <1>1, <1>4, <2>1, NewNext DEF NextAt
<1>5. CASE umPc[t] = "publish" /\ Atm!UmGoto(t, "map unlock") /\ Atm!PublishList(t)
  <2>1. Atm!UmList(umUnit[t]) = ListAt(Bucket(t))
    BY <1>5, MyLocs
  <2>2. PICK e, l, r : /\ e = umCur[t] /\ l = ListAt(Bucket(t))
                       /\ r = [q EXCEPT ![Bucket(t)] = Append(q[Bucket(t)], umCur[t])]
    OBVIOUS
  <2>3. Publishing(q, r, t, l, e)
    BY <1>1, <1>5, <2>1, <2>2 DEF Publishing, Atm!PublishList
  <2> QED BY <2>3, Publishes
<1>6. CASE Atm!Unlock(t, "map fail", "give free")
  <2>1. Leaving("map fail", "give free")
    BY DEF Leaving
  <2> QED BY <1>1, <1>6, <2>1, UnlockSteps
<1> QED BY <1>2, <1>3, <1>4, <1>5, <1>6 DEF Atm!MapNew

\* The walk of get.
LEMMA GetWalks ==
  ASSUME NEW q, TableIs(q), NEW t \in Callers, Atm!GetWalk(t)
  PROVE  TableIs(q)'
<1>1. Atm!UmKeep
  BY DEF Atm!GetWalk
<1>2. CASE Atm!AcquireList(t, "get list", "get test")
  BY <1>1, <1>2, GetLoadsList
<1>3. CASE /\ UNCHANGED umCur /\ umPc[t] = "get test" /\ umCur[t] \in Elems
           /\ \E i \in Atm!Readable(t, UnitAt(umCur[t])) :
                /\ Atm!RelaxedLoad(t, UnitAt(umCur[t]), i)
                /\ Atm!UmGoto(t, IF mem[UnitAt(umCur[t])][i].val = umUnit[t]
                                 THEN "get thread" ELSE "get next")
  <2>1. PICK i \in Atm!Readable(t, UnitAt(umCur[t])) :
          /\ Atm!RelaxedLoad(t, UnitAt(umCur[t]), i)
          /\ Atm!UmGoto(t, IF mem[UnitAt(umCur[t])][i].val = umUnit[t] THEN "get thread" ELSE "get next")
    BY <1>3
  <2>2. PICK v, p : /\ v = mem[UnitAt(umCur[t])][i].val
                    /\ p = IF v = umUnit[t] THEN "get thread" ELSE "get next"
    OBVIOUS
  <2>3. Atm!UmGoto(t, p)
    BY <2>1, <2>2
  <2> QED BY <1>1, <1>3, <2>1, <2>2, <2>3, WalksUnit
<1>4. CASE Atm!LoadNext(t, "get next", "get test")
  BY <1>1, <1>4, WalksNext
<1>5. ~Atm!Stray(t, "get test")
  BY NoStray DEF Atm!Stray, WalkPcs
<1> QED BY <1>2, <1>3, <1>4, <1>5 DEF Atm!GetWalk, Atm!LoadUnit, UnitAt

\* The walk of unmap.
LEMMA UnmapWalks ==
  ASSUME NEW q, TableIs(q), NEW t \in Callers, Atm!UnmapWalk(t)
  PROVE  TableIs(q)'
<1>1. Atm!UmKeep
  BY DEF Atm!UnmapWalk
<1>2. CASE Atm!Lock(t, "unmap", "unmap spin", "unmap list") /\ UNCHANGED umCur
  <2>1. Entering("unmap", "unmap spin", "unmap list")
    BY DEF Entering
  <2> QED BY <1>1, <1>2, <2>1, LockSteps
<1>3. CASE Atm!LoadList(t, "unmap list", "unmap test")
  BY <1>1, <1>3, UnmapLoadsList
<1>4. CASE /\ UNCHANGED umCur /\ umPc[t] = "unmap test" /\ umCur[t] \in Elems
           /\ \E i \in Atm!Readable(t, UnitAt(umCur[t])) :
                /\ Atm!RelaxedLoad(t, UnitAt(umCur[t]), i)
                /\ Atm!UmGoto(t, IF mem[UnitAt(umCur[t])][i].val = umUnit[t]
                                 THEN "unmap store" ELSE "unmap next")
  <2>1. PICK i \in Atm!Readable(t, UnitAt(umCur[t])) :
          /\ Atm!RelaxedLoad(t, UnitAt(umCur[t]), i)
          /\ Atm!UmGoto(t, IF mem[UnitAt(umCur[t])][i].val = umUnit[t] THEN "unmap store" ELSE "unmap next")
    BY <1>4
  <2>2. PICK v, p : /\ v = mem[UnitAt(umCur[t])][i].val
                    /\ p = IF v = umUnit[t] THEN "unmap store" ELSE "unmap next"
    OBVIOUS
  <2>3. Atm!UmGoto(t, p)
    BY <2>1, <2>2
  <2> QED BY <1>1, <1>4, <2>1, <2>2, <2>3, WalksUnit
<1>5. CASE Atm!LoadNext(t, "unmap next", "unmap test")
  BY <1>1, <1>5, WalksNext
<1>6. ~Atm!Stray(t, "unmap test")
  BY NoStray DEF Atm!Stray, WalkPcs
<1> QED BY <1>2, <1>3, <1>4, <1>5, <1>6 DEF Atm!UnmapWalk, Atm!LoadUnit, UnitAt

\* The end of unmap.
LEMMA UnmapEnds ==
  ASSUME NEW q, TableIs(q), NEW t \in Callers, Atm!UnmapStore(t)
  PROVE  TableIs(q)'
<1>1. Atm!UmKeep /\ UNCHANGED umCur
  BY DEF Atm!UnmapStore
<1>2. CASE umPc[t] = "unmap store" /\ Atm!UmGoto(t, "unmap unlock") /\ Atm!StoreUnit(t, NULL)
  BY <1>1, <1>2, UnmapStores DEF Atm!StoreUnit, UnitAt
<1>3. CASE Atm!Unlock(t, "unmap unlock", "give free")
  <2>1. Leaving("unmap unlock", "give free")
    BY DEF Leaving
  <2> QED BY <1>1, <1>3, <2>1, UnlockSteps
<1> QED BY <1>2, <1>3 DEF Atm!UnmapStore

\* Units that are created or popped.
LEMMA UnitsTaken ==
  ASSUME NEW q, TableIs(q), NEW t \in Callers, Atm!CreateUnit(t) \/ Atm!PopUnit(t)
  PROVE  TableIs(q)'
<1>1. CASE Atm!CreateUnit(t)
  <2>1. umPc[t] = "idle" /\ Atm!UmGoto(t, "map") /\ UNCHANGED <<umCur, umFree>>
    BY <1>1 DEF Atm!CreateUnit
  <2>2. PICK u \in Units, x \in {h1, h2} :
          /\ Atm!Newest(OwnerAt(u)) = "free" /\ Atm!Update(t, OwnerAt(u), "taken")
          /\ umUnit' = [umUnit EXCEPT ![t] = u]
          /\ umThread' = [umThread EXCEPT ![t] = x]
          /\ mapped' = [mapped EXCEPT ![u] = x]
    BY <1>1 DEF Atm!CreateUnit, OwnerAt
  <2> QED BY <2>1, <2>2, TakesUnit
<1>2. CASE Atm!PopUnit(t)
  <2>1. umPc[t] = "idle" /\ Atm!UmGoto(t, "get list") /\ UNCHANGED <<umThread, umCur, umFree, mapped>>
    BY <1>2 DEF Atm!PopUnit
  <2>2. PICK u \in Units :
          /\ Atm!Newest(OwnerAt(u)) = "pool" /\ Atm!Update(t, OwnerAt(u), "taken")
          /\ umUnit' = [umUnit EXCEPT ![t] = u]
    BY <1>2 DEF Atm!PopUnit, OwnerAt
  <2> QED BY <2>1, <2>2, TakesUnit
<1> QED BY <1>1, <1>2

\* The table is taken down when every unit was freed: nothing is left in it.
LEMMA Finalizes ==
  ASSUME NEW q, TableIs(q), Atm!FinalizeHashTable
  PROVE  \A t \in Callers : umPc'[t] = "end"
<1> DEFINE left == {e \in Elems \ umFree : Atm!Newest(<<"unit", e>>) # NULL}
           locked == {b \in Atm!UmBuckets : Atm!Newest(<<"lock", b>>)}
<1>1. /\ \A t \in Callers : umPc[t] = "idle"
      /\ \A u \in Units : Atm!Newest(<<"owner", u>>) = "free"
      /\ umPc' = [t \in Callers |-> IF left \cup locked = {} THEN "end" ELSE "stray"]
  BY DEF Atm!FinalizeHashTable
<1>2. ASSUME NEW e \in Elems \ umFree PROVE Atm!Newest(UnitAt(e)) = NULL
  <2>1. Held[e] \in Units \cup {NULL}
    BY <1>1 DEF TableIs, Elements
  <2>2. Held[e] = Atm!Newest(UnitAt(e))
    BY DEF Held
  <2>3. ASSUME NEW u \in Units, Atm!Newest(UnitAt(e)) = u PROVE FALSE
    <3>1. Atm!Newest(OwnerAt(u)) = "free"
      BY <1>1 DEF OwnerAt
    <3>2. KnowsFree(SentAll(OwnerAt(u)), u)
      BY <3>1, OwnerFacts
    <3>3. /\ Memory /\ DOMAIN mem = Atm!UnitMapLocs
          /\ UnitAt(e) \in Atm!UnitMapLocs /\ OwnerAt(u) \in Atm!UnitMapLocs
      BY Locations DEF TableIs, TableTypes
    <3>4. Atm!Newest(UnitAt(e)) \in Sent(OwnerAt(u), UnitAt(e))
      BY <3>3, NewestHas
    <3>5. u \notin Sent(OwnerAt(u), UnitAt(e))
      BY <3>2, <3>3 DEF KnowsFree, SentAll
    <3> QED BY <2>3, <3>4, <3>5
  <2> QED BY <2>1, <2>2, <2>3
<1>3. ASSUME NEW b \in Atm!UmBuckets PROVE ~Atm!Newest(LockAt(b))
  <2>1. LockOf(q, b)
    BY DEF TableIs
  <2>2. \A t \in Callers : umPc[t] \notin LockPcs
    BY <1>1 DEF LockPcs, NewPcs
  <2> QED BY <2>1, <2>2 DEF LockOf
<1>4. left = {} /\ locked = {}
  BY <1>2, <1>3 DEF UnitAt, LockAt
<1> HIDE DEF left, locked
<1> QED BY <1>1, <1>4

\* A thread of the table.
LEMMA UnitMapStep ==
  ASSUME NEW q, TableIs(q), NEW t \in Callers,
         \/ Atm!CreateUnit(t) \/ Atm!MapWalk(t) \/ Atm!MapReuse(t) \/ Atm!MapMalloc(t)
         \/ Atm!MapNew(t) \/ Atm!PopUnit(t) \/ Atm!GetWalk(t) \/ Atm!GetReturn(t)
         \/ Atm!AfterGet(t) \/ Atm!UnmapWalk(t) \/ Atm!UnmapStore(t) \/ Atm!GiveUnit(t)
  PROVE  \E r : TableIs(r)'
<1>1. CASE Atm!CreateUnit(t) \/ Atm!PopUnit(t)
  BY <1>1, UnitsTaken
<1>2. CASE Atm!MapWalk(t)
  BY <1>2, MapWalks
<1>3. CASE Atm!MapReuse(t)
  BY <1>3, MapReuses
<1>4. CASE Atm!MapMalloc(t)
  BY <1>4, MallocStep
<1>5. CASE Atm!MapNew(t)
  BY <1>5, MapNews
<1>6. CASE Atm!GetWalk(t)
  BY <1>6, GetWalks
<1>7. CASE Atm!GetReturn(t)
  BY <1>7, GetReturns
<1>8. CASE Atm!AfterGet(t)
  BY <1>8, AfterGetStep
<1>9. CASE Atm!UnmapWalk(t)
  BY <1>9, UnmapWalks
<1>10. CASE Atm!UnmapStore(t)
  BY <1>10, UnmapEnds
<1>11. CASE Atm!GiveUnit(t)
  BY <1>11, GivesUnit
<1> QED BY <1>1, <1>2, <1>3, <1>4, <1>5, <1>6, <1>7, <1>8, <1>9, <1>10, <1>11

\* After the end nobody moves.
LEMMA NobodyMoves ==
  ASSUME NEW t \in Callers, umPc[t] = "end"
  PROVE  ~ \/ Atm!CreateUnit(t) \/ Atm!MapWalk(t) \/ Atm!MapReuse(t) \/ Atm!MapMalloc(t)
           \/ Atm!MapNew(t) \/ Atm!PopUnit(t) \/ Atm!GetWalk(t) \/ Atm!GetReturn(t)
           \/ Atm!AfterGet(t) \/ Atm!UnmapWalk(t) \/ Atm!UnmapStore(t) \/ Atm!GiveUnit(t)
<1>1. ~Atm!CreateUnit(t) /\ ~Atm!PopUnit(t) /\ ~Atm!MapMalloc(t) /\ ~Atm!AfterGet(t)
      /\ ~Atm!GetReturn(t) /\ ~Atm!GiveUnit(t)
  BY DEF Atm!CreateUnit, Atm!PopUnit, Atm!MapMalloc, Atm!AfterGet, Atm!GetReturn, Atm!GiveUnit
<1>2. ~Atm!MapWalk(t)
  BY DEF Atm!MapWalk, Atm!Lock, Atm!LoadList, Atm!LoadUnit, Atm!LoadNext
<1>3. ~Atm!MapReuse(t) /\ ~Atm!MapNew(t) /\ ~Atm!UnmapStore(t)
  BY DEF Atm!MapReuse, Atm!MapNew, Atm!UnmapStore, Atm!Unlock
<1>4. ~Atm!GetWalk(t) /\ ~Atm!UnmapWalk(t)
  BY DEF Atm!GetWalk, Atm!UnmapWalk, Atm!Lock, Atm!AcquireList, Atm!LoadList, Atm!LoadUnit,
         Atm!LoadNext, Atm!Stray
<1> QED BY <1>1, <1>2, <1>3, <1>4

\* The clients of the other structures have nothing to do with the table.
LEMMA NoClients ==
  ASSUME kind = "table", NEW t \in Callers, a_pc[t] = "idle"
  PROVE  ~Atm!Clients(t)
<1>1. ~Atm!Arithmetic(t) /\ ~Atm!LoadCount(t) /\ ~Atm!Enter(t) /\ ~Atm!Section(t)
  BY DEF Atm!Arithmetic, Atm!LoadCount, Atm!Enter, Atm!Section, Atm!Begin
<1>2. ~Atm!Swap(t)
  <2>1. /\ Atm!Again["weak"] = "weak again" /\ Atm!Again["strong"] = "strong again"
        /\ Atm!Again["exchange"] = "exchange again"
    BY DEF Atm!Again
  <2> QED BY <2>1 DEF Atm!Swap
<1>3. ~Atm!StackLoad(t) /\ ~Atm!StackLink(t) /\ ~Atm!StackSwap(t)
  BY DEF Atm!StackLoad, Atm!StackLink, Atm!StackSwap, Atm!Begin
<1> QED BY <1>1, <1>2, <1>3 DEF Atm!Clients

\* Nothing of the table moves.
LEMMA TableStays ==
  ASSUME NEW q, TableIs(q), UNCHANGED atomicVars
  PROVE  TableIs(q)'
<1>1. /\ UNCHANGED <<mem, seen>>
      /\ UNCHANGED <<umPc, umUnit, umThread, umCur, umFree, umCalls, mapped>>
  BY DEF atomicVars
<1>2. /\ Memory' <=> Memory
      /\ \A l : Atm!Newest(l)' = Atm!Newest(l)
      /\ \A l, k : Sent(l, k)' = Sent(l, k)
      /\ \A l, t : Has(t, l)' = Has(t, l)
      /\ \A l, k, x : Told(l, x, k)' = Told(l, x, k)
  BY <1>1, MemoryStays
<1>3. /\ Held' = Held /\ \A t : HasAll(t)' = HasAll(t) /\ Bucket(t)' = Bucket(t)
      /\ \A l : SentAll(l)' = SentAll(l)
  BY <1>1, <1>2 DEF Held, HasAll, SentAll, Bucket
<1>4. TableTypes' /\ Apart' /\ Elements'
  BY <1>1, <1>2, <1>3 DEF TableIs, TableTypes, Apart, Elements
<1>5. Buckets(q)' /\ Chained(q)'
  <2>1. Atm!UmBuckets' = Atm!UmBuckets /\ Atm!UnitMapLocs' = Atm!UnitMapLocs
    BY DEF Atm!UmBuckets, Atm!HashIndex, Atm!UnitMapLocs
  <2>2. Buckets(q) /\ Chained(q)
    BY DEF TableIs
  <2> QED BY <1>1, <1>2, <2>1, <2>2 DEF Buckets, Chained
<1>6. ASSUME NEW u \in Units PROVE OwnerOf(q, u)'
  <2>1. OwnerOf(q, u)
    BY DEF TableIs
  <2> QED BY <1>1, <1>2, <1>3, <2>1 DEF OwnerOf, Finds, OnlyIn, KnowsFree
<1>7. ASSUME NEW b \in Atm!UmBuckets PROVE LockOf(q, b)'
  <2>1. LockOf(q, b)
    BY DEF TableIs
  <2> QED BY <1>1, <1>2, <1>3, <2>1 DEF LockOf, KnowsList, KnowsNext
<1>8. ASSUME NEW t \in Callers PROVE Works(t)' /\ InLock(q, t)' /\ Maps(q, t)' /\ Looks(q, t)'
  <2>1. Works(t) /\ InLock(q, t) /\ Maps(q, t) /\ Looks(q, t)
    BY DEF TableIs
  <2>2. Works(t)'
    BY <1>1, <1>2, <2>1 DEF Works
  <2>3. InLock(q, t)'
    BY <1>1, <1>2, <1>3, <2>1 DEF InLock, KnowsList, KnowsNext
  <2>4. Maps(q, t)'
    BY <1>1, <1>2, <1>3, <2>1 DEF Maps, KnowsFree, OnlyIn
  <2>5. Looks(q, t)'
    <3>1. /\ HasAll(t)' = HasAll(t) /\ Bucket(t)' = Bucket(t) /\ umPc'[t] = umPc[t]
          /\ umUnit'[t] = umUnit[t] /\ mapped'[umUnit'[t]] = mapped[umUnit[t]]
          /\ umCur'[t] = umCur[t]
      BY <1>1, <1>3
    <3> QED BY <2>1, <3>1 DEF Looks
  <2> QED BY <2>2, <2>3, <2>4, <2>5
<1> QED BY <1>4, <1>5, <1>6, <1>7, <1>8 DEF TableIs

\* A step of the table.
LEMMA TableKeeps ==
  ASSUME UnitMapInv, kind' = kind, (kind = "table" /\ Atm!Next) \/ UNCHANGED atomicVars
  PROVE  UnitMapInv'
<1> SUFFICES ASSUME kind = "table" PROVE UnitMapInv'
  BY DEF UnitMapInv
<1>1. /\ a_pc \in [Callers -> {"idle"}]
      /\ \/ \A t \in Callers : umPc[t] = "end"
         \/ \E q : TableIs(q)
  BY DEF UnitMapInv
<1>2. CASE UNCHANGED atomicVars
  <2>1. a_pc' = a_pc /\ umPc' = umPc
    BY <1>2 DEF atomicVars
  <2>2. CASE \A t \in Callers : umPc[t] = "end"
    BY <1>1, <2>1, <2>2 DEF UnitMapInv
  <2>3. CASE \E q : TableIs(q)
    <3>1. \E q : TableIs(q)'
      BY <1>2, <2>3, TableStays
    <3> QED BY <1>1, <2>1, <3>1 DEF UnitMapInv
  <2> QED BY <1>1, <2>2, <2>3
<1>3. CASE kind = "table" /\ Atm!UnitMapNext /\ UNCHANGED Atm!clientVars
  <2>1. a_pc' = a_pc
    BY <1>3 DEF Atm!clientVars
  <2>2. CASE \A t \in Callers : umPc[t] = "end"
    <3>1. CASE Callers = {}
      BY <1>1, <2>1, <3>1 DEF UnitMapInv
    <3>2. CASE Callers # {}
      <4>1. ~Atm!FinalizeHashTable
        BY <2>2, <3>2 DEF Atm!FinalizeHashTable
      <4> QED BY <1>3, <2>2, <4>1, NobodyMoves DEF Atm!UnitMapNext
    <3> QED BY <3>1, <3>2
  <2>3. CASE \E q : TableIs(q)
    <3>1. PICK q : TableIs(q)
      BY <2>3
    <3>2. CASE Atm!FinalizeHashTable
      <4>1. \A t \in Callers : umPc'[t] = "end"
        BY <3>1, <3>2, Finalizes
      <4> QED BY <1>1, <2>1, <4>1 DEF UnitMapInv
    <3>3. CASE ~Atm!FinalizeHashTable
      <4>1. \E r : TableIs(r)'
        BY <1>3, <3>1, <3>3, UnitMapStep DEF Atm!UnitMapNext
      <4> QED BY <1>1, <2>1, <4>1 DEF UnitMapInv
    <3> QED BY <3>2, <3>3
  <2> QED BY <1>1, <2>2, <2>3
<1>4. CASE \E t \in Callers : Atm!Clients(t)
  <2>1. ~(\E t \in Callers : Atm!Clients(t))
    BY <1>1, NoClients
  <2> QED BY <1>4, <2>1
<1> QED BY <1>2, <1>3, <1>4 DEF Atm!Next

------------------------------------------------------------------------------
(* What the invariants say, and the initial states *)

\* What the invariant says of lookups.
LEMMA TableHits == UnitMapInv => LookupsHit
<1> SUFFICES ASSUME UnitMapInv, kind = "table", NEW t \in Callers
             PROVE  umPc[t] # "stray" /\ (umPc[t] = "got" => umThread[t] = mapped[umUnit[t]])
  BY DEF LookupsHit, Atm!LookupsHit
<1>1. CASE umPc[t] = "end"
  BY <1>1
<1>2. CASE umPc[t] # "end"
  <2>1. PICK q : TableIs(q)
    BY <1>2 DEF UnitMapInv
  <2>2. umPc[t] \in UmPcs /\ Works(t)
    BY <2>1 DEF TableIs, TableTypes
  <2>3. "stray" \notin UmPcs /\ "got" \in ThreadPcs
    BY DEF UmPcs, FreePcs, WrotePcs, MappedPcs, WalkPcs, ThreadPcs
  <2> QED BY <2>2, <2>3 DEF Works
<1> QED BY <1>1, <1>2

\* The safety of updates: nothing is lost (the stack's chain is left to model checking).
LEMMA UpdatesSafe == AtomicsInv /\ SpinlockInv /\ kind # "stack" => UpdatesExact
BY DEF AtomicsInv, SpinlockInv, UpdatesExact, Atm!UpdatesExact

\* The clients of the atomic operations have nothing done.
LEMMA ClientsInit == Atm!Init => AtomicsInv /\ SpinlockInv
<1> SUFFICES ASSUME Atm!Init PROVE AtomicsInv /\ SpinlockInv
  OBVIOUS
<1>0. PICK init : init = [l \in Atm!LocsOf(kind) |->
                           IF l \in Atm!UnitMapLocs THEN Atm!UnitMapValues[l]
                           ELSE Atm!ClientValues[l]]
  OBVIOUS
<1>1. /\ Atm!AtomicInit(init) /\ a_pc = [t \in Callers |-> "idle"]
      /\ arg = [t \in Callers |-> Atm!Nothing] /\ count = 0 /\ flags = {} /\ passed = 0
  BY <1>0 DEF Atm!Init
<1>2. DOMAIN init = Atm!LocsOf(kind)
  BY <1>0
<1>3. ASSUME NEW l \in {Atm!Count, Atm!Flags, Atm!Spin, Atm!Data}
      PROVE  /\ l \notin Atm!UnitMapLocs /\ l \in Atm!ClientLocs
             /\ Atm!ClientValues[l] = IF l = Atm!Flags THEN {}
                                      ELSE IF l = Atm!Spin THEN FALSE ELSE 0
  <2>1. l[1] \in {"count", "flags", "spin", "data"}
    BY DEF Atm!Count, Atm!Flags, Atm!Spin, Atm!Data
  <2>2. \A k \in Atm!UnitMapLocs : k[1] \in {"lock", "list", "owner", "unit", "thread", "next"}
    BY DEF Atm!UnitMapLocs
  <2>3. l \in Atm!ClientLocs
    BY DEF Atm!ClientLocs
  <2>4. Atm!ClientValues[l] = CASE l \in {Atm!Count, Atm!Data} -> 0
                                [] l = Atm!Flags -> {}
                                [] l = Atm!Spin -> FALSE
                                [] l = Atm!Top -> [ptr |-> NULL, tag |-> 0]
                                [] OTHER -> Junk
    BY <2>3 DEF Atm!ClientValues
  <2>5. l # Atm!Top /\ Atm!Count # Atm!Flags /\ Atm!Count # Atm!Spin /\ Atm!Data # Atm!Flags
        /\ Atm!Data # Atm!Spin /\ Atm!Flags # Atm!Spin
    BY DEF Atm!Count, Atm!Flags, Atm!Spin, Atm!Data, Atm!Top
  <2> QED BY <2>1, <2>2, <2>3, <2>4, <2>5
<1>4. \A l \in {Atm!Count, Atm!Flags, Atm!Spin, Atm!Data} :
        l \in DOMAIN init =>
          init[l] = IF l = Atm!Flags THEN {} ELSE IF l = Atm!Spin THEN FALSE ELSE 0
  BY <1>0, <1>3
<1>8. Fresh(init)
  BY <1>1, MemoryInit
<1>9. Memory /\ DOMAIN mem = Atm!LocsOf(kind)
  BY <1>2, <1>8 DEF Fresh
<1>10. ASSUME NEW l \in DOMAIN mem PROVE Atm!Newest(l) = init[l]
  BY <1>8 DEF Fresh
<1>11. ASSUME NEW l \in DOMAIN mem, NEW k \in DOMAIN mem PROVE Sent(k, l) \subseteq {init[l]}
  BY <1>8 DEF Fresh
<1>5. /\ Memory /\ DOMAIN mem = Atm!LocsOf(kind)
      /\ \A l \in DOMAIN mem : Atm!Newest(l) = init[l]
      /\ \A l, k \in DOMAIN mem : Sent(k, l) \subseteq {init[l]}
  BY <1>9, <1>10, <1>11
<1>6. CASE kind = "atomics"
  <2>1. DOMAIN mem = {Atm!Count, Atm!Flags}
    BY <1>5, <1>6 DEF Atm!LocsOf
  <2>2. Atm!Newest(Atm!Count) = 0 /\ Atm!Newest(Atm!Flags) = {}
    <3>1. Atm!Count # Atm!Flags /\ Atm!Count # Atm!Spin
      BY DEF Atm!Count, Atm!Flags, Atm!Spin
    <3> QED BY <1>2, <1>4, <1>5, <2>1, <3>1
  <2>3. Atm!Wrap(0) = 0
    BY StructuresAssumption DEF Atm!Wrap
  <2> QED BY <1>1, <1>5, <1>6, <2>1, <2>2, <2>3 DEF AtomicsInv, SpinlockInv
<1>7. CASE kind = "spinlock"
  <2>1. DOMAIN mem = {Atm!Spin, Atm!Data}
    BY <1>5, <1>7 DEF Atm!LocsOf
  <2>2. Atm!Newest(Atm!Data) = 0 /\ Atm!Newest(Atm!Spin) = FALSE
        /\ Sent(Atm!Spin, Atm!Data) \subseteq {0}
    <3>1. Atm!Data # Atm!Flags /\ Atm!Data # Atm!Spin /\ Atm!Flags # Atm!Spin
      BY DEF Atm!Data, Atm!Flags, Atm!Spin
    <3>2. init[Atm!Data] = 0 /\ init[Atm!Spin] = FALSE
      BY <1>2, <1>4, <1>5, <2>1, <3>1
    <3> QED BY <1>5, <2>1, <3>2
  <2>3. \A t \in Callers : ~Inside(t) /\ a_pc[t] # "write"
    BY <1>1 DEF Inside
  <2> QED BY <1>1, <1>5, <1>7, <2>1, <2>2, <2>3 DEF AtomicsInv, SpinlockInv
<1> QED BY <1>6, <1>7 DEF AtomicsInv, SpinlockInv

\* The table is empty, and nobody knows of anything in it.
LEMMA TableInit ==
  ASSUME Atm!Init, kind = "table"
  PROVE  TableIs([b \in Atm!UmBuckets |-> <<>>]) /\ a_pc \in [Callers -> {"idle"}]
<1>0. PICK init : init = [l \in Atm!LocsOf(kind) |->
                           IF l \in Atm!UnitMapLocs THEN Atm!UnitMapValues[l]
                           ELSE Atm!ClientValues[l]]
  OBVIOUS
<1> DEFINE q == [b \in Atm!UmBuckets |-> <<>>]
<1>1. /\ Atm!AtomicInit(init) /\ Atm!UnitMapInit /\ a_pc = [t \in Callers |-> "idle"]
  BY <1>0 DEF Atm!Init
<1>2. DOMAIN init = Atm!UnitMapLocs /\ \A l \in Atm!UnitMapLocs : init[l] = Atm!UnitMapValues[l]
  BY <1>0 DEF Atm!LocsOf
<1>3. /\ \A b \in Atm!UmBuckets : init[LockAt(b)] = FALSE /\ init[ListAt(b)] = NULL
      /\ \A u \in Units : init[OwnerAt(u)] = "free"
      /\ \A e \in Elems : init[UnitAt(e)] = Junk
  <2>1. \A l \in Atm!UnitMapLocs :
          Atm!UnitMapValues[l] = CASE l[1] = "lock" -> FALSE
                                   [] l[1] = "list" -> NULL
                                   [] l[1] = "owner" -> "free"
                                   [] OTHER -> Junk
    BY DEF Atm!UnitMapValues
  <2>2. \A l \in Atm!UnitMapLocs :
          /\ l[1] = "lock" => init[l] = FALSE
          /\ l[1] = "list" => init[l] = NULL
          /\ l[1] = "owner" => init[l] = "free"
          /\ l[1] \notin {"lock", "list", "owner"} => init[l] = Junk
    BY <1>2, <2>1
  <2> QED BY <2>2, Locations
<1>4. /\ Memory /\ DOMAIN mem = Atm!UnitMapLocs
      /\ \A l \in DOMAIN mem :
           /\ Atm!Newest(l) = init[l] /\ \A t \in Callers : Has(t, l) \subseteq {init[l]}
           /\ \A k \in DOMAIN mem : \A x : /\ Sent(k, l) \subseteq {init[l]}
                                           /\ x # init[k] => Told(k, x, l) = {}
  <2>1. Fresh(init)
    BY <1>1, MemoryInit
  <2>2. Memory /\ DOMAIN mem = Atm!UnitMapLocs
    BY <1>2, <2>1 DEF Fresh
  <2>3. ASSUME NEW l \in DOMAIN mem
        PROVE  Atm!Newest(l) = init[l] /\ \A t \in Callers : Has(t, l) \subseteq {init[l]}
    BY <2>1 DEF Fresh
  <2>4. ASSUME NEW l \in DOMAIN mem, NEW k \in DOMAIN mem, NEW x
        PROVE  Sent(k, l) \subseteq {init[l]} /\ (x # init[k] => Told(k, x, l) = {})
    BY <2>1 DEF Fresh
  <2> QED BY <2>2, <2>3, <2>4
<1>5. /\ umPc = [t \in Callers |-> "idle"] /\ umUnit = [t \in Callers |-> NULL]
      /\ umThread = [t \in Callers |-> NULL] /\ umCur = [t \in Callers |-> NULL]
      /\ umFree = Elems /\ mapped = [u \in Units |-> NULL]
  BY <1>1 DEF Atm!UnitMapInit
<1>6. \A t \in Callers : /\ umPc[t] = "idle"
                         /\ umPc[t] \notin LockPcs \cup FreePcs \cup WrotePcs \cup MappedPcs
                                           \cup WalkPcs \cup ThreadPcs \cup NewPcs
  BY <1>5 DEF LockPcs, FreePcs, WrotePcs, MappedPcs, WalkPcs, ThreadPcs, NewPcs
<1>7. \A u \in Units : u # NULL /\ u # Junk
  BY StructuresAssumption
<1>8. \A e \in Elems : e # NULL
  BY StructuresAssumption DEF Lifo!SyncLifoConstants
<1>9. /\ q \in [Atm!UmBuckets -> Seq(Elems)]
      /\ \A b \in Atm!UmBuckets : q[b] = <<>> /\ Len(q[b]) = 0 /\ Distinct(q[b])
                                  /\ \A e : ~Listed(q[b], e)
  <2>1. <<>> \in Seq(Elems) /\ Distinct(<<>>) /\ \A e : ~Listed(<<>>, e)
    BY EmptyList
  <2> QED BY <2>1
<1> HIDE DEF q
<1>10. TableTypes /\ Apart
  <2>1. umPc \in [Callers -> UmPcs]
    BY <1>5 DEF UmPcs
  <2> QED BY <1>4, <1>5, <1>6, <2>1 DEF TableTypes, Apart
<1>11. Buckets(q)
  BY <1>9 DEF Buckets
<1>12. Elements
  <2>1. \A e \in Elems : Held[e] = Junk
    BY <1>3, <1>4, Locations DEF Held
  <2> QED BY <1>5, <1>7, <2>1 DEF Elements
<1>13. ASSUME NEW b \in Atm!UmBuckets
       PROVE  /\ ListAt(b) \in DOMAIN mem /\ LockAt(b) \in DOMAIN mem
              /\ Atm!Newest(ListAt(b)) = NULL /\ Atm!Newest(LockAt(b)) = FALSE
              /\ Sent(LockAt(b), ListAt(b)) \subseteq {NULL}
  BY <1>3, <1>4, Locations
<1>14. Chained(q)
  <2>1. ASSUME NEW b \in Atm!UmBuckets, NEW e \in Elems, NEW k \in Atm!UnitMapLocs
        PROVE  Told(ListAt(b), e, k) = {}
    BY <1>3, <1>4, <1>8, <1>13
  <2>2. ASSUME NEW b \in Atm!UmBuckets
        PROVE  Atm!Newest(ListAt(b)) = LastOf(q[b]) /\ 1..Len(q[b]) = {}
    <3>1. q[b] = <<>> /\ Len(q[b]) = 0
      BY <1>9
    <3>2. LastOf(q[b]) = NULL
      BY <3>1 DEF LastOf
    <3>3. 1..0 = {}
      OBVIOUS
    <3>4. Atm!Newest(ListAt(b)) = NULL
      BY <1>13
    <3> QED BY <3>1, <3>2, <3>3, <3>4
  <2>3. \A b \in Atm!UmBuckets :
          /\ Atm!Newest(ListAt(b)) = LastOf(q[b])
          /\ \A j \in 1..Len(q[b]) : \A i \in 1..j :
               Told(ListAt(b), q[b][j], NextAt(q[b][i])) \subseteq {NextOf(q[b], i)}
          /\ \A e \in Elems : ~Listed(q[b], e) =>
               \A k \in Atm!UnitMapLocs : Told(ListAt(b), e, k) = {}
    BY <2>1, <2>2
  <2> QED BY <2>3 DEF Chained
<1>15. ASSUME NEW u \in Units PROVE OwnerOf(q, u)
  <2>1. OwnerAt(u) \in DOMAIN mem /\ Atm!Newest(OwnerAt(u)) = "free"
    BY <1>3, <1>4, Locations
  <2>2. \A e \in Elems : u \notin SentAll(OwnerAt(u))[UnitAt(e)]
    <3>1. ASSUME NEW e \in Elems PROVE u \notin SentAll(OwnerAt(u))[UnitAt(e)]
      <4>1. UnitAt(e) \in DOMAIN mem /\ init[UnitAt(e)] = Junk
        BY <1>3, <1>4, Locations
      <4>2. Sent(OwnerAt(u), UnitAt(e)) \subseteq {Junk}
        BY <1>4, <2>1, <4>1
      <4> QED BY <1>7, <4>1, <4>2 DEF SentAll
    <3> QED BY <3>1
  <2> QED BY <2>1, <2>2 DEF OwnerOf, KnowsFree
<1>16. ASSUME NEW b \in Atm!UmBuckets PROVE LockOf(q, b)
  <2>1. KnowsList(q[b], SentAll(LockAt(b)), Held, b)
    <3>1. SentAll(LockAt(b))[ListAt(b)] \subseteq {LastOf(q[b])}
      BY <1>9, <1>13 DEF SentAll, LastOf
    <3>2. 1..Len(q[b]) = {}
      BY <1>9
    <3> QED BY <3>1, <3>2 DEF KnowsList, KnowsNext
  <2> QED BY <1>6, <1>13, <2>1 DEF LockOf
<1>17. ASSUME NEW t \in Callers PROVE Works(t) /\ InLock(q, t) /\ Maps(q, t) /\ Looks(q, t)
  <2>1. umPc[t] \notin {"map test", "map next", "reuse unit", "reuse thread", "new unit",
                        "new next", "publish"}
    BY <1>6
  <2> QED BY <1>6, <2>1 DEF Works, InLock, Maps, Looks
<1>18. TableIs(q) /\ a_pc \in [Callers -> {"idle"}]
  BY <1>1, <1>10, <1>11, <1>12, <1>14, <1>15, <1>16, <1>17 DEF TableIs
<1> QED BY <1>18 DEF q

\* So the invariant of the table holds at first.
LEMMA UnitMapInit == Atm!Init => UnitMapInv
BY TableInit DEF UnitMapInv

------------------------------------------------------------------------------
(* The structures together *)

StructuresInv == LifoInv /\ ListInv /\ AtomicsInv /\ SpinlockInv /\ UnitMapInv

\* They hold at first.
LEMMA StructuresInitInv == StructuresInit => StructuresInv
BY LifoInit, ListInit, ClientsInit, UnitMapInit DEF StructuresInit, StructuresInv

\* A structure that is not exercised does not move.
LEMMA StructureSteps ==
  [StructuresNext]_structureVars =>
    /\ [Lifo!Next]_(Lifo!vars) /\ [Lst!Next]_(Lst!vars)
    /\ kind' = kind /\ ((kind \in AtomicKinds /\ Atm!Next) \/ UNCHANGED atomicVars)
<1> SUFFICES ASSUME [StructuresNext]_structureVars
             PROVE  /\ [Lifo!Next]_(Lifo!vars) /\ [Lst!Next]_(Lst!vars)
                    /\ kind' = kind
                    /\ (kind \in AtomicKinds /\ Atm!Next) \/ UNCHANGED atomicVars
  OBVIOUS
<1>1. UNCHANGED lifoVars => UNCHANGED Lifo!vars
  BY DEF lifoVars, Lifo!vars
<1>2. UNCHANGED listVars => UNCHANGED Lst!vars
  BY DEF listVars, Lst!vars
<1>3. UNCHANGED structureVars =>
        kind' = kind /\ UNCHANGED lifoVars /\ UNCHANGED listVars /\ UNCHANGED atomicVars
  BY DEF structureVars
<1>4. kind \in AtomicKinds /\ Atm!Next => kind' = kind
  <2>1. ASSUME NEW t \in Callers, Atm!Clients(t) PROVE kind' = kind
    <3>1. Atm!Arithmetic(t) \/ Atm!LoadCount(t) \/ Atm!Swap(t) => kind' = kind
      BY DEF Atm!Arithmetic, Atm!LoadCount, Atm!Swap, Atm!Same
    <3>2. Atm!Enter(t) \/ Atm!Section(t) => kind' = kind
      BY DEF Atm!Enter, Atm!Section, Atm!Same
    <3>3. Atm!StackLoad(t) \/ Atm!StackLink(t) \/ Atm!StackSwap(t) => kind' = kind
      BY DEF Atm!StackLoad, Atm!StackLink, Atm!StackSwap, Atm!Same
    <3> QED BY <2>1, <3>1, <3>2, <3>3 DEF Atm!Clients
  <2> QED BY <2>1 DEF Atm!Next, Atm!clientVars
<1> QED BY <1>1, <1>2, <1>3, <1>4 DEF StructuresNext, MayRest

\* A step of the clients of the atomic operations, or of the table.
LEMMA AtomicsStepInv ==
  ASSUME AtomicsInv, SpinlockInv, UnitMapInv, kind' = kind,
         (kind \in AtomicKinds /\ Atm!Next) \/ UNCHANGED atomicVars
  PROVE  AtomicsInv' /\ SpinlockInv' /\ UnitMapInv'
<1>1. CASE kind \in {"atomics", "spinlock"}
  BY <1>1, ClientsStep DEF UnitMapInv
<1>2. CASE kind = "table"
  BY <1>2, TableKeeps DEF AtomicsInv, SpinlockInv
<1>3. CASE kind \notin {"atomics", "spinlock", "table"}
  BY <1>3 DEF AtomicsInv, SpinlockInv, UnitMapInv
<1> QED BY <1>1, <1>2, <1>3

\* Every step keeps them.
LEMMA StructuresStepInv ==
  StructuresInv /\ [StructuresNext]_structureVars => StructuresInv'
BY StructureSteps, LifoStep, ListStep, AtomicsStepInv DEF StructuresInv

\* What the proofs rest on holds of every behaviour, for any callers, elements and bounds.
THEOREM StructuresInvariance == StructuresSpec => []StructuresInv
BY StructuresInitInv, StructuresStepInv, PTL DEF StructuresSpec

\* ABTI_waitlist and its futex: nobody sleeps through a signal or a broadcast, however
\* many waiters and wakers there are.
THEOREM NobodyForgotten == StructuresSpec => []NoSleeperForgotten
<1>1. StructuresInv => NoSleeperForgotten
  BY ListSafe DEF StructuresInv, NoSleeperForgotten
<1> QED BY <1>1, StructuresInvariance, PTL

\* ABTI_sync_lifo: the stack is never corrupted, the ABA problem included, and implements
\* a stack whose push and pop happen at one instant, however many callers there are.
THEOREM StackIsKept == StructuresSpec => StackKept
<1>1. StructuresInv => Lifo!LifoIntact
  BY LifoSafe DEF StructuresInv
<1>2. StructuresInit => Lifo!Abstract!SpecInit
  BY LifoInitImplements DEF StructuresInit
<1>3. StructuresInv /\ [StructuresNext]_structureVars
        => [Lifo!Abstract!SpecNext]_(Lifo!Abstract!specVars)
  BY StructureSteps, LifoStepImplements DEF StructuresInv
<1> QED BY <1>1, <1>2, <1>3, StructuresInvariance, PTL
        DEF StructuresSpec, StackKept, Lifo!ImplementsLifo, Lifo!Abstract!Spec

\* The atomic operations: every read-modify-write operation on the counter and the flags,
\* every compare-and-swap loop and every critical section of the spinlock takes effect once,
\* under the memory orders of the code, however many threads there are.
THEOREM UpdatesAreExact == StructuresSpec => [](kind # "stack" => UpdatesExact)
<1>1. StructuresInv => (kind # "stack" => UpdatesExact)
  BY UpdatesSafe DEF StructuresInv
<1> QED BY <1>1, StructuresInvariance, PTL

\* The unit map: a lookup without the lock finds the element of its unit and the thread the
\* unit was mapped to, never follows a pointer that is not initialized yet, and the table is
\* empty when it is taken down, under the memory orders of the code, however many threads,
\* units and elements there are.
THEOREM LookupsAlwaysHit == StructuresSpec => []LookupsHit
<1>1. StructuresInv => LookupsHit
  BY TableHits DEF StructuresInv
<1> QED BY <1>1, StructuresInvariance, PTL
===============================================================================
