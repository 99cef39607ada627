------------------------------ MODULE MCAtomic ------------------------------
(***************************************************************************)
(* The operations of Atomic under the memory orders of the code.  Each     *)
(* behaviour has one kind of client: the table of UnitMap, or threads that *)
(* update a counter, a set of flags, data behind the spinlock and a stack  *)
(* with a tagged top, the way the code base uses these operations.         *)
(***************************************************************************)
EXTENDS UnitMap

CONSTANTS MaxUpdates  \* bound: for each kind, the operations of all clients together,
                      \* and retries of pushes and pops

VARIABLES kind, pc, arg, updates, count, flags, passed, owned

clientVars == <<kind, pc, arg, updates, count, flags, passed, owned>>

Bits == {0, 1}

Count == <<"count", 0>>
Flags == <<"flags", 0>>
Spin == <<"spin", 0>>
Data == <<"data", 0>>
Top == <<"top", 0>>
ClientLocs == {Count, Flags, Spin, Data, Top} \cup ({"link"} \X Elems)

LocsOf(k) == CASE k = "table" -> UnitMapLocs
               [] k = "atomics" -> {Count, Flags}
               [] k = "spinlock" -> {Spin, Data}
               [] k = "stack" -> {Top} \cup ({"link"} \X Elems)
               [] OTHER -> {}

ClientValues ==
  [l \in ClientLocs |-> CASE l \in {Count, Data} -> 0
                          [] l = Flags -> {}
                          [] l = Spin -> FALSE
                          [] l = Top -> [ptr |-> NULL, tag |-> 0]
                          [] OTHER -> Junk]

Nothing == IF kind = "stack" THEN [elem |-> NULL] ELSE 0

\* The kind is chosen outside; clients of another kind do nothing.
Init ==
  /\ AtomicInit([l \in LocsOf(kind) |-> IF l \in UnitMapLocs THEN UnitMapValues[l]
                                  ELSE ClientValues[l]])
  /\ UnitMapInit
  /\ pc = [t \in Actor |-> "idle"]
  /\ arg = [t \in Actor |-> Nothing]
  /\ updates = 0
  /\ count = 0 /\ flags = {} /\ passed = 0
  /\ owned \in [Elems -> IF kind = "stack" THEN Actor ELSE {NULL}]

Begin(t, k) == /\ kind = k /\ pc[t] = "idle" /\ updates < MaxUpdates[kind]
               /\ updates' = updates + 1
Goto(t, p, a) == pc' = [pc EXCEPT ![t] = p] /\ arg' = [arg EXCEPT ![t] = a]
Same == UNCHANGED <<kind, count, flags, passed, owned>>

\* Read-modify-write operations take effect exactly once each.
Arithmetic(t) ==
  /\ Begin(t, "atomics")
  /\ \/ FetchAdd(t, Count, 3) /\ count' = count + 3 /\ UNCHANGED flags
     \/ FetchSub(t, Count, 1) /\ count' = count + 2^Width - 1 /\ UNCHANGED flags
     \/ AtomicExchange(t, Count, 2) /\ count' = 2 /\ UNCHANGED flags
     \/ /\ \E b \in SUBSET Bits :
             \/ FetchAnd(t, Flags, b) /\ flags' = flags \cap b
             \/ FetchOr(t, Flags, b) /\ flags' = flags \cup b
             \/ FetchXor(t, Flags, b) /\ flags' = (flags \ b) \cup (b \ flags)
        /\ UNCHANGED count
  /\ UNCHANGED <<kind, pc, arg, passed, owned>>

\* Compare-and-swap loops that add one, and the loop that exchanges where the
\* compiler has no builtin.
LoadCount(t) ==
  /\ Begin(t, "atomics")
  /\ \E i \in Readable(t, Count), how \in {"weak", "strong", "value", "exchange"} :
       /\ RelaxedLoad(t, Count, i) /\ Goto(t, how, mem[Count][i].val)
  /\ Same

Again == [weak |-> "weak again", strong |-> "strong again", exchange |-> "exchange again"]

Swap(t) ==
  LET new == IF pc[t] = "exchange" THEN 0 ELSE Wrap(arg[t] + 1)
      Done == /\ count' = IF pc[t] = "exchange" THEN 0 ELSE count + 1
              /\ Goto(t, "idle", Nothing)
  IN /\ \/ \E ok \in BOOLEAN :
             /\ \/ pc[t] \in {"weak", "exchange"} /\ BoolCasWeak(t, Count, arg[t], new, ok)
                \/ pc[t] = "strong" /\ BoolCasStrong(t, Count, arg[t], new, ok)
             /\ IF ok THEN Done ELSE UNCHANGED count /\ Goto(t, Again[pc[t]], 0)
        \/ \E ret \in 0 .. 2^Width - 1 :
             /\ pc[t] = "value" /\ ValCasStrong(t, Count, arg[t], new, ret)
             /\ IF ret = arg[t] THEN Done ELSE UNCHANGED count /\ Goto(t, "value", ret)
        \/ \E how \in {"weak", "strong", "exchange"} :
             /\ pc[t] = Again[how] /\ UNCHANGED count
             /\ \E i \in Readable(t, Count) :
                  AcquireLoad(t, Count, i) /\ Goto(t, how, mem[Count][i].val)
     /\ UNCHANGED <<kind, updates, flags, passed, owned>>

\* A critical section that adds one to plain data.
Enter(t) ==
  /\ \/ /\ Begin(t, "spinlock")
        /\ \E was \in BOOLEAN :
             SpinTry(t, Spin, was) /\ Goto(t, IF was THEN "spin" ELSE "read", 0)
     \/ /\ pc[t] = "try"
        /\ \E was \in BOOLEAN :
             SpinTry(t, Spin, was) /\ Goto(t, IF was THEN "spin" ELSE "read", 0)
        /\ UNCHANGED updates
     \/ /\ pc[t] = "spin" /\ UNCHANGED updates
        /\ \E i \in Readable(t, Spin) :
             /\ SpinIsLocked(t, Spin, i)
             /\ Goto(t, IF mem[Spin][i].val THEN "spin" ELSE "try", 0)
  /\ Same

Section(t) ==
  /\ \/ /\ pc[t] = "read"
        /\ \E i \in Readable(t, Data) :
             RelaxedLoad(t, Data, i) /\ Goto(t, "write", mem[Data][i].val)
        /\ UNCHANGED passed
     \/ /\ pc[t] = "write" /\ RelaxedStore(t, Data, arg[t] + 1)
        /\ Goto(t, "leave", 0) /\ passed' = passed + 1
     \/ pc[t] = "leave" /\ SpinRelease(t, Spin) /\ Goto(t, "idle", Nothing) /\ UNCHANGED passed
  /\ UNCHANGED <<kind, updates, count, flags, owned>>

\* The pushes and pops of abti_sync_lifo.h, on memory that is not consistent.
StackLoad(t) ==
  /\ \/ /\ Begin(t, "stack")
        /\ \/ \E e \in Elems : owned[e] = t /\ Goto(t, "ptr", [elem |-> e])
           \/ Goto(t, "ptr", [elem |-> NULL])
        /\ UNCHANGED atomicVars
     \/ /\ pc[t] \in {"ptr", "tag"} /\ UNCHANGED updates
        /\ \E i \in Readable(t, Top) :
             \/ \E v \in Elems \cup {NULL} :
                  /\ pc[t] = "ptr" /\ AcquireLoadHalf(t, Top, "ptr", i, v)
                  /\ Goto(t, "tag", [elem |-> arg[t].elem, ptr |-> v])
             \/ \E v \in 0 .. 2^Width - 1 :
                  /\ pc[t] = "tag" /\ AcquireLoadHalf(t, Top, "tag", i, v)
                  /\ Goto(t, "link", [elem |-> arg[t].elem, ptr |-> arg[t].ptr, tag |-> v])
  /\ Same

StackLink(t) ==
  LET With(n) == [elem |-> arg[t].elem, ptr |-> arg[t].ptr, tag |-> arg[t].tag, new |-> n]
  IN /\ pc[t] = "link"
     /\ \/ /\ arg[t].elem \in Elems
           /\ RelaxedStore(t, <<"link", arg[t].elem>>, arg[t].ptr)
           /\ Goto(t, "swap", With(arg[t].elem))
        \/ /\ arg[t].elem = NULL /\ arg[t].ptr = NULL
           /\ Goto(t, "idle", Nothing) /\ UNCHANGED atomicVars
        \/ /\ arg[t].elem = NULL /\ arg[t].ptr # NULL
           /\ \E i \in Readable(t, <<"link", arg[t].ptr>>) :
                /\ RelaxedLoad(t, <<"link", arg[t].ptr>>, i)
                /\ Goto(t, "swap", With(mem[<<"link", arg[t].ptr>>][i].val))
     /\ UNCHANGED updates /\ Same

StackSwap(t) ==
  LET e == IF arg[t].elem = NULL THEN arg[t].ptr ELSE arg[t].elem
  IN /\ pc[t] = "swap"
     /\ \E ok \in BOOLEAN :
          /\ BoolCasWeakTagged(t, Top, arg[t].ptr, arg[t].tag, arg[t].new, arg[t].tag + 1, ok)
          /\ IF ok
             THEN /\ Goto(t, "idle", Nothing) /\ UNCHANGED updates
                  /\ owned' = [owned EXCEPT ![e] = IF arg[t].elem = NULL THEN t ELSE NULL]
             ELSE /\ Goto(t, "ptr", [elem |-> arg[t].elem]) /\ UNCHANGED owned
                  /\ updates < MaxUpdates[kind] /\ updates' = updates + 1
     /\ UNCHANGED <<kind, count, flags, passed>>

Clients(t) == \/ Arithmetic(t) \/ LoadCount(t) \/ Swap(t) \/ Enter(t) \/ Section(t)
              \/ StackLoad(t) \/ StackLink(t) \/ StackSwap(t)

Next ==
  \/ \E t \in Actor : Clients(t) /\ UNCHANGED unitMapVars
  \/ kind = "table" /\ UnitMapNext /\ UNCHANGED clientVars

-----------------------------------------------------------------------------
\* The elements on the stack, following the newest links.
Chain ==
  LET upTo[n \in 0 .. Cardinality(Elems) + 1] ==
        IF n = 0 THEN <<Newest(Top).ptr>>
        ELSE LET c == upTo[n - 1] IN
             IF c[Len(c)] \in Elems THEN Append(c, Newest(<<"link", c[Len(c)]>>)) ELSE c
  IN upTo[Cardinality(Elems) + 1]

(* Whatever threads do with a counter, flags, data behind the spinlock and *)
(* the stack with a tagged top, every update takes effect once and none is *)
(* lost or applied to a stale value (ABTD_atomic_fetch_*, *_cas_*,         *)
(* ABTD_spinlock_* and the tagged pointer operations).                     *)
UpdatesExact ==
  /\ kind = "atomics" => Newest(Count) = Wrap(count) /\ Newest(Flags) = flags
  /\ kind = "spinlock" => Newest(Data) = passed
  /\ kind = "stack" =>
     LET chain == Chain
         in == {e \in Elems : owned[e] = NULL}
     IN /\ chain[Len(chain)] = NULL
        /\ {chain[i] : i \in 1 .. Len(chain) - 1} = in
        /\ Len(chain) - 1 = Cardinality(in)
=============================================================================
