----------------------------- MODULE MCStructures -----------------------------
(***************************************************************************)
(* The shared data structures for TLC: the wait list, the lock-free stack, *)
(* the memory pool that takes the stack as SyncLifoSpec promises, and the  *)
(* atomic operations with their clients under the memory orders of the     *)
(* code.  Each behaviour exercises one of them, which kind names; the      *)
(* others stay in their initial state.                                     *)
(***************************************************************************)
EXTENDS Naturals, Sequences, FiniteSets, TLC

CONSTANTS u1, w1, c1, c2, e1, e2, h1, h2,
          Kinds,                                     \* the structures to exercise
          NULL, Junk,
          Callers,                                   \* whoever calls
          Ults, ListWakers,                          \* who else does in Waitlist
          MaxWakes,                                  \* bound: wake-ups of Waitlist
          Elems, MaxLifoCalls,                       \* the stack, and its calls
          Pools, PerBucket, MaxLocal, PageHeaders, MaxPages, MaxPoolCalls,
          Units, Exp, MaxUnits, Width

AtomicKinds == {"table", "atomics", "spinlock", "stack"}

VARIABLES kind,
          lock, p_head, p_tail, w_next, prev, state, val, w_seen, asleep, w_pc, p_thread,
          wp_next, nonyieldable, expired, result, waits, wakes,       \* Waitlist
          p_top, p_next, held, pc, p_elem, p_cur_top, cur_tag, next, stack, got, calls,
          bucket_lifo, mem_page_lifo, mem_page_empty, partial_bucket, buckets,
          pool_pc, pool_op, pool_head, p_page, handed_out, pages, pool_calls,
          mem, seen, umPc, umUnit, umThread, umCur, umFree, umCalls, mapped,
          a_pc, arg, updates, count, flags, passed, owned             \* MCAtomic

\* Bound: everybody waits once, or the callers outside an execution stream come back.
Waits == {[t \in Callers \cup Ults |-> 1],
          [t \in Callers \cup Ults |-> IF t \in Ults THEN 0 ELSE 2]}

\* Bound: the operations of the atomics' clients; the ABA problem takes four.
MaxUpdates == [k \in AtomicKinds |-> IF k = "stack" THEN 4 ELSE 3]

Lst == INSTANCE Waitlist WITH
           Waiters <- Callers \cup Ults, Yieldable <- Ults, Wakers <- ListWakers,
           Null <- NULL, Reused <- Junk, MaxWaits <- Waits,
           next <- w_next, seen <- w_seen, pc <- w_pc, p_next <- wp_next
Lifo == INSTANCE SyncLifo WITH MaxCalls <- MaxLifoCalls
Pool == INSTANCE MemPool WITH
            pc <- pool_pc, op <- pool_op, p_head <- pool_head, held <- handed_out,
            calls <- pool_calls, MaxCalls <- MaxPoolCalls
Atm == INSTANCE MCAtomic WITH
           Actor <- Callers, Threads <- {h1, h2}, MaxCalls <- MaxUnits,
           pc <- a_pc

ASSUME StructuresAssumption ==
    /\ Lst!WaitlistConstants
    /\ Lifo!SyncLifoConstants /\ Pool!MemPoolConstants
    /\ 2^Width \in Nat \ 0..2 /\ {NULL, Junk} \cap Units = {}
    /\ Kinds \subseteq {"waitlist", "lifo", "pool"} \cup AtomicKinds

listVars == <<lock, p_head, p_tail, w_next, prev, state, val, w_seen, asleep, w_pc,
              p_thread, wp_next, nonyieldable, expired, result, waits, wakes>>
lifoVars == <<p_top, p_next, held, pc, p_elem, p_cur_top, cur_tag, next, stack, got, calls>>
poolVars == <<bucket_lifo, mem_page_lifo, mem_page_empty, partial_bucket, buckets,
              pool_pc, pool_op, pool_head, p_page, handed_out, pages, pool_calls>>
atomicVars == <<mem, seen, umPc, umUnit, umThread, umCur, umFree, umCalls, mapped,
                a_pc, arg, updates, count, flags, passed, owned>>
structureVars == <<kind, listVars, lifoVars, poolVars, atomicVars>>

StructuresInit ==
    /\ kind \in Kinds
    /\ Lst!Init /\ Lifo!Init /\ Pool!Init /\ Atm!Init
    /\ kind # "lifo" => held[c1] = Elems
    /\ kind # "waitlist" => \A t \in Ults : waits[t] = 1

\* The clients of the atomic operations may stop when their updates are used up.
MayRest == kind \in AtomicKinds /\ UNCHANGED structureVars

StructuresNext ==
    \/ /\ kind = "waitlist" /\ Lst!Next
       /\ UNCHANGED <<kind, lifoVars, poolVars, atomicVars>>
    \/ /\ kind = "lifo" /\ Lifo!Next
       /\ UNCHANGED <<kind, listVars, poolVars, atomicVars>>
    \/ /\ kind = "pool" /\ Pool!Next
       /\ UNCHANGED <<kind, listVars, lifoVars, atomicVars>>
    \/ kind \in AtomicKinds /\ Atm!Next /\ UNCHANGED <<listVars, lifoVars, poolVars>>
    \/ MayRest

StructuresSpec == StructuresInit /\ [][StructuresNext]_structureVars

\* Nothing distinguishes the callers, the elements or the memory they take.
Symmetry == Permutations(Callers) \cup Permutations(Elems) \cup Permutations({h1, h2})
------------------------------------------------------------------------------
(* The properties of the modules, which say what they mean there. *)

\* Nobody sleeps through a wake-up of the wait list.
NoSleeperForgotten == Lst!NoSleeperForgotten

\* The wait list never runs through a stack frame that is gone; its wake-ups come in
\* arrival order, and a timeout is reported only to whoever was not woken.
ListKept == []Lst!ListIntact /\ Lst!ImplementsWaitlistSpec

\* The links of the lock-free stack spell out what was pushed and not yet popped, every
\* element is on it or has one owner, and a pop returns the element pushed last.
StackKept == []Lifo!LifoIntact /\ Lifo!ImplementsLifo

\* ABTI_mem_pool_alloc never hands out a header twice, none is lost when pools come and
\* go and page allocations fail, a local pool always has a header and right counts, and
\* buckets reach the global LIFO full.
MemoryIntact ==
    kind = "pool" =>
      /\ Pool!TypeOK /\ Pool!NoHeaderTwice /\ Pool!NoHeaderLost
      /\ Pool!LocalCounts /\ Pool!FullBuckets

\* "The number of headers is stored in partial_bucket.bucket_info.num_headers."
PartialCountExact == kind = "pool" => Pool!PartialCountExact

\* A lookup in the unit map finds the work unit of a unit that is mapped.
LookupsHit == kind = "table" => Atm!LookupsHit

\* Every update of shared data by the atomic operations takes effect exactly once.
UpdatesExact == Atm!UpdatesExact
===============================================================================
