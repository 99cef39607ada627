------------------------------- MODULE UnitMap -------------------------------
(***************************************************************************)
(* The table of src/unit.c from the units of user-defined pools to their   *)
(* threads.  map and unmap work on a bucket under its spinlock; get walks  *)
(* the bucket's list without a lock while elements are added, emptied and  *)
(* used again.  Every access is one step with the memory order the code    *)
(* asks for (module Atomic).                                               *)
(*                                                                         *)
(* A unit passes from one thread to another through its pool and through   *)
(* the user's allocator, which are outside this repository: both           *)
(* synchronize, so here a unit is claimed and handed on through the        *)
(* location <<"owner", u>>.                                                *)
(***************************************************************************)
EXTENDS Atomic

CONSTANTS Units,          \* addresses of units: numbers
          Threads, Elems, \* the threads, and memory for the elements
          Exp,            \* ABTI_UNIT_HASH_TABLE_SIZE_EXP
          NULL, Junk,
          MaxCalls        \* bound: units created and popped

VARIABLES umPc,     \* where each actor is
          umUnit,   \* the unit it works on
          umThread, \* p_thread of map, the result of get
          umCur,    \* p_cur
          umFree,   \* memory not allocated yet
          umCalls,  \* units created and popped so far
          mapped    \* history: the thread each unit was last mapped to

unitMapVars == <<umPc, umUnit, umThread, umCur, umFree, umCalls, mapped>>

-----------------------------------------------------------------------------
(* The low three bits of an address are ignored; the next bits are folded. *)
HashIndex(u) ==
  LET Shift(n) == u \div 2^n
  IN ( Shift(3) + (IF Exp <= 14 THEN Shift(Exp + 3) ELSE 0)
                + (IF Exp <= 9 THEN Shift(2 * Exp + 3) ELSE 0) ) % 2^Exp

UmBuckets == {HashIndex(u) : u \in Units}
UmLock(u) == <<"lock", HashIndex(u)>>
UmList(u) == <<"list", HashIndex(u)>>

UnitMapLocs ==
  (({"lock", "list"} \X UmBuckets) \cup ({"owner"} \X Units))
    \cup ({"unit", "thread", "next"} \X Elems)

UnitMapValues ==
  [l \in UnitMapLocs |-> CASE l[1] = "lock" -> FALSE
                           [] l[1] = "list" -> NULL
                           [] l[1] = "owner" -> "free"
                           [] OTHER -> Junk]

UnitMapInit ==
  /\ umPc = [t \in Actor |-> "idle"]
  /\ umUnit = [t \in Actor |-> NULL]
  /\ umThread = [t \in Actor |-> NULL]
  /\ umCur = [t \in Actor |-> NULL]
  /\ umFree = Elems
  /\ umCalls = 0
  /\ mapped = [u \in Units |-> NULL]

UmGoto(t, pc) == umPc' = [umPc EXCEPT ![t] = pc]
UmSetCur(t, e) == umCur' = [umCur EXCEPT ![t] = e]
UmKeep == UNCHANGED <<umUnit, umThread, umFree, umCalls, mapped>>

\* The accessors of unit.c: an action of t on location l at step pc, which a
\* load continues with the value it read.
LoadUnit(t, pc, Then(_)) ==
  LET l == <<"unit", umCur[t]>>
  IN /\ umPc[t] = pc /\ umCur[t] \in Elems
     /\ \E i \in Readable(t, l) : RelaxedLoad(t, l, i) /\ Then(mem[l][i].val)

StoreUnit(t, v) == RelaxedStore(t, <<"unit", umCur[t]>>, v)

LoadList(t, pc, next) ==
  /\ umPc[t] = pc /\ UmGoto(t, next)
  /\ \E i \in Readable(t, UmList(umUnit[t])) :
       /\ RelaxedLoad(t, UmList(umUnit[t]), i)
       /\ UmSetCur(t, mem[UmList(umUnit[t])][i].val)

AcquireList(t, pc, next) ==
  /\ umPc[t] = pc /\ UmGoto(t, next)
  /\ \E i \in Readable(t, UmList(umUnit[t])) :
       /\ AcquireLoad(t, UmList(umUnit[t]), i)
       /\ UmSetCur(t, mem[UmList(umUnit[t])][i].val)

\* Mutant: the new head is published without the release order.
PublishListRelaxed(t) == RelaxedStore(t, UmList(umUnit[t]), umCur[t])

PublishList(t) == ReleaseStore(t, UmList(umUnit[t]), umCur[t])

LoadNext(t, pc, next) ==
  LET l == <<"next", umCur[t]>>
  IN /\ umPc[t] = pc /\ UmGoto(t, next)
     /\ \E i \in Readable(t, l) : RelaxedLoad(t, l, i) /\ UmSetCur(t, mem[l][i].val)

\* p_cur is dereferenced although it points at no element: the assertion that
\* the call must succeed, or a wild pointer.
Stray(t, pc) ==
  /\ umPc[t] = pc /\ umCur[t] \notin Elems
  /\ UmGoto(t, "stray") /\ UNCHANGED <<atomicVars, umCur>>

\* Calls of the spinlock, which wait at step spin, on the way to step next.
Lock(t, pc, spin, next) ==
  \/ /\ umPc[t] = pc
     /\ \E was \in BOOLEAN : SpinTry(t, UmLock(umUnit[t]), was)
                              /\ UmGoto(t, IF was THEN spin ELSE next)
  \/ /\ umPc[t] = spin
     /\ \E i \in Readable(t, UmLock(umUnit[t])) :
          /\ SpinIsLocked(t, UmLock(umUnit[t]), i)
          /\ UmGoto(t, IF mem[UmLock(umUnit[t])][i].val THEN spin ELSE pc)

Unlock(t, pc, next) ==
  umPc[t] = pc /\ SpinRelease(t, UmLock(umUnit[t])) /\ UmGoto(t, next)

-----------------------------------------------------------------------------
(* unit_map_thread                                                         *)

\* The user's p_create_unit returned u for a thread: u is not in use.
CreateUnit(t) ==
  /\ umPc[t] = "idle" /\ umCalls < MaxCalls
  /\ \E u \in Units, p \in Threads :
       /\ Newest(<<"owner", u>>) = "free" /\ Update(t, <<"owner", u>>, "taken")
       /\ umUnit' = [umUnit EXCEPT ![t] = u]
       /\ umThread' = [umThread EXCEPT ![t] = p]
       /\ mapped' = [mapped EXCEPT ![u] = p]
  /\ umCalls' = umCalls + 1 /\ UmGoto(t, "map")
  /\ UNCHANGED <<umCur, umFree>>

MapWalk(t) ==
  /\ \/ Lock(t, "map", "map spin", "map list") /\ UNCHANGED umCur
     \/ LoadList(t, "map list", "map test")
     \/ /\ UNCHANGED umCur
        /\ LoadUnit(t, "map test",
             LAMBDA v : UmGoto(t, IF v = NULL THEN "reuse unit" ELSE "map next"))
     \/ LoadNext(t, "map next", "map test")
  /\ UmKeep

MapReuse(t) ==
  /\ \/ /\ umPc[t] = "reuse unit" /\ UmGoto(t, "reuse thread")
        /\ StoreUnit(t, umUnit[t])
     \/ /\ umPc[t] = "reuse thread" /\ UmGoto(t, "map unlock")
        /\ RelaxedStore(t, <<"thread", umCur[t]>>, umThread[t])
     \/ Unlock(t, "map unlock", "give pool")
  /\ UNCHANGED umCur /\ UmKeep

\* Every element is in use: a new one, unless memory ran out.
MapMalloc(t) ==
  /\ umPc[t] = "map test" /\ umCur[t] = NULL
  /\ \/ /\ \E e \in umFree : umFree' = umFree \ {e} /\ UmSetCur(t, e)
        /\ UmGoto(t, "new unit")
     \/ UmGoto(t, "map fail") /\ UNCHANGED <<umFree, umCur>>
  /\ UNCHANGED <<atomicVars, umUnit, umThread, umCalls, mapped>>

MapNew(t) ==
  LET head == Newest(UmList(umUnit[t]))  \* read again under the lock
  IN /\ \/ /\ umPc[t] = "new unit" /\ UmGoto(t, "new thread")
           /\ StoreUnit(t, umUnit[t])
        \/ /\ umPc[t] = "new thread" /\ UmGoto(t, "new next")
           /\ RelaxedStore(t, <<"thread", umCur[t]>>, umThread[t])
        \/ /\ umPc[t] = "new next" /\ UmGoto(t, "publish")
           /\ RelaxedStore(t, <<"next", umCur[t]>>, head)
        \/ umPc[t] = "publish" /\ UmGoto(t, "map unlock") /\ PublishList(t)
        \/ Unlock(t, "map fail", "give free")
     /\ UNCHANGED umCur /\ UmKeep

-----------------------------------------------------------------------------
(* unit_get_thread_from_user_defined_unit, by whoever popped the unit      *)

PopUnit(t) ==
  /\ umPc[t] = "idle" /\ umCalls < MaxCalls
  /\ \E u \in Units :
       /\ Newest(<<"owner", u>>) = "pool" /\ Update(t, <<"owner", u>>, "taken")
       /\ umUnit' = [umUnit EXCEPT ![t] = u]
  /\ umCalls' = umCalls + 1 /\ UmGoto(t, "get list")
  /\ UNCHANGED <<umThread, umCur, umFree, mapped>>

GetWalk(t) ==
  /\ \/ AcquireList(t, "get list", "get test")
     \/ /\ UNCHANGED umCur
        /\ LoadUnit(t, "get test", LAMBDA v :
             UmGoto(t, IF v = umUnit[t] THEN "get thread" ELSE "get next"))
     \/ LoadNext(t, "get next", "get test")
     \/ Stray(t, "get test")
  /\ UmKeep

GetReturn(t) ==
  LET l == <<"thread", umCur[t]>>
  IN /\ umPc[t] = "get thread" /\ UmGoto(t, "got")
     /\ \E i \in Readable(t, l) :
          RelaxedLoad(t, l, i) /\ umThread' = [umThread EXCEPT ![t] = mem[l][i].val]
     /\ UNCHANGED <<umUnit, umCur, umFree, umCalls, mapped>>

\* The thread ran: it goes back to its pool, or ends.
AfterGet(t) ==
  /\ umPc[t] = "got"
  /\ UmGoto(t, "give pool") \/ UmGoto(t, "unmap")
  /\ UNCHANGED <<atomicVars, umCur>> /\ UmKeep

-----------------------------------------------------------------------------
(* unit_unmap_thread                                                       *)

UnmapWalk(t) ==
  /\ \/ Lock(t, "unmap", "unmap spin", "unmap list") /\ UNCHANGED umCur
     \/ LoadList(t, "unmap list", "unmap test")
     \/ /\ UNCHANGED umCur
        /\ LoadUnit(t, "unmap test", LAMBDA v :
             UmGoto(t, IF v = umUnit[t] THEN "unmap store" ELSE "unmap next"))
     \/ LoadNext(t, "unmap next", "unmap test")
     \/ Stray(t, "unmap test")
  /\ UmKeep

UnmapStore(t) ==
  /\ \/ umPc[t] = "unmap store" /\ UmGoto(t, "unmap unlock") /\ StoreUnit(t, NULL)
     \/ Unlock(t, "unmap unlock", "give free")
  /\ UNCHANGED umCur /\ UmKeep

\* The caller hands the unit on: to the pool, or back to the user's p_free_unit.
GiveUnit(t) ==
  /\ \/ umPc[t] = "give pool" /\ ReleaseStore(t, <<"owner", umUnit[t]>>, "pool")
     \/ umPc[t] = "give free" /\ ReleaseStore(t, <<"owner", umUnit[t]>>, "free")
  /\ UmGoto(t, "idle")
  /\ umUnit' = [umUnit EXCEPT ![t] = NULL]
  /\ umThread' = [umThread EXCEPT ![t] = NULL]
  /\ UmSetCur(t, NULL)
  /\ UNCHANGED <<umFree, umCalls, mapped>>

\* unit_finalize_hash_table: one thread is left and has seen everything.
FinalizeHashTable ==
  LET left == {e \in Elems \ umFree : Newest(<<"unit", e>>) # NULL}
      held == {b \in UmBuckets : Newest(<<"lock", b>>)}
  IN /\ \A t \in Actor : umPc[t] = "idle"
     /\ \A u \in Units : Newest(<<"owner", u>>) = "free"
     /\ umPc' = [t \in Actor |-> IF left \cup held = {} THEN "end" ELSE "stray"]
     /\ umFree' = Elems
     /\ UNCHANGED <<atomicVars, umUnit, umThread, umCur, umCalls, mapped>>

UnitMapNext ==
  \/ \E t \in Actor :
       \/ CreateUnit(t) \/ MapWalk(t) \/ MapReuse(t) \/ MapMalloc(t) \/ MapNew(t)
       \/ PopUnit(t) \/ GetWalk(t) \/ GetReturn(t) \/ AfterGet(t)
       \/ UnmapWalk(t) \/ UnmapStore(t) \/ GiveUnit(t)
  \/ FinalizeHashTable

-----------------------------------------------------------------------------
(* A lookup that runs while other units come and go finds its element and  *)
(* the thread its unit was mapped to, and never follows a pointer that is  *)
(* not initialized yet; the table is empty when it is taken down           *)
(* (unit_get_thread_from_user_defined_unit, unit_unmap_thread and          *)
(* unit_finalize_hash_table).                                              *)
LookupsHit ==
  \A t \in Actor : /\ umPc[t] # "stray"
                   /\ umPc[t] = "got" => umThread[t] = mapped[umUnit[t]]
=============================================================================
