------------------------------- MODULE PoolDef -------------------------------
(***************************************************************************)
(* The functions a pool is made of (src/pool/pool_user_def.c and the       *)
(* wrappers and calls of src/pool/pool.c): a definition the program builds *)
(* step by step, or an ABT_pool_def of the older interface, whose          *)
(* functions take units instead of threads; and which of them a call on    *)
(* the pool reaches.  What the functions do is the program's affair.       *)
(***************************************************************************)
EXTENDS Naturals, FiniteSets, Sequences

CONSTANTS Pools, NULL,
          OldFns,   \* functions an ABT_pool_def of the program may leave out
          Version20, \* ABT_CONFIG_ENABLE_VER_20_API
          MaxSets   \* bound: functions set in or removed from a definition

VARIABLES userDef,  \* the definition under construction, {"none"} without one
          sets,     \* functions set or removed so far
          pool,     \* the functions of each pool, {"none"} without one
          given,    \* history: the optional functions the program gave each pool
          reached   \* the last call, and the program's function it ended in

poolDefVars == <<userDef, sets, pool, given, reached>>

Required == {"create_unit", "free_unit", "is_empty", "pop", "push"}
Optional == {"init", "free", "get_size", "pop_wait", "pop_many", "push_many", "print_all"}
Deprecated == {"pop_timedwait", "remove"}
OldRequired == {"create_unit", "free_unit", "get_size", "push", "pop"}

NoPool == [kind |-> "none", fns |-> {}, old |-> {}]
NoCall == <<"none", "none", "none">>

PoolDefInit ==
  /\ userDef = {"none"} /\ sets = 0
  /\ pool = [p \in Pools |-> NoPool]
  /\ given = [p \in Pools |-> {}]
  /\ reached = NoCall

-----------------------------------------------------------------------------
(* The definition                                                          *)

\* The memory is zeroed: no optional function is set, and the word that in an
\* ABT_pool_def holds u_create_from_thread is null.
UserDefCreate ==
  /\ userDef = {"none"} /\ userDef' = Required
  /\ reached' = NoCall /\ UNCHANGED <<sets, pool, given>>

UserDefFree ==
  /\ userDef # {"none"} /\ userDef' = {"none"}
  /\ reached' = NoCall /\ UNCHANGED <<sets, pool, given>>

\* A setter also takes the function away again, with a null pointer.
SetFn(f) ==
  /\ userDef # {"none"} /\ sets < MaxSets /\ sets' = sets + 1
  /\ userDef' \in {userDef \cup {f}, userDef \ {f}} \ {userDef}
  /\ reached' = NoCall /\ UNCHANGED <<pool, given>>

SetInit == SetFn("init")
SetFree == SetFn("free")
SetGetSize == SetFn("get_size")
SetPopWait == SetFn("pop_wait")
SetPopMany == SetFn("pop_many")
SetPushMany == SetFn("push_many")
SetPrintAll == SetFn("print_all")

-----------------------------------------------------------------------------
(* Creating and freeing pools                                              *)

IsNew(def) == def.symbol = NULL
OfUserDef == [symbol |-> NULL, fns |-> userDef]
OfOldDef(S) == [symbol |-> "u_create_from_thread", fns |-> OldRequired \cup S]

\* Mutant: every wrapper is set, whether or not there is something to wrap.
WrappersAll(old) ==
  [kind |-> "old", old |-> old, fns |-> Required \cup Optional \cup Deprecated]

\* A function of the older interface is called through a wrapper, if it is
\* there; before version 2.0, p_pop_wait of an ABT_pool_def is not looked at.
Wrappers(old) ==
  LET kept == IF Version20 THEN old ELSE old \ {"pop_wait"}
      always == {"get_size", "pop_many", "push_many"}
  IN [kind |-> "old",
      old |-> kept \ Deprecated,
      fns |-> (Required \cup always) \cup (kept \cap (Optional \cup Deprecated))]

\* The program's function that a call of p's function f ends in.
Ends(q, f) ==
  LET wrapped == CASE f = "is_empty" -> "get_size"
                   [] f = "pop_many" -> "pop"
                   [] f = "push_many" -> "push"
                   [] OTHER -> f
  IN IF f \notin q.fns THEN "null"
     ELSE IF q.kind = "new" \/ f \in Deprecated THEN f
     ELSE IF wrapped \in q.old THEN wrapped ELSE "null"

\* The functions are copied into the pool; init, if there is one, may fail.
CreateFrom(p, def) ==
  LET made == IF IsNew(def) THEN [kind |-> "new", old |-> {}, fns |-> def.fns]
              ELSE Wrappers(def.fns)
      ends == IF "init" \in made.fns THEN Ends(made, "init") ELSE "none"
  IN /\ pool[p] = NoPool
     /\ given' = [given EXCEPT ![p] = def.fns]
     /\ reached' = <<p, "create", ends>>
     /\ pool' \in {[pool EXCEPT ![p] = made]} \cup (IF ends = "none" THEN {} ELSE {pool})
     /\ UNCHANGED <<userDef, sets>>

PoolCreateNew(p) == userDef # {"none"} /\ CreateFrom(p, OfUserDef)
PoolCreateOld(p) == \E S \in SUBSET OldFns : CreateFrom(p, OfOldDef(S))

PoolDestroy(p) ==
  /\ pool[p] # NoPool
  /\ pool' = [pool EXCEPT ![p] = NoPool]
  /\ reached' = <<p, "destroy", IF "free" \in pool[p].fns THEN Ends(pool[p], "free") ELSE "none">>
  /\ UNCHANGED <<userDef, sets, given>>

-----------------------------------------------------------------------------
(* Calls on a pool                                                         *)

Reaches(p, call, what) ==
  /\ pool[p] # NoPool /\ reached' = <<p, call, what>>
  /\ UNCHANGED <<userDef, sets, pool, given>>

\* A required function is called, an optional or older one only if it is there.
Call(p, call, f) == Reaches(p, call, Ends(pool[p], f))
CallChecked(p, call, f) ==
  Reaches(p, call, IF f \in pool[p].fns THEN Ends(pool[p], f) ELSE "error " \o f)

CallIsEmpty(p) == Call(p, "is_empty", "is_empty")
CallCreateUnit(p) == Call(p, "create_unit", "create_unit")
CallFreeUnit(p) == Call(p, "free_unit", "free_unit")
CallPopThread(p) == Call(p, "pop_thread", "pop")
CallPushThread(p) == Call(p, "push_thread", "push")
CallGetSize(p) == CallChecked(p, "get_size", "get_size")
CallGetTotalSize(p) == CallChecked(p, "get_total_size", "get_size")
CallPopThreads(p) == CallChecked(p, "pop_threads", "pop_many")
CallPushThreads(p) == CallChecked(p, "push_threads", "push_many")
CallPopWait(p) == CallChecked(p, "pop_wait_thread", "pop_wait")
CallPopWaitUnit(p) == CallChecked(p, "pop_wait", "pop_wait")
CallPopTimedwait(p) == CallChecked(p, "pop_timedwait", "pop_timedwait")
CallRemoveUnit(p) == CallChecked(p, "remove", "remove")
CallPrintThreads(p) == CallChecked(p, "print_all_threads", "print_all")
CallPrintUnits(p) == CallChecked(p, "print_all", "print_all")

PoolDefNext ==
  \/ UserDefCreate \/ UserDefFree
  \/ SetInit \/ SetFree \/ SetGetSize \/ SetPopWait \/ SetPopMany \/ SetPushMany
  \/ SetPrintAll
  \/ \E p \in Pools :
       \/ PoolCreateNew(p) \/ PoolCreateOld(p) \/ PoolDestroy(p)
       \/ CallIsEmpty(p) \/ CallCreateUnit(p) \/ CallFreeUnit(p)
       \/ CallPopThread(p) \/ CallPushThread(p) \/ CallGetSize(p) \/ CallGetTotalSize(p)
       \/ CallPopThreads(p) \/ CallPushThreads(p) \/ CallPopWait(p) \/ CallPopWaitUnit(p)
       \/ CallPopTimedwait(p) \/ CallRemoveUnit(p) \/ CallPrintThreads(p) \/ CallPrintUnits(p)

-----------------------------------------------------------------------------
(* A call on a pool ends in a function that its definition had when the    *)
(* pool was created, whatever became of the definition since, and reports  *)
(* an error only for a function that the definition left out: it never     *)
(* goes through a null pointer (ABT_pool_create, pool_create_def_from_old_def *)
(* and the checks of the calls in pool.c).                                 *)
CallsGiven ==
  LET p == reached[1]
      what == reached[3]
  IN \/ what = "none"
     \/ what \in given[p]
     \/ \E f \in (Optional \cup Deprecated) \ given[p] : what = "error " \o f
     \/ what = "error pop_wait" /\ pool[p].kind = "old" /\ ~Version20
=============================================================================
