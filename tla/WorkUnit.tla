-------------------------------- MODULE WorkUnit -------------------------------
(***************************************************************************)
(* What a work unit owns, from its creation to its free: descriptor, stack *)
(* and guard page (abti_mem.h), key table with migration data or stackable *)
(* scheduler (abti_key.h), and its unit in a user-defined pool with the    *)
(* entry of the unit map (abti_unit.h).  Every allocation, and the pool's  *)
(* p_create_unit, may fail.  The operations run one at a time; how they    *)
(* interleave is the subject of Ythread, KTable and UnitMap.               *)
(*                                                                         *)
(* A block is a record: whose it is, which part of it, who it came from    *)
(* (a memory pool, or the heap, or the heap for an external thread) and    *)
(* how far below its anchor it starts.  An operation takes the memory it   *)
(* finds, a record `st`, through the functions the code calls.             *)
(***************************************************************************)
EXTENDS Integers, Sequences, FiniteSets

CONSTANTS Units, Streams,
          External,         \* the caller that is no execution stream (p_local = NULL)
          Builtin, Custom,  \* the predefined and the user-defined pools
          Attrs,            \* the attributes the program gives to ABT_thread_create
          DefaultSize, Line, SchedSize,
          NoAttr,           \* ABT_THREAD_ATTR_NULL
          Configs,          \* how the library is built and its environment set
          Automatic,        \* the stackable scheduler is freed with its ULT
          SchedPools,       \* the pools it is added to
          CancelAnywhere    \* cancelled units may be met by a stream they did not run on last

NoPool == "NULL"
Pools == Builtin \cup Custom
Callers == Streams \cup {External}
Attr == [p_stack : BOOLEAN, stacksize : Nat, migratable : BOOLEAN, f_cb : BOOLEAN]

WorkUnitConstants ==
    /\ External \notin Streams /\ Builtin \cap Custom = {} /\ NoPool \notin Pools
    /\ Attrs \subseteq Attr /\ NoAttr \notin Attr /\ SchedPools \subseteq Pools
    /\ {DefaultSize, SchedSize} \subseteq Nat /\ Line \in Nat \ {0} /\ DefaultSize % Line = 0
    /\ Configs \subseteq [lazy : BOOLEAN, mprotect : BOOLEAN, large_table : BOOLEAN]
    /\ {Automatic, CancelAnywhere} \subseteq BOOLEAN

VARIABLES
    config,
    thread,     \* ABTI_thread of each unit
    mem,        \* the blocks that are allocated, and the guards that are set
    wrong,      \* frees of what is not allocated, or not there
    unit_map,   \* the entries of the unit map, by unit
    made,       \* the units that p_create_unit made and p_free_unit did not free
    foreign,    \* some step used the memory pool of a stream it does not run on
    used,       \* p_sched->used of the stackable scheduler, or "FREED"
    attr        \* an attribute object, or NoAttr

vars == <<config, thread, mem, wrong, unit_map, made, foreign, used, attr>>

Lazy == config.lazy               \* stacks are allocated when a ULT first runs
Mprotect == config.mprotect       \* stack guards are pages
LargeTable == config.large_table  \* a key table does not fit in a descriptor

NoUnit == <<"NULL", "NULL">>
NoThread == [state |-> "none", type |-> "none", kind |-> "user", yieldable |-> FALSE, named |-> FALSE,
             migratable |-> FALSE, p_stack |-> FALSE, size |-> 0, stack |-> FALSE, keys |-> {},
             used_mem |-> {}, cancel |-> FALSE, last |-> External, pool |-> NoPool,
             unit |-> NoUnit]

Init ==
    /\ config \in Configs
    /\ thread = [u \in Units |-> NoThread]
    /\ mem = {} /\ wrong = {} /\ unit_map = {} /\ made = {}
    /\ foreign = FALSE /\ used = "NOT_USED" /\ attr = NoAttr
------------------------------------------------------------------------------
(* Memory *)

Block(u, part, from, at) == [of |-> u, part |-> part, from |-> from, at |-> at]

St == [mem |-> mem, wrong |-> wrong, unit_map |-> unit_map, made |-> made,
       foreign |-> foreign, used |-> used, here |-> External]
On(st, caller) == [st EXCEPT !.here = caller]
Put(st) ==
    /\ mem' = st.mem /\ wrong' = st.wrong /\ unit_map' = st.unit_map /\ made' = st.made
    /\ foreign' = st.foreign /\ used' = st.used

\* The result of a call: the memory, and the unit as it is then.
Res(st, t) == [ok |-> TRUE, st |-> st, t |-> t]
No(st, t) == [ok |-> FALSE, st |-> st, t |-> t]
Then(r, Undo(_, _), GoOn(_, _)) == IF r.ok THEN GoOn(r.st, r.t) ELSE Undo(r.st, r.t)
Becomes(u, r) == Put(r.st) /\ thread' = [thread EXCEPT ![u] = r.t] /\ UNCHANGED attr

Take(st, b) == [st EXCEPT !.mem = @ \cup {b}]
Drop(st, b) == IF b \in st.mem THEN [st EXCEPT !.mem = @ \ {b}]
                               ELSE [st EXCEPT !.wrong = @ \cup {b}]

\* A stream's pools are used without a lock, those for external threads with one.
Touch(st, local) == [st EXCEPT !.foreign = @ \/ local \notin {External, st.here}]

RoundUp(n) == ((n + Line - 1) \div Line) * Line

\* ABTI_mem_register_stack and ABTI_mem_unregister_stack, for guard pages; a stack in a
\* memory pool has one already (mprotect_if_needed is false).
RegisterStack(st, u, p_stacktop) ==
    IF Mprotect /\ p_stacktop THEN Take(st, Block(u, "guard", "kernel", 0)) ELSE st
UnregisterStack(st, u, p_stacktop) ==
    IF Mprotect /\ p_stacktop THEN Drop(st, Block(u, "guard", "kernel", 0)) ELSE st

\* A descriptor of its own: where from, and the memory type of the thread.
AllocNythread(st, local, u, t) ==
    IF local # External
      THEN Res(Take(Touch(st, local), Block(u, "desc", "desc_pool", 0)),
               [t EXCEPT !.type = "MEMPOOL_DESC"])
      ELSE Res(Take(st, Block(u, "desc", "heap", 0)), [t EXCEPT !.type = "MALLOC_DESC"])
AllocYthreadDescLazy(st, local, u, t) ==
    IF local # External
      THEN Res(Take(Touch(st, local), Block(u, "desc", "desc_pool", 0)),
               [t EXCEPT !.type = "MEMPOOL_DESC_LAZY"])
      ELSE Res(Take(st, Block(u, "desc", "heap", 0)), [t EXCEPT !.type = "MALLOC_DESC_LAZY"])

\* Stack and descriptor in one block of the heap, which is rounded up to a cache line.
MallocDescStackImpl(st, u, size) == Take(st, Block(u, "desc_stack", "heap", RoundUp(size)))

\* ABTI_mem_alloc_ythread_malloc_desc_stack
MallocDescStack(st, u, size, t) ==
    Res(RegisterStack(MallocDescStackImpl(st, u, size), u, TRUE),
        [t EXCEPT !.type = "MALLOC_DESC_STACK", !.size = size, !.stack = TRUE])

\* ABTI_mem_alloc_ythread_mempool_desc_stack, for a stack of the default size
MempoolDescStack(st, local, u, t) ==
    IF Lazy THEN AllocYthreadDescLazy(st, local, u, [t EXCEPT !.size = DefaultSize])
    ELSE IF local # External
      THEN Res(Take(Touch(st, local), Block(u, "desc_stack", "stack_pool", 0)),
               [t EXCEPT !.type = "MEMPOOL_DESC_STACK", !.size = DefaultSize, !.stack = TRUE])
      ELSE MallocDescStack(st, u, DefaultSize, t)

\* ABTI_mem_alloc_ythread_mempool_desc: the stack is the user's, or that of the native thread.
MempoolDesc(st, local, u, size, p_stacktop, t) ==
    LET d == AllocNythread(st, local, u, [t EXCEPT !.size = size, !.p_stack = p_stacktop])
    IN  [d EXCEPT !.st = RegisterStack(@, u, p_stacktop)]

FreeToDescPool(st, local, u) == Drop(Touch(st, local), Block(u, "desc", "desc_pool", 0))

\* ABTI_mem_free_thread.  A descriptor whose type was not completed yet is not yieldable.
FreeThread(st, local, u, t) ==
    CASE t.type = "MEMPOOL_DESC_STACK" ->
            Drop(Touch(st, local), Block(u, "desc_stack", "stack_pool", 0))
      [] t.type = "MEMPOOL_DESC_LAZY" -> FreeToDescPool(st, local, u)
      [] t.type = "MEMPOOL_DESC" ->
            FreeToDescPool(UnregisterStack(st, u, t.yieldable /\ t.p_stack), local, u)
      [] t.type = "MALLOC_DESC_STACK" ->
            Drop(UnregisterStack(st, u, TRUE), Block(u, "desc_stack", "heap", t.size))
      [] t.type = "MALLOC_DESC_LAZY" -> Drop(st, Block(u, "desc", "heap", 0))
      [] t.type = "MALLOC_DESC" ->
            Drop(UnregisterStack(st, u, t.yieldable /\ t.p_stack), Block(u, "desc", "heap", 0))

\* ABTI_mem_alloc_ythread_mempool_stack and ABTI_mem_free_ythread_mempool_stack: the stack
\* of a lazy ULT comes when it is first switched to and goes when it terminates.
AllocLazyStack(st, local, u) ==
    Take(Touch(st, local), Block(u, "stack", "stack_pool", 0))
FreeLazyStack(st, local, u) ==
    Drop(Touch(st, local), Block(u, "stack", "stack_pool", 0))

\* ABTI_mem_alloc_desc and ABTI_mem_free_desc: a block knows whether it is from the heap.
AllocDesc(local, u, part) ==
    Block(u, part, IF local = External THEN "ext_heap" ELSE "desc_pool", 0)
FreeDesc(st, local, b) == IF b.from = "ext_heap" THEN Drop(st, b) ELSE Drop(Touch(st, local), b)
------------------------------------------------------------------------------
(* The key table of a unit.  `fail` names the allocation that fails, if any. *)

\* ABTI_ktable_create
KtableBlock(local, u) ==
    IF LargeTable THEN Block(u, "table", "heap", 0) ELSE AllocDesc(local, u, "table")

NewKtable(st, local, u, t, fail) ==
    LET table == KtableBlock(local, u)
    IN  CASE t.used_mem # {} -> Res(st, t)
          [] t.used_mem = {} /\ fail = "table" -> No(st, t)
          [] OTHER -> Res(Take(Touch(st, local), table), [t EXCEPT !.used_mem = {table}])

\* ABTI_ktable_set_unsafe, and ABTI_ktable_set without contention: create the table, then
\* an element, in the table's spare room or in a block of its own.
KtableSet(st, local, u, t, key, fail) ==
    LET elem == AllocDesc(local, u, "elems")
        Full(t1) == LargeTable /\ \A b \in t1.used_mem : b.part # "elems"
        Added(t1) == [t1 EXCEPT !.keys = @ \cup {key}]
    IN  IF key \in t.keys THEN Res(st, t)
        ELSE Then(NewKtable(st, local, u, t, fail), No, LAMBDA s1, t1 :
             CASE ~Full(t1) -> Res(s1, Added(t1))
               [] Full(t1) /\ fail = "elem" -> No(s1, t1)
               [] OTHER -> Res(Take(Touch(s1, local), elem),
                               [Added(t1) EXCEPT !.used_mem = @ \cup {elem}]))

\* thread_key_destructor_migration and thread_key_destructor_stackable_sched
DestroyMig(st, u) == Drop(st, Block(u, "mig", "heap", 0))
DestroySched(st) == [st EXCEPT !.used = IF Automatic THEN "FREED" ELSE "NOT_USED"]

\* ABTI_ktable_free: the destructors, then the blocks.
KtableFree(st, local, u, t) ==
    LET st1 == IF "mig" \in t.keys THEN DestroyMig(st, u) ELSE st
        st2 == IF "sched" \in t.keys THEN DestroySched(st1) ELSE st1
        heap == {b \in t.used_mem : b.from = "heap"}
        rest == t.used_mem \ heap
        st3 == [st2 EXCEPT !.mem = @ \ (heap \cap @), !.wrong = @ \cup (heap \ st2.mem)]
        one == CHOOSE b \in rest : TRUE
        two == CHOOSE b \in rest \ {one} : TRUE
    IN  CASE rest = {} -> st3
          [] Cardinality(rest) = 1 -> FreeDesc(st3, local, one)
          [] OTHER -> FreeDesc(FreeDesc(st3, local, one), local, two)

\* ABTI_thread_get_mig_data
GetMigData(st, local, u, t, fail) ==
    CASE "mig" \in t.keys -> Res(st, t)
      [] "mig" \notin t.keys /\ fail = "mig" -> No(st, t)
      [] OTHER -> Then(KtableSet(Take(st, Block(u, "mig", "heap", 0)), local, u, t, "mig", fail),
                       LAMBDA s1, t1 : No(DestroyMig(s1, u), t1), Res)
------------------------------------------------------------------------------
(* Units *)

\* ABTI_unit_unmap_thread, then p_free_unit.
OldUnit(st, t) ==
    [st EXCEPT !.unit_map = @ \ {t.unit}, !.made = @ \ {t.unit},
               !.wrong = IF t.unit \in st.made THEN @ ELSE @ \cup {t.unit}]

UnitOf(u, pool) == IF pool \in Builtin THEN <<u, "builtin">> ELSE <<u, pool>>
IsBuiltin(t) == t.unit[2] = "builtin"

\* ABTI_thread_init_pool: in a user-defined pool p_create_unit, then the entry of the unit
\* map; when that fails the unit is freed again.
InitPool(st, u, t, pool, fail) ==
    LET there == [t EXCEPT !.unit = UnitOf(u, pool), !.pool = pool]
    IN  CASE pool \in Builtin -> Res(st, there)
          [] pool \in Custom /\ fail = "unit" -> No(st, t)
          [] OTHER -> Res([st EXCEPT !.made = @ \cup {<<u, pool>>},
                                     !.unit_map = @ \cup {<<u, pool>>}], there)

\* ABTI_thread_set_associated_pool
SetAssociatedPool(st, u, t, pool, fail) ==
    CASE IsBuiltin(t) -> InitPool(st, u, t, pool, fail)
      [] ~IsBuiltin(t) /\ pool = t.pool -> Res(st, t)
      [] OTHER -> Then(InitPool(st, u, t, pool, fail), No, LAMBDA s1, t1 : Res(OldUnit(s1, t), t1))

\* ABTI_unit_set_associated_pool: the same, for the thread that a unit stands for.
UnitSetAssociatedPool(st, unit, pool, fail) ==
    SetAssociatedPool(st, unit[1], thread[unit[1]], pool, fail)

\* ABTI_thread_unset_associated_pool
UnsetAssociatedPool(st, t) == IF IsBuiltin(t) THEN st ELSE OldUnit(st, t)
------------------------------------------------------------------------------
(* Creation, revival and free *)

\* ABTI_thread_attr_init, and what no attribute means (ABTI_mem_alloc_ythread_default)
AttrInit(size, migratable) ==
    [p_stack |-> FALSE, stacksize |-> size, migratable |-> migratable, f_cb |-> FALSE]
AttrOrDefault == IF attr = NoAttr THEN AttrInit(DefaultSize, TRUE) ELSE attr

\* Which memory a new ULT gets.
AllocYthread(st, local, u, t, a) ==
    CASE ~a.p_stack /\ a.stacksize = DefaultSize -> MempoolDescStack(st, local, u, t)
      [] ~a.p_stack /\ a.stacksize \notin {0, DefaultSize} ->
            MallocDescStack(st, u, a.stacksize, t)
      [] OTHER -> MempoolDesc(st, local, u, a.stacksize, a.p_stack, t)

\* Mutant: a failed creation leaves the key table.
ForgetTable(st, local, u, t) == FreeThread(st, local, u, t)

\* The failures after the descriptor: the key table goes with its values, then the thread.
UndoCreate(st, local, u, t) ==
    FreeThread(IF t.used_mem # {} THEN KtableFree(st, local, u, t) ELSE st, local, u, t)

\* ythread_create.  Migration data, the scheduler of the ULT, the unit: each may fail, and
\* the type is complete only after the first of them.
YthreadCreate(st, local, u, pool, a, named, sched, fail) ==
    LET Undo(s, t) == No(UndoCreate(s, local, u, t), NoThread)
        Typed(t) == [t EXCEPT !.yieldable = TRUE, !.named = named, !.state = "POOL",
                              !.migratable = a.migratable]
    IN  IF fail = "thread" THEN No(st, NoThread)
        ELSE Then(AllocYthread(st, local, u, NoThread, a), Undo, LAMBDA s0, t0 :
             Then(IF a.f_cb THEN GetMigData(s0, local, u, t0, fail) ELSE Res(s0, t0),
                  Undo, LAMBDA s1, t1 :
             Then(IF sched THEN KtableSet(s1, local, u, Typed(t1), "sched", fail)
                           ELSE Res(s1, Typed(t1)),
                  Undo, LAMBDA s2, t2 :
             Then(IF pool = NoPool THEN Res(s2, t2) ELSE InitPool(s2, u, t2, pool, fail),
                  Undo, Res))))

\* thread_free
ThreadFree(st, local, u, t, free_unit) ==
    LET st1 == IF free_unit THEN UnsetAssociatedPool(st, t) ELSE st
    IN  UndoCreate(st1, local, u, t)

\* ABTI_thread_terminate: the lazy stack goes; an unnamed unit frees itself.
ThreadTerminate(st, local, u, t) ==
    LET st1 == IF t.type \in {"MEMPOOL_DESC_LAZY", "MALLOC_DESC_LAZY"} /\ t.stack
                 THEN FreeLazyStack(st, local, u) ELSE st
        t1 == [t EXCEPT !.state = "TERMINATED",
                        !.stack = @ /\ t.type \notin {"MEMPOOL_DESC_LAZY", "MALLOC_DESC_LAZY"}]
    IN  IF t.named THEN Res(st1, t1) ELSE Res(ThreadFree(st1, local, u, t1, TRUE), NoThread)
------------------------------------------------------------------------------
(* The operations of the program and of the schedulers *)

\* The context switch gives a lazy ULT its stack.
HasNoStack(t) == t.type \in {"MEMPOOL_DESC_LAZY", "MALLOC_DESC_LAZY"} /\ ~t.stack
ContextSwitch(st, s, u, t) ==
    Res(IF HasNoStack(t) THEN AllocLazyStack(st, s, u) ELSE st,
        [t EXCEPT !.state = "RUNNING", !.last = s, !.stack = @ \/ HasNoStack(t)])

KeyFailures == {"none", "mig", "table", "elem"}
UnitFailures == {"none", "unit"}
Failures == {"thread"} \cup KeyFailures \cup UnitFailures

\* ABT_thread_create, and ABT_thread_create_on_xstream with the first pool of a stream.
ThreadCreate(u, c, pool, named, fail) ==
    /\ thread[u].state = "none"
    /\ Becomes(u, YthreadCreate(On(St, c), c, u, pool, AttrOrDefault, named, FALSE, fail))

\* ABT_thread_create_to: a ULT of stream c creates and runs it, without a push.
ThreadCreateTo(u, c, pool, fail) ==
    /\ thread[u].state = "none"
    /\ Becomes(u, Then(YthreadCreate(On(St, c), c, u, pool, AttrOrDefault, TRUE, FALSE, fail),
                       No, LAMBDA s1, t1 : ContextSwitch(s1, c, u, t1)))

\* One unit of the array of ABT_thread_create_many; an error ends the call, and the units
\* before it stay.  A stack cannot be shared.
ThreadCreateMany(u, c, pool, named, fail) ==
    (attr # NoAttr => ~attr.p_stack) /\ ThreadCreate(u, c, pool, named, fail)

\* task_create: the unit before the type is complete.
TaskCreate(u, c, pool, named, fail) ==
    /\ thread[u].state = "none"
    /\ Becomes(u,
         IF fail = "thread" THEN No(On(St, c), NoThread)
         ELSE Then(AllocNythread(On(St, c), c, u, NoThread), No, LAMBDA s1, t1 :
              Then(InitPool(s1, u, t1, pool, fail),
                   LAMBDA s2, t2 : No(FreeThread(s2, c, u, t2), NoThread), LAMBDA s2, t2 :
              Res(s2, [t2 EXCEPT !.state = "POOL", !.named = named, !.migratable = TRUE]))))

\* ABT_pool_add_sched, and the ULT of the scheduler
CreateSched(st, local, u, pool, fail) ==
    YthreadCreate(st, local, u, pool, AttrInit(SchedSize, FALSE), FALSE, TRUE, fail)
AddSched(u, c, pool, fail) ==
    /\ thread[u].state = "none" /\ used = "NOT_USED" /\ pool \in SchedPools
    /\ Becomes(u, Then(CreateSched([On(St, c) EXCEPT !.used = "IN_POOL"], c, u, pool, fail),
                       LAMBDA s1, t1 :
                         No([s1 EXCEPT !.wrong = IF s1.used = "FREED" THEN @ \cup {"sched"} ELSE @,
                                       !.used = "NOT_USED"], t1), Res))

\* The ULTs of the runtime itself.  The root of a secondary stream has the stack of the
\* native thread and no pool; so does the primary ULT, which is in a pool.
CreateInternal(u, s, pool, size, kind, named, fail) ==
    /\ thread[u].state = "none"
    /\ Becomes(u,
         Then(YthreadCreate(On(St, s), s, u, pool, AttrInit(size, FALSE), named, FALSE, fail),
              No, LAMBDA s1, t1 :
         Res(s1, IF kind = "main" THEN [t1 EXCEPT !.kind = kind]
                 ELSE [t1 EXCEPT !.kind = kind, !.state = "RUNNING", !.last = s])))
CreatePrimary(u, s, fail) ==
    \E pool \in Builtin : CreateInternal(u, s, pool, 0, "primary", FALSE, fail)
CreateRoot(u, s, size, fail) == CreateInternal(u, s, NoPool, size, "root", TRUE, fail)
CreateMainSched(u, s, fail) ==
    \E pool \in Builtin : CreateInternal(u, s, pool, SchedSize, "main", TRUE, fail)

\* ABTI_ythread_callback_orphan, when the library is finalized
Orphan(u) ==
    /\ thread[u].kind = "primary" /\ thread[u].state = "RUNNING"
    /\ Becomes(u, Res(UnsetAssociatedPool(St, thread[u]),
                      [thread[u] EXCEPT !.state = "ORPHAN", !.unit = NoUnit, !.pool = NoPool]))

\* ABTI_ythread_free_primary, ABTI_ythread_free_root
FreeInternal(u, s) ==
    /\ thread[u].kind = "primary" => thread[u].state = "ORPHAN"
    /\ thread[u].kind \in {"primary", "root"}
    /\ Becomes(u, Res(ThreadFree(On(St, s), s, u, thread[u], FALSE), NoThread))

\* ABT_thread_revive, ABT_task_revive
Revive(u, c, pool, fail) ==
    /\ thread[u].state = "TERMINATED"
    /\ Becomes(u, Then(SetAssociatedPool(On(St, c), u, thread[u], pool, fail), No, LAMBDA s1, t1 :
                  Res(s1, [t1 EXCEPT !.state = "POOL", !.cancel = FALSE, !.last = External])))

\* ABT_thread_free, ABT_task_free and each step of ABT_thread_free_many, after the join.
Free(u, c) ==
    /\ thread[u].state = "TERMINATED"
    /\ Becomes(u, Res(ThreadFree(On(St, c), c, u, thread[u], TRUE), NoThread))

\* A scheduler takes a unit out of a pool; until it runs it, the unit is in its hands.
Pop(u) ==
    /\ thread[u].state = "POOL"
    /\ thread' = [thread EXCEPT ![u].state = "HAND"]
    /\ UNCHANGED <<mem, wrong, unit_map, made, foreign, used, attr>>

\* pool_push_thread_ex, and ABT_pool_push, which starts from the unit.
PoolPush(u, pool, fail) ==
    /\ thread[u].state = "HAND"
    /\ Becomes(u, Then(UnitSetAssociatedPool(St, thread[u].unit, pool, fail), No, LAMBDA s1, t1 :
                  Res(s1, [t1 EXCEPT !.state = "POOL"])))

\* One unit of the array of pool_push_threads_ex: when it or a later one fails it is not
\* pushed, although it is associated with the pool now.
PoolPushMany(u, pool, fail, later) ==
    /\ thread[u].state = "HAND"
    /\ Becomes(u, Then(SetAssociatedPool(St, u, thread[u], pool, fail), No, LAMBDA s1, t1 :
                  Res(s1, [t1 EXCEPT !.state = IF later THEN "HAND" ELSE "POOL"])))

\* ABT_thread_set_associated_pool, ABT_self_set_associated_pool
SetPool(u, pool, fail) ==
    /\ thread[u].state \in {"HAND", "RUNNING"} /\ thread[u].kind # "root"
    /\ Becomes(u, SetAssociatedPool(St, u, thread[u], pool, fail))

\* ABTI_thread_handle_request_cancel, with the stream the unit ran on last.
HandleCancel(s, u) == Becomes(u, ThreadTerminate(On(St, s), thread[u].last, u, thread[u]))

\* ABTI_ythread_schedule on stream s
Schedule(u, s) ==
    /\ thread[u].state = "HAND"
    /\ \/ /\ thread[u].cancel /\ (CancelAnywhere \/ thread[u].last \in {External, s})
          /\ HandleCancel(s, u)
       \/ ~thread[u].cancel /\ Becomes(u, ContextSwitch(On(St, s), s, u, thread[u]))

\* ABT_thread_yield, which handles a cancellation on the stream that runs the ULT.
Yield(u) ==
    /\ thread[u].state = "RUNNING" /\ thread[u].yieldable /\ thread[u].kind # "root"
    /\ \/ thread[u].cancel /\ HandleCancel(thread[u].last, u)
       \/ ~thread[u].cancel /\ Becomes(u, Res(St, [thread[u] EXCEPT !.state = "POOL"]))

Finish(u) ==
    LET s == thread[u].last
    IN  /\ thread[u].state = "RUNNING" /\ thread[u].kind \notin {"primary", "root"}
        /\ Becomes(u, ThreadTerminate(On(St, s), s, u, thread[u]))

\* ABT_thread_cancel
Cancel(u) ==
    /\ thread[u].state \in {"POOL", "HAND", "RUNNING"} /\ ~thread[u].cancel
    /\ thread[u].kind = "user"
    /\ thread' = [thread EXCEPT ![u].cancel = TRUE]
    /\ UNCHANGED <<mem, wrong, unit_map, made, foreign, used, attr>>

\* ABT_thread_set_callback; a migration request needs the same data.
SetCallback(u, c, fail) ==
    /\ thread[u].state # "none" /\ thread[u].kind = "user" /\ "mig" \notin thread[u].keys
    /\ Becomes(u, GetMigData(On(St, c), c, u, thread[u], fail))

SetMigratable(u) ==
    /\ thread[u].state # "none" /\ thread[u].kind = "user"
    /\ thread' = [thread EXCEPT ![u].migratable = ~@]
    /\ UNCHANGED <<mem, wrong, unit_map, made, foreign, used, attr>>

\* The attribute object: ABT_thread_attr_create and its setters.
AttrStep(new) == attr' = new /\ attr' \in Attrs \cup {NoAttr} /\ UNCHANGED <<thread, mem, wrong,
                                                            unit_map, made, foreign, used>>
AttrCreate == attr = NoAttr /\ AttrStep(AttrInit(DefaultSize, TRUE))
AttrFree == attr # NoAttr /\ AttrStep(NoAttr)
AttrSetStack(p_stack, size) ==
    attr # NoAttr /\ AttrStep([attr EXCEPT !.p_stack = p_stack, !.stacksize = size])
AttrSetStacksize(size) == attr # NoAttr /\ AttrStep([attr EXCEPT !.stacksize = size])
AttrSetCallback(cb) == attr # NoAttr /\ AttrStep([attr EXCEPT !.f_cb = cb])
AttrSetMigratable(m) == attr # NoAttr /\ AttrStep([attr EXCEPT !.migratable = m])

\* ABT_thread_get_attr: a unit's own attributes, as another one may be created with.
GetAttr(u) ==
    /\ thread[u].state # "none" /\ thread[u].yieldable /\ attr = NoAttr
    /\ LET t == thread[u]
       IN  AttrStep([p_stack |-> t.stack \/ t.p_stack, stacksize |-> t.size,
                     migratable |-> t.migratable, f_cb |-> "mig" \in t.keys])
------------------------------------------------------------------------------
Sizes == {a.stacksize : a \in Attrs}

Next ==
    \/ \E u \in Units, c \in Callers, pool \in Pools, fail \in Failures :
          \/ \E named \in BOOLEAN : \/ ThreadCreate(u, c, pool, named, fail)
                                    \/ TaskCreate(u, c, pool, named, fail)
                                    \/ ThreadCreateMany(u, c, pool, named, fail)
          \/ c # External /\ ThreadCreateTo(u, c, pool, fail)
          \/ AddSched(u, c, pool, fail)
    \/ \E u \in Units, c \in Callers : Free(u, c)
    \/ \E u \in Units, c \in Callers, fail \in KeyFailures : SetCallback(u, c, fail)
    \/ \E u \in Units, pool \in Pools, fail \in UnitFailures :
          \/ \E c \in Callers : Revive(u, c, pool, fail)
          \/ PoolPush(u, pool, fail) \/ SetPool(u, pool, fail)
          \/ \E later \in BOOLEAN : PoolPushMany(u, pool, fail, later)
    \/ \E u \in Units : Pop(u) \/ Yield(u) \/ Finish(u) \/ Cancel(u) \/ SetMigratable(u)
                        \/ GetAttr(u) \/ Orphan(u)
    \/ \E u \in Units, s \in Streams : Schedule(u, s) \/ FreeInternal(u, s)
    \/ \E u \in Units, s \in Streams, fail \in Failures :
          \/ CreatePrimary(u, s, fail) \/ CreateMainSched(u, s, fail)
          \/ \E size \in {0, SchedSize} : CreateRoot(u, s, size, fail)
    \/ AttrCreate \/ AttrFree
    \/ \E size \in Sizes : AttrSetStacksize(size) \/ \E p \in BOOLEAN : AttrSetStack(p, size)
    \/ \E b \in BOOLEAN : AttrSetCallback(b) \/ AttrSetMigratable(b)

Spec == Init /\ [][Next /\ UNCHANGED config]_vars
------------------------------------------------------------------------------
(* Properties *)

\* The blocks a unit holds, as its fields say.
Owned(u) ==
    LET t == thread[u]
        self == CASE t.type = "none" -> {}
                  [] t.type = "MEMPOOL_DESC_STACK" -> {Block(u, "desc_stack", "stack_pool", 0)}
                  [] t.type = "MALLOC_DESC_STACK" ->
                        {Block(u, "desc_stack", "heap", RoundUp(t.size))}
                  [] t.type \in {"MEMPOOL_DESC", "MEMPOOL_DESC_LAZY"} ->
                        {Block(u, "desc", "desc_pool", 0)}
                  [] OTHER -> {Block(u, "desc", "heap", 0)}
        lazy == t.stack /\ t.type \in {"MEMPOOL_DESC_LAZY", "MALLOC_DESC_LAZY"}
        guarded == Mprotect /\ (t.type = "MALLOC_DESC_STACK" \/ t.p_stack)
    IN  self \cup t.used_mem
        \cup (IF lazy THEN {Block(u, "stack", "stack_pool", 0)} ELSE {})
        \cup (IF guarded THEN {Block(u, "guard", "kernel", 0)} ELSE {})
        \cup (IF "mig" \in t.keys THEN {Block(u, "mig", "heap", 0)} ELSE {})

\* However a unit came to be and whatever failed on the way, what is allocated is what the
\* units that exist hold, nothing is freed twice, in the wrong place or to the wrong
\* allocator, and a scheduler is not used after it was freed.
MemoryExact == mem = UNION {Owned(u) : u \in Units} /\ wrong = {}

\* "This stack will be automatically freed by the Argobots runtime" (thread_attr.c): what is
\* freed was allocated.
NothingWrong == wrong = {}

\* The unit map and the user's pools know exactly the units of the threads that are in
\* user-defined pools, whatever fails while a thread moves.
UnitsMapped ==
    LET there == {thread[u].unit : u \in {v \in Units : thread[v].pool \in Custom}}
    IN  /\ unit_map = there /\ made = there
        /\ \A u \in Units : thread[u].pool # NoPool => thread[u].unit = UnitOf(u, thread[u].pool)

\* "Since only one ES can access the memory pool on creation, this uses an unsafe memory pool
\* without taking a lock" (abti_key.h:81): a stream's pools are used by that stream only.
OwnPoolOnly == ~foreign
===============================================================================
