--------------------------------- MODULE Env ---------------------------------
(***************************************************************************)
(* The settings that the environment variables make (src/arch/abtd_env.c), *)
(* and the memory pools that are set up with them (src/mem/malloc.c,       *)
(* src/util/largepage.c).  The strings have been through module Atoi: the  *)
(* value of a variable is a number, a word, or junk that is no number.     *)
(* Sizes are scaled; arithmetic wraps as size_t and uint32_t do.           *)
(***************************************************************************)
EXTENDS Atoi, FiniteSets, TLC

CONSTANTS Macro,      \* the defaults and limits of abtd_env.c and the build
          Values,     \* the values that the shell may give to some variables
          MaxVars,    \* bound: variables set
          NULL, Junk

VARIABLES env,       \* the variables that are set: <<prefix, name>> to value
          settings,  \* the fields of ABTI_global, an empty record before
          memPools,  \* the memory pools that exist
          requests,  \* the ways to allocate large pages, per global memory pool
          page       \* the last large page: its pool and how it was allocated

envVars == <<env, settings, memPools, requests, page>>

Prefixes == <<"ABT_", "ABT_ENV_">>
NoSettings == [done |-> FALSE]
SizeMax == U64Max
Size(n) == n % (SizeMax + 1)
Uint32(n) == n % (U32Max + 1)
MinOf(a, b) == IF a < b THEN a ELSE b
MaxOf(a, b) == IF a < b THEN b ELSE a

EnvSetUp ==
  /\ env = [v \in {} |-> NULL] /\ settings = NoSettings
  /\ memPools = {} /\ requests = [p \in {"stack", "desc"} |-> <<>>]
  /\ page = <<"none", "none">>

\* The shell; the program starts when it is done.
Export ==
  /\ settings = NoSettings /\ Cardinality(DOMAIN env) < MaxVars
  /\ \E i \in DOMAIN Prefixes, name \in DOMAIN Values : \E v \in Values[name] :
       /\ <<Prefixes[i], name>> \notin DOMAIN env
       /\ env' = env @@ (<<Prefixes[i], name>> :> v)
  /\ UNCHANGED <<settings, memPools, requests, page>>

-----------------------------------------------------------------------------
(* Reading a variable                                                      *)

\* ABT_ goes before ABT_ENV_.
GetEnv(name) ==
  LET has == {i \in DOMAIN Prefixes : <<Prefixes[i], name>> \in DOMAIN env}
  IN IF has = {} THEN NULL
     ELSE env[<<Prefixes[CHOOSE i \in has : \A j \in has : i <= j], name>>]

IsFalse(word, include0) == word \in {"no"} \cup (IF include0 THEN {"0"} ELSE {})
IsTrue(word, include1) == word \in {"yes"} \cup (IF include1 THEN {"1"} ELSE {})

LoadBool(name, default) ==
  LET word == GetEnv(name)
  IN IF word = NULL THEN default
     ELSE IF default THEN ~IsFalse(word, TRUE) ELSE IsTrue(word, TRUE)

Clamp(v, least, most) == MaxOf(least, MinOf(most, v))

\* A number of any length, as the parser gives it to a conversion.
Convert(To(_, _, _), n) ==
  LET mag == IF n < 0 THEN -n ELSE n
  IN To(n < 0, MinOf(mag, U64Max), mag > U64Max).val

NumberOr(To(_, _, _), name, default) ==
  IF GetEnv(name) \in {NULL, Junk} THEN default ELSE Convert(To, GetEnv(name))

LoadInt(name, default, least, most) == Clamp(NumberOr(ToInt, name, default), least, most)
LoadUint32(name, default, least, most) == Clamp(NumberOr(ToUint32, name, default), least, most)
LoadUint64(name, default, least, most) == Clamp(NumberOr(ToUint64, name, default), least, most)
LoadSize(name, default, least, most) == Clamp(NumberOr(ToSize, name, default), least, most)

\* Half of the real limits.
EnvIntMax == IntMax \div 2
EnvUint32Max == U32Max \div 2
EnvSizeMax == SizeMax \div 2

\* The smallest power of two that is not below val; the last one of the type
\* when there is none.
RoundupPow2Uint32(n) ==
  LET top == (U32Max + 1) \div 2
      fits == {p \in {2^i : i \in 0..16} : p <= top /\ (n - 1) \div p = 0}
  IN IF n = 0 THEN 0 ELSE IF fits = {} THEN top ELSE CHOOSE p \in fits : \A q \in fits : p <= q

RoundupPow2Size(n) ==
  LET top == (SizeMax + 1) \div 2
      fits == {p \in {2^i : i \in 0..16} : p <= top /\ (n - 1) \div p = 0}
  IN IF n = 0 THEN 0 ELSE IF fits = {} THEN top ELSE CHOOSE p \in fits : \A q \in fits : p <= q

RoundupUint32(n, multiple) == (Uint32(n + multiple - 1) \div multiple) * multiple
RoundupSize(n, multiple) == (Size(n + multiple - 1) \div multiple) * multiple

-----------------------------------------------------------------------------
(* The settings                                                            *)

UseDebug == LoadBool("USE_DEBUG", FALSE)
UseLogging == LoadBool("USE_LOG", FALSE)
PrintConfig == LoadBool("PRINT_CONFIG", FALSE)

\* The affinity is set unless it is switched off: "0" is a list of cores.
SetAffinity == GetEnv("SET_AFFINITY") = NULL \/ ~IsFalse(GetEnv("SET_AFFINITY"), FALSE)

MaxXstreams == LoadInt("MAX_NUM_XSTREAMS", Macro.NUM_CORES, 1, EnvIntMax)

KeyTableSize ==
  RoundupPow2Uint32(LoadUint32("KEY_TABLE_SIZE", Macro.KEY_TABLE_DEFAULT_SIZE, 1, EnvUint32Max))

\* The kind of stack guard; a word that is not known switches it off.
StackGuard ==
  LET word == GetEnv("STACK_OVERFLOW_CHECK")
  IN IF word = NULL THEN Macro.STACK_CHECK_TYPE
     ELSE IF word \in {"mprotect", "mprotect_strict"} THEN word ELSE "none"

SysPageSize ==
  RoundupPow2Size(LoadSize("SYS_PAGE_SIZE", Macro.SYS_PAGE_SIZE, Macro.SYS_PAGE_MIN, EnvSizeMax))

\* The guard takes up to two pages of a stack.
Guarded(default) == IF StackGuard = "none" THEN default ELSE Size(default + 2 * SysPageSize)

ThreadStacksize ==
  RoundupSize(LoadSize("THREAD_STACKSIZE", Guarded(Macro.DEFAULT_THREAD_STACKSIZE),
                       Macro.STACK_MIN, EnvSizeMax), Macro.CACHELINE_SIZE)

SchedStacksize ==
  RoundupSize(LoadSize("SCHED_STACKSIZE", Guarded(Macro.SCHED_DEFAULT_STACKSIZE),
                       Macro.STACK_MIN, EnvSizeMax), Macro.CACHELINE_SIZE)

EventFreq == LoadUint32("SCHED_EVENT_FREQ", Macro.SCHED_EVENT_FREQ, 1, EnvUint32Max)
SleepNsec == LoadUint64("SCHED_SLEEP_NSEC", Macro.SCHED_SLEEP_NSEC, 0, EnvSizeMax)

HugePageSize == LoadSize("HUGE_PAGE_SIZE", Macro.HUGE_PAGE_SIZE, Macro.PAGE_MIN, EnvSizeMax)

MemPageSize ==
  RoundupPow2Size(RoundupSize(LoadSize("MEM_PAGE_SIZE", Macro.MEM_PAGE_SIZE, Macro.PAGE_MIN,
                                       EnvSizeMax), Macro.CACHELINE_SIZE))

\* Mutant: the lower bound is that of the other pages.
MemSpSizeAlone ==
  RoundupSize(LoadSize("MEM_STACK_PAGE_SIZE", Macro.MEM_STACK_PAGE_SIZE, Macro.PAGE_MIN,
                       EnvSizeMax), Macro.CACHELINE_SIZE)

\* At least four stacks.
MemSpSize ==
  RoundupSize(LoadSize("MEM_STACK_PAGE_SIZE", Macro.MEM_STACK_PAGE_SIZE,
                       Size(4 * ThreadStacksize), EnvSizeMax), Macro.CACHELINE_SIZE)

\* Both numbers are multiples of the number of local buckets, and not 0.
MemMaxStacks ==
  LET default == MinOf(Macro.MEM_MAX_TOTAL_STACK_SIZE \div ThreadStacksize,
                       Macro.MEM_MAX_NUM_STACKS)
  IN RoundupUint32(LoadUint32("MEM_MAX_NUM_STACKS", default, Macro.LOCAL_BUCKETS, EnvUint32Max),
                   Macro.LOCAL_BUCKETS)

MemMaxDescs ==
  RoundupUint32(LoadUint32("MEM_MAX_NUM_DESCS", Macro.MEM_MAX_NUM_DESCS, Macro.LOCAL_BUCKETS,
                           EnvUint32Max), Macro.LOCAL_BUCKETS)

-----------------------------------------------------------------------------
(* Large pages                                                             *)

\* An attempt of one kind works, if the system supports it: the heap always does.
IsSupported(type, supported) == type = "malloc" \/ type \in supported

\* The ways to allocate, best first, and the fallback that is tried in advance.
LpKinds == {"malloc", "mmap_rp", "mmap_hp_rp", "mmap_hp_thp", "thp"}

LpRequested ==
  LET default == IF GetEnv("HUGE_PAGE_SIZE") # NULL THEN "mmap_hp_rp" ELSE Macro.LP_DEFAULT
  IN IF GetEnv("MEM_LP_ALLOC") \in LpKinds THEN GetEnv("MEM_LP_ALLOC") ELSE default

CheckLpAlloc(kind, supported) ==
  CASE kind = "mmap_rp" /\ IsSupported("mmap", supported) -> "mmap_rp"
    [] kind = "mmap_hp_rp" /\ IsSupported("huge", supported) -> "mmap_hp_rp"
    [] kind = "mmap_hp_rp" /\ ~IsSupported("huge", supported)
         /\ IsSupported("mmap", supported) -> "mmap_rp"
    [] kind = "mmap_hp_thp" /\ IsSupported("huge", supported) -> "mmap_hp_thp"
    [] kind \in {"mmap_hp_thp", "thp"} /\ (kind = "thp" \/ ~IsSupported("huge", supported))
         /\ IsSupported("memalign", supported) -> "thp"
    [] OTHER -> "malloc"

EnvInit ==
  /\ settings = NoSettings
  /\ \E supported \in SUBSET {"mmap", "huge", "memalign"} :
       settings' =
         [done |-> TRUE,
          set_affinity |-> SetAffinity, use_logging |-> UseLogging, use_debug |-> UseDebug,
          print_config |-> PrintConfig,
          max_xstreams |-> MaxXstreams, key_table_size |-> KeyTableSize,
          stack_guard_kind |-> StackGuard, sys_page_size |-> SysPageSize,
          thread_stacksize |-> ThreadStacksize, sched_stacksize |-> SchedStacksize,
          sched_event_freq |-> EventFreq, sched_sleep_nsec |-> SleepNsec,
          huge_page_size |-> HugePageSize, mem_page_size |-> MemPageSize,
          mem_sp_size |-> MemSpSize, mem_max_stacks |-> MemMaxStacks,
          mem_max_descs |-> MemMaxDescs,
          mem_lp_alloc |-> CheckLpAlloc(LpRequested, supported)]
  /\ UNCHANGED <<env, memPools, requests, page>>

-----------------------------------------------------------------------------
(* The memory pools                                                        *)

RequestedTypes(kind) ==
  CASE kind = "mmap_rp" -> <<"mmap", "malloc">>
    [] kind = "mmap_hp_rp" -> <<"huge", "mmap", "malloc">>
    [] kind = "mmap_hp_thp" -> <<"huge", "memalign", "malloc">>
    [] kind = "thp" -> <<"memalign", "malloc">>
    [] OTHER -> <<"malloc">>

\* A pool whose memory will be protected takes no huge pages.
WithoutHuge(types) == SelectSeq(types, LAMBDA type : type # "huge")
GuardedTypes(types) == IF WithoutHuge(types) = <<>> THEN <<"malloc">> ELSE WithoutHuge(types)

\* The size of a stack with its descriptor: not a multiple of two cache lines.
StackHeaderSize(g) ==
  LET size == RoundupSize(g.thread_stacksize + Macro.YTHREAD_SIZE, Macro.CACHELINE_SIZE)
  IN IF size % (2 * Macro.CACHELINE_SIZE) = 0 THEN Size(size + Macro.CACHELINE_SIZE) ELSE size

\* The local pools of the external threads need memory at once; a failure
\* destroys what was made before it.
MemInit ==
  LET types == RequestedTypes(settings.mem_lp_alloc)
      globals == {"stack", "desc"}
      made == [ok |-> globals \cup {"stack_ext", "desc_ext"},
               no_stack_ext |-> globals, no_desc_ext |-> globals \cup {"stack_ext"}]
      destroyed == [ok |-> {}, no_stack_ext |-> globals,
                    no_desc_ext |-> globals \cup {"stack_ext"}]
  IN /\ settings.done /\ memPools = {}
     /\ requests' = [stack |-> IF settings.stack_guard_kind = "none" THEN types
                               ELSE GuardedTypes(types),
                     desc |-> types]
     /\ \E outcome \in DOMAIN made : memPools' = made[outcome] \ destroyed[outcome]
     /\ UNCHANGED <<env, settings, page>>

\* The first way that works; none may.
AllocLargepage(p) ==
  /\ p \in memPools
  /\ \E i \in DOMAIN requests[p] : page' = <<p, requests[p][i]>>
  /\ UNCHANGED <<env, settings, memPools, requests>>

\* The pools of a stream; the first one goes when the second cannot be made.
MemInitLocal ==
  /\ "desc_ext" \in memPools /\ "stack_local" \notin memPools
  /\ memPools' = memPools \cup {"stack_local", "desc_local"}
  /\ UNCHANGED <<env, settings, requests, page>>

MemFinalizeLocal ==
  /\ "stack_local" \in memPools
  /\ memPools' = memPools \ {"stack_local", "desc_local"}
  /\ UNCHANGED <<env, settings, requests, page>>

MemFinalize ==
  /\ "desc_ext" \in memPools /\ "stack_local" \notin memPools
  /\ memPools' = {}
  /\ UNCHANGED <<env, settings, requests, page>>

EnvNext ==
  \/ Export \/ EnvInit \/ MemInit \/ MemInitLocal \/ MemFinalizeLocal \/ MemFinalize
  \/ \E p \in {"stack", "desc"} : AllocLargepage(p)

(***************************************************************************)
(* Whatever is in the environment, the settings fit each other and the     *)
(* code that uses them: sizes are multiples and powers of two where masks  *)
(* are used, a stack page holds a stack, the stack guard finds room in a   *)
(* default stack and never a huge page, the pools keep at least one bucket *)
(* (ABTD_env_init, ABTI_mem_init, the assertions of mem_pool.c).           *)
(***************************************************************************)
SettingsFit ==
  LET g == settings
      PowerOfTwo(n) == \E i \in 0..16 : n = 2^i
  IN /\ g.done =>
          /\ \A n \in {g.key_table_size, g.sys_page_size, g.mem_page_size} : PowerOfTwo(n)
          /\ \A n \in {g.thread_stacksize, g.sched_stacksize, g.mem_sp_size} :
               n > 0 /\ n % Macro.CACHELINE_SIZE = 0
          /\ \A n \in {g.mem_max_stacks, g.mem_max_descs} :
               n > 0 /\ n % Macro.LOCAL_BUCKETS = 0
          /\ g.max_xstreams > 0 /\ g.sched_event_freq > 0
          /\ g.thread_stacksize < StackHeaderSize(g)
          /\ StackHeaderSize(g) <= g.mem_sp_size - Macro.PAGE_STRUCT_SIZE
          /\ Macro.DESC_SIZE <= g.mem_page_size - Macro.PAGE_STRUCT_SIZE
          /\ g.stack_guard_kind # "none" /\ GetEnv("THREAD_STACKSIZE") \in {NULL, Junk} =>
               g.thread_stacksize >= Macro.DEFAULT_THREAD_STACKSIZE + 2 * g.sys_page_size
          /\ page[1] = "stack" /\ g.stack_guard_kind # "none" => page[2] # "huge"
     /\ Cardinality(memPools) \in {0, 4, 6}
=============================================================================
