------------------------------- MODULE MCSetup -------------------------------
(***************************************************************************)
(* What one thread does at a time, for TLC: making and freeing pools,      *)
(* schedulers and streams, work units, configurations and definitions of   *)
(* pools, and reading the environment when the library starts.  Each       *)
(* behaviour is about one part; the others do not move.                    *)
(***************************************************************************)
EXTENDS Integers, Sequences, FiniteSets, TLC

CONSTANTS u1, x1, x2, b1, k1, k2, n1, n2, p1, v1,
          Exercised,         \* the parts to exercise
          External, NoAttr, NULL, Junk,
          CancelAnywhere,    \* cancelled units are met by any stream
          AnyFinalizer,      \* ABT_finalize may be called by anyone
          MaxAllocs,         \* bound: allocations of one call of Runtime
          MaxSets,           \* bound: functions set in the definition of a pool
          MaxVars,           \* bound: environment variables set
          MaxLen, Short      \* bounds: characters of a number, tokens of an affinity

VARIABLES part,
          config, thread, mem, wrong, unit_map, made, foreign, used, attr,  \* WorkUnit
          bound, st, num_inits, initialized,                                \* Runtime
          table, cell, free, want,                                          \* Config
          userDef, sets, pool, given, reached,                              \* PoolDef
          str, val, is_signed, read_char, read_digit, parsed, overflow,     \* Atoi
          env, settings, memPools, requests, page,                          \* Env
          tokens, pc, index, alloc, id_list, list, interval, set_affinity, num_cores,
          cpusets, held, verdict, os                                        \* Affinity

\* One unit at a time, in a predefined and two user-defined pools, with every kind of stack.
A(p, n, m, cb) == [p_stack |-> p, stacksize |-> n, migratable |-> m, f_cb |-> cb]
Config(lazy, mprotect, large) == [lazy |-> lazy, mprotect |-> mprotect, large_table |-> large]
Wun == INSTANCE WorkUnit WITH
           Units <- {u1}, Streams <- {x1, x2}, Builtin <- {b1}, Custom <- {k1, k2},
           Attrs <- {A(FALSE, 16, TRUE, FALSE), A(FALSE, 16, TRUE, TRUE),
                     A(FALSE, 8, TRUE, FALSE), A(FALSE, 8, TRUE, TRUE),
                     A(TRUE, 8, TRUE, FALSE), A(FALSE, 8, FALSE, FALSE)},
           Configs <- {Config(TRUE, TRUE, TRUE), Config(FALSE, TRUE, FALSE)},
           DefaultSize <- 16, Line <- 4, SchedSize <- 12,
           Automatic <- TRUE, SchedPools <- {b1}

\* Few objects the program holds; many streams with ranks; and two schedulers moved.
Bound(objects, streams, inits, ranks, moved) ==
    [held |-> objects, streams |-> streams, inits |-> inits, ranks |-> ranks, moved |-> moved]
Run == INSTANCE Runtime WITH
           Pools <- 1..4, Scheds <- 1..3, Streams <- 1..3, MaxStreams <- 2,
           Bounds <- {Bound(2, 2, 1, {}, {"SECONDARY"}),
                      Bound(1, 1, 1, {}, {"PRIMARY"}),
                      Bound(0, 3, 2, 0..3, {})}

Cfg == INSTANCE Config WITH
           Keys <- {-4, -1, 0, 2}, Entries <- 2, Nodes <- {n1, n2},
           Types <- {"INT", "PTR"}, Vals <- {v1}

Def == INSTANCE PoolDef WITH
           Pools <- {p1}, OldFns <- {"init", "pop_wait", "print_all", "remove"},
           Version20 <- FALSE

\* Integers of few bits, and sizes that are scaled down; the values that variables get are
\* junk, beyond both limits and in between.
Num == INSTANCE Atoi WITH
           U64Max <- 255, U32Max <- 31, IntMax <- 15,
           Digit <- "0" :> 0 @@ "1" :> 1 @@ "2" :> 2 @@ "3" :> 3 @@ "5" :> 5 @@ "6" :> 6
Macros ==
    [NUM_CORES |-> 3, KEY_TABLE_DEFAULT_SIZE |-> 4, STACK_CHECK_TYPE |-> "none",
     SYS_PAGE_SIZE |-> 8, SYS_PAGE_MIN |-> 2, DEFAULT_THREAD_STACKSIZE |-> 16,
     SCHED_DEFAULT_STACKSIZE |-> 64, STACK_MIN |-> 12, CACHELINE_SIZE |-> 4,
     SCHED_EVENT_FREQ |-> 5, SCHED_SLEEP_NSEC |-> 10, HUGE_PAGE_SIZE |-> 64, PAGE_MIN |-> 32,
     MEM_PAGE_SIZE |-> 64, MEM_STACK_PAGE_SIZE |-> 128, MEM_MAX_TOTAL_STACK_SIZE |-> 512,
     MEM_MAX_NUM_STACKS |-> 20, MEM_MAX_NUM_DESCS |-> 24, LOCAL_BUCKETS |-> 2,
     LP_DEFAULT |-> "mmap_hp_rp", YTHREAD_SIZE |-> 6, PAGE_STRUCT_SIZE |-> 3, DESC_SIZE |-> 8]
Given ==
    [STACK_OVERFLOW_CHECK |-> {"mprotect", "mprotect_strict", "canary"},
     SYS_PAGE_SIZE |-> {Junk, 0, 9, 200}, THREAD_STACKSIZE |-> {Junk, -1, 13, 500},
     MEM_STACK_PAGE_SIZE |-> {1, 50, 99999}, MEM_MAX_NUM_STACKS |-> {-5, 0, 3, 99999},
     KEY_TABLE_SIZE |-> {0, 5, 99999}, MAX_NUM_XSTREAMS |-> {-3, 0, 7, 99999},
     MEM_PAGE_SIZE |-> {1, 33, 99999}, HUGE_PAGE_SIZE |-> {Junk},
     MEM_LP_ALLOC |-> {"malloc", "thp", "mmap_hp_thp", "mmap_rp"},
     USE_LOG |-> {"yes", "1", "0", "junk"}, SET_AFFINITY |-> {"no", "0"}]
Environment == INSTANCE Env WITH
                   U64Max <- 8191, U32Max <- 255, IntMax <- 127,
                   Digit <- "0" :> 0, Macro <- Macros, Values <- Given

\* All short texts without adjacent integers, and a few long ones with every construct.
Cpus == <<2, 5, 7>>
Ints == "0" :> 0 @@ "1" :> 1 @@ "-2" :> -2 @@ "+2" :> 2 @@ "13" :> 13
Spellings ==
    "0" :> <<"0">> @@ "1" :> <<" ", "1">> @@ "-2" :> <<"-", "2">> @@ "+2" :> <<"+", "2">> @@
    "13" :> <<"1", "3">> @@ "{" :> <<" ", "{">> @@ "}" :> <<"}">> @@ "," :> <<",">> @@
    ":" :> <<":">>
Texts ==
    {t \in UNION {[1..n -> {"0", "1", "-2", "{", "}", ",", ":"}] : n \in 0..Short} :
        \A i \in 1..(Len(t) - 1) : ~(t[i] \in DOMAIN Ints /\ t[i + 1] \in DOMAIN Ints)}
    \cup {<<"{", "0", ":", "+2", ":", "-2", ",", "1", "}", ":", "+2", ":", "+2", ",", "13">>,
          <<"{", "0", ",", "13", ",", "1", "}", ":", "13">>, <<"0", ":", "0">>,
          <<"{", "13", ":", "+2", ":", "0", "}", ":", "+2">>}
Aff == INSTANCE Affinity WITH
           Tokens <- Texts, Spell <- Spellings, IntOf <- Ints, MaxNumElems <- 4,
           InitialCpus <- Cpus, NumCpus <- 8, LenCpuids <- 1, Ranks <- {0, 4}

ASSUME SetupAssumption ==
    /\ Wun!WorkUnitConstants /\ Run!RuntimeConstants
    /\ Exercised \subseteq {"workunit", "runtime", "config", "pooldef", "atoi", "env", "affinity"}

unitVars == <<config, thread, mem, wrong, unit_map, made, foreign, used, attr>>
runtimeVars == <<bound, st, num_inits, initialized>>
configVars == <<table, cell, free, want>>
poolDefVars == <<userDef, sets, pool, given, reached>>
atoiVars == <<str, val, is_signed, read_char, read_digit, parsed, overflow>>
envVars == <<env, settings, memPools, requests, page>>
affinityVars == <<tokens, pc, index, alloc, id_list, list, interval, set_affinity,
                  num_cores, cpusets, held, verdict, os>>

SetupInit ==
    /\ part \in Exercised
    /\ Wun!Init /\ Run!Init /\ Cfg!ConfigInit /\ Def!PoolDefInit
    /\ Num!AtoiInit /\ Environment!EnvSetUp
    /\ part # "workunit" => config.lazy
    /\ part # "runtime" => bound.inits = 2
    /\ IF part = "affinity" THEN Aff!AffinityInit ELSE tokens = <<>> /\ Aff!AffinityIdle

Only(p) ==
    /\ part = p /\ UNCHANGED part
    /\ p # "workunit" => UNCHANGED unitVars
    /\ p # "runtime" => UNCHANGED runtimeVars
    /\ p # "config" => UNCHANGED configVars
    /\ p # "pooldef" => UNCHANGED poolDefVars
    /\ p # "atoi" => UNCHANGED atoiVars
    /\ p # "env" => UNCHANGED envVars
    /\ p # "affinity" => UNCHANGED affinityVars

\* Bounds: the attribute object is not altered while there is a unit, and there is one
\* configuration at a time.
OneUnit == thread[u1].state = "none" \/ thread'[u1].state = "none" \/ attr' = attr
            \/ Wun!GetAttr(u1)
OneConfig == \E c \in Cfg!Configs : table[c] = "none"

SetupNext ==
    \/ Only("workunit") /\ Wun!Next /\ UNCHANGED config /\ OneUnit
    \/ Only("runtime") /\ Run!Next /\ UNCHANGED bound
    \/ Only("config") /\ Cfg!ConfigNext /\ OneConfig'
    \/ Only("pooldef") /\ Def!PoolDefNext
    \/ Only("atoi") /\ Num!AtoiNext
    \/ Only("env") /\ Environment!EnvNext
    \/ Only("affinity") /\ Aff!AffinityNext

SetupSpec ==
    SetupInit /\ [][SetupNext]_<<part, unitVars, runtimeVars, configVars, poolDefVars,
                                atoiVars, envVars, affinityVars>>
------------------------------------------------------------------------------
(* The properties of the modules, which say what they mean there. *)

\* Memory, guards and entries of the unit map are exactly those of the units that exist,
\* whatever fails on the way.
CreationExact ==
    part = "workunit" => Wun!MemoryExact /\ Wun!UnitsMapped

\* "Since only one ES can access the memory pool on creation, this uses an unsafe memory
\* pool without taking a lock" (abti_key.h:81).
OwnPoolOnly == part = "workunit" => Wun!OwnPoolOnly

\* Whatever fails while pools, schedulers and streams are made, moved and freed, nothing is
\* lost or freed twice, pools know how many schedulers use them, and ranks are unique.
OwnershipExact ==
    part = "runtime" => Run!NothingLost /\ Run!NumSchedsExact /\ Run!RanksIntact

\* A configuration holds what was set last under each key.
ConfigIsMap == Cfg!ConfigIsMap

\* Every call of a pool ends in the function that its definition gave for it.
CallsGiven == Def!CallsGiven

\* A number is what its characters say, or the limit of its type nearest to it.
ParsedExactly == Num!ParsedExactly

\* Whatever is in the environment, the settings fit each other and the code that uses them.
SettingsFit == part = "env" => Environment!SettingsFit

\* The parser of affinities accepts its grammar, and the CPU sets are what it says.
AffinityExact == part = "affinity" => Aff!AffinityExact
===============================================================================
