-------------------------------- MODULE Runtime --------------------------------
(***************************************************************************)
(* Who owns what in the runtime: pools, schedulers and execution streams   *)
(* (pool.c, sched.c, stream.c), the list of streams by rank, and the       *)
(* library itself (global.c).  Schedulers count as references to their     *)
(* pools, automatic ones are freed by the runtime, and every creation is a *)
(* sequence of allocations any of which may fail.                          *)
(*                                                                         *)
(* The operations run one at a time.  Each takes a record `st` through the *)
(* functions the code calls; st.fuel is the number of the allocation of    *)
(* the call that fails (none when it is larger than the call needs).       *)
(***************************************************************************)
EXTENDS Integers, Sequences, FiniteSets, SequencesExt

CONSTANTS Pools, Scheds, Streams,   \* identities, numbered; the lowest free one is taken
          MaxStreams,               \* ABT_MAX_NUM_XSTREAMS
          MaxAllocs,                \* bound of the allocations of one call
          Bounds,   \* of the objects the program holds, the streams, g_ABTI_num_inits, the ranks
                    \* and the types of streams that get another main scheduler
          AnyFinalizer              \* ABT_finalize may be called by anyone

NIL == 0
RuntimeConstants ==
    /\ \A S \in {Pools, Scheds, Streams} : S \subseteq Nat \ {NIL} /\ IsFiniteSet(S)
    /\ {MaxStreams, MaxAllocs} \subseteq Nat /\ AnyFinalizer \in BOOLEAN
    /\ Bounds \subseteq [held : Nat, streams : Nat, inits : Nat, ranks : SUBSET Nat,
                         moved : SUBSET {"PRIMARY", "SECONDARY"}]

VARIABLES
    bound,          \* one of Bounds
    st,             \* the objects and the list of streams, see Nothing
    num_inits,      \* g_ABTI_num_inits
    initialized     \* g_ABTI_initialized
vars == <<bound, st, num_inits, initialized>>

NoPool == [up |-> FALSE, automatic |-> FALSE, num_scheds |-> 0, custom |-> FALSE, user |-> FALSE]
NoSched == [up |-> FALSE, automatic |-> FALSE, used |-> "NOT_USED", pools |-> <<>>,
            thread |-> FALSE, user |-> FALSE]
NoStream == [parts |-> {}, type |-> "none", state |-> "none", main |-> NIL, pending |-> NIL,
             rank |-> 0, p_prev |-> NIL, p_next |-> NIL]
Nothing ==
    [pool |-> [p \in Pools |-> NoPool], sched |-> [s \in Scheds |-> NoSched],
     xs |-> [x \in Streams |-> NoStream], global |-> {}, head |-> NIL, num_xstreams |-> 0,
     max_xstreams |-> MaxStreams, wrong |-> {}, fuel |-> 0]

Init == bound \in Bounds /\ st = Nothing /\ num_inits = 0 /\ initialized = FALSE

\* The result of a call: what it made, if anything.
Made(s, obj) == [ok |-> TRUE, st |-> s, obj |-> obj]
Err(s) == [ok |-> FALSE, st |-> s, obj |-> NIL]
Same(s) == s

\* One more allocation: undo what was done before if it fails, otherwise go on.
Alloc(s, Undo(_), GoOn(_)) ==
    IF s.fuel = 1 THEN Err(Undo([s EXCEPT !.fuel = 0])) ELSE GoOn([s EXCEPT !.fuel = @ - 1])

\* The same for a call that may fail.
Call(r, Undo(_), GoOn(_, _)) == IF r.ok THEN GoOn(r.st, r.obj) ELSE Err(Undo(r.st))

Wrong(s, what) == [s EXCEPT !.wrong = @ \cup {what}]

Lowest(S) == CHOOSE n \in S : \A m \in S : n <= m
FreePools(s) == {p \in Pools : ~s.pool[p].up}
FreeScheds(s) == {d \in Scheds : ~s.sched[d].up}
FreeStreams(s) == {x \in Streams : s.xs[x].parts = {}}
------------------------------------------------------------------------------
(* Pools *)

\* pool_create: the object, then what p_init allocates.
PoolCreate(s, automatic, custom) ==
    Alloc(s, Same, LAMBDA s1 : Alloc(s1, Same, LAMBDA s2 :
        LET p == Lowest(FreePools(s2))
        IN  Made([s2 EXCEPT !.pool[p] = [NoPool EXCEPT !.up = TRUE, !.automatic = automatic,
                                                       !.custom = custom]], p)))
PoolCreateBasic(s, automatic) == PoolCreate(s, automatic, FALSE)

PoolFree(s, p) == IF s.pool[p].up THEN [s EXCEPT !.pool[p] = NoPool] ELSE Wrong(s, <<"pool", p>>)

PoolRetain(s, p) == [s EXCEPT !.pool[p].num_scheds = @ + 1]
PoolRelease(s, p) ==
    IF s.pool[p].up /\ s.pool[p].num_scheds > 0 THEN [s EXCEPT !.pool[p].num_scheds = @ - 1]
    ELSE Wrong(s, <<"release", p>>)

\* The pools of `list` that stand where the caller gave ABT_POOL_NULL are freed.
FreeMade(s, given, list) ==
    FoldLeft(LAMBDA r, i : IF given[i] = NIL THEN PoolFree(r, list[i]) ELSE r,
             s, [i \in DOMAIN list |-> i])

\* The loop that makes the pools the caller left out.
MakePools(s, given) ==
    FoldLeft(LAMBDA r, g :
               IF ~r.ok THEN r
               ELSE IF g # NIL THEN [r EXCEPT !.obj = Append(@, g)]
               ELSE Call(PoolCreateBasic(r.st, TRUE), LAMBDA u : FreeMade(u, given, r.obj),
                         LAMBDA t, p : Made(t, Append(r.obj, p))),
             Made(s, <<>>), given)
------------------------------------------------------------------------------
(* Schedulers *)

\* ABTI_sched_config_read, for ABT_sched_config_automatic: a configuration that does not set
\* it, or one that sets it against the default.
AutomaticOf(config, def) == IF config = "none" THEN def ELSE ~def

\* The pools of a scheduler that cannot be made: those made for it are freed.
LeavePools(s, given, list) ==
    FoldLeft(LAMBDA q, n : IF given[n] = NIL THEN PoolFree(q, list[n]) ELSE PoolRelease(q, list[n]),
             s, [n \in DOMAIN given |-> n])

\* sched_create: the object, the list, the pools, then what init allocates.
SchedCreate(s, given, config, def_automatic) ==
    Alloc(s, Same, LAMBDA s1 : Alloc(s1, Same, LAMBDA s2 :
    Call(MakePools(s2, given), Same, LAMBDA s3, list :
    Alloc(FoldLeft(PoolRetain, s3, list), LAMBDA u : LeavePools(u, given, list), LAMBDA s4 :
        LET d == Lowest(FreeScheds(s4))
        IN  Made([s4 EXCEPT !.sched[d] =
                    [NoSched EXCEPT !.up = TRUE, !.pools = list,
                                    !.automatic = AutomaticOf(config, def_automatic)]], d)))))

\* ABTI_sched_create_basic without the copy: the pools, then a scheduler that is given all
SchedOfPools(s, given, config) ==
    Call(MakePools(s, given), Same, LAMBDA s1, list :
    Call(SchedCreate(s1, list, config, TRUE), LAMBDA u : FreeMade(u, given, list), Made))

\* ABTI_sched_create_basic with an array of pools, which is copied first
SchedCreateBasic(s, given, config) ==
    Alloc(s, Same, LAMBDA s1 : SchedOfPools(s1, given, config))

\* ABTI_sched_create_basic without one: as many pools as the scheduler needs
SchedCreateDefault(s, num_pools, config) ==
    SchedOfPools(s, [i \in 1..num_pools |-> NIL], config)

\* Mutant: an automatic pool goes with the first scheduler that goes.
SchedFreeAtOnce(s, d, force_free) ==
    LET freed == FoldLeft(LAMBDA q, p :
                    IF p = NIL THEN q
                    ELSE LET r == PoolRelease(q, p)
                         IN  IF r.pool[p].automatic \/ force_free THEN PoolFree(r, p) ELSE r,
                    s, s.sched[d].pools)
    IN  [freed EXCEPT !.sched[d] = NoSched]

\* ABTI_sched_free
SchedFree(s, d, force_free) ==
    LET freed == FoldLeft(LAMBDA q, p :
                    IF p = NIL THEN q
                    ELSE LET r == PoolRelease(q, p)
                         IN  IF (r.pool[p].automatic /\ r.pool[p].num_scheds = 0) \/ force_free
                             THEN PoolFree(r, p) ELSE r,
                    s, s.sched[d].pools)
    IN  IF s.sched[d].up /\ s.sched[d].used = "NOT_USED"
          THEN [freed EXCEPT !.sched[d] = NoSched] ELSE Wrong(s, <<"sched", d>>)

\* ABTI_sched_discard_and_free
DiscardAndFree(s, d, force_free) ==
    LET s1 == [s EXCEPT !.sched[d].used = "NOT_USED"]
    IN  IF s.sched[d].automatic \/ force_free THEN SchedFree(s1, d, force_free)
        ELSE [s1 EXCEPT !.sched[d].thread = FALSE]
------------------------------------------------------------------------------
(* The list of streams, by rank *)

\* The n-th stream of the list, counted from 0.
At(s) == LET f[n \in 0..Cardinality(Streams)] ==
               IF n = 0 THEN s.head ELSE IF f[n - 1] = NIL THEN NIL ELSE s.xs[f[n - 1]].p_next
         IN  f

\* The first position whose stream satisfies the loop's exit, or the end of the list.
Stop(s, Exit(_, _)) ==
    LET at == At(s)
    IN  CHOOSE n \in DOMAIN at : /\ at[n] = NIL \/ Exit(n, at[n])
                                 /\ \A m \in 0..(n - 1) : at[m] # NIL /\ ~Exit(m, at[m])

UpdateMaxXstreams(s, rank) ==
    IF rank >= s.max_xstreams THEN [s EXCEPT !.max_xstreams = rank + 1] ELSE s

\* xstream_add_xstream_list
AddXstreamList(s, x) ==
    LET n == Stop(s, LAMBDA i, y : s.xs[y].rank > s.xs[x].rank)
        y == At(s)[n]
        before == IF n = 0 THEN s.head ELSE At(s)[n - 1]
        prev == s.xs[y].p_prev
    IN  CASE y = NIL /\ before # NIL ->
               [s EXCEPT !.xs[before].p_next = x, !.xs[x].p_prev = before, !.xs[x].p_next = NIL]
          [] y = NIL /\ before = NIL ->
               [s EXCEPT !.xs[x].p_prev = NIL, !.xs[x].p_next = NIL, !.head = x]
          [] y # NIL /\ prev # NIL ->
               [s EXCEPT !.xs[prev].p_next = x, !.xs[x].p_prev = prev, !.xs[y].p_prev = x,
                         !.xs[x].p_next = y]
          [] y # NIL /\ prev = NIL ->
               [s EXCEPT !.head = x, !.xs[y].p_prev = x, !.xs[x].p_next = y]

\* xstream_remove_xstream_list
RemoveXstreamList(s, x) ==
    LET s1 == IF s.xs[x].p_prev = NIL THEN [s EXCEPT !.head = s.xs[x].p_next]
              ELSE [s EXCEPT !.xs[s.xs[x].p_prev].p_next = s.xs[x].p_next]
    IN  IF s.xs[x].p_next = NIL THEN s1
        ELSE [s1 EXCEPT !.xs[s.xs[x].p_next].p_prev = s.xs[x].p_prev]

\* A rank that is asked for is taken when the walk to it ends at a stream that has it.
RankTaken(s, rank) ==
    LET at == At(s)
        n == Stop(s, LAMBDA i, y : s.xs[y].rank >= rank)
    IN  at[n] # NIL /\ s.xs[at[n]].rank = rank

\* xstream_set_new_rank; -1 asks for the lowest rank that is free.
SetNewRank(s, x, asked) ==
    LET rank == IF asked = -1 THEN Stop(s, LAMBDA i, y : s.xs[y].rank # i) ELSE asked
        s1 == AddXstreamList([s EXCEPT !.xs[x].rank = rank], x)
    IN  IF asked # -1 /\ RankTaken(s, asked) THEN Err(s)
        ELSE Made([UpdateMaxXstreams(s1, rank) EXCEPT !.num_xstreams = @ + 1], x)

\* xstream_change_rank
ChangeRank(s, x, rank) ==
    IF s.xs[x].rank = rank THEN Made(s, x)
    ELSE IF RankTaken(s, rank) THEN Err(s)
    ELSE Made(UpdateMaxXstreams(
                AddXstreamList([RemoveXstreamList(s, x) EXCEPT !.xs[x].rank = rank], x), rank), x)

\* xstream_return_rank
ReturnRank(s, x) == [RemoveXstreamList(s, x) EXCEPT !.num_xstreams = @ - 1]
------------------------------------------------------------------------------
(* Execution streams *)

Grow(s, x, part) == [s EXCEPT !.xs[x].parts = @ \cup {part}]

\* The FAILED label of xstream_create
UndoStream(s, x, d, stage) ==
    LET s5 == IF stage >= 5 THEN [s EXCEPT !.sched[d].thread = FALSE] ELSE s
        s2 == IF stage >= 2 THEN [s5 EXCEPT !.sched[d].used = "NOT_USED"] ELSE s5
        s1 == IF stage >= 1 THEN ReturnRank(s2, x) ELSE s2
        freed == {"object"} \cup (IF stage >= 2 THEN {"memory"} ELSE {})
                            \cup (IF stage >= 3 THEN {"root"} ELSE {})
                            \cup (IF stage >= 4 THEN {"root_pool"} ELSE {})
    IN  [s1 EXCEPT !.xs[x] = [NoStream EXCEPT !.parts = s1.xs[x].parts \ freed]]

\* xstream_init_main_sched
InitMainSched(s, x, d) == [s EXCEPT !.xs[x].main = d, !.sched[d].used = "MAIN"]

\* xstream_create: the object, its rank, its memory pools, the root ULT, the root pool, the
\* ULT of the main scheduler and, if it starts at once, the native thread.
XstreamCreate(s, d, type, rank, start) ==
    LET x == Lowest(FreeStreams(s))
        Object(s0) == [Grow(s0, x, "object") EXCEPT !.xs[x].type = type]
        Up(u) == [u EXCEPT !.sched[d].thread = TRUE, !.xs[x].state = "RUNNING"]
    IN  Alloc(s, Same, LAMBDA s0 :
        Call(SetNewRank(Object(s0), x, rank), LAMBDA u : UndoStream(u, x, d, 0), LAMBDA s1, y :
        Alloc(s1, LAMBDA u : UndoStream(u, x, d, 1), LAMBDA s2 :
        Alloc(InitMainSched(Grow(s2, x, "memory"), x, d),
              LAMBDA u : UndoStream(u, x, d, 2), LAMBDA s3 :
        Alloc(Grow(s3, x, "root"), LAMBDA u : UndoStream(u, x, d, 3), LAMBDA s4 :
        Alloc(Grow(s4, x, "root_pool"), LAMBDA u : UndoStream(u, x, d, 4), LAMBDA s5 :
        IF ~start THEN Made(Up(s5), x)
        ELSE Alloc([s5 EXCEPT !.sched[d].thread = TRUE], LAMBDA u : UndoStream(u, x, d, 5),
                   LAMBDA s6 : Made(Up(Grow(s6, x, "native")), x))))))))

\* ABTI_xstream_free
XstreamFree(s, x, force_free) ==
    LET s1 == ReturnRank(s, x)
    IN  [DiscardAndFree(s1, s.xs[x].main, force_free) EXCEPT !.xs[x] = NoStream]

\* What ABT_xstream_create_basic and its like do when the stream cannot be made: the pools
\* of the caller leave the scheduler before it is freed.
DropSched(s, d, given) ==
    LET own == {i \in DOMAIN given : given[i] # NIL}
        s1 == FoldLeft(LAMBDA q, i : IF i \in own THEN PoolRelease(q, s.sched[d].pools[i]) ELSE q,
                       s, [i \in DOMAIN given |-> i])
    IN  SchedFree([s1 EXCEPT !.sched[d].pools =
                     [i \in DOMAIN @ |-> IF i \in own THEN NIL ELSE @[i]]], d, FALSE)

\* The ULT of the scheduler gets a unit in its first pool, which may be user-defined.
NewUnit(s, d, GoOn(_)) ==
    IF s.pool[s.sched[d].pools[1]].custom THEN Alloc(s, Same, GoOn) ELSE GoOn(s)

\* xstream_update_main_sched, on a stream that is down
TakeOver(s, x, d) ==
    NewUnit(s, d, LAMBDA s1 :
        LET old == s1.xs[x].main
            s2 == [s1 EXCEPT !.sched[d].used = "MAIN", !.sched[d].thread = TRUE,
                             !.sched[old].thread = FALSE, !.sched[old].used = "NOT_USED",
                             !.xs[x].main = d]
        IN  Made(IF s1.sched[old].automatic THEN SchedFree(s2, old, FALSE) ELSE s2, x))

\* xstream_update_main_sched, by a ULT of the stream: the scheduler waits for its turn, and
\* one that waited already is discarded.
Wait(s, x, d) ==
    NewUnit(s, d, LAMBDA s1 :
        LET waiting == s1.xs[x].pending
            s2 == IF waiting # NIL THEN DiscardAndFree(s1, waiting, FALSE) ELSE s1
        IN  Made([s2 EXCEPT !.xs[x].pending = d], x))
UpdateMainSched(s, x, d) == IF s.xs[x].state = "RUNNING" THEN Wait(s, x, d) ELSE TakeOver(s, x, d)

\* The main scheduler's function replaces its scheduler by the one that waits.
Replaced(s, x) ==
    LET new == s.xs[x].pending
        old == s.xs[x].main
        s1 == [s EXCEPT !.sched[new].used = "MAIN", !.sched[new].thread = TRUE,
                        !.xs[x].main = new, !.xs[x].pending = NIL, !.sched[old].thread = FALSE]
    IN  DiscardAndFree(s1, old, FALSE)
------------------------------------------------------------------------------
(* The operations of the program.  It gives the runtime what it holds, once. *)

Configs == {"none", "against"}
Set(r) == st' = [r.st EXCEPT !.fuel = 0] /\ UNCHANGED <<num_inits, initialized>>
Fuel == 1..MaxAllocs
With(fuel) == [st EXCEPT !.fuel = fuel]
New(d) == IF d = NIL THEN 1 ELSE 0
Held == {<<"pool", p>> : p \in {q \in Pools : st.pool[q].user}}
        \cup {<<"sched", d>> : d \in {e \in Scheds : st.sched[e].user}}
Hold == Cardinality(Held) < bound.held
Room(p, d, x) == /\ Cardinality({y \in Streams : st.xs[y].parts # {}}) + x <= bound.streams
                 /\ Cardinality(FreePools(st)) >= p /\ Cardinality(FreeScheds(st)) >= d
                 /\ Cardinality(FreeStreams(st)) >= x
Theirs(r, kind) ==   \* the caller gets the handle of what was made
    IF ~r.ok THEN r
    ELSE IF kind = "pool" THEN [r EXCEPT !.st.pool[r.obj].user = TRUE]
    ELSE [r EXCEPT !.st.sched[r.obj].user = TRUE]

MyPools == {p \in Pools : st.pool[p].up /\ st.pool[p].user}
Pending == {st.xs[x].pending : x \in Streams}
MyScheds == {d \in Scheds : /\ st.sched[d].up /\ st.sched[d].user /\ d \notin Pending
                            /\ st.sched[d].used = "NOT_USED"}
Given == {<<p>> : p \in MyPools \cup {NIL}} \cup {<<p, NIL>> : p \in MyPools}
Made2(given) == Cardinality({i \in DOMAIN given : given[i] = NIL})

AbtPoolCreate(config, fuel) ==
    initialized /\ Hold /\ Room(1, 0, 0)
    /\ Set(Theirs(PoolCreate(With(fuel), AutomaticOf(config, FALSE), TRUE), "pool"))
AbtPoolCreateBasic(automatic, fuel) ==
    initialized /\ Hold /\ Room(1, 0, 0) /\ Set(Theirs(PoolCreateBasic(With(fuel), automatic), "pool"))
AbtPoolFree(p) ==
    /\ p \in MyPools /\ \A d \in Scheds : p \notin Range(st.sched[d].pools)
    /\ Set(Made(PoolFree(st, p), NIL))

AbtSchedCreate(given, config, fuel) ==
    initialized /\ Hold /\ Room(Made2(given), 1, 0)
    /\ Set(Theirs(SchedCreate(With(fuel), given, config, FALSE), "sched"))
AbtSchedCreateBasic(given, config, fuel) ==
    initialized /\ Hold /\ Room(Made2(given), 1, 0)
    /\ Set(Theirs(SchedCreateBasic(With(fuel), given, config), "sched"))
AbtSchedFree(d) == d \in MyScheds /\ Set(Made(SchedFree(st, d, FALSE), NIL))

\* The scheduler of the caller, or one made here, which goes if the rest fails.
WithSched(s, d, GoOn(_, _)) ==
    IF d # NIL THEN GoOn(s, d)
    ELSE Call(SchedCreateDefault(s, 1, "none"), Same, LAMBDA s1, new :
         Call(GoOn(s1, new), LAMBDA u : SchedFree(u, new, FALSE), Made))

AbtXstreamCreate(d, fuel) ==
    /\ initialized /\ d \in MyScheds \cup {NIL} /\ Room(New(d), New(d), 1)
    /\ Set(WithSched(With(fuel), d, LAMBDA s, e : XstreamCreate(s, e, "SECONDARY", -1, TRUE)))
AbtXstreamCreateWithRank(d, rank, fuel) ==
    /\ initialized /\ d \in MyScheds \cup {NIL} /\ Room(New(d), New(d), 1)
    /\ Set(WithSched(With(fuel), d, LAMBDA s, e : XstreamCreate(s, e, "SECONDARY", rank, TRUE)))

\* A scheduler that is not automatic is the program's (ABT_xstream_get_main_sched).
AbtXstreamCreateBasic(given, config, fuel) ==
    LET Mine(r) == IF config = "against" THEN Theirs(r, "sched") ELSE r
    IN  /\ initialized /\ Room(Made2(given), 1, 1) /\ (config = "against" => Hold)
        /\ Set(Call(Mine(SchedCreateBasic(With(fuel), given, config)), Same, LAMBDA s, d :
               Call(XstreamCreate(s, d, "SECONDARY", -1, TRUE),
                    LAMBDA u : DropSched(u, d, given), Made)))

Secondary(x) == st.xs[x].type = "SECONDARY"
\* The stream ends when it is joined; a replacement that was asked for happens before.
XstreamDown(x) ==
    /\ Secondary(x) /\ st.xs[x].state = "RUNNING" /\ st.xs[x].pending = NIL
    /\ Set(Made([st EXCEPT !.xs[x].state = "TERMINATED"], x))
XstreamRevive(x) ==
    /\ Secondary(x) /\ st.xs[x].state = "TERMINATED"
    /\ Set(Made([st EXCEPT !.xs[x].state = "RUNNING"], x))
AbtXstreamFree(x) ==
    /\ Secondary(x) /\ st.xs[x].state = "TERMINATED" /\ Set(Made(XstreamFree(st, x, FALSE), x))
AbtXstreamSetRank(x, rank) == Secondary(x) /\ Set(ChangeRank(st, x, rank))

AbtXstreamSetMainSched(x, d, fuel) ==
    /\ st.xs[x].type \in bound.moved /\ d \in MyScheds \cup {NIL} /\ Room(New(d), New(d), 0)
    /\ Set(WithSched(With(fuel), d, LAMBDA s, e : UpdateMainSched(s, x, e)))
AbtXstreamSetMainSchedBasic(x, given, fuel) ==
    /\ st.xs[x].type \in bound.moved /\ Room(Made2(given), 1, 0)
    /\ Set(Call(SchedCreateBasic(With(fuel), given, "none"), Same, LAMBDA s, d :
           Call(UpdateMainSched(s, x, d), LAMBDA u : DropSched(u, d, given), Made)))
Replace(x) == st.xs[x].pending # NIL /\ Set(Made(Replaced(st, x), x))
------------------------------------------------------------------------------
(* The library *)

\* ABTI_xstream_create_primary
CreatePrimary(s) ==
    Call(SchedCreateDefault(s, 1, "none"), Same, LAMBDA s1, d :
    Call(XstreamCreate(s1, d, "PRIMARY", -1, FALSE), LAMBDA u : SchedFree(u, d, TRUE), Made))

\* init_library: p_global, the memory pools, the primary stream and its ULT.
InitLibrary(s) ==
    LET Undo(u) == [u EXCEPT !.global = @ \ {"p_global", "memory"}]
        Has(u, part) == [u EXCEPT !.global = @ \cup {part}]
    IN  Alloc(s, Same, LAMBDA s0 :
        Alloc(Has(s0, "p_global"), Undo, LAMBDA s1 :
        Call(CreatePrimary(Has(s1, "memory")), Undo, LAMBDA s2, x :
        Alloc(s2, LAMBDA u : Undo(XstreamFree(u, x, TRUE)), LAMBDA s3 :
        Made(Has(s3, "primary"), x)))))

\* ABT_init
AbtInit(fuel) ==
    /\ num_inits < bound.inits
    /\ IF num_inits > 0 THEN num_inits' = num_inits + 1 /\ UNCHANGED <<st, initialized>>
       ELSE /\ Room(1, 1, 1)
            /\ \E r \in {InitLibrary(With(fuel))} :
                 /\ st' = [r.st EXCEPT !.fuel = 0]
                 /\ num_inits' = IF r.ok THEN 1 ELSE 0
                 /\ initialized' = (initialized \/ r.ok)

\* The program has freed what it made, except what the primary stream uses.
Tidy ==
    /\ \A x \in Streams : ~Secondary(x) /\ st.xs[x].pending = NIL
    /\ \A d \in MyScheds : FALSE
    /\ \A p \in MyPools : \E d \in Scheds : p \in Range(st.sched[d].pools)

\* finailze_library, by the primary ULT or by someone else
AbtFinalize(primary) ==
    /\ num_inits > 0 /\ num_inits' = num_inits - 1
    /\ IF num_inits > 1 THEN UNCHANGED <<st, initialized>>
       ELSE IF ~primary THEN AnyFinalizer /\ UNCHANGED <<st, initialized>>
       ELSE /\ Tidy
            /\ \E x \in Streams :
                 /\ st.xs[x].type = "PRIMARY"
                 /\ st' = [XstreamFree(st, x, TRUE) EXCEPT !.global = {}]
            /\ initialized' = FALSE
------------------------------------------------------------------------------
Next ==
    \/ \E fuel \in Fuel :
        \/ AbtInit(fuel)
        \/ \E c \in Configs : AbtPoolCreate(c, fuel)
        \/ \E a \in BOOLEAN : AbtPoolCreateBasic(a, fuel)
        \/ \E g \in Given, c \in Configs : \/ AbtSchedCreate(g, c, fuel)
                                           \/ AbtSchedCreateBasic(g, c, fuel)
                                           \/ AbtXstreamCreateBasic(g, c, fuel)
        \/ \E d \in Scheds \cup {NIL} :
              \/ AbtXstreamCreate(d, fuel)
              \/ \E rank \in bound.ranks : AbtXstreamCreateWithRank(d, rank, fuel)
              \/ \E x \in Streams : AbtXstreamSetMainSched(x, d, fuel)
        \/ \E x \in Streams, g \in Given : AbtXstreamSetMainSchedBasic(x, g, fuel)
    \/ \E p \in Pools : AbtPoolFree(p)
    \/ \E d \in Scheds : AbtSchedFree(d)
    \/ \E x \in Streams : \/ XstreamDown(x) \/ XstreamRevive(x) \/ AbtXstreamFree(x) \/ Replace(x)
                          \/ \E rank \in bound.ranks : AbtXstreamSetRank(x, rank)
    \/ \E primary \in BOOLEAN : AbtFinalize(primary)

Spec == Init /\ [][Next /\ UNCHANGED bound]_vars
------------------------------------------------------------------------------
(* Properties *)

Up == {x \in Streams : st.xs[x].parts # {}}
UpScheds == {d \in Scheds : st.sched[d].up}
Uses(p) == {<<d, i>> \in UpScheds \X (1..3) : i <= Len(st.sched[d].pools) /\ st.sched[d].pools[i] = p}

\* However the creations failed and the schedulers moved between streams, the reference
\* count of a pool, which decides whether an automatic one is freed and whether a scheduler
\* may stop, is the number of schedulers that use it.
NumSchedsExact == \A p \in Pools : st.pool[p].num_scheds = Cardinality(Uses(p))

\* Nothing is freed twice or used after its free, and nothing is lost: a pool that exists
\* belongs to the program or to a scheduler, a scheduler to the program or to
\* the one stream whose main scheduler it is (or is about to be), and a stream is complete.
NothingLost ==
    /\ st.wrong = {}
    /\ \A p \in Pools : st.pool[p].up <=> \/ st.pool[p].user
                                          \/ Uses(p) # {}
    /\ \A d \in UpScheds :
          LET owners == {x \in Up : d \in {st.xs[x].main, st.xs[x].pending}}
          IN  /\ Cardinality(owners) <= 1
              /\ owners = {} => st.sched[d].user
              /\ st.sched[d].thread <=> (st.sched[d].used = "MAIN")
              /\ st.sched[d].used = "MAIN" <=> \E x \in owners : st.xs[x].main = d
    /\ \A x \in Up : /\ st.xs[x].main \in UpScheds
                     /\ st.xs[x].pending \in UpScheds \cup {NIL}
                     /\ st.xs[x].parts = {"object", "memory", "root", "root_pool"}
                           \cup IF Secondary(x) THEN {"native"} ELSE {}

\* The list holds the streams that exist, once each and by increasing rank, in both
\* directions, and max_xstreams covers every rank: ranks are unique whatever was created,
\* freed, renumbered or failed.
RanksIntact ==
    LET at == At(st)
        listed == {n \in DOMAIN at : at[n] # NIL}
    IN  /\ {at[n] : n \in listed} = Up /\ Cardinality(listed) = Cardinality(Up)
        /\ st.num_xstreams = Cardinality(Up)
        /\ \A n \in listed :
             /\ n - 1 \in listed => /\ st.xs[at[n - 1]].rank < st.xs[at[n]].rank
                                    /\ st.xs[at[n]].p_prev = at[n - 1]
             /\ n = 0 => st.xs[at[n]].p_prev = NIL
             /\ st.xs[at[n]].rank < st.max_xstreams

\* "If Argobots has already been initialized, just return" (global.c): the library is
\* initialized exactly while somebody counts on it.
InitCountExact == initialized <=> num_inits > 0
===============================================================================
