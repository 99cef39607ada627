------------------------------ MODULE Affinity -------------------------------
(***************************************************************************)
(* CPU affinity: the parser of ABT_SET_AFFINITY (abtd_affinity_parser.c),  *)
(* which keeps every block it allocates in a linked list, and the CPU sets *)
(* made from its result (abtd_affinity.c).  Any allocation may fail, and a *)
(* reallocation may move the block.  A text is written down as the tokens  *)
(* of the documented grammar, and read as the characters they spell.       *)
(***************************************************************************)
EXTENDS Integers, Sequences, FiniteSets
LOCAL INSTANCE SequencesExt

CONSTANTS Tokens,       \* the texts: sequences of tokens
          Spell,        \* the characters of a token
          IntOf,        \* the value of a token that is an integer
          MaxNumElems,  \* MAX_NUM_ELEMS
          InitialCpus,  \* the CPUs the process may use, in increasing order
          NumCpus,      \* CPU_SETSIZE
          LenCpuids,    \* the first capacity of a CPU set
          Ranks,        \* ranks that ask for their CPU set
          NULL

Blank == {" "}
DigitOf == [c \in {"0", "1", "2", "3"} |->
              CASE c = "0" -> 0 [] c = "1" -> 1 [] c = "2" -> 2 [] OTHER -> 3]
End == "end"
Blocks == 1 .. 40    \* bound: never reached by the texts used
NoBlocks == [b \in {} |-> {}]

\* The blocks of g_affinity; the i-th CPU set is block i.
INITIAL == -1
CPUSETS == 0

VARIABLES tokens,        \* the text
          pc, index,
          alloc,         \* alloc_list: head, tail and the header of every block
          id_list,       \* the ES id list at work: ids and the block that holds them
          list,          \* the whole list, the same way
          interval,      \* <num> and <stride> of the interval at work, and the copies made
          set_affinity, num_cores,
          cpusets,       \* the CPU sets of the streams, NULL while one has none
          held,          \* the blocks of g_affinity
          verdict,       \* "none", "list", "syntax" or "memory" (history)
          os             \* the CPUs of the calling native thread

affinityVars == <<tokens, pc, index, alloc, id_list, list, interval,
                  set_affinity, num_cores, cpusets, held, verdict, os>>
parser == <<index, alloc, id_list, list, interval>>

Text == FlattenSeq([i \in DOMAIN tokens |-> Spell[tokens[i]]]) \o <<End>>

(* Reading: the first position from i on whose character is not in S. *)
After(i, S) == CHOOSE j \in i .. Len(Text) :
                 Text[j] \notin S /\ \A k \in i .. j - 1 : Text[k] \in S

\* Blanks, then any number of signs, then digits; where it ends and the value.
consume_int(i) ==
  LET s == After(i, Blank)
      d == After(s, {"+", "-"})
      e == After(d, DOMAIN DigitOf)
      minus == Cardinality({k \in s .. d - 1 : Text[k] = "-"})
      abs == FoldLeft(LAMBDA v, c : v * 10 + DigitOf[c], 0, SubSeq(Text, d, e - 1))
  IN [ok |-> e > d, at |-> e, val |-> IF minus % 2 = 1 THEN -abs ELSE abs]

consume_pint(i) == [consume_int(i) EXCEPT !.ok = @ /\ consume_int(i).val > 0]

consume_symbol(i, c) == LET s == After(i, Blank) IN [ok |-> Text[s] = c, at |-> s + 1]

\* Optional ":" <num> and ":" <stride> from i on.
NumStride(i) ==
  LET c1 == consume_symbol(i, ":")  n == consume_pint(c1.at)
      c2 == consume_symbol(n.at, ":")  s == consume_int(c2.at)
  IN IF ~c1.ok THEN [ok |-> TRUE, at |-> i, num |-> 1, stride |-> 1]
     ELSE IF ~n.ok \/ ~c2.ok THEN [ok |-> n.ok, at |-> n.at, num |-> n.val, stride |-> 1]
     ELSE [ok |-> s.ok, at |-> s.at, num |-> n.val, stride |-> s.val]

(* Memory *)
Fresh(a) == CHOOSE b \in Blocks : b \notin DOMAIN a.mem
            /\ \A x \in Blocks : x < b => x \in DOMAIN a.mem

ListCalloc(a) ==
  LET b == Fresh(a)
      mem == [x \in DOMAIN a.mem \cup {b} |->
                IF x = b THEN [prev |-> a.tail, next |-> NULL]
                ELSE IF x = a.tail THEN [a.mem[x] EXCEPT !.next = b] ELSE a.mem[x]]
  IN [head |-> IF a.tail = NULL THEN b ELSE a.head, tail |-> b, mem |-> mem]

\* Mutant: the end of the list keeps the old address.
ListReallocOldTail(a, old, new) ==
  LET h == a.mem[old]
      mem == [x \in (DOMAIN a.mem \ {old}) \cup {new} |->
                IF x = new THEN h
                ELSE IF x = h.prev THEN [a.mem[x] EXCEPT !.next = new]
                ELSE IF x = h.next THEN [a.mem[x] EXCEPT !.prev = new] ELSE a.mem[x]]
  IN [head |-> IF a.head = old THEN new ELSE a.head, tail |-> a.tail, mem |-> mem]

ListRealloc(a, old, new) ==
  LET h == a.mem[old]
      mem == [x \in (DOMAIN a.mem \ {old}) \cup {new} |->
                IF x = new THEN h
                ELSE IF x = h.prev THEN [a.mem[x] EXCEPT !.next = new]
                ELSE IF x = h.next THEN [a.mem[x] EXCEPT !.prev = new] ELSE a.mem[x]]
  IN [head |-> IF a.head = old THEN new ELSE a.head,
      tail |-> IF a.tail = old THEN new ELSE a.tail, mem |-> mem]

\* The block old grows, in place or elsewhere; a first block is allocated.
Grown(a, old) ==
  IF old = NULL THEN {[a |-> ListCalloc(a), b |-> Fresh(a)]}
  ELSE {[a |-> ListRealloc(a, old, b), b |-> b] : b \in {old, Fresh(a)}}

Linked(a) ==
  LET Reach[n \in 0 .. Cardinality(DOMAIN a.mem)] ==
        IF n = 0 THEN {a.head} \ {NULL}
        ELSE Reach[n - 1] \cup ({a.mem[b].next : b \in Reach[n - 1] \cap DOMAIN a.mem} \ {NULL})
  IN Reach[Cardinality(DOMAIN a.mem)]

\* The walk from the head frees what it meets.
ListFreeAll(a) == [head |-> NULL, tail |-> NULL,
                   mem |-> [b \in DOMAIN a.mem \ Linked(a) |-> a.mem[b]]]
------------------------------------------------------------------------------
Empty == [items |-> <<>>, block |-> NULL]
NoInterval == [num |-> 1, stride |-> 1, made |-> <<>>]

AffinityIdle ==
  /\ pc = "init" /\ index = 1
  /\ alloc = [head |-> NULL, tail |-> NULL, mem |-> NoBlocks]
  /\ id_list = Empty /\ list = Empty /\ interval = NoInterval
  /\ set_affinity = FALSE /\ num_cores = 0
  /\ cpusets = <<>> /\ held = {} /\ verdict = "none" /\ os = {InitialCpus[i] : i \in DOMAIN InitialCpus}

AffinityInit == tokens \in Tokens /\ AffinityIdle

Goto(l) == pc' = l /\ UNCHANGED tokens

(* ABTD_affinity_init reads the CPUs of the process, either step of which may fail. *)
ReadCpus ==
  /\ pc = "init" /\ UNCHANGED <<parser, set_affinity, cpusets, verdict, os>>
  /\ \/ Goto("failed") /\ num_cores' \in {0, Len(InitialCpus)} /\ UNCHANGED held
     \/ /\ num_cores' = Len(InitialCpus) /\ held' = {INITIAL} /\ Goto("create")

(* parse_list: on an error of any kind everything is freed. *)
Parse(l) == pc = l /\ UNCHANGED <<num_cores, cpusets, held, os>>
Free(a, why) == /\ Goto("default") /\ alloc' = ListFreeAll(a) /\ verdict' = why
                /\ UNCHANGED <<index, id_list, list, interval>>
Reject == Free(alloc, "syntax")
NoMemory == Free(alloc, "memory")
Accept(l) == Goto(l) /\ UNCHANGED verdict

CreateList ==
  /\ Parse("create") /\ set_affinity' = TRUE
  /\ \/ NoMemory
     \/ /\ alloc' = ListCalloc(alloc) /\ Accept("es-id-list")
        /\ UNCHANGED <<index, id_list, list, interval>>

CreateIdList ==
  /\ Parse("es-id-list") /\ UNCHANGED set_affinity
  /\ \/ NoMemory
     \/ /\ alloc' = ListCalloc(alloc) /\ id_list' = Empty /\ Accept("first")
        /\ UNCHANGED <<index, list, interval>>

\* id_list_add of num ids from id on.
IdListAdd(id, num, stride) ==
  \E g \in Grown(alloc, id_list.block) :
    /\ alloc' = g.a
    /\ id_list' = [items |-> id_list.items \o [i \in 1 .. num |-> id + stride * (i - 1)],
                   block |-> g.b]
    /\ UNCHANGED <<list, interval>>

\* An id on its own, or a brace.
FirstId ==
  LET i == consume_int(index)  s == consume_symbol(index, "{")
  IN /\ Parse("first") /\ UNCHANGED set_affinity
     /\ \/ i.ok /\ IdListAdd(i.val, 1, 1) /\ index' = i.at /\ Accept("interval")
        \/ /\ ~i.ok /\ s.ok /\ index' = s.at /\ Accept("id-interval")
           /\ UNCHANGED <<alloc, id_list, list, interval>>
        \/ i.ok /\ NoMemory
        \/ ~i.ok /\ ~s.ok /\ Reject

\* <id-interval>, then "," or "}".
IdInterval ==
  LET i == consume_int(index)  n == NumStride(i.at)
  IN /\ Parse("id-interval") /\ UNCHANGED set_affinity
     /\ IF i.ok /\ n.ok /\ n.num < MaxNumElems
        THEN \/ IdListAdd(i.val, n.num, n.stride) /\ index' = n.at /\ Accept("id-next")
             \/ NoMemory
        ELSE Reject

IdNext ==
  LET c == consume_symbol(index, ",")  b == consume_symbol(index, "}")
  IN /\ Parse("id-next") /\ UNCHANGED set_affinity
     /\ IF c.ok \/ b.ok
        THEN /\ index' = c.at /\ Accept(IF c.ok THEN "id-interval" ELSE "interval")
             /\ UNCHANGED <<alloc, id_list, list, interval>>
        ELSE Reject

\* list_add grows the array, then makes the copies one by one, then adds them.
Interval ==
  LET n == NumStride(index)
  IN /\ Parse("interval") /\ UNCHANGED set_affinity
     /\ IF n.ok /\ n.num < MaxNumElems
        THEN \/ /\ index' = n.at /\ Accept("copy") /\ UNCHANGED id_list
                /\ interval' = [num |-> n.num, stride |-> n.stride, made |-> <<>>]
                /\ \E g \in Grown(alloc, list.block) :
                     alloc' = g.a /\ list' = [list EXCEPT !.block = g.b]
             \/ NoMemory
        ELSE Reject

Copy ==
  LET i == Len(interval.made) + 1
      one == ListCalloc(alloc)
  IN /\ Parse("copy") /\ i < interval.num /\ UNCHANGED set_affinity
     /\ \/ /\ alloc' = ListCalloc(one) /\ Accept("copy") /\ UNCHANGED <<index, id_list, list>>
           /\ interval' = [interval EXCEPT !.made = Append(@,
                [j \in DOMAIN id_list.items |-> id_list.items[j] + interval.stride * i])]
        \/ NoMemory
        \/ Free(one, "memory")

ListAdd ==
  LET items == list.items \o <<id_list.items>> \o interval.made
      c == consume_symbol(index, ",")  z == consume_symbol(index, End)
  IN /\ Parse("copy") /\ Len(interval.made) + 1 >= interval.num /\ UNCHANGED set_affinity
     /\ IF c.ok \/ z.ok
        THEN /\ list' = [list EXCEPT !.items = items] /\ index' = c.at
             /\ id_list' = Empty /\ interval' = NoInterval
             /\ Goto(IF c.ok THEN "es-id-list" ELSE "parsed") /\ UNCHANGED alloc
             /\ verdict' = IF c.ok THEN verdict ELSE "list"
        ELSE Reject
------------------------------------------------------------------------------
(* The CPU sets *)

\* x with a = n * b + x and 0 <= x < b; C's remainder has the sign of a.
int_rem(a, b) == LET r == (IF a < 0 THEN -((-a) % b) ELSE a % b) + b
                 IN IF r >= b THEN r - b ELSE r

CpuOf(id) == InitialCpus[int_rem(id, Len(InitialCpus)) + 1]

\* The CPUs of a list of ids, each once.
Unique(ids) ==
  FoldLeft(LAMBDA s, id : IF CpuOf(id) \in ToSet(s) THEN s ELSE Append(s, CpuOf(id)), <<>>, ids)

Build(l) == pc = l /\ UNCHANGED <<set_affinity, num_cores, verdict, os>>

CallocCpusets ==
  /\ Build("parsed") /\ UNCHANGED parser
  /\ \/ Goto("failed") /\ UNCHANGED <<cpusets, held>>
     \/ /\ cpusets' = [i \in DOMAIN list.items |-> NULL] /\ held' = held \cup {CPUSETS}
        /\ Goto("build")

\* One CPU set: allocated, extended and shrunk, any of which may fail.
BuildCpuset ==
  /\ Build("build") /\ UNCHANGED parser
  /\ \E i \in DOMAIN cpusets :
       /\ cpusets[i] = NULL /\ \A j \in 1 .. i - 1 : cpusets[j] # NULL
       /\ LET s == Unique(list.items[i])
          IN \/ Goto("failed") /\ UNCHANGED <<cpusets, held>>
             \/ Len(s) # LenCpuids /\ Goto("failed") /\ held' = held \cup {i} /\ UNCHANGED cpusets
             \/ /\ cpusets' = [cpusets EXCEPT ![i] = s] /\ held' = held \cup {i}
                /\ Goto("build")

FreeList ==
  /\ Build("build") /\ \A i \in DOMAIN cpusets : cpusets[i] # NULL
  /\ alloc' = ListFreeAll(alloc) /\ Goto("ready")
  /\ UNCHANGED <<index, id_list, list, interval, cpusets, held>>

\* Without a list every CPU is a set; failing between two allocations keeps what was made.
DefaultCpusets ==
  LET n == Len(InitialCpus)
  IN /\ Build("default") /\ UNCHANGED parser
     /\ \/ Goto("failed") /\ UNCHANGED <<cpusets, held>>
        \/ /\ Goto("failed") /\ UNCHANGED cpusets
           /\ \E made \in 0 .. n - 1 : held' = held \cup {CPUSETS} \cup 1 .. made
        \/ /\ Goto("ready") /\ cpusets' = [i \in 1 .. n |-> <<InitialCpus[i]>>]
           /\ held' = held \cup {CPUSETS} \cup 1 .. n

\* The label FAILED.
Failed ==
  /\ pc = "failed" /\ Goto("done")
  /\ alloc' = ListFreeAll(alloc)
  /\ cpusets' = <<>> /\ held' = {} /\ set_affinity' = FALSE
  /\ UNCHANGED <<index, id_list, list, interval, num_cores, verdict, os>>

(* The CPU set of a thread: an empty one stands for the initial CPUs. *)
CpusetApply(ids) ==
  IF ids = <<>> THEN {InitialCpus[i] : i \in DOMAIN InitialCpus}
  ELSE {int_rem(id, NumCpus) : id \in ToSet(ids)}

\* The stream of a rank applies its set; the system may refuse it.
ApplyDefault(rank) ==
  /\ pc = "ready" /\ set_affinity /\ Goto("ready")
  /\ os' = CpusetApply(cpusets[(rank % Len(cpusets)) + 1])
  /\ UNCHANGED <<parser, set_affinity, num_cores, cpusets, held, verdict>>

AffinityFinalize ==
  /\ pc = "ready" /\ Goto("done")
  /\ os' \in {os, CpusetApply(InitialCpus)}
  /\ cpusets' = <<>> /\ held' = {}
  /\ UNCHANGED <<parser, set_affinity, num_cores, verdict>>

AffinityNext ==
  \/ ReadCpus \/ CreateList \/ CreateIdList \/ FirstId \/ IdInterval \/ IdNext
  \/ Interval \/ Copy \/ ListAdd
  \/ CallocCpusets \/ BuildCpuset \/ FreeList \/ DefaultCpusets \/ Failed
  \/ \E rank \in Ranks : ApplyDefault(rank)
  \/ AffinityFinalize
------------------------------------------------------------------------------
(* The grammar documented in abtd_affinity.c:11-25, by splitting instead of reading: the
   meaning of a text is the set of its readings, none or one sequence of id lists. *)

Depth(t, i) == Cardinality({j \in 1 .. i : t[j] = "{"}) - Cardinality({j \in 1 .. i : t[j] = "}"})

\* The pieces of t between the separators sep that stand outside braces.
Pieces(t, sep) ==
  LET cuts == SetToSortSeq({i \in DOMAIN t : t[i] = sep /\ Depth(t, i) = 0} \cup {0, Len(t) + 1},
                           LAMBDA a, b : a < b)
  IN [k \in 1 .. Len(cuts) - 1 |-> SubSeq(t, cuts[k] + 1, cuts[k + 1] - 1)]

IsInt(t) == Len(t) = 1 /\ t[1] \in DOMAIN IntOf
IsNum(t) == IsInt(t) /\ IntOf[t[1]] > 0 /\ IntOf[t[1]] < MaxNumElems

\* The number and the stride that follow the first piece.
IsInterval(p) == Len(p) \in 1 .. 3 /\ (Len(p) > 1 => IsNum(p[2])) /\ (Len(p) > 2 => IsInt(p[3]))
NumOf(p) == IF Len(p) > 1 THEN IntOf[p[2][1]] ELSE 1
StrideOf(p) == IF Len(p) > 2 THEN IntOf[p[3][1]] ELSE 1

InBraces(t) == Len(t) > 2 /\ t[1] = "{" /\ t[Len(t)] = "}"
Ids(t) == Pieces(SubSeq(t, 2, Len(t) - 1), ",")
IsIdList(t) == \/ IsInt(t)
               \/ InBraces(t) /\ \A k \in DOMAIN Ids(t) :
                    LET p == Pieces(Ids(t)[k], ":") IN IsInterval(p) /\ IsInt(p[1])
IdList(t) ==
  IF IsInt(t) THEN <<IntOf[t[1]]>>
  ELSE FlattenSeq([k \in DOMAIN Ids(t) |->
         LET p == Pieces(Ids(t)[k], ":")
         IN [i \in 1 .. NumOf(p) |-> IntOf[p[1][1]] + StrideOf(p) * (i - 1)]])

IsList(t) == \A k \in DOMAIN Pieces(t, ",") :
               LET p == Pieces(Pieces(t, ",")[k], ":") IN IsInterval(p) /\ IsIdList(p[1])
Meaning(t) ==
  FlattenSeq([k \in DOMAIN Pieces(t, ",") |->
    LET p == Pieces(Pieces(t, ",")[k], ":")
    IN [i \in 1 .. NumOf(p) |-> [j \in DOMAIN IdList(p[1]) |->
                                   IdList(p[1])[j] + StrideOf(p) * (i - 1)]]])

\* The parser accepts the documented grammar and expands it as documented; the CPU sets are
\* the lists modulo the number of CPUs, without repetition and never outside the initial
\* CPUs; every block is on its list while the parser runs (so the walk from the head frees
\* them all), and none is left when set-up ends or fails.
AffinityExact ==
  /\ Linked(alloc) = DOMAIN alloc.mem
  /\ verdict = "list" => IsList(tokens)
  /\ verdict = "syntax" => ~IsList(tokens)
  /\ pc = "parsed" => list.items = Meaning(tokens)
  /\ pc \in {"default", "ready", "done"} => DOMAIN alloc.mem = {}
  /\ pc = "ready" =>
       LET lists == IF verdict = "list" THEN Meaning(tokens)
                    ELSE [i \in DOMAIN InitialCpus |-> <<i - 1>>]
       IN /\ held = {INITIAL, CPUSETS} \cup DOMAIN cpusets
          /\ os # {} /\ os \subseteq {InitialCpus[i] : i \in DOMAIN InitialCpus}
          /\ Len(cpusets) = Len(lists)
          /\ \A i \in DOMAIN lists :
               /\ Cardinality(ToSet(cpusets[i])) = Len(cpusets[i])
               /\ ToSet(cpusets[i]) =
                    {InitialCpus[(id % Len(InitialCpus)) + 1] : id \in ToSet(lists[i])}
  /\ pc = "done" => held = {}
===============================================================================
