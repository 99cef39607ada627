-------------------------------- MODULE Config --------------------------------
(***************************************************************************)
(* The configurations of schedulers and pools (src/sched/sched_config.c    *)
(* and src/pool/pool_config.c), each a hash table of src/util/hashtable.c: *)
(* the first element of a bucket lies in the table itself, the others are  *)
(* allocated one by one.  A configuration belongs to one thread at a time. *)
(***************************************************************************)
EXTENDS Integers, FiniteSets, Sequences

CONSTANTS Keys,     \* indices of variables, negative ones for the predefined
          Entries,  \* buckets of a table
          Nodes,    \* memory for the chained elements
          Types,    \* of variables: int, double and pointer
          Vals, NULL

Configs == {"sched", "pool"}
Elements == Types \X Vals

VARIABLES table,   \* the configuration is "none", being created, or "ready"
          cell,    \* the elements, in the tables and chained
          free,    \* memory not allocated
          want     \* history: what the program set last under each key

configVars == <<table, cell, free, want>>

Heads(c) == {c} \X (0..(Entries - 1))
Cells == UNION {Heads(c) : c \in Configs} \cup Nodes
EmptyCell == [key |-> 0, data |-> NULL, next |-> NULL]
Nothing == [k \in Keys |-> NULL]

ConfigInit ==
  /\ table = [c \in Configs |-> "none"]
  /\ cell = [a \in Cells |-> EmptyCell]
  /\ free = Nodes
  /\ want = [c \in Configs |-> Nothing]

-----------------------------------------------------------------------------
(* The hash table                                                          *)

\* C's remainder has the sign of the key.
Remainder(k) == IF k < 0 THEN -((-k) % Entries) ELSE k % Entries
Head0(c, k) ==
  LET tmp == Remainder(k) IN <<c, IF tmp < 0 THEN tmp + Entries ELSE tmp>>

\* The elements from a on, in the order of p_next.
Chain(a) ==
  LET from[b \in Cells \cup {NULL}] ==
        IF b = NULL THEN <<>> ELSE <<b>> \o from[cell[b].next]
  IN from[a]

\* The places in the chain of k's bucket that hold k: none in an empty bucket.
Holding(c, k) ==
  IF cell[Head0(c, k)].data = NULL
  THEN {}
  ELSE {i \in DOMAIN Chain(Head0(c, k)) : cell[Chain(Head0(c, k))[i]].key = k}

ElementsOf(c) == UNION {{Chain(h)[i] : i \in DOMAIN Chain(h)} : h \in Heads(c)}

FirstOf(S) == CHOOSE i \in S : \A j \in S : i <= j

HashtableGet(c, k) ==
  IF Holding(c, k) = {} THEN NULL
  ELSE cell[Chain(Head0(c, k))[FirstOf(Holding(c, k))]].data

\* A key that is not there yet and whose bucket is not empty needs memory.
NeedsMemory(c, k) == cell[Head0(c, k)].data # NULL /\ Holding(c, k) = {}

HashtableSet(c, k, v) ==
  LET head == Head0(c, k)
      chain == Chain(head)
      new == CHOOSE a \in free : TRUE
  IN \/ /\ cell[head].data = NULL
        /\ cell' = [cell EXCEPT ![head].key = k, ![head].data = v]
        /\ UNCHANGED free
     \/ /\ Holding(c, k) # {}
        /\ cell' = [cell EXCEPT ![chain[FirstOf(Holding(c, k))]].data = v]
        /\ UNCHANGED free
     \/ /\ NeedsMemory(c, k) /\ free # {}
        /\ free' = free \ {new}
        /\ cell' = [cell EXCEPT ![new] = [key |-> k, data |-> v, next |-> NULL],
                                ![chain[Len(chain)]].next = new]

\* Mutant: removing the element in the table empties the bucket.
HashtableDeleteBucket(c, k) ==
  LET head == Head0(c, k)
  IN IF cell[head].data # NULL /\ cell[head].key = k
     THEN cell' = [cell EXCEPT ![head].data = NULL] /\ UNCHANGED free
     ELSE UNCHANGED <<cell, free>>

\* The element in the table is replaced by a copy of the next one.
HashtableDelete(c, k) ==
  LET head == Head0(c, k)
      chain == Chain(head)
      next == cell[head].next
      at == FirstOf(Holding(c, k))
  IN \/ Holding(c, k) = {} /\ UNCHANGED <<cell, free>>
     \/ /\ Holding(c, k) # {} /\ cell[head].key = k
        /\ IF next = NULL
           THEN cell' = [cell EXCEPT ![head].data = NULL] /\ UNCHANGED free
           ELSE /\ cell' = [cell EXCEPT ![head] = cell[next], ![next] = EmptyCell]
                /\ free' = free \cup {next}
     \/ /\ Holding(c, k) # {} /\ cell[head].key # k
        /\ cell' = [cell EXCEPT ![chain[at - 1]].next = cell[chain[at]].next,
                                ![chain[at]] = EmptyCell]
        /\ free' = free \cup {chain[at]}

HashtableFree(c) ==
  LET gone == ElementsOf(c)
  IN /\ cell' = [a \in Cells |-> IF a \in gone THEN EmptyCell ELSE cell[a]]
     /\ free' = free \cup (gone \cap Nodes)

HashtableCreate(c) == \A h \in Heads(c) : cell[h] = EmptyCell

-----------------------------------------------------------------------------
(* Creating and freeing.  A scheduler's configuration is created from a    *)
(* list of variables, which is read one by one.                            *)

Becomes(c, state) == table' = [table EXCEPT ![c] = state]
Forget(c) == want' = [want EXCEPT ![c] = Nothing]

SchedConfigCreate ==
  /\ table["sched"] = "none" /\ HashtableCreate("sched")
  /\ Becomes("sched", "making") /\ UNCHANGED <<cell, free, want>>

\* One variable of the list: key -1 ends it, so that it cannot be among them.
CreateVar(k, e) ==
  /\ table["sched"] = "making" /\ k # -1
  /\ HashtableSet("sched", k, e)
  /\ want' = [want EXCEPT !["sched"][k] = e]
  /\ UNCHANGED table

\* An unknown type, or no memory for the element: what was made is freed.
CreateFails(k, type) ==
  /\ table["sched"] = "making" /\ k # -1
  /\ type \notin Types \/ NeedsMemory("sched", k)
  /\ HashtableFree("sched") /\ Becomes("sched", "none") /\ Forget("sched")

CreateEnd ==
  /\ table["sched"] = "making"
  /\ Becomes("sched", "ready") /\ UNCHANGED <<cell, free, want>>

PoolConfigCreate ==
  /\ table["pool"] = "none" /\ HashtableCreate("pool")
  /\ Becomes("pool", "ready") /\ UNCHANGED <<cell, free, want>>

SchedConfigFree ==
  /\ table["sched"] = "ready"
  /\ HashtableFree("sched") /\ Becomes("sched", "none") /\ Forget("sched")

PoolConfigFree ==
  /\ table["pool"] = "ready"
  /\ HashtableFree("pool") /\ Becomes("pool", "none") /\ Forget("pool")

-----------------------------------------------------------------------------
(* Setting, deleting and reading.  A call that reports an error (an unknown *)
(* type, no memory, no such variable) changes nothing.                     *)

\* The element keeps the type next to the value, of which it reads as many
\* bytes as the type has.
TypedElement(type, v) == <<type, v>>
ReadElement(e) == IF e = NULL THEN NULL ELSE e[2]

\* The same for pools.
PoolTypedElement(type, v) == <<type, v>>
PoolReadElement(e) == IF e = NULL THEN NULL ELSE e[2]

SetVar(c, k, e) ==
  /\ table[c] = "ready"
  /\ HashtableSet(c, k, e)
  /\ want' = [want EXCEPT ![c][k] = e] /\ UNCHANGED table

DeleteVar(c, k) ==
  /\ table[c] = "ready" /\ Holding(c, k) # {}
  /\ HashtableDelete(c, k)
  /\ want' = [want EXCEPT ![c][k] = NULL] /\ UNCHANGED table

\* A null value deletes the variable.
SchedConfigSet(k, v, type) ==
  \/ v = NULL /\ DeleteVar("sched", k)
  \/ v # NULL /\ type \in Types /\ SetVar("sched", k, TypedElement(type, v))

PoolConfigSet(k, v, type) ==
  \/ v = NULL /\ DeleteVar("pool", k)
  \/ v # NULL /\ type \in Types /\ SetVar("pool", k, PoolTypedElement(type, v))

\* The type and the value that the two calls for the program return.
SchedConfigGet(k) == HashtableGet("sched", k)
PoolConfigGet(k) == HashtableGet("pool", k)

\* What sched_create, pool_create and the schedulers read.
SchedConfigRead(k) == ReadElement(HashtableGet("sched", k))
PoolConfigRead(k) == PoolReadElement(HashtableGet("pool", k))

\* ABT_sched_config_read: the variables 0, 1, ... that are set.
ReadVars(n) ==
  {<<k, ReadElement(HashtableGet("sched", k))>> :
     k \in {i \in 0..(n - 1) : Holding("sched", i) # {}}}

ConfigNext ==
  \/ SchedConfigCreate \/ CreateEnd \/ SchedConfigFree
  \/ PoolConfigCreate \/ PoolConfigFree
  \/ \E k \in Keys :
       \/ \E e \in Elements : CreateVar(k, e)
       \/ \E type \in Types \cup {"unknown"} : CreateFails(k, type)
       \/ \E v \in Vals \cup {NULL} :
            \E type \in IF v = NULL THEN {"unknown"} ELSE Types :
              SchedConfigSet(k, v, type) \/ PoolConfigSet(k, v, type)

-----------------------------------------------------------------------------
(* A configuration gives for every index what the program set last, under  *)
(* whatever indices share its bucket and in whatever order they came and   *)
(* went, and holds no memory for the rest (ABTU_hashtable_set and          *)
(* ABTU_hashtable_delete; the getters of both kinds of configurations).    *)
ConfigIsMap ==
  LET Set(c) == {k \in Keys : want[c][k] # NULL}
      Small == {k \in Keys : k >= 0}
  IN /\ \A k \in Keys : /\ SchedConfigGet(k) = want["sched"][k]
                       /\ PoolConfigGet(k) = want["pool"][k]
                       /\ SchedConfigRead(k) = ReadElement(want["sched"][k])
                       /\ PoolConfigRead(k) = PoolReadElement(want["pool"][k])
     /\ \A n \in Small :
          ReadVars(n) = {<<k, ReadElement(want["sched"][k])>> :
                           k \in {i \in Set("sched") : i \in 0..(n - 1)}}
     /\ \A c \in Configs :
          Cardinality({a \in ElementsOf(c) : cell[a].data # NULL}) = Cardinality(Set(c))
     /\ Nodes \ free = (ElementsOf("sched") \cup ElementsOf("pool")) \cap Nodes
     /\ ElementsOf("sched") \cap ElementsOf("pool") = {}
=============================================================================
