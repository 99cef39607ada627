-------------------------------- MODULE KTable --------------------------------
(***************************************************************************)
(* The table of work-unit-specific data of one work unit                   *)
(* (src/include/abti_key.h, src/key.c): several callers create the table,  *)
(* look keys up without a lock and add elements at the tail of a bucket.   *)
(* One shared access per step.                                             *)
(*                                                                         *)
(* A node number stands for the address of an ABTI_ktelem, 0 for NULL; the *)
(* location pp_elem is 0 for the head of the key's bucket and a node for   *)
(* the p_next of that node.                                                *)
(***************************************************************************)
EXTENDS Naturals, FiniteSets

CONSTANTS Callers, Keys,
          Nobody,
          Size,         \* key_table_size, a power of 2
          MaxCalls,     \* bound: calls of each caller
          MaxFailures   \* bound: memory allocations that fail

KTableConstants ==
    /\ IsFiniteSet(Callers) /\ Nobody \notin Callers
    /\ Keys \subseteq Nat \ {0}
    /\ Size \in Nat \ {0}
    /\ MaxCalls \in Nat /\ MaxFailures \in Nat

Nodes == 1..(MaxCalls * Cardinality(Callers))
Idx(key_id) == key_id % Size

VARIABLES pp_ktable,  \* "NULL", "LOCKED" or "table"
          p_elems,    \* head of each bucket
          elem,       \* the elements: [key_id, value, p_next]; key_id 0: not allocated
          lock,       \* p_ktable->lock
          pc, p_key, p_ktable, pp_elem, value,   \* the callers' locals
          known,      \* whether a set of its key had returned when the call began
          result,     \* what the last get returned: a value, or Nobody for NULL
          set,        \* keys with a set that returned ABT_SUCCESS
          calls, failures

vars == <<pp_ktable, p_elems, elem, lock, pc, p_key, p_ktable, pp_elem, value, known,
          result, set, calls, failures>>
tableVars == <<pp_ktable, p_elems, elem, lock>>
callVars == <<p_key, value, known, calls>>

Init ==
    /\ pp_ktable = "NULL"
    /\ p_elems = [i \in 0..(Size - 1) |-> 0]
    /\ elem = [n \in Nodes |-> [key_id |-> 0, value |-> Nobody, p_next |-> 0]]
    /\ lock = Nobody
    /\ pc = [c \in Callers |-> "idle"]
    /\ p_key = [c \in Callers |-> 0]
    /\ p_ktable = [c \in Callers |-> "NULL"]
    /\ pp_elem = [c \in Callers |-> 0]
    /\ value = [c \in Callers |-> Nobody]
    /\ known = [c \in Callers |-> FALSE]
    /\ result = [c \in Callers |-> Nobody]
    /\ set = {}
    /\ calls = [c \in Callers |-> MaxCalls]
    /\ failures = MaxFailures

Goto(c, l) == pc' = [pc EXCEPT ![c] = l]
Allocated == {n \in Nodes : elem[n].key_id # 0}
Target(loc, key_id) == IF loc = 0 THEN p_elems[Idx(key_id)] ELSE elem[loc].p_next

Call(c, k, l) ==
    /\ pc[c] = "idle" /\ calls[c] > 0
    /\ calls' = [calls EXCEPT ![c] = @ - 1]
    /\ p_key' = [p_key EXCEPT ![c] = k]
    /\ value' = [value EXCEPT ![c] = c]
    /\ known' = [known EXCEPT ![c] = k \in set]
    /\ pp_elem' = [pp_elem EXCEPT ![c] = 0]
    /\ Goto(c, l)
    /\ UNCHANGED <<tableVars, p_ktable, result, set, failures>>
------------------------------------------------------------------------------
(* ABTI_ktable_set: find or create the table *)

\* Load pp_ktable into the local pointer.
LoadTable(c) == p_ktable' = [p_ktable EXCEPT ![c] = pp_ktable]

SetBegin(c) ==
    /\ pc[c] = "set"
    /\ LoadTable(c)
    /\ Goto(c, IF pp_ktable = "table" THEN "find" ELSE "cas")
    /\ UNCHANGED <<tableVars, callVars, pp_elem, result, set, failures>>

\* A weak CAS fails for whatever reason.
Cas(c) ==
    /\ pc[c] = "cas"
    /\ \/ pp_ktable = "NULL" /\ pp_ktable' = "LOCKED" /\ Goto(c, "create")
       \/ UNCHANGED pp_ktable /\ Goto(c, "reload")
    /\ UNCHANGED <<p_elems, elem, lock, callVars, p_ktable, pp_elem, result, set, failures>>

CreateTable(c) ==
    /\ pc[c] = "create"
    /\ pp_ktable' = "table"
    /\ p_ktable' = [p_ktable EXCEPT ![c] = "table"]
    /\ Goto(c, "find")
    /\ UNCHANGED <<p_elems, elem, lock, callVars, pp_elem, result, set, failures>>

CreateFails(c) ==
    /\ pc[c] = "create" /\ failures > 0
    /\ failures' = failures - 1
    /\ pp_ktable' = "NULL"
    /\ Goto(c, "idle")
    /\ UNCHANGED <<p_elems, elem, lock, callVars, p_ktable, pp_elem, result, set>>

Reload(c) ==
    /\ pc[c] = "reload"
    /\ LoadTable(c)
    /\ Goto(c, CASE pp_ktable = "NULL" -> "cas"
                 [] pp_ktable = "LOCKED" -> "spin"
                 [] OTHER -> "find")
    /\ UNCHANGED <<tableVars, callVars, pp_elem, result, set, failures>>

\* Wait until another caller has released pp_ktable, and take what it left.
Spin(c) ==
    /\ pc[c] = "spin"
    /\ LoadTable(c)
    /\ Goto(c, IF pp_ktable = "LOCKED" THEN "spin" ELSE "find")
    /\ UNCHANGED <<tableVars, callVars, pp_elem, result, set, failures>>
------------------------------------------------------------------------------
(* ABTI_ktable_set_impl *)

StoreValue(c, n) == elem' = [elem EXCEPT ![n].value = value[c]]
SetDone(c) == Goto(c, "idle") /\ set' = set \cup {p_key[c]}

\* Dereferencing a NULL table ends the program.
Crash(c) ==
    /\ pc[c] = "find" /\ p_ktable[c] # "table"
    /\ Goto(c, "crashed")
    /\ UNCHANGED <<tableVars, callVars, p_ktable, pp_elem, result, set, failures>>

\* Look for the key without the lock.
Find(c) ==
    LET n == Target(pp_elem[c], p_key[c]) IN
    /\ pc[c] = "find" /\ p_ktable[c] = "table"
    /\ \/ n = 0 /\ Goto(c, "lock") /\ UNCHANGED <<elem, pp_elem, set>>
       \/ /\ n # 0 /\ elem[n].key_id = p_key[c]
          /\ StoreValue(c, n) /\ SetDone(c) /\ UNCHANGED pp_elem
       \/ /\ n # 0 /\ elem[n].key_id # p_key[c]
          /\ pp_elem' = [pp_elem EXCEPT ![c] = n] /\ UNCHANGED <<elem, pc, set>>
    /\ UNCHANGED <<pp_ktable, p_elems, lock, callVars, p_ktable, result, failures>>

\* Mutant: does not look again under the lock.
LockOnly(c) ==
    /\ pc[c] = "lock" /\ lock = Nobody
    /\ lock' = c
    /\ Goto(c, "insert")
    /\ UNCHANGED <<pp_ktable, p_elems, elem, callVars, p_ktable, pp_elem, result, set, failures>>

Lock(c) ==
    /\ pc[c] = "lock" /\ lock = Nobody
    /\ lock' = c
    /\ Goto(c, "refind")
    /\ UNCHANGED <<pp_ktable, p_elems, elem, callVars, p_ktable, pp_elem, result, set, failures>>

\* The bucket may have been extended behind pp_elem.
Refind(c) ==
    LET n == Target(pp_elem[c], p_key[c]) IN
    /\ pc[c] = "refind"
    /\ \/ n = 0 /\ Goto(c, "insert") /\ UNCHANGED <<lock, pp_elem>>
       \/ /\ n # 0 /\ elem[n].key_id = p_key[c]
          /\ lock' = Nobody
          /\ pp_elem' = [pp_elem EXCEPT ![c] = n] /\ Goto(c, "store")
       \/ /\ n # 0 /\ elem[n].key_id # p_key[c]
          /\ pp_elem' = [pp_elem EXCEPT ![c] = n] /\ UNCHANGED <<pc, lock>>
    /\ UNCHANGED <<pp_ktable, p_elems, elem, callVars, p_ktable, result, set, failures>>

\* The value is stored after the lock is released.
Store(c) ==
    /\ pc[c] = "store"
    /\ StoreValue(c, pp_elem[c]) /\ SetDone(c)
    /\ UNCHANGED <<pp_ktable, p_elems, lock, callVars, p_ktable, pp_elem, result, failures>>

NewNode == CHOOSE n \in Nodes : n \notin Allocated
NewElem(c) == [key_id |-> p_key[c], value |-> value[c], p_next |-> 0]

\* Initialise the element, then link it at the tail.  A call adds one element at most, so that
\* there is always a node left.
Insert(c) ==
    /\ pc[c] = "insert" /\ Allocated # Nodes
    /\ IF pp_elem[c] = 0
         THEN /\ elem' = [elem EXCEPT ![NewNode] = NewElem(c)]
              /\ p_elems' = [p_elems EXCEPT ![Idx(p_key[c])] = NewNode]
         ELSE /\ elem' = [elem EXCEPT ![NewNode] = NewElem(c), ![pp_elem[c]].p_next = NewNode]
              /\ UNCHANGED p_elems
    /\ Goto(c, "unlock")
    /\ UNCHANGED <<pp_ktable, lock, callVars, p_ktable, pp_elem, result, set, failures>>

InsertFails(c) ==
    /\ pc[c] = "insert" /\ failures > 0
    /\ failures' = failures - 1
    /\ lock' = Nobody
    /\ Goto(c, "idle")
    /\ UNCHANGED <<pp_ktable, p_elems, elem, callVars, p_ktable, pp_elem, result, set>>

Unlock(c) ==
    /\ pc[c] = "unlock"
    /\ lock' = Nobody
    /\ SetDone(c)
    /\ UNCHANGED <<pp_ktable, p_elems, elem, callVars, p_ktable, pp_elem, result, failures>>
------------------------------------------------------------------------------
(* ABTI_ktable_get *)

Return(c, v) == Goto(c, "idle") /\ result' = [result EXCEPT ![c] = v]

\* Mutant: gives up at the first element of another key.
GetFirst(c) ==
    LET n == Target(0, p_key[c]) IN
    /\ pc[c] = "get"
    /\ Return(c, IF n # 0 /\ elem[n].key_id = p_key[c] THEN elem[n].value ELSE Nobody)
    /\ UNCHANGED <<tableVars, callVars, p_ktable, pp_elem, set, failures>>

Get(c) ==
    LET n == IF pp_ktable = "table" THEN Target(pp_elem[c], p_key[c]) ELSE 0 IN
    /\ pc[c] = "get"
    /\ \/ n = 0 /\ Return(c, Nobody) /\ UNCHANGED pp_elem
       \/ /\ n # 0 /\ elem[n].key_id = p_key[c]
          /\ Return(c, elem[n].value) /\ UNCHANGED pp_elem
       \/ /\ n # 0 /\ elem[n].key_id # p_key[c]
          /\ pp_elem' = [pp_elem EXCEPT ![c] = n] /\ UNCHANGED <<pc, result>>
    /\ UNCHANGED <<tableVars, callVars, p_ktable, set, failures>>
------------------------------------------------------------------------------
SetStep(c) ==
    \/ SetBegin(c) \/ Cas(c) \/ CreateTable(c) \/ CreateFails(c) \/ Reload(c) \/ Spin(c)
    \/ Find(c) \/ Crash(c) \/ Lock(c) \/ Refind(c) \/ Store(c)
    \/ Insert(c) \/ InsertFails(c) \/ Unlock(c)

Terminated ==
    /\ \A c \in Callers : pc[c] = "crashed" \/ (pc[c] = "idle" /\ calls[c] = 0)
    /\ UNCHANGED vars

Next ==
    \/ \E c \in Callers :
         \/ \E k \in Keys : Call(c, k, "set") \/ Call(c, k, "get")
         \/ SetStep(c) \/ Get(c)
    \/ Terminated

Spec == Init /\ [][Next]_vars

------------------------------------------------------------------------------
(* Properties *)

\* The table pointer, the lists and the callers' locals stay in their types, and the
\* lock is held by a caller that is adding an element, never by one that has returned.
TypeOK ==
    /\ pp_ktable \in {"NULL", "LOCKED", "table"}
    /\ p_elems \in [0..(Size - 1) -> Nodes \cup {0}]
    /\ elem \in [Nodes -> [key_id : Keys \cup {0}, value : Callers \cup {Nobody},
                           p_next : Nodes \cup {0}]]
    /\ lock \in Callers \cup {Nobody}
    /\ pc \in [Callers -> {"idle", "set", "cas", "create", "reload", "spin", "find", "lock",
                           "refind", "store", "insert", "unlock", "get", "crashed"}]
    /\ p_key \in [Callers -> Keys \cup {0}]
    /\ p_ktable \in [Callers -> {"NULL", "LOCKED", "table"}]
    /\ pp_elem \in [Callers -> Nodes \cup {0}]
    /\ set \subseteq Keys
    /\ \A c \in Callers : lock = c <=> pc[c] \in {"refind", "insert", "unlock"}

\* The table never holds two elements of a key: the values, and the destructor calls
\* of ABTI_ktable_free, of one of them would be lost.
OneElemPerKey ==
    \A m, n \in Allocated : elem[m].key_id = elem[n].key_id => m = n

\* Every element is reached from exactly one place: callers that append at the same
\* time never cut an element off.
Places(n) ==
    {loc \in Allocated : elem[loc].p_next = n}
    \cup {i \in {0} : p_elems[Idx(elem[n].key_id)] = n}
NoElemLost == \A n \in Allocated : Cardinality(Places(n)) = 1

\* The table as a data structure: in its types, one element for each key, every element
\* linked once, after any number of concurrent insertions and failed allocations.
TableIntact == TypeOK /\ OneElemPerKey /\ NoElemLost

\* A lookup finds a key whose set had returned before the lookup began, whatever is
\* being added to the bucket.
GetFindsSet ==
    [][\A c \in Callers :
         pc[c] = "get" /\ pc'[c] = "idle" /\ result'[c] = Nobody => ~known[c]]_vars

\* Every call returns: no caller waits for ever for a table that nobody creates.
CallsReturn == \A c \in Callers : pc[c] # "idle" ~> pc[c] \in {"idle", "crashed"}

===============================================================================
