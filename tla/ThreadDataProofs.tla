--------------------------- MODULE ThreadDataProofs ---------------------------
(***************************************************************************)
(* Proofs about the specific data and the migration requests of a work     *)
(* unit, for any set of callers and any bounds.                            *)
(***************************************************************************)
EXTENDS Integers, Sequences, MCThreadData, FiniteSetTheorems, TLAPS

------------------------------------------------------------------------------
(* The table of specific data *)

TableLocations == {"idle", "set", "cas", "create", "reload", "spin", "find", "lock",
                   "refind", "store", "insert", "unlock", "get", "crashed"}
Starting == {"set", "cas", "create", "reload", "spin"}
Searching == Starting \cup {"find", "lock", "refind", "insert", "get"}
Working == {"lock", "refind", "store", "insert", "unlock"}

KeyOf(n) == elem[n].key_id
SameBucket(n, key_id) == Idx(KeyOf(n)) = Idx(key_id)

TableTypes ==
    /\ TypeOK
    /\ value \in [Callers -> Callers \cup {Nobody}]
    /\ known \in [Callers -> BOOLEAN]
    /\ result \in [Callers -> Callers \cup {Nobody}]

\* The elements of a bucket are one chain, in which rank says how far each one is from the
\* head: all of them are on it, no two have the same rank, and the last one the greatest.
Chained(rank) ==
    /\ \A i \in 0..(Size - 1) : p_elems[i] # 0 =>
         p_elems[i] \in Allocated /\ Idx(KeyOf(p_elems[i])) = i /\ rank[p_elems[i]] = 1
    /\ \A n \in Allocated :
         /\ p_elems[Idx(KeyOf(n))] # 0
         /\ p_elems[Idx(KeyOf(n))] = n \/ \E m \in Allocated : elem[m].p_next = n
         /\ elem[n].p_next # 0 =>
              /\ elem[n].p_next \in Allocated /\ SameBucket(elem[n].p_next, KeyOf(n))
              /\ rank[elem[n].p_next] = rank[n] + 1
    /\ \A m, n \in Allocated : SameBucket(m, KeyOf(n)) =>
         /\ rank[m] = rank[n] => m = n
         /\ elem[m].p_next = 0 => rank[n] <= rank[m]

\* Nothing from the head of the bucket to where caller c has got to has its key.
Searched(c, rank) ==
    pc[c] \in Searching /\ pp_elem[c] # 0 =>
      /\ pp_elem[c] \in Allocated /\ SameBucket(pp_elem[c], p_key[c])
      /\ \A n \in Allocated :
           SameBucket(n, p_key[c]) /\ rank[n] <= rank[pp_elem[c]] => KeyOf(n) # p_key[c]

TableLists ==
    \E rank \in [Nodes -> Nat \ {0}] : Chained(rank) /\ \A c \in Callers : Searched(c, rank)

\* There is a table once somebody uses it, and before that one caller at most creates it.
Using(c) ==
    /\ pc[c] \in Working \/ p_ktable[c] = "table" => pp_ktable = "table"
    /\ pc[c] = "create" => pp_ktable = "LOCKED"
TableThere ==
    /\ \A c \in Callers : Using(c)
    /\ \A c, d \in Callers : pc[c] = "create" /\ pc[d] = "create" => c = d

\* What a caller has found out and nobody else can change.
Found(c) ==
    /\ pc[c] \notin {"idle", "crashed"} => p_key[c] \in Keys /\ value[c] # Nobody
    /\ pc[c] \in Starting => pp_elem[c] = 0
    /\ pc[c] = "insert" => Target(pp_elem[c], p_key[c]) = 0
    /\ pc[c] = "store" => pp_elem[c] \in Allocated /\ KeyOf(pp_elem[c]) = p_key[c]
    /\ pc[c] = "unlock" => \E n \in Allocated : KeyOf(n) = p_key[c]
    /\ pc[c] = "get" /\ known[c] => p_key[c] \in set
TableFound == \A c \in Callers : Found(c)

\* A key that was set is in the table.
TableKeeps ==
    \A k \in set : pp_ktable = "table" /\ \E n \in Allocated : KeyOf(n) = k

ValuesSet == \A n \in Allocated : elem[n].value # Nobody

TableInv ==
    /\ TableTypes /\ ValuesSet /\ OneElemPerKey
    /\ TableLists /\ TableThere /\ TableFound /\ TableKeeps

------------------------------------------------------------------------------
\* The nodes are numbers other than NULL, and every key has a bucket.
LEMMA TableNumbers ==
  /\ Nodes \subseteq Nat \ {0}
  /\ \A k \in Keys \cup {0} : k \in Nat /\ Idx(k) \in 0..(Size - 1)
  /\ Size \in Nat \ {0} /\ 0 \notin Keys /\ Nobody \notin Callers
<1> USE DataAssumption DEF KTableConstants
<1>1. MaxCalls * Cardinality(Callers) \in Nat
  <2>1. Cardinality(Callers) \in Nat
    BY FS_CardinalityType
  <2> QED BY <2>1
<1>2. \A k, s \in Nat : s # 0 => k % s \in 0..(s - 1)
  OBVIOUS
<1>3. \A k \in Keys \cup {0} : k \in Nat
  OBVIOUS
<1> QED BY <1>1, <1>2, <1>3 DEF Nodes, Idx

\* A fresh table is empty.
LEMMA TableInit == Init => TableInv
<1> SUFFICES ASSUME Init PROVE TableInv
  OBVIOUS
<1> USE TableNumbers DEF Init
<1>1. TableTypes
  BY DEF TableTypes, TypeOK
<1>2. Allocated = {} /\ ValuesSet
  BY DEF Allocated, ValuesSet
<1>3. TableLists
  <2>1. [n \in Nodes |-> 1] \in [Nodes -> Nat \ {0}]
    OBVIOUS
  <2>2. \A rank : Chained(rank)
    BY <1>2 DEF Chained
  <2>3. \A rank : \A c \in Callers : Searched(c, rank)
    BY DEF Searched, Searching, Starting
  <2> QED BY <2>1, <2>2, <2>3 DEF TableLists
<1>4. TableThere /\ TableFound /\ TableKeeps /\ OneElemPerKey
  BY <1>2 DEF TableThere, TableFound, TableKeeps, OneElemPerKey, Starting, Working,
        Using, Found
<1> QED BY <1>1, <1>2, <1>3, <1>4 DEF TableInv

\* A step of caller c that adds no element, and what it leaves alone.
LinksStay(c) ==
    /\ p_elems' = p_elems
    /\ \A n \in Nodes :
         /\ elem'[n].key_id = elem[n].key_id /\ elem'[n].p_next = elem[n].p_next
         /\ elem'[n].value # elem[n].value => elem'[n].value = value[c] /\ value[c] # Nobody
OthersStay(c) ==
    \A d \in Callers \ {c} :
      /\ pc'[d] = pc[d] /\ pp_elem'[d] = pp_elem[d] /\ p_key'[d] = p_key[d]
      /\ p_ktable'[d] = p_ktable[d] /\ known'[d] = known[d] /\ value'[d] = value[d]

\* Such a step keeps the table if it keeps what caller c itself relies on.
LEMMA TableMoves ==
  ASSUME TableInv, NEW c \in Callers, LinksStay(c), OthersStay(c), TableTypes',
         pp_ktable = "table" => pp_ktable' = "table",
         \A d \in Callers \ {c} : pc[d] = "create" =>
           pp_ktable' = pp_ktable /\ pc'[c] # "create",
         Using(c)', Found(c)', set \subseteq set', \A k \in set' \ set :
           pp_ktable' = "table" /\ \E n \in Allocated : KeyOf(n) = k,
         \A rank \in [Nodes -> Nat \ {0}] :
           Searched(c, rank) /\ Chained(rank) => Searched(c, rank)'
  PROVE  TableInv'
<1> USE TableNumbers DEF TableInv, LinksStay, OthersStay
<1>1. Allocated' = Allocated /\ \A n \in Nodes : KeyOf(n)' = KeyOf(n)
  BY DEF Allocated, KeyOf
<1>2. Allocated \subseteq Nodes
  BY DEF Allocated
<1>3. \A rank : Chained(rank) => Chained(rank)'
  <2> SUFFICES ASSUME NEW rank, Chained(rank) PROVE Chained(rank)'
    OBVIOUS
  <2>1. \A n \in Allocated : elem'[n].p_next = elem[n].p_next /\ elem'[n].key_id = elem[n].key_id
    BY <1>2
  <2> QED BY ONLY <1>1, <2>1, p_elems' = p_elems, Chained(rank)
          DEF Chained, SameBucket, KeyOf
<1>4. \A d \in Callers : d # c => \A rank : Searched(d, rank) => Searched(d, rank)'
  BY <1>1, <1>2 DEF Searched, SameBucket
<1>5. TableLists'
  BY <1>3, <1>4 DEF TableLists
<1>6. TableThere'
  BY DEF TableThere, Using
<1>7. \A d \in Callers : d # c => Found(d)'
  <2> SUFFICES ASSUME NEW d \in Callers, d # c PROVE Found(d)'
    OBVIOUS
  <2>1. Found(d)
    BY DEF TableFound
  <2>2. pp_elem[d] \in Nodes \cup {0} /\ pp_elem'[d] = pp_elem[d] /\ p_key'[d] = p_key[d]
    BY DEF TableTypes, TypeOK
  <2>3. Target(pp_elem[d], p_key[d])' = Target(pp_elem[d], p_key[d])
    BY <2>2 DEF Target
  <2> QED BY <1>1, <1>2, <2>1, <2>2, <2>3 DEF Found, KeyOf
<1>8. TableFound' /\ TableKeeps'
  BY <1>1, <1>2, <1>7 DEF TableFound, TableKeeps, KeyOf
<1>9. OneElemPerKey'
  BY <1>1, <1>2 DEF OneElemPerKey, KeyOf
<1>10. ValuesSet'
  BY <1>1, <1>2 DEF ValuesSet
<1> QED BY <1>5, <1>6, <1>8, <1>9, <1>10

\* Steps that touch no element: all but the searches, the stores and the insertion.
LEMMA PlainSteps ==
  ASSUME TableInv, NEW c \in Callers,
         \/ \E k \in Keys : Call(c, k, "set") \/ Call(c, k, "get")
         \/ SetBegin(c) \/ Cas(c) \/ CreateTable(c) \/ CreateFails(c) \/ Reload(c) \/ Spin(c)
         \/ Crash(c) \/ Lock(c) \/ InsertFails(c) \/ Unlock(c)
  PROVE  TableInv'
<1> USE TableNumbers DEF TableInv, Goto, tableVars, callVars, LoadTable
<1> DEFINE Kept ==
      /\ TableTypes' /\ LinksStay(c) /\ OthersStay(c) /\ Using(c)' /\ Found(c)'
      /\ pp_ktable = "table" => pp_ktable' = "table"
      /\ \A d \in Callers \ {c} : pc[d] = "create" => pp_ktable' = pp_ktable /\ pc'[c] # "create"
      /\ set \subseteq set' /\ \A k \in set' \ set :
           pp_ktable' = "table" /\ \E n \in Allocated : KeyOf(n) = k
      /\ pc'[c] \in Searching /\ pp_elem'[c] # 0 =>
           pc[c] \in Searching /\ pp_elem'[c] = pp_elem[c] /\ p_key'[c] = p_key[c]
<1>1. Using(c) /\ Found(c)
  BY DEF TableThere, TableFound
<1> USE <1>1
<1>2. ASSUME NEW k \in Keys, NEW l \in {"set", "get"}, Call(c, k, l) PROVE Kept
  <2> USE <1>2 DEF Call
  <2>1. TableTypes'
    BY DEF TableTypes, TypeOK
  <2>2. LinksStay(c) /\ OthersStay(c)
    BY DEF TableTypes, TypeOK, LinksStay, OthersStay
  <2>3. Using(c)' /\ Found(c)'
    BY DEF TableTypes, TypeOK, Using, Found, Starting, Working
  <2> QED BY <2>1, <2>2, <2>3 DEF TableTypes, TypeOK, Using, Found, TableThere, Searching, Starting, Working
<1>3. ASSUME SetBegin(c) PROVE Kept
  <2> USE <1>3 DEF SetBegin
  <2>1. TableTypes'
    BY DEF TableTypes, TypeOK
  <2>2. LinksStay(c) /\ OthersStay(c)
    BY DEF TableTypes, TypeOK, LinksStay, OthersStay
  <2>3. Using(c)' /\ Found(c)'
    BY DEF TableTypes, TypeOK, Using, Found, Starting, Working
  <2> QED BY <2>1, <2>2, <2>3 DEF TableTypes, TypeOK, Using, Found, TableThere, Searching, Starting, Working
<1>4. ASSUME Cas(c) PROVE Kept
  <2> USE <1>4 DEF Cas
  <2>1. TableTypes'
    BY DEF TableTypes, TypeOK
  <2>2. LinksStay(c) /\ OthersStay(c)
    BY DEF TableTypes, TypeOK, LinksStay, OthersStay
  <2>3. Using(c)' /\ Found(c)'
    BY DEF TableTypes, TypeOK, Using, Found, Starting, Working
  <2> QED BY <2>1, <2>2, <2>3 DEF TableTypes, TypeOK, Using, Found, TableThere, Searching, Starting, Working
<1>5. ASSUME CreateTable(c) PROVE Kept
  <2> USE <1>5 DEF CreateTable
  <2>1. TableTypes'
    BY DEF TableTypes, TypeOK
  <2>2. LinksStay(c) /\ OthersStay(c)
    BY DEF TableTypes, TypeOK, LinksStay, OthersStay
  <2>3. Using(c)' /\ Found(c)'
    BY DEF TableTypes, TypeOK, Using, Found, Starting, Working
  <2> QED BY <2>1, <2>2, <2>3 DEF TableTypes, TypeOK, Using, Found, TableThere, Searching, Starting, Working
<1>6. ASSUME CreateFails(c) PROVE Kept
  <2> USE <1>6 DEF CreateFails
  <2>1. TableTypes'
    BY DEF TableTypes, TypeOK
  <2>2. LinksStay(c) /\ OthersStay(c)
    BY DEF TableTypes, TypeOK, LinksStay, OthersStay
  <2>3. Using(c)' /\ Found(c)'
    BY DEF TableTypes, TypeOK, Using, Found, Starting, Working
  <2> QED BY <2>1, <2>2, <2>3 DEF TableTypes, TypeOK, Using, Found, TableThere, Searching, Starting, Working
<1>7. ASSUME Reload(c) PROVE Kept
  <2> USE <1>7 DEF Reload
  <2>1. TableTypes'
    BY DEF TableTypes, TypeOK
  <2>2. LinksStay(c) /\ OthersStay(c)
    BY DEF TableTypes, TypeOK, LinksStay, OthersStay
  <2>3. Using(c)' /\ Found(c)'
    BY DEF TableTypes, TypeOK, Using, Found, Starting, Working
  <2> QED BY <2>1, <2>2, <2>3 DEF TableTypes, TypeOK, Using, Found, TableThere, Searching, Starting, Working
<1>8. ASSUME Spin(c) PROVE Kept
  <2> USE <1>8 DEF Spin
  <2>1. TableTypes'
    BY DEF TableTypes, TypeOK
  <2>2. LinksStay(c) /\ OthersStay(c)
    BY DEF TableTypes, TypeOK, LinksStay, OthersStay
  <2>3. Using(c)' /\ Found(c)'
    BY DEF TableTypes, TypeOK, Using, Found, Starting, Working
  <2> QED BY <2>1, <2>2, <2>3 DEF TableTypes, TypeOK, Using, Found, TableThere, Searching, Starting, Working
<1>9. ASSUME Crash(c) PROVE Kept
  <2> USE <1>9 DEF Crash
  <2>1. TableTypes'
    BY DEF TableTypes, TypeOK
  <2>2. LinksStay(c) /\ OthersStay(c)
    BY DEF TableTypes, TypeOK, LinksStay, OthersStay
  <2>3. Using(c)' /\ Found(c)'
    BY DEF TableTypes, TypeOK, Using, Found, Starting, Working
  <2> QED BY <2>1, <2>2, <2>3 DEF TableTypes, TypeOK, Using, Found, TableThere, Searching, Starting, Working
<1>10. ASSUME Lock(c) PROVE Kept
  <2> USE <1>10 DEF Lock
  <2>1. TableTypes'
    BY DEF TableTypes, TypeOK
  <2>2. LinksStay(c) /\ OthersStay(c)
    BY DEF TableTypes, TypeOK, LinksStay, OthersStay
  <2>3. Using(c)' /\ Found(c)'
    BY DEF TableTypes, TypeOK, Using, Found, Starting, Working
  <2> QED BY <2>1, <2>2, <2>3 DEF TableTypes, TypeOK, Using, Found, TableThere, Searching, Starting, Working
<1>11. ASSUME InsertFails(c) PROVE Kept
  <2> USE <1>11 DEF InsertFails
  <2>1. TableTypes'
    BY DEF TableTypes, TypeOK
  <2>2. LinksStay(c) /\ OthersStay(c)
    BY DEF TableTypes, TypeOK, LinksStay, OthersStay
  <2>3. Using(c)' /\ Found(c)'
    BY DEF TableTypes, TypeOK, Using, Found, Starting, Working
  <2> QED BY <2>1, <2>2, <2>3 DEF TableTypes, TypeOK, Using, Found, TableThere, Searching, Starting, Working
<1>12. ASSUME Unlock(c) PROVE Kept
  <2> USE <1>12 DEF Unlock, SetDone
  <2>1. TableTypes'
    BY DEF TableTypes, TypeOK, Found
  <2>2. LinksStay(c) /\ OthersStay(c)
    BY DEF TableTypes, TypeOK, LinksStay, OthersStay
  <2>3. Using(c)' /\ Found(c)'
    BY DEF TableTypes, TypeOK, Using, Found, Starting, Working
  <2> QED BY <2>1, <2>2, <2>3 DEF TableTypes, TypeOK, Using, Found, TableThere, Searching, Starting, Working
<1>13. Kept
  BY <1>2, <1>3, <1>4, <1>5, <1>6, <1>7, <1>8, <1>9, <1>10, <1>11, <1>12
<1>14. elem' = elem
  BY DEF Call, SetBegin, Cas, CreateTable, CreateFails, Reload, Spin, Crash, Lock, InsertFails,
         Unlock
<1>15. \A rank : Searched(c, rank) /\ Chained(rank) => Searched(c, rank)'
  BY <1>13, <1>14 DEF Searched, SameBucket, KeyOf, Allocated
<1> QED BY <1>13, <1>15, TableMoves

\* A search that goes on to the next element has still seen all before it, and one that
\* reaches the end has seen the whole bucket.
LEMMA SearchGoesOn ==
  ASSUME TableInv, NEW c \in Callers, pc[c] \in Searching
  PROVE  LET n == Target(pp_elem[c], p_key[c]) IN
         /\ n # 0 => n \in Allocated
         /\ n = 0 => \A m \in Allocated : KeyOf(m) # p_key[c]
         /\ \A rank \in [Nodes -> Nat \ {0}] : Chained(rank) /\ Searched(c, rank) /\ n # 0 =>
              /\ SameBucket(n, p_key[c])
              /\ KeyOf(n) # p_key[c] =>
                   \A m \in Allocated :
                     SameBucket(m, p_key[c]) /\ rank[m] <= rank[n] => KeyOf(m) # p_key[c]
<1> USE TableNumbers DEF TableInv
<1> DEFINE n == Target(pp_elem[c], p_key[c])
<1>1. p_key[c] \in Keys /\ Idx(p_key[c]) \in 0..(Size - 1)
  BY DEF TableFound, Found, Searching, Starting
<1>2. Allocated \subseteq Nodes /\ 0 \notin Allocated
  BY DEF Allocated
<1>3. ASSUME NEW rank \in [Nodes -> Nat \ {0}], Chained(rank), Searched(c, rank)
      PROVE  /\ n # 0 => n \in Allocated /\ SameBucket(n, p_key[c])
             /\ n = 0 => \A m \in Allocated : KeyOf(m) # p_key[c]
             /\ n # 0 /\ KeyOf(n) # p_key[c] =>
                  \A m \in Allocated :
                    SameBucket(m, p_key[c]) /\ rank[m] <= rank[n] => KeyOf(m) # p_key[c]
  <2>1. CASE pp_elem[c] = 0
    <3>1. n = p_elems[Idx(p_key[c])]
      BY <2>1 DEF Target
    <3>2. n # 0 => n \in Allocated /\ SameBucket(n, p_key[c]) /\ rank[n] = 1
      BY <1>1, <1>3, <3>1 DEF Chained, SameBucket
    <3>3. n = 0 => \A m \in Allocated : KeyOf(m) # p_key[c]
      BY <1>3, <3>1 DEF Chained
    <3>4. \A m \in Allocated : rank[m] \in Nat \ {0}
      BY <1>2
    <3>5. \A m \in Allocated : n # 0 /\ SameBucket(m, p_key[c]) /\ rank[m] <= rank[n] => m = n
      BY <1>3, <3>2, <3>4 DEF Chained, SameBucket
    <3> QED BY <3>2, <3>3, <3>5
  <2>2. CASE pp_elem[c] # 0
    <3> DEFINE t == pp_elem[c]
    <3>1. n = elem[t].p_next /\ t \in Allocated /\ SameBucket(t, p_key[c])
          /\ \A m \in Allocated :
               SameBucket(m, p_key[c]) /\ rank[m] <= rank[t] => KeyOf(m) # p_key[c]
      BY <1>3, <2>2 DEF Target, Searched
    <3>2. n # 0 => n \in Allocated /\ SameBucket(n, p_key[c]) /\ rank[n] = rank[t] + 1
      BY <1>3, <3>1 DEF Chained, SameBucket
    <3>3. n = 0 => \A m \in Allocated : SameBucket(m, p_key[c]) => rank[m] <= rank[t]
      BY <1>3, <3>1 DEF Chained, SameBucket
    <3>4. n = 0 => \A m \in Allocated : KeyOf(m) # p_key[c]
      BY <3>1, <3>3 DEF SameBucket
    <3>5. \A m \in Allocated : rank[m] \in Nat
      BY <1>2
    <3>6. \A m \in Allocated : n # 0 /\ SameBucket(m, p_key[c]) /\ rank[m] <= rank[n] =>
            rank[m] <= rank[t] \/ m = n
      BY <1>3, <3>1, <3>2, <3>5 DEF Chained, SameBucket
    <3> QED BY <3>1, <3>2, <3>4, <3>6
  <2> QED BY <2>1, <2>2
<1>4. PICK rank \in [Nodes -> Nat \ {0}] : Chained(rank) /\ Searched(c, rank)
  BY DEF TableLists
<1> QED BY <1>3, <1>4

\* Storing a value changes no key and no link.
LEMMA ValueStored ==
  ASSUME TableInv, NEW c \in Callers, NEW n \in Nodes, StoreValue(c, n), p_elems' = p_elems,
         value[c] # Nobody
  PROVE  /\ LinksStay(c)
         /\ elem' \in [Nodes -> [key_id : Keys \cup {0}, value : Callers \cup {Nobody},
                                 p_next : Nodes \cup {0}]]
<1>1. /\ elem \in [Nodes -> [key_id : Keys \cup {0}, value : Callers \cup {Nobody},
                             p_next : Nodes \cup {0}]]
      /\ value[c] \in Callers \cup {Nobody}
  BY DEF TableInv, TableTypes, TypeOK
<1>2. elem' = [elem EXCEPT ![n] = [elem[n] EXCEPT !.value = value[c]]]
  BY DEF StoreValue
<1>3. elem'[n] = [elem[n] EXCEPT !.value = value[c]]
  BY <1>1, <1>2
<1>4. /\ elem'[n].key_id = elem[n].key_id /\ elem'[n].p_next = elem[n].p_next
      /\ elem'[n].value = value[c]
      /\ elem'[n] \in [key_id : Keys \cup {0}, value : Callers \cup {Nobody},
                       p_next : Nodes \cup {0}]
  BY <1>1, <1>3
<1> QED BY <1>1, <1>2, <1>4 DEF LinksStay

\* So where the search of caller c has got to stays right when it goes on.
LEMMA SearchedOn ==
  ASSUME TableInv, NEW c \in Callers, pc[c] \in Searching, LinksStay(c),
         p_key'[c] = p_key[c],
         LET n == Target(pp_elem[c], p_key[c]) IN
         \/ pp_elem'[c] = pp_elem[c]
         \/ pp_elem'[c] = n /\ n # 0 /\ (KeyOf(n) # p_key[c] \/ pc'[c] \notin Searching)
  PROVE  \A rank \in [Nodes -> Nat \ {0}] :
           Searched(c, rank) /\ Chained(rank) => Searched(c, rank)'
<1> DEFINE n == Target(pp_elem[c], p_key[c])
<1> SUFFICES ASSUME NEW rank \in [Nodes -> Nat \ {0}], Searched(c, rank), Chained(rank)
             PROVE  Searched(c, rank)'
  OBVIOUS
<1>1. /\ Allocated' = Allocated
      /\ \A m \in Allocated : KeyOf(m)' = KeyOf(m)
  BY DEF LinksStay, Allocated, KeyOf
<1>2. n # 0 =>
        /\ n \in Allocated /\ SameBucket(n, p_key[c])
        /\ KeyOf(n) # p_key[c] =>
             \A m \in Allocated :
               SameBucket(m, p_key[c]) /\ rank[m] <= rank[n] => KeyOf(m) # p_key[c]
  BY SearchGoesOn
<1>3. CASE pp_elem'[c] = pp_elem[c]
  BY <1>1, <1>3 DEF Searched, SameBucket
<1>4. CASE pp_elem'[c] = n /\ n # 0 /\ (KeyOf(n) # p_key[c] \/ pc'[c] \notin Searching)
  <2> HIDE DEF n
  <2> QED BY <1>1, <1>2, <1>4 DEF Searched, SameBucket
<1> QED BY <1>3, <1>4

\* Searches and stores leave every element where it is.
LEMMA SearchSteps ==
  ASSUME TableInv, NEW c \in Callers, Find(c) \/ Refind(c) \/ Store(c) \/ Get(c)
  PROVE  TableInv'
<1> USE TableNumbers DEF TableInv, Goto, tableVars, callVars, SetDone, Return
<1> DEFINE n == Target(pp_elem[c], p_key[c])
<1> DEFINE Kept ==
      /\ TableTypes' /\ LinksStay(c) /\ OthersStay(c) /\ Using(c)' /\ Found(c)'
      /\ UNCHANGED pp_ktable /\ pc'[c] # "create"
      /\ set \subseteq set' /\ \A k \in set' \ set :
           pp_ktable = "table" /\ \E m \in Allocated : KeyOf(m) = k
      /\ \A rank \in [Nodes -> Nat \ {0}] :
           Searched(c, rank) /\ Chained(rank) => Searched(c, rank)'
<1>1. Using(c) /\ Found(c)
  BY DEF TableThere, TableFound
<1>2. Allocated \subseteq Nodes
  BY DEF Allocated
<1> USE <1>1, <1>2
<1>3. ASSUME Find(c) PROVE Kept
  <2> USE <1>3 DEF Find
  <2>1. n # 0 => n \in Allocated
    BY SearchGoesOn DEF Searching
  <2>2. LinksStay(c) /\ elem' \in [Nodes -> [key_id : Keys \cup {0}, value : Callers \cup {Nobody},
                                       p_next : Nodes \cup {0}]]
    <3>1. value[c] # Nobody
      BY DEF Found
    <3>2. CASE elem' = elem
      BY <3>2 DEF LinksStay, TableTypes, TypeOK
    <3>3. CASE n # 0 /\ StoreValue(c, n)
      <4>1. p_elems' = p_elems /\ n \in Nodes
        BY <2>1, <3>3
      <4> HIDE DEF n
      <4> QED BY ONLY TableInv, <3>1, <3>3, <4>1, ValueStored
    <3> QED BY <3>2, <3>3
  <2>3. TableTypes'
    <3>1. pp_elem' \in [Callers -> Nodes \cup {0}]
      <4>1. \/ pp_elem' = pp_elem
            \/ pp_elem' = [pp_elem EXCEPT ![c] = n] /\ n \in Nodes
        BY <1>2, <2>1
      <4>2. pp_elem \in [Callers -> Nodes \cup {0}]
        BY DEF TableTypes, TypeOK
      <4> HIDE DEF n
      <4> QED BY ONLY <4>1, <4>2
    <3>2. /\ pc' \in [Callers -> TableLocations]
          /\ \A d \in Callers : lock' = d <=> pc'[d] \in {"refind", "insert", "unlock"}
      <4>1. /\ lock' = lock
            /\ \E l \in {"find", "lock", "idle"} : pc' = [pc EXCEPT ![c] = l] \/ pc' = pc
        OBVIOUS
      <4>2. /\ pc \in [Callers -> TableLocations] /\ pc[c] = "find"
            /\ \A d \in Callers : lock = d <=> pc[d] \in {"refind", "insert", "unlock"}
        BY DEF TableTypes, TypeOK, TableLocations
      <4> QED BY ONLY <4>1, <4>2 DEF TableLocations
    <3>3. set' \subseteq Keys
      BY DEF TableTypes, TypeOK, Found
    <3>4. UNCHANGED <<pp_ktable, p_elems, lock, p_key, p_ktable, value, known, result>>
      OBVIOUS
    <3> QED BY ONLY TableInv, <2>2, <3>1, <3>2, <3>3, <3>4
            DEF TableInv, TableTypes, TypeOK, TableLocations
  <2>4. OthersStay(c) /\ Using(c)' /\ Found(c)'
    BY DEF TableTypes, TypeOK, OthersStay, Using, Found, Starting, Working
  <2>7. \A rank \in [Nodes -> Nat \ {0}] :
          Searched(c, rank) /\ Chained(rank) => Searched(c, rank)'
    BY <2>2, SearchedOn DEF Searching, TableTypes, TypeOK, KeyOf
  <2> QED BY <2>1, <2>2, <2>3, <2>4, <2>7 DEF TableTypes, TypeOK, Using, KeyOf
<1>4. ASSUME Refind(c) PROVE Kept
  <2> USE <1>4 DEF Refind
  <2>1. n # 0 => n \in Allocated
    BY SearchGoesOn DEF Searching
  <2>2. LinksStay(c)
    BY DEF LinksStay
  <2>3. TableTypes'
    <3>1. pp_elem' \in [Callers -> Nodes \cup {0}]
      <4>1. \/ pp_elem' = pp_elem
            \/ pp_elem' = [pp_elem EXCEPT ![c] = n] /\ n \in Nodes
        BY <1>2, <2>1
      <4>2. pp_elem \in [Callers -> Nodes \cup {0}]
        BY DEF TableTypes, TypeOK
      <4> HIDE DEF n
      <4> QED BY ONLY <4>1, <4>2
    <3>2. pc' \in [Callers -> TableLocations]
          /\ \A d \in Callers : lock' = d <=> pc'[d] \in {"refind", "insert", "unlock"}
      <4>1. \/ pc' = pc /\ lock' = lock
            \/ pc' = [pc EXCEPT ![c] = "insert"] /\ lock' = lock
            \/ pc' = [pc EXCEPT ![c] = "store"] /\ lock' = Nobody
        BY DEF TableTypes, TypeOK
      <4>2. /\ pc \in [Callers -> TableLocations] /\ pc[c] = "refind"
            /\ \A d \in Callers : lock = d <=> pc[d] \in {"refind", "insert", "unlock"}
        BY DEF TableTypes, TypeOK, TableLocations
      <4> QED BY ONLY TableNumbers, <4>1, <4>2 DEF TableLocations
    <3>3. lock' \in Callers \cup {Nobody}
      BY DEF TableTypes, TypeOK
    <3>4. UNCHANGED <<pp_ktable, p_elems, elem, p_key, p_ktable, set, value, known, result>>
      OBVIOUS
    <3> QED BY ONLY TableInv, <3>1, <3>2, <3>3, <3>4 DEF TableInv, TableTypes, TypeOK, TableLocations
  <2>4. OthersStay(c) /\ Using(c)' /\ Found(c)'
    BY <2>1 DEF TableTypes, TypeOK, OthersStay, Using, Found, Starting, Working, KeyOf, Allocated, Target
  <2>7. \A rank \in [Nodes -> Nat \ {0}] :
          Searched(c, rank) /\ Chained(rank) => Searched(c, rank)'
    <3>1. n # 0 /\ KeyOf(n) = p_key[c] => pc'[c] \notin Searching
      BY <2>2 DEF Searching, Starting, TableTypes, TypeOK, KeyOf
    <3>2. pp_elem'[c] = pp_elem[c] \/ (pp_elem'[c] = n /\ n # 0)
      BY DEF TableTypes, TypeOK
    <3>3. pc[c] \in Searching /\ p_key'[c] = p_key[c]
      BY DEF Searching
    <3> QED BY ONLY TableInv, <2>2, <3>1, <3>2, <3>3, SearchedOn
  <2> QED BY <2>1, <2>2, <2>3, <2>4, <2>7 DEF TableTypes, TypeOK
<1>5. ASSUME Store(c) PROVE Kept
  <2> USE <1>5 DEF Store
  <2>1. pp_elem[c] \in Allocated /\ KeyOf(pp_elem[c]) = p_key[c]
    BY DEF Found
  <2>2. LinksStay(c) /\ elem' \in [Nodes -> [key_id : Keys \cup {0}, value : Callers \cup {Nobody},
                                       p_next : Nodes \cup {0}]]
    BY <2>1, ValueStored DEF Found
  <2>3. TableTypes'
    BY <2>2 DEF TableTypes, TypeOK, Found
  <2>4. OthersStay(c) /\ Using(c)' /\ Found(c)'
    BY DEF TableTypes, TypeOK, OthersStay, Using, Found, Starting, Working
  <2>5. pc'[c] \notin Searching
    BY DEF Searching, Starting, TableTypes, TypeOK
  <2> QED BY <2>1, <2>2, <2>3, <2>4, <2>5 DEF TableTypes, TypeOK, Using, KeyOf, Searched, Working
<1>6. ASSUME Get(c) PROVE Kept
  <2> USE <1>6 DEF Get
  <2>1. n # 0 => n \in Allocated
    BY SearchGoesOn DEF Searching
  <2>2. LinksStay(c)
    BY DEF LinksStay
  <2>3. TableTypes'
    <3>1. pp_elem' \in [Callers -> Nodes \cup {0}]
      <4>1. \/ pp_elem' = pp_elem
            \/ pp_elem' = [pp_elem EXCEPT ![c] = n] /\ n \in Nodes
        BY <1>2, <2>1
      <4>2. pp_elem \in [Callers -> Nodes \cup {0}]
        BY DEF TableTypes, TypeOK
      <4> HIDE DEF n
      <4> QED BY ONLY <4>1, <4>2
    <3>2. pc' \in [Callers -> TableLocations]
          /\ \A d \in Callers : lock' = d <=> pc'[d] \in {"refind", "insert", "unlock"}
      <4>1. \/ pc' = pc /\ lock' = lock
            \/ pc' = [pc EXCEPT ![c] = "idle"] /\ lock' = lock
        BY DEF TableTypes, TypeOK
      <4>2. /\ pc \in [Callers -> TableLocations] /\ pc[c] = "get"
            /\ \A d \in Callers : lock = d <=> pc[d] \in {"refind", "insert", "unlock"}
        BY DEF TableTypes, TypeOK, TableLocations
      <4> QED BY ONLY TableNumbers, <4>1, <4>2 DEF TableLocations
    <3>3. lock' \in Callers \cup {Nobody}
      BY DEF TableTypes, TypeOK
    <3>4. UNCHANGED <<pp_ktable, p_elems, elem, p_key, p_ktable, set, value, known>>
      OBVIOUS
    <3>5. result' \in [Callers -> Callers \cup {Nobody}]
      <4>1. \A m \in Nodes : elem[m].value \in Callers \cup {Nobody}
        BY DEF TableTypes, TypeOK
      <4>2. \E v \in Callers \cup {Nobody} : result' = [result EXCEPT ![c] = v] \/ result' = result
        BY <1>2, <2>1, <4>1
      <4> QED BY <4>2 DEF TableTypes
    <3> QED BY ONLY TableInv, <3>1, <3>2, <3>3, <3>4, <3>5
            DEF TableInv, TableTypes, TypeOK, TableLocations
  <2>4. OthersStay(c) /\ Using(c)' /\ Found(c)'
    BY <2>1 DEF TableTypes, TypeOK, OthersStay, Using, Found, Starting, Working, KeyOf, Allocated
  <2>7. \A rank \in [Nodes -> Nat \ {0}] :
          Searched(c, rank) /\ Chained(rank) => Searched(c, rank)'
    BY <2>2, SearchedOn DEF Searching, TableTypes, TypeOK, KeyOf
  <2> QED BY <2>1, <2>2, <2>3, <2>4, <2>7 DEF TableTypes, TypeOK
<1>7. Kept
  BY <1>3, <1>4, <1>5, <1>6
<1> QED BY <1>7, TableMoves

\* An insertion links a fresh element at the tail of the bucket of a key that has none.
LEMMA InsertStep == ASSUME TableInv, NEW c \in Callers, Insert(c) PROVE TableInv'
<1> USE TableNumbers DEF TableInv
<1>0. PICK t, k : t = pp_elem[c] /\ k = p_key[c]
  OBVIOUS
<1>1. /\ pc[c] = "insert" /\ pc' = [pc EXCEPT ![c] = "unlock"]
      /\ UNCHANGED <<pp_ktable, lock, p_key, value, known, p_ktable, pp_elem, set, result>>
  BY DEF Insert, Goto, callVars
<1>2. PICK new \in Nodes : new = NewNode /\ new \notin Allocated /\ new # 0
  <2>1. \E n \in Nodes : n \notin Allocated
    BY DEF Insert, Allocated
  <2> QED BY <2>1 DEF NewNode
<1>3. Allocated \subseteq Nodes
  BY DEF Allocated
<1>4. Using(c) /\ Found(c) /\ k \in Keys /\ Idx(k) \in 0..(Size - 1)
  BY <1>0, <1>1 DEF TableThere, TableFound, Found
<1>5. PICK rank \in [Nodes -> Nat \ {0}] :
        Chained(rank) /\ \A d \in Callers : Searched(d, rank)
  BY DEF TableLists
<1>6. t # 0 => t \in Allocated /\ SameBucket(t, k) /\ elem[t].p_next = 0
  BY <1>0, <1>1, <1>4, <1>5 DEF Searched, Searching, Found, Target
<1>7. t = 0 => p_elems[Idx(k)] = 0
  BY <1>0, <1>1, <1>4 DEF Found, Target
<1>8. \A m \in Allocated : KeyOf(m) # k
  BY <1>0, <1>1, <1>4, SearchGoesOn DEF Searching, Found
<1>9. /\ elem'[new] = [key_id |-> k, value |-> value[c], p_next |-> 0]
      /\ t # 0 => elem'[t] = [elem[t] EXCEPT !.p_next = new]
      /\ \A n \in Nodes \ {new, t} : elem'[n] = elem[n]
      /\ DOMAIN elem' = Nodes
      /\ elem' = [n \in Nodes |-> elem'[n]]
  <2>1. elem = [n \in Nodes |-> elem[n]]
    BY DEF TableTypes, TypeOK
  <2> QED BY <1>0, <1>1, <1>2, <1>3, <1>6, <2>1 DEF Insert, NewElem
<1>10. p_elems' = IF t = 0 THEN [p_elems EXCEPT ![Idx(k)] = new] ELSE p_elems
  BY <1>0, <1>2 DEF Insert
<1>11. /\ elem \in [Nodes -> [key_id : Keys \cup {0}, value : Callers \cup {Nobody},
                              p_next : Nodes \cup {0}]]
       /\ p_elems \in [0..(Size - 1) -> Nodes \cup {0}]
       /\ value \in [Callers -> Callers \cup {Nobody}]
       /\ pc \in [Callers -> TableLocations] /\ t \in Nodes \cup {0}
  BY <1>0 DEF TableTypes, TypeOK, TableLocations
<1>12. \A n \in Nodes :
        /\ elem'[n] \in [key_id : Keys \cup {0}, value : Callers \cup {Nobody},
                         p_next : Nodes \cup {0}]
        /\ KeyOf(n)' = IF n = new THEN k ELSE KeyOf(n)
        /\ elem'[n].p_next = IF n = new THEN 0 ELSE IF n = t THEN new ELSE elem[n].p_next
  <2>1. elem'[new] \in [key_id : Keys \cup {0}, value : Callers \cup {Nobody},
                       p_next : Nodes \cup {0}]
    BY <1>4, <1>9, <1>11
  <2>2. t # 0 => /\ elem'[t] \in [key_id : Keys \cup {0}, value : Callers \cup {Nobody},
                                  p_next : Nodes \cup {0}]
                 /\ elem'[t].p_next = new /\ elem'[t].key_id = elem[t].key_id
    BY <1>2, <1>9, <1>11
  <2> QED BY <1>2, <1>3, <1>6, <1>9, <1>11, <2>1, <2>2 DEF KeyOf
<1>13. Allocated' = Allocated \cup {new}
  BY <1>2, <1>4, <1>12 DEF Allocated, KeyOf
<1>14. TableTypes'
  <2>1. elem' \in [Nodes -> [key_id : Keys \cup {0}, value : Callers \cup {Nobody},
                            p_next : Nodes \cup {0}]]
    BY <1>9, <1>12
  <2>2. p_elems' \in [0..(Size - 1) -> Nodes \cup {0}]
    BY <1>2, <1>4, <1>10, <1>11
  <2>3. /\ pc' \in [Callers -> TableLocations]
        /\ \A d \in Callers : lock' = d <=> pc'[d] \in {"refind", "insert", "unlock"}
    BY <1>1, <1>11 DEF TableTypes, TypeOK, TableLocations
  <2> QED BY <1>1, <2>1, <2>2, <2>3 DEF TableTypes, TypeOK, TableLocations
<1>15. OneElemPerKey'
  <2>1. \A m, n \in Allocated : KeyOf(m) = KeyOf(n) => m = n
    BY DEF OneElemPerKey, KeyOf
  <2>2. \A m, n \in Allocated' : KeyOf(m)' = KeyOf(n)' => m = n
    BY ONLY <1>2, <1>3, <1>8, <1>12, <1>13, <2>1
  <2> QED BY <2>2 DEF OneElemPerKey, KeyOf
<1>16. TableThere' /\ TableKeeps'
  <2>1. TableThere'
    BY <1>1, <1>11 DEF TableThere, Using, Working
  <2>2. TableKeeps'
    BY <1>1, <1>2, <1>3, <1>12, <1>13 DEF TableKeeps
  <2> QED BY <2>1, <2>2
<1>17. TableFound'
  <2>1. ASSUME NEW d \in Callers, d # c PROVE Found(d)'
    <3>1. Found(d) /\ pc'[d] = pc[d]
      BY <1>1, <1>11, <2>1 DEF TableFound
    <3>2. pc[d] # "insert"
      BY <1>1, <2>1 DEF TableTypes, TypeOK
    <3>3. \A n \in Allocated : n \in Allocated' /\ KeyOf(n)' = KeyOf(n)
      BY <1>2, <1>3, <1>12, <1>13
    <3> QED BY ONLY <1>1, <3>1, <3>2, <3>3 DEF Found, KeyOf
  <2>2. Found(c)'
    BY <1>1, <1>2, <1>4, <1>0, <1>11, <1>12, <1>13 DEF Found, Starting
  <2> QED BY <2>1, <2>2 DEF TableFound
<1>18. TableLists'
  <2> DEFINE rank1 == [rank EXCEPT ![new] = IF t = 0 THEN 1 ELSE rank[t] + 1]
  <2>1. /\ rank1 \in [Nodes -> Nat \ {0}]
        /\ rank1[new] = IF t = 0 THEN 1 ELSE rank[t] + 1
        /\ \A n \in Nodes : rank[n] \in Nat \ {0} /\ (n # new => rank1[n] = rank[n])
    <3>1. \A n \in Nodes : rank[n] \in Nat \ {0} /\ rank[n] + 1 \in Nat \ {0}
      OBVIOUS
    <3> QED BY ONLY <1>2, <1>3, <1>6, <3>1, rank \in [Nodes -> Nat \ {0}]
  <2> HIDE DEF rank1
  <2>2. \A n \in Allocated : n \in Nodes /\ n # new /\ rank1[n] = rank[n] /\ KeyOf(n)' = KeyOf(n)
          /\ (n # t => elem'[n].p_next = elem[n].p_next)
    BY <1>2, <1>3, <1>12, <2>1
  <2>3. \A n \in Allocated : SameBucket(n, k) => t # 0 /\ rank[n] <= rank[t]
    BY <1>4, <1>5, <1>6, <1>7 DEF Chained, SameBucket
  <2>4. KeyOf(new)' = k /\ elem'[new].p_next = 0 /\ (t # 0 => elem'[t].p_next = new)
    BY <1>2, <1>3, <1>6, <1>9, <1>12
  <2>5. Chained(rank1)'
    <3>1. \A i \in 0..(Size - 1) : p_elems'[i] # 0 =>
             p_elems'[i] \in Allocated' /\ Idx(elem'[p_elems'[i]].key_id) = i /\ rank1[p_elems'[i]] = 1
      <4> SUFFICES ASSUME NEW i \in 0..(Size - 1), p_elems'[i] # 0
                   PROVE  /\ p_elems'[i] \in Allocated' /\ Idx(elem'[p_elems'[i]].key_id) = i
                          /\ rank1[p_elems'[i]] = 1
        OBVIOUS
      <4>1. CASE p_elems'[i] = p_elems[i]
        BY <1>5, <1>13, <2>2, <4>1 DEF Chained, KeyOf
      <4>2. CASE p_elems'[i] # p_elems[i]
        <5>1. t = 0 /\ i = Idx(k) /\ p_elems'[i] = new
          BY <1>4, <1>10, <1>11, <4>2
        <5> QED BY <1>13, <2>1, <2>4, <5>1 DEF KeyOf
      <4> QED BY <4>1, <4>2
    <3>2. \A n \in Allocated' :
            /\ p_elems'[Idx(KeyOf(n)')] # 0
            /\ p_elems'[Idx(KeyOf(n)')] = n \/ \E m \in Allocated' : elem'[m].p_next = n
      <4>1. CASE t = 0
        BY <1>2, <1>4, <1>5, <1>10, <1>11, <1>13, <2>2, <2>3, <2>4, <4>1 DEF Chained, SameBucket
      <4>2. CASE t # 0
        BY <1>2, <1>4, <1>5, <1>6, <1>10, <1>13, <2>2, <2>4, <4>2 DEF Chained, SameBucket
      <4> QED BY <4>1, <4>2
    <3>3. \A n \in Allocated' : elem'[n].p_next # 0 =>
              /\ elem'[n].p_next \in Allocated'
              /\ Idx(elem'[elem'[n].p_next].key_id) = Idx(KeyOf(n)')
              /\ rank1[elem'[n].p_next] = rank1[n] + 1
      <4> SUFFICES ASSUME NEW n \in Allocated', elem'[n].p_next # 0
                   PROVE  /\ elem'[n].p_next \in Allocated'
                          /\ Idx(elem'[elem'[n].p_next].key_id) = Idx(KeyOf(n)')
                          /\ rank1[elem'[n].p_next] = rank1[n] + 1
        OBVIOUS
      <4>1. n \in Allocated
        BY <1>13, <2>4
      <4>2. CASE n = t /\ t # 0
        BY <1>6, <1>13, <2>1, <2>2, <2>4, <4>1, <4>2 DEF KeyOf, SameBucket
      <4>3. CASE n # t
        BY <1>5, <1>13, <2>2, <4>1, <4>3 DEF Chained, KeyOf, SameBucket
      <4> QED BY <1>3, <4>1, <4>2, <4>3
    <3>4. \A m, n \in Allocated' : Idx(KeyOf(m)') = Idx(KeyOf(n)') =>
            /\ rank1[m] = rank1[n] => m = n
            /\ elem'[m].p_next = 0 => rank1[n] <= rank1[m]
      <4> SUFFICES ASSUME NEW m \in Allocated', NEW n \in Allocated',
                          Idx(KeyOf(m)') = Idx(KeyOf(n)')
                   PROVE  /\ rank1[m] = rank1[n] => m = n
                          /\ elem'[m].p_next = 0 => rank1[n] <= rank1[m]
        OBVIOUS
      <4>1. \A i, j \in Nat : i <= j => i < j + 1 /\ i # j + 1
        OBVIOUS
      <4>2. \A l \in Allocated : SameBucket(l, k) => rank1[l] < rank1[new] /\ rank1[l] # rank1[new]
        <5> SUFFICES ASSUME NEW l \in Allocated, SameBucket(l, k)
                     PROVE  rank1[l] < rank1[new] /\ rank1[l] # rank1[new]
          OBVIOUS
        <5>1. t # 0 /\ rank[l] <= rank[t] /\ rank1[l] = rank[l] /\ rank1[new] = rank[t] + 1
          BY <2>1, <2>2, <2>3
        <5>2. rank[l] \in Nat /\ rank[t] \in Nat
          BY <1>3, <1>6, <2>1, <5>1
        <5> QED BY ONLY <4>1, <5>1, <5>2
      <4>3. CASE m = new /\ n = new
        <5>1. \A i \in Nat : i <= i
          OBVIOUS
        <5>2. rank1[new] \in Nat
          BY <2>1
        <5> QED BY <4>3, <5>1, <5>2
      <4>4. CASE m = new /\ n # new
        BY <1>13, <2>1, <2>2, <2>4, <4>2, <4>4 DEF SameBucket
      <4>5. CASE m # new /\ n = new
        <5>1. m \in Allocated /\ SameBucket(m, k)
          BY <1>13, <2>2, <2>4, <4>5 DEF SameBucket
        <5>2. elem'[m].p_next # 0
          <6>1. CASE m = t
            BY <1>2, <2>3, <2>4, <5>1, <6>1
          <6>2. CASE m # t
            <7>1. t \in Allocated /\ SameBucket(t, k) /\ rank[m] <= rank[t] /\ elem[t].p_next = 0
              BY <1>6, <2>3, <5>1
            <7>2. elem[m].p_next = 0 => rank[t] <= rank[m]
              BY <1>5, <5>1, <7>1 DEF Chained, SameBucket
            <7>3. \A i, j \in Nat : i <= j /\ j <= i => i = j
              OBVIOUS
            <7>4. rank[m] = rank[t] => m = t
              BY <1>5, <5>1, <7>1 DEF Chained, SameBucket
            <7>5. elem[m].p_next # 0
              BY <1>3, <2>1, <5>1, <6>2, <7>1, <7>2, <7>3, <7>4
            <7> QED BY <2>2, <5>1, <6>2, <7>5
          <6> QED BY <6>1, <6>2
        <5> QED BY <4>2, <4>5, <5>1, <5>2
      <4>6. CASE m # new /\ n # new
        <5>1. m \in Allocated /\ n \in Allocated /\ SameBucket(m, KeyOf(n))
          BY <1>13, <2>2, <4>6 DEF SameBucket
        <5>2. elem'[m].p_next = 0 => elem[m].p_next = 0
          BY <1>2, <1>6, <2>2, <2>4, <5>1
        <5> QED BY <1>5, <2>2, <5>1, <5>2 DEF Chained
      <4> QED BY <4>3, <4>4, <4>5, <4>6
    <3> QED BY <3>1, <3>2, <3>3, <3>4 DEF Chained, KeyOf, SameBucket
  <2>6. \A d \in Callers : Searched(d, rank1)'
    <3> SUFFICES ASSUME NEW d \in Callers, d # c PROVE Searched(d, rank1)'
      BY <1>1, <1>11 DEF Searched, Searching, Starting
    <3>1. Searched(d, rank) /\ pc'[d] = pc[d]
      BY <1>1, <1>5, <1>11
    <3>2. ASSUME pc[d] \in Searching, pp_elem[d] # 0
          PROVE  /\ pp_elem[d] \in Allocated /\ SameBucket(pp_elem[d], p_key[d])
                 /\ rank1[pp_elem[d]] = rank[pp_elem[d]]
                 /\ Idx(k) = Idx(p_key[d]) => ~(rank1[new] <= rank1[pp_elem[d]])
      <4>1. pp_elem[d] \in Allocated /\ SameBucket(pp_elem[d], p_key[d])
        BY <3>1, <3>2 DEF Searched
      <4>2. Idx(k) = Idx(p_key[d]) => t # 0 /\ rank[pp_elem[d]] <= rank[t]
        BY <2>3, <4>1 DEF SameBucket
      <4>3. \A m, n \in Nat : m <= n => ~(n + 1 <= m)
        OBVIOUS
      <4>4. rank[pp_elem[d]] \in Nat /\ (t # 0 => rank[t] \in Nat)
        BY <1>3, <1>6, <4>1
      <4> QED BY <2>1, <2>2, <4>1, <4>2, <4>3, <4>4
    <3>3. pp_elem' = pp_elem /\ p_key' = p_key
      BY <1>1
    <3>4. ASSUME pc[d] \in Searching, pp_elem[d] # 0, NEW n \in Allocated',
                 Idx(KeyOf(n)') = Idx(p_key[d]), rank1[n] <= rank1[pp_elem[d]]
          PROVE  KeyOf(n)' # p_key[d]
      <4>1. n # new
        BY <2>4, <3>2, <3>4
      <4>2. n \in Allocated /\ KeyOf(n)' = KeyOf(n) /\ rank1[n] = rank[n]
        BY <1>13, <2>2, <3>4, <4>1
      <4>3. SameBucket(n, p_key[d]) /\ rank[n] <= rank[pp_elem[d]]
        BY <3>2, <3>4, <4>2 DEF SameBucket
      <4> QED BY ONLY <3>1, <3>4, <4>2, <4>3 DEF Searched
    <3>5. pc[d] \in Searching /\ pp_elem[d] # 0 =>
            /\ pp_elem[d] \in Allocated' /\ Idx(elem'[pp_elem[d]].key_id) = Idx(p_key[d])
      BY <1>13, <2>2, <3>2 DEF SameBucket, KeyOf
    <3> QED BY ONLY <3>1, <3>3, <3>4, <3>5 DEF Searched, SameBucket, KeyOf
  <2> QED BY <2>1, <2>5, <2>6 DEF TableLists
<1>19. ValuesSet'
  <2>1. value[c] # Nobody
    BY <1>1, <1>4 DEF Found
  <2>2. elem'[new].value # Nobody
    BY <1>9, <2>1
  <2>3. \A n \in Allocated : elem'[n].value = elem[n].value
    <3>1. \A n \in Nodes : n # new => elem'[n].value = elem[n].value
      BY <1>2, <1>9, <1>11
    <3> QED BY <1>2, <1>3, <3>1
  <2> QED BY <1>13, <2>2, <2>3 DEF ValuesSet
<1> QED BY <1>14, <1>15, <1>16, <1>17, <1>18, <1>19

\* No step of any caller breaks the table.
LEMMA TableStep == TableInv /\ [Next]_vars => TableInv'
<1> SUFFICES ASSUME TableInv, [Next]_vars PROVE TableInv'
  OBVIOUS
<1>1. ASSUME NEW c \in Callers, NEW k \in Keys, Call(c, k, "set") \/ Call(c, k, "get")
      PROVE  TableInv'
  BY <1>1, PlainSteps
<1>2. ASSUME NEW c \in Callers, SetStep(c) PROVE TableInv'
  BY <1>2, PlainSteps, SearchSteps, InsertStep DEF SetStep
<1>3. ASSUME NEW c \in Callers, Get(c) PROVE TableInv'
  BY <1>3, SearchSteps
<1>4. CASE UNCHANGED vars
  <2> USE <1>4 DEF vars, TableInv
  <2>1. TableTypes' /\ ValuesSet' /\ OneElemPerKey'
    BY DEF TableTypes, TypeOK, ValuesSet, Allocated, OneElemPerKey
  <2>2. TableLists'
    BY DEF TableLists, Chained, Searched, SameBucket, KeyOf, Allocated
  <2>3. TableThere' /\ TableFound' /\ TableKeeps'
    BY DEF TableThere, Using, TableFound, Found, Target, TableKeeps, KeyOf, Allocated
  <2> QED BY <2>1, <2>2, <2>3
<1> QED BY <1>1, <1>2, <1>3, <1>4 DEF Next, Terminated

\* The invariant says of the lists what the run checks.
LEMMA TableSafe == TableInv => TableIntact
<1> SUFFICES ASSUME TableInv PROVE TableIntact
  OBVIOUS
<1> USE TableNumbers DEF TableInv
<1>1. PICK rank \in [Nodes -> Nat \ {0}] : Chained(rank)
  BY DEF TableLists
<1>2. ASSUME NEW n \in Allocated PROVE Cardinality(Places(n)) = 1
  <2>1. Allocated \subseteq Nodes /\ 0 \notin Allocated
    BY DEF Allocated
  <2>2. \E x : Places(n) = {x}
    <3>1. CASE p_elems[Idx(KeyOf(n))] = n
      <4>1. rank[n] = 1
        <5>1. KeyOf(n) \in Keys \cup {0}
          BY <2>1 DEF KeyOf, TableTypes, TypeOK
        <5>2. p_elems[Idx(KeyOf(n))] # 0 /\ Idx(KeyOf(n)) \in 0..(Size - 1)
          BY <2>1, <3>1, <5>1
        <5> QED BY <1>1, <3>1, <5>2 DEF Chained
      <4>2. \A m \in Allocated : elem[m].p_next = n => rank[n] = rank[m] + 1
        BY <1>1, <2>1 DEF Chained
      <4>3. \A i \in Nat \ {0} : i + 1 # 1
        OBVIOUS
      <4>4. \A m \in Allocated : rank[m] \in Nat \ {0}
        BY <2>1
      <4>5. \A m \in Allocated : elem[m].p_next # n
        BY <4>1, <4>2, <4>3, <4>4
      <4>6. Places(n) = {0}
        BY <3>1, <4>5 DEF Places, KeyOf
      <4> QED BY <4>6
    <3>2. CASE p_elems[Idx(KeyOf(n))] # n
      <4>1. PICK m \in Allocated : elem[m].p_next = n
        BY <1>1, <3>2 DEF Chained
      <4>2. \A l \in Allocated : elem[l].p_next = n =>
              rank[n] = rank[l] + 1 /\ SameBucket(n, KeyOf(l))
        BY <1>1, <2>1 DEF Chained
      <4>3. \A l \in Allocated : elem[l].p_next = n => l = m
        <5> SUFFICES ASSUME NEW l \in Allocated, elem[l].p_next = n PROVE l = m
          OBVIOUS
        <5>1. rank[l] + 1 = rank[m] + 1 /\ SameBucket(l, KeyOf(m))
          BY <4>1, <4>2 DEF SameBucket
        <5>2. rank[l] \in Nat /\ rank[m] \in Nat
          BY <2>1
        <5>3. rank[l] = rank[m]
          BY ONLY <5>1, <5>2
        <5> QED BY <1>1, <5>1, <5>3 DEF Chained
      <4>4. Places(n) = {m}
        BY <3>2, <4>1, <4>3 DEF Places, KeyOf
      <4> QED BY <4>4
    <3> QED BY <3>1, <3>2
  <2> QED BY <2>2, FS_Singleton
<1> QED BY <1>2 DEF TableIntact, NoElemLost, TableTypes

\* A get that finds nothing has been through the whole bucket of its key.
LEMMA GetSeesAll ==
  TableInv /\ [Next]_vars =>
    \A c \in Callers : pc[c] = "get" /\ pc'[c] = "idle" /\ result'[c] = Nobody => ~known[c]
<1> SUFFICES ASSUME TableInv, [Next]_vars, NEW c \in Callers,
                    pc[c] = "get", pc'[c] = "idle", result'[c] = Nobody, known[c]
             PROVE  FALSE
  BY DEF TableInv, TableTypes
<1> USE DEF TableInv
<1>1. Get(c)
  <2>1. pc \in [Callers -> TableLocations] /\ pc'[c] # pc[c]
    BY DEF TableTypes, TypeOK, TableLocations
  <2>2. ASSUME NEW d \in Callers, NEW k \in Keys, Call(d, k, "set") \/ Call(d, k, "get")
        PROVE  FALSE
    BY <2>1, <2>2 DEF Call, Goto
  <2>3. ASSUME NEW d \in Callers, SetStep(d) PROVE FALSE
    <3>1. pc[d] # "get" /\ (pc' = pc \/ \E l : pc' = [pc EXCEPT ![d] = l])
      BY <2>3 DEF SetStep, SetBegin, Cas, CreateTable, CreateFails, Reload, Spin, Find, Crash,
                  Lock, Refind, Store, Insert, InsertFails, Unlock, Goto, SetDone
    <3> QED BY <2>1, <3>1
  <2>4. ASSUME NEW d \in Callers, Get(d) PROVE d = c
    BY <2>1, <2>4 DEF Get, Goto, Return
  <2> QED BY <2>1, <2>2, <2>3, <2>4 DEF Next, Terminated, vars
<1>2. pp_ktable = "table" /\ \E n \in Allocated : KeyOf(n) = p_key[c]
  BY DEF TableFound, Found, TableKeeps
<1>3. Target(pp_elem[c], p_key[c]) # 0
  BY <1>2, SearchGoesOn DEF Searching
<1>4. \A n \in Allocated : elem[n].value # Nobody
  BY DEF ValuesSet
<1>5. Target(pp_elem[c], p_key[c]) \in Allocated
  BY <1>3, SearchGoesOn DEF Searching
<1>6. \E v : result' = [result EXCEPT ![c] = v] /\ v # Nobody
  BY <1>1, <1>2, <1>3, <1>4, <1>5 DEF Get, Return, TableTypes, TypeOK
<1> QED BY <1>6 DEF TableTypes, TypeOK

------------------------------------------------------------------------------
(* Migration requests *)

ReqLocations == {"idle", "get_mig_data", "ktable_set", "store", "set_request"}

MigrationTypes ==
    /\ Mig!TypeOK
    /\ hpc \in {"running", "get_mig_data", "load", "set_associated_pool", "unset_request", "push"}
    /\ hdata \in Mig!MigData \cup {Nobody} /\ hpool \in Pools \cup {Nobody}
    /\ answer \in [Requesters -> {"none", "SUCCESS", "ERR_MIGRATION_TARGET", "ERR_MIGRATION_NA"}]

\* A requester works on the structure that is installed, and asks for the migration only
\* when the structure has a target.
RequesterReady(r) ==
    /\ req_pc[r] # "idle" => target[r] \in Pools
    /\ req_pc[r] = "ktable_set" => p_mig_data = Nobody
    /\ req_pc[r] \in {"store", "set_request"} => data[r] = p_mig_data /\ p_mig_data # Nobody
    /\ req_pc[r] = "set_request" => p_migration_pool[p_mig_data] # Nobody

\* So the handler of a request finds the structure, and the target in it.
HandlerReady ==
    /\ request \/ hpc = "get_mig_data" =>
         p_mig_data # Nobody /\ p_migration_pool[p_mig_data] # Nobody
    /\ hpc = "load" => hdata = p_mig_data /\ p_mig_data # Nobody /\ p_migration_pool[hdata] # Nobody
    /\ hpc = "set_associated_pool" => hpool \in Pools

MigrationInv ==
    /\ MigrationTypes /\ HandlerReady /\ \A r \in Requesters : RequesterReady(r)
    /\ HasData => p_mig_data # Nobody

\* Nobody's structure is replaced: ABT_thread_set_callback has installed one before, or there
\* is one requester only.
OneStructure == HasData \/ \A r, s \in Requesters : r = s

\* At first there is no request.
LEMMA MigrationStart == Mig!Init => MigrationInv
<1> SUFFICES ASSUME Mig!Init PROVE MigrationInv
  OBVIOUS
<1> USE DataAssumption DEF Mig!MigrationConstants, Mig!Init, Mig!MigData
<1>1. Mig!TypeOK
  BY DEF Mig!TypeOK
<1>2. HandlerReady /\ MigrationTypes
  BY <1>1 DEF HandlerReady, MigrationTypes
<1>3. \A r \in Requesters : RequesterReady(r)
  BY DEF RequesterReady
<1> QED BY <1>2, <1>3 DEF MigrationInv

\* No step of a requester or of the handler leaves a request without its target.
LEMMA MigrationStep == OneStructure /\ MigrationInv /\ [Mig!Next]_(Mig!vars) => MigrationInv'
<1> SUFFICES ASSUME OneStructure, MigrationInv, [Mig!Next]_(Mig!vars) PROVE MigrationInv'
  OBVIOUS
<1> USE DEF MigrationInv, Mig!Goto, Mig!ultVars, Mig!reqVars
<1>0. /\ \A x \in Xstreams : OwnPools[x] \in Seq(Pools) /\ OwnPools[x] # <<>>
      /\ Nobody \notin Requesters \cup {"ES", "cb"} \cup Pools \cup Xstreams
  BY DataAssumption DEF Mig!MigrationConstants
<1>a. \A x \in Xstreams : Mig!MigrationPool(x) \in Pools
  BY <1>0 DEF Mig!MigrationPool
<1>1. ASSUME NEW r \in Requesters, Mig!Begin(r) PROVE MigrationInv'
  <2>1. /\ \/ \E p \in Pools : target' = [target EXCEPT ![r] = p] /\ req_pc' = [req_pc EXCEPT ![r] = "get_mig_data"]
                              /\ answer' = answer
           \/ \E e \in {"ERR_MIGRATION_TARGET", "ERR_MIGRATION_NA"} :
                answer' = [answer EXCEPT ![r] = e] /\ UNCHANGED <<target, req_pc>>
        /\ UNCHANGED <<p_pool, p_last_xstream, hpc, hdata, hpool, request, p_mig_data, p_migration_pool, data, last>>
        /\ req_pc[r] = "idle"
    BY <1>1, <1>a DEF Mig!Begin, Mig!MigrateToPool, Mig!MigrateToXstream, Mig!Migrate, Mig!Call,
                      Mig!Request, Mig!Fail
  <2> HIDE <1>1
  <2>2. MigrationTypes'
    BY <2>1 DEF MigrationTypes, Mig!TypeOK
  <2>3. HandlerReady'
    BY <2>1 DEF HandlerReady
  <2>4. \A s \in Requesters : RequesterReady(s)'
    BY <2>1 DEF RequesterReady, MigrationTypes, Mig!TypeOK
  <2> QED BY <2>1, <2>2, <2>3, <2>4
<1>2. ASSUME NEW r \in Requesters, Mig!GetMigData(r) PROVE MigrationInv'
  <2> USE <1>2 DEF Mig!GetMigData
  <2>2. MigrationTypes'
    BY DEF MigrationTypes, Mig!TypeOK
  <2>3. HandlerReady'
    BY DEF HandlerReady
  <2>4. \A s \in Requesters : RequesterReady(s)'
    BY DEF RequesterReady, MigrationTypes, Mig!TypeOK
  <2> QED BY <2>2, <2>3, <2>4
<1>3. ASSUME NEW r \in Requesters, Mig!KtableSet(r) PROVE MigrationInv'
  <2> USE <1>3 DEF Mig!KtableSet
  <2>1. p_mig_data = Nobody /\ \A s \in Requesters : s = r
    BY DEF RequesterReady, OneStructure
  <2>2. MigrationTypes'
    BY DEF MigrationTypes, Mig!TypeOK, Mig!MigData
  <2>3. HandlerReady'
    BY <2>1 DEF HandlerReady, MigrationTypes, Mig!TypeOK
  <2>4. \A s \in Requesters : RequesterReady(s)'
    BY <1>0, <2>1 DEF RequesterReady, MigrationTypes, Mig!TypeOK
  <2> QED BY <1>0, <2>2, <2>3, <2>4
<1>4. ASSUME NEW r \in Requesters, Mig!StorePool(r) PROVE MigrationInv'
  <2> USE <1>4 DEF Mig!StorePool
  <2>1. data[r] \in Mig!MigData /\ data[r] = p_mig_data /\ target[r] \in Pools
    BY DEF RequesterReady, MigrationTypes, Mig!TypeOK
  <2>2. MigrationTypes'
    BY <2>1 DEF MigrationTypes, Mig!TypeOK
  <2>3. HandlerReady'
    BY <1>0, <2>1 DEF HandlerReady, MigrationTypes, Mig!TypeOK
  <2>4. \A s \in Requesters : RequesterReady(s)'
    BY <1>0, <2>1 DEF RequesterReady, MigrationTypes, Mig!TypeOK
  <2> QED BY <2>2, <2>3, <2>4
<1>5. ASSUME NEW r \in Requesters, Mig!SetRequest(r) PROVE MigrationInv'
  <2> USE <1>5 DEF Mig!SetRequest
  <2>2. MigrationTypes'
    BY DEF MigrationTypes, Mig!TypeOK, RequesterReady
  <2>3. HandlerReady'
    BY DEF HandlerReady, RequesterReady
  <2>4. \A s \in Requesters : RequesterReady(s)'
    BY DEF RequesterReady, MigrationTypes, Mig!TypeOK
  <2> QED BY <2>2, <2>3, <2>4
<1>6. ASSUME Mig!UltStep PROVE MigrationInv'
  <2>1. MigrationTypes'
    BY <1>6 DEF MigrationTypes, Mig!TypeOK, Mig!UltStep, Mig!Yield, Mig!HandlerGetMigData,
          Mig!LoadPool, Mig!SetAssociatedPool, Mig!UnsetRequest, Mig!Schedule, HandlerReady, Mig!MigData
  <2>2. HandlerReady'
    BY <1>6 DEF MigrationTypes, Mig!TypeOK, Mig!UltStep, Mig!Yield, Mig!HandlerGetMigData,
          Mig!LoadPool, Mig!SetAssociatedPool, Mig!UnsetRequest, Mig!Schedule, HandlerReady
  <2>3. UNCHANGED <<req_pc, data, target, p_mig_data, p_migration_pool>>
    BY <1>6 DEF MigrationTypes, Mig!TypeOK, Mig!UltStep, Mig!Yield, Mig!HandlerGetMigData,
          Mig!LoadPool, Mig!SetAssociatedPool, Mig!UnsetRequest, Mig!Schedule, HandlerReady
  <2>4. \A s \in Requesters : RequesterReady(s)'
    BY <2>3 DEF RequesterReady
  <2> QED BY <2>1, <2>2, <2>3, <2>4
<1>7. CASE UNCHANGED Mig!vars
  BY <1>7 DEF Mig!vars, MigrationTypes, Mig!TypeOK, HandlerReady, RequesterReady
<1> QED BY <1>1, <1>2, <1>3, <1>4, <1>5, <1>6, <1>7 DEF Mig!Next, Mig!Proceed

------------------------------------------------------------------------------
(* Both *)

DataInv == TableInv /\ (OneStructure => MigrationInv)

\* A step of DataSpec is a step of one of the two structures, or of neither.
LEMMA DataSteps ==
  [DataNext]_<<kind, vars, migVars>> => [Next]_vars /\ [Mig!Next]_(Mig!vars)
BY DEF DataNext, vars, migVars, Mig!vars

\* The invariant of both structures holds in every state that can be reached.
THEOREM DataInvariance == DataSpec => []DataInv
<1>1. DataInit => DataInv
  BY TableInit, MigrationStart DEF DataInit, DataInv
<1>2. DataInv /\ [DataNext]_<<kind, vars, migVars>> => DataInv'
  BY TableStep, MigrationStep, DataSteps DEF DataInv, OneStructure
<1> QED BY <1>1, <1>2, PTL DEF DataSpec

\* ABTI_ktable_set and thread.c: whatever callers add to the table at the same time and
\* whatever allocation fails, it holds every key once and loses no element; the handler of a
\* migration request finds its target, unless two first requests install a structure each.
THEOREM DataStaysIntact ==
  ASSUME OneStructure
  PROVE  DataSpec => []DataIntact
<1>1. DataInv => DataIntact
  BY TableSafe, DataAssumption
     DEF DataInv, DataIntact, MigrationInv, MigrationTypes, HandlerReady, Mig!HandlerHasTarget,
         Mig!MigrationConstants
<1> QED BY <1>1, DataInvariance, PTL

\* ABTI_ktable_get: a lookup finds a key whose set had returned before it began, although it
\* takes no lock.
THEOREM SetIsFound == DataSpec => GetFindsSet
<1>1. DataInv /\ [DataNext]_<<kind, vars, migVars>> =>
        [\A c \in Callers :
           pc[c] = "get" /\ pc'[c] = "idle" /\ result'[c] = Nobody => ~known[c]]_vars
  BY GetSeesAll, DataSteps DEF DataInv
<1> QED BY <1>1, DataInvariance, PTL DEF DataSpec, GetFindsSet
===============================================================================
