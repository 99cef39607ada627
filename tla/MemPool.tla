-------------------------------- MODULE MemPool -------------------------------
(***************************************************************************)
(* The memory pool for stacks and descriptors (src/mem/mem_pool.c,         *)
(* src/include/abti_mem_pool.h): every execution stream owns a local pool  *)
(* of a few buckets of headers and exchanges full buckets with a global    *)
(* pool, which cuts new ones out of pages.                                 *)
(*                                                                         *)
(* A header is a number; a bucket is the list of its headers with the      *)
(* count kept in the first of them.  In bucket_lifo the LIFO link lies     *)
(* over the count, so a bucket there is a list only.  The two LIFOs are    *)
(* the atomic stacks of SyncLifoSpec, which SyncLifo.tla implements.       *)
(* Local pools are used by one execution stream each, so one access to the *)
(* global pool is one step.                                                *)
(***************************************************************************)
EXTENDS Integers, Sequences, SequencesExt, FiniteSets

CONSTANTS Pools,        \* the local pools
          NULL,
          PerBucket,    \* num_headers_per_bucket
          MaxLocal,     \* ABT_MEM_POOL_MAX_LOCAL_BUCKETS
          PageHeaders,  \* headers that fit into a page
          MaxPages,     \* bound: pages the operating system can give
          MaxCalls      \* bound: calls

MemPoolConstants ==
    /\ PerBucket \in Nat \ {0} /\ MaxLocal \in Nat \ {0, 1}
    /\ PageHeaders \in Nat \ {0} /\ MaxPages \in Nat /\ MaxCalls \in Nat

Headers == 1..(PageHeaders * MaxPages)
Bucket == [hs : Seq(Headers), n : 1..PerBucket]

VARIABLES bucket_lifo,     \* full buckets, as lists of headers
          mem_page_lifo,   \* pages with memory left: [first, left] of the unused part
          mem_page_empty,  \* number of pages that are used up
          partial_bucket,  \* a bucket, or NULL
          buckets,         \* buckets[0 .. bucket_index] of each local pool; <<>>: no pool
          pc, op, p_head, p_page,    \* the locals of each pool's stream
          held,            \* headers handed out by ABTI_mem_pool_alloc
          pages, calls

vars == <<bucket_lifo, mem_page_lifo, mem_page_empty, partial_bucket, buckets, pc, op,
          p_head, p_page, held, pages, calls>>
global == <<bucket_lifo, mem_page_lifo, mem_page_empty, partial_bucket, pages>>
locals == <<op, p_head, p_page>>

NoPage == [first |-> 0, left |-> 0]

Init ==
    /\ bucket_lifo = <<>> /\ mem_page_lifo = <<>> /\ mem_page_empty = 0
    /\ partial_bucket = NULL
    /\ buckets = [p \in Pools |-> <<>>]
    /\ pc = [p \in Pools |-> "idle"]
    /\ op = [p \in Pools |-> "none"]
    /\ p_head = [p \in Pools |-> <<>>]
    /\ p_page = [p \in Pools |-> NoPage]
    /\ held = {}
    /\ pages = 0 /\ calls = MaxCalls

Goto(p, l) == pc' = [pc EXCEPT ![p] = l]
Call(p) == pc[p] = "idle" /\ calls > 0 /\ calls' = calls - 1
SetBuckets(p, bs) == buckets' = [buckets EXCEPT ![p] = bs]
ReturnBucket(hs) == bucket_lifo' = <<hs>> \o bucket_lifo
AtLeast1(k) == IF k < 1 THEN 1 ELSE k
------------------------------------------------------------------------------
(* mem_pool_return_partial_bucket, under partial_bucket_lock *)

\* The headers of the partial bucket are found by counting along p_next, at least one;
\* what the partial bucket keeps gets the count the code computes.
ReturnPartial(b) ==
    LET part == partial_bucket
        sum  == part.n + b.n
        k    == AtLeast1(PerBucket - b.n)
    IN  \/ /\ part = NULL
           /\ partial_bucket' = b
           /\ UNCHANGED bucket_lifo
        \/ /\ part # NULL /\ sum < PerBucket
           /\ partial_bucket' = [hs |-> SubSeq(part.hs, 1, AtLeast1(part.n)) \o b.hs, n |-> sum]
           /\ UNCHANGED bucket_lifo
        \/ /\ part # NULL /\ sum >= PerBucket
           /\ ReturnBucket(SubSeq(part.hs, 1, k) \o b.hs)
           /\ partial_bucket' = IF sum = PerBucket THEN NULL
                                ELSE [hs |-> SubSeq(part.hs, k + 1, Len(part.hs)),
                                      n |-> PerBucket - sum]
------------------------------------------------------------------------------
(* ABTI_mem_pool_take_bucket *)

\* The new bucket becomes buckets[0]; an allocation hands out the last header before.
Taken(p, hs) ==
    /\ SetBuckets(p, <<[hs |-> hs, n |-> PerBucket]>>)
    /\ held' = IF op[p] = "alloc" THEN held \cup {buckets[p][1].hs[1]} ELSE held
    /\ Goto(p, "idle")

PopBucket(p) ==
    /\ pc[p] = "take"
    /\ IF bucket_lifo # <<>>
         THEN Taken(p, Head(bucket_lifo)) /\ bucket_lifo' = Tail(bucket_lifo)
         ELSE Goto(p, "page") /\ UNCHANGED <<bucket_lifo, buckets, held>>
    /\ p_head' = [p_head EXCEPT ![p] = <<>>]
    /\ UNCHANGED <<mem_page_lifo, mem_page_empty, partial_bucket, pages, op, p_page, calls>>

PopPage(p) ==
    /\ pc[p] = "page"
    /\ IF mem_page_lifo # <<>>
         THEN /\ p_page' = [p_page EXCEPT ![p] = Head(mem_page_lifo)]
              /\ mem_page_lifo' = Tail(mem_page_lifo)
              /\ Goto(p, "carve")
         ELSE Goto(p, "largepage") /\ UNCHANGED <<p_page, mem_page_lifo>>
    /\ UNCHANGED <<bucket_lifo, mem_page_empty, partial_bucket, pages, buckets, op, p_head, held, calls>>

\* ABTU_alloc_largepage, from the operating system.
LargePage(p) ==
    /\ pc[p] = "largepage" /\ pages < MaxPages
    /\ pages' = pages + 1
    /\ p_page' = [p_page EXCEPT ![p] = [first |-> pages * PageHeaders + 1, left |-> PageHeaders]]
    /\ Goto(p, "carve")
    /\ UNCHANGED <<bucket_lifo, mem_page_lifo, mem_page_empty, partial_bucket, buckets, op,
                   p_head, held, calls>>

LargePageFails(p) ==
    /\ pc[p] = "largepage"
    /\ IF p_head[p] # <<>>
         THEN ReturnPartial([hs |-> p_head[p], n |-> Len(p_head[p])])
         ELSE UNCHANGED <<bucket_lifo, partial_bucket>>
    /\ p_head' = [p_head EXCEPT ![p] = <<>>]
    /\ Goto(p, "idle")
    /\ UNCHANGED <<mem_page_lifo, mem_page_empty, pages, buckets, op, p_page, held, calls>>

Provided(p) ==
    LET required == PerBucket - Len(p_head[p]) IN
    IF required < p_page[p].left THEN required ELSE p_page[p].left

\* Cut headers out of the page, give the page back, and link them before p_head.
Carve(p) ==
    LET k    == Provided(p)
        page == p_page[p]
        hs   == Reverse([i \in 1..k |-> page.first + i - 1]) \o p_head[p]
    IN  /\ pc[p] = "carve"
        /\ IF page.left > k
             THEN /\ mem_page_lifo' = <<[first |-> page.first + k, left |-> page.left - k]>> \o mem_page_lifo
                  /\ UNCHANGED mem_page_empty
             ELSE mem_page_empty' = mem_page_empty + 1 /\ UNCHANGED mem_page_lifo
        /\ IF Len(hs) = PerBucket
             THEN Taken(p, hs) /\ p_head' = [p_head EXCEPT ![p] = <<>>]
             ELSE Goto(p, "page") /\ p_head' = [p_head EXCEPT ![p] = hs] /\ UNCHANGED <<buckets, held>>
        /\ p_page' = [p_page EXCEPT ![p] = NoPage]
        /\ UNCHANGED <<bucket_lifo, partial_bucket, pages, op, calls>>
------------------------------------------------------------------------------
(* The local pools *)

\* ABTI_mem_pool_init_local_pool
InitLocal(p) ==
    /\ Call(p) /\ buckets[p] = <<>>
    /\ op' = [op EXCEPT ![p] = "init"]
    /\ Goto(p, "take")
    /\ UNCHANGED <<global, buckets, p_head, p_page, held>>

\* ABTI_mem_pool_alloc
Alloc(p) ==
    LET cur == Last(buckets[p]) IN
    /\ Call(p) /\ buckets[p] # <<>>
    /\ op' = [op EXCEPT ![p] = "alloc"]
    /\ IF cur.n = 1 /\ Len(buckets[p]) = 1
         THEN Goto(p, "take") /\ UNCHANGED <<buckets, held>>
         ELSE /\ SetBuckets(p, IF cur.n = 1 THEN Front(buckets[p])
                               ELSE Front(buckets[p]) \o <<[hs |-> Tail(cur.hs), n |-> cur.n - 1]>>)
              /\ held' = held \cup {cur.hs[1]}
              /\ UNCHANGED pc
    /\ UNCHANGED <<global, p_head, p_page>>

\* ABTI_mem_pool_free: a header may come back to another pool than it was taken from.
Free(p, h) ==
    LET bs  == buckets[p]
        cur == Last(bs)
        new == <<[hs |-> <<h>>, n |-> 1]>>
    IN  /\ Call(p) /\ bs # <<>>
        /\ held' = held \ {h}
        /\ \/ /\ cur.n # PerBucket
              /\ SetBuckets(p, Front(bs) \o <<[hs |-> <<h>> \o cur.hs, n |-> cur.n + 1]>>)
              /\ UNCHANGED bucket_lifo
           \/ /\ cur.n = PerBucket /\ Len(bs) < MaxLocal
              /\ SetBuckets(p, bs \o new)
              /\ UNCHANGED bucket_lifo
           \/ /\ cur.n = PerBucket /\ Len(bs) = MaxLocal
              /\ ReturnBucket(bs[1].hs)
              /\ SetBuckets(p, Tail(bs) \o new)
        /\ UNCHANGED <<mem_page_lifo, mem_page_empty, partial_bucket, pages, pc, locals>>

\* ABTI_mem_pool_destroy_local_pool
Destroy(p) ==
    /\ Call(p) /\ buckets[p] # <<>>
    /\ Goto(p, "destroy")
    /\ UNCHANGED <<global, buckets, locals, held>>

\* Mutant: returns the last bucket like the others.
DestroyAll(p) ==
    /\ pc[p] = "destroy"
    /\ ReturnBucket(buckets[p][1].hs)
    /\ SetBuckets(p, Tail(buckets[p]))
    /\ IF Len(buckets[p]) = 1 THEN Goto(p, "idle") ELSE UNCHANGED pc
    /\ UNCHANGED <<mem_page_lifo, mem_page_empty, partial_bucket, pages, locals, held, calls>>

DestroyStep(p) ==
    LET b == buckets[p][1] IN
    /\ pc[p] = "destroy"
    /\ IF Len(buckets[p]) > 1 \/ b.n = PerBucket
         THEN ReturnBucket(b.hs) /\ UNCHANGED partial_bucket
         ELSE ReturnPartial(b)
    /\ SetBuckets(p, Tail(buckets[p]))
    /\ IF Len(buckets[p]) = 1 THEN Goto(p, "idle") ELSE UNCHANGED pc
    /\ UNCHANGED <<mem_page_lifo, mem_page_empty, pages, locals, held, calls>>
------------------------------------------------------------------------------
TakeStep(p) == PopBucket(p) \/ PopPage(p) \/ LargePage(p) \/ LargePageFails(p) \/ Carve(p)

Terminated ==
    /\ calls = 0 /\ \A p \in Pools : pc[p] = "idle"
    /\ UNCHANGED vars

Next ==
    \/ \E p \in Pools :
         \/ InitLocal(p) \/ Alloc(p) \/ Destroy(p)
         \/ \E h \in held : Free(p, h)
         \/ TakeStep(p) \/ DestroyStep(p)
    \/ Terminated

Spec == Init /\ [][Next]_vars
------------------------------------------------------------------------------
(* Properties *)

\* The lists and locals stay in their types; a bucket that is kept holds at least one
\* header and at most num_headers_per_bucket of them by its own count.
TypeOK ==
    /\ bucket_lifo \in Seq(Seq(Headers))
    /\ mem_page_empty \in 0..MaxPages /\ pages \in 0..MaxPages
    /\ partial_bucket = NULL \/ partial_bucket \in Bucket
    /\ buckets \in [Pools -> Seq(Bucket)]
    /\ pc \in [Pools -> {"idle", "take", "page", "largepage", "carve", "destroy"}]
    /\ op \in [Pools -> {"none", "init", "alloc"}]
    /\ p_head \in [Pools -> Seq(Headers)]
    /\ held \subseteq Headers

\* The lists that hold headers nobody uses.
Chains ==
    bucket_lifo
    \o (IF partial_bucket = NULL THEN <<>> ELSE <<partial_bucket.hs>>)
    \o FlattenSeq([i \in 1..Cardinality(Pools) |->
         LET p == SetToSeq(Pools)[i] IN <<p_head[p]>> \o [j \in DOMAIN buckets[p] |-> buckets[p][j].hs]])
    \o [i \in DOMAIN mem_page_lifo |->
         [j \in 1..mem_page_lifo[i].left |-> mem_page_lifo[i].first + j - 1]]
    \o [i \in 1..Cardinality(Pools) |->
         LET page == p_page[SetToSeq(Pools)[i]] IN [j \in 1..page.left |-> page.first + j - 1]]
Unused == FlattenSeq(Chains)

\* A header handed out is on no list, and no header is on two: a stack or a descriptor
\* is never given to two work units.
NoHeaderTwice ==
    /\ IsInjective(Unused)
    /\ \A i \in DOMAIN Unused : Unused[i] \notin held

\* Every header cut or still to be cut from a page is handed out or on a list: whatever
\* pools come and go, and whichever page allocation fails, no memory is lost.
NoHeaderLost == held \cup {Unused[i] : i \in DOMAIN Unused} = 1..(pages * PageHeaders)

\* A local pool always has a header, its older buckets are full, and the count in a
\* bucket is the number of its headers: the allocation takes p_next of a bucket with
\* more than one header, and never of the last one.
LocalCounts ==
    \A p \in Pools : \A i \in DOMAIN buckets[p] :
      LET b == buckets[p][i] IN
      /\ b.n = Len(b.hs) /\ b.n \in 1..PerBucket
      /\ i < Len(buckets[p]) => b.n = PerBucket

\* A bucket in the global LIFO is full: the stream that takes it sets its count so
\* without looking.
FullBuckets == \A i \in DOMAIN bucket_lifo : Len(bucket_lifo[i]) = PerBucket

\* "The number of headers is stored in partial_bucket.bucket_info.num_headers."
PartialCountExact == partial_bucket # NULL => partial_bucket.n = Len(partial_bucket.hs)
===============================================================================
