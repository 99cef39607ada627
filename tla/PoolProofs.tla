------------------------------ MODULE PoolProofs ------------------------------
(***************************************************************************)
(* Proofs about the predefined pools, for any callers, units, batches and  *)
(* calls: their circular list, the pops that look at the emptiness flag    *)
(* without the lock, and the waiters of fifo_wait.                         *)
(***************************************************************************)
EXTENDS MCPool, ListLemmas

------------------------------------------------------------------------------
(* The circular list *)

Queues ==
  [num : Nat, head : Threads \cup {NULL}, tail : Threads \cup {NULL}, empty : BOOLEAN,
   prev : [Threads -> Threads \cup {NULL}], next : [Threads -> Threads \cup {NULL}],
   in : [Threads -> BOOLEAN]]

\* The links of Q go round the sequence s, both ways.
Round(Q, s) ==
  \A i \in 1..Len(s) : /\ Q.next[s[i]] = s[IF i = Len(s) THEN 1 ELSE i + 1]
                       /\ Q.prev[s[i]] = s[IF i = 1 THEN Len(s) ELSE i - 1]
Ended(Q, s) ==
  /\ Q.num = Len(s) /\ (Q.empty <=> Len(s) = 0)
  /\ Q.head = IF Len(s) = 0 THEN NULL ELSE s[1]
  /\ Q.tail = IF Len(s) = 0 THEN NULL ELSE s[Len(s)]
Spells(Q, s) ==
  /\ Q \in Queues /\ s \in Seq(Threads) /\ Distinct(s)
  /\ Ended(Q, s) /\ Round(Q, s)
  /\ \A p \in Threads : Q.in[p] <=> Listed(s, p)

\* A new queue is empty.
LEMMA EmptySpells == Spells(EmptyQueue, <<>>)
BY EmptyList DEF Spells, Queues, Ended, Round, EmptyQueue, Listed

\* The first unit is its own neighbour.
LEMMA FirstSpells ==
  ASSUME NEW Q, NEW p \in Threads, Spells(Q, <<>>)
  PROVE  Spells(First(Q, p), <<p>>)
<1>1. /\ First(Q, p) \in Queues
      /\ First(Q, p).num = 1 /\ First(Q, p).head = p /\ First(Q, p).tail = p
      /\ ~First(Q, p).empty /\ First(Q, p).next[p] = p /\ First(Q, p).prev[p] = p
      /\ \A x \in Threads : First(Q, p).in[x] = IF x = p THEN TRUE ELSE Q.in[x]
  BY DEF First, Queues, Spells
<1>2. <<p>> \in Seq(Threads) /\ Len(<<p>>) = 1 /\ <<p>>[1] = p /\ Distinct(<<p>>)
  BY DEF Distinct
<1>3. \A x : Listed(<<p>>, x) <=> x = p
  BY <1>2 DEF Listed
<1>4. \A x \in Threads : ~Q.in[x]
  BY EmptyList DEF Spells
<1> HIDE DEF First
<1>5. Round(First(Q, p), <<p>>) /\ Ended(First(Q, p), <<p>>)
  BY <1>1, <1>2 DEF Ended, Round
<1>6. \A x \in Threads : First(Q, p).in[x] <=> Listed(<<p>>, x)
  BY <1>1, <1>3, <1>4
<1> QED BY <1>1, <1>2, <1>5, <1>6 DEF Spells

\* Where the fields of a queue go when a unit is linked between the tail and the head.
LEMMA LinkFields ==
  ASSUME NEW Q \in Queues, NEW p \in Threads, Q.head \in Threads, Q.tail \in Threads
  PROVE  /\ Link(Q, p) \in Queues /\ Link(Q, p).num = Q.num + 1
         /\ Link(Q, p).head = Q.head /\ Link(Q, p).tail = Q.tail /\ (Link(Q, p).empty <=> Q.empty)
         /\ \A x \in Threads :
              /\ Link(Q, p).next[x] = IF x = p THEN Q.head ELSE IF x = Q.tail THEN p ELSE Q.next[x]
              /\ Link(Q, p).prev[x] = IF x = p THEN Q.tail ELSE IF x = Q.head THEN p ELSE Q.prev[x]
              /\ Link(Q, p).in[x] = IF x = p THEN TRUE ELSE Q.in[x]
<1> DEFINE next == [Q.next EXCEPT ![Q.tail] = p, ![p] = Q.head]
           prev == [Q.prev EXCEPT ![Q.head] = p, ![p] = Q.tail]
           in == [Q.in EXCEPT ![p] = TRUE]
<1>1. /\ next \in [Threads -> Threads \cup {NULL}]
      /\ \A x \in Threads :
           next[x] = IF x = p THEN Q.head ELSE IF x = Q.tail THEN p ELSE Q.next[x]
  BY DEF Queues
<1>2. /\ prev \in [Threads -> Threads \cup {NULL}]
      /\ \A x \in Threads :
           prev[x] = IF x = p THEN Q.tail ELSE IF x = Q.head THEN p ELSE Q.prev[x]
  BY DEF Queues
<1>3. in \in [Threads -> BOOLEAN] /\ \A x \in Threads : in[x] = IF x = p THEN TRUE ELSE Q.in[x]
  BY DEF Queues
<1>4. Link(Q, p) = [Q EXCEPT !.num = @ + 1, !.in = in, !.next = next, !.prev = prev]
  BY DEF Link, Queues
<1> HIDE DEF next, prev, in
<1>7. Link(Q, p) = [num |-> Q.num + 1, head |-> Q.head, tail |-> Q.tail, empty |-> Q.empty,
                   prev |-> prev, next |-> next, in |-> in]
  BY <1>4 DEF Queues
<1>5. /\ Link(Q, p).num = Q.num + 1 /\ Link(Q, p).head = Q.head /\ Link(Q, p).tail = Q.tail
      /\ (Link(Q, p).empty <=> Q.empty)
      /\ Link(Q, p).next = next /\ Link(Q, p).prev = prev /\ Link(Q, p).in = in
  BY <1>4 DEF Queues
<1>6. Link(Q, p) \in Queues
  BY <1>1, <1>2, <1>3, <1>7 DEF Queues
<1> QED BY <1>1, <1>2, <1>3, <1>5, <1>6

\* Pushing at the tail appends.
LEMMA PushTailSpells ==
  ASSUME NEW Q, NEW s, NEW p \in Threads, Spells(Q, s), ~Listed(s, p)
  PROVE  Spells(PushTail(Q, p), Append(s, p))
<1>1. CASE s = <<>>
  <2>1. Q.num = 0 /\ Append(<<>>, p) = <<p>>
    BY <1>1 DEF Spells, Ended
  <2> QED BY <1>1, <2>1, FirstSpells DEF PushTail
<1>2. CASE s # <<>>
  <2> DEFINE n == Len(s)
             r == Append(s, p)
             R == PushTail(Q, p)
  <2>1. n \in Nat \ {0} /\ Q \in Queues /\ Q.num = n /\ n # 0 /\ s[1] \in Threads /\ s[n] \in Threads
        /\ s \in [1..n -> Threads]
    BY <1>2, LenProperties DEF Spells, Ended
  <2>2. Q.head = s[1] /\ Q.tail = s[n] /\ ~Q.empty
    BY <2>1 DEF Spells, Ended
  <2>3. R = [Link(Q, p) EXCEPT !.tail = p]
    BY <2>1 DEF PushTail
  <2>4. /\ R \in Queues /\ R.num = n + 1 /\ R.head = s[1] /\ R.tail = p /\ ~R.empty
        /\ \A x \in Threads :
             /\ R.next[x] = IF x = p THEN s[1] ELSE IF x = s[n] THEN p ELSE Q.next[x]
             /\ R.prev[x] = IF x = p THEN s[n] ELSE IF x = s[1] THEN p ELSE Q.prev[x]
             /\ R.in[x] = IF x = p THEN TRUE ELSE Q.in[x]
    <3> HIDE DEF R, n
    <3> DEFINE L == Link(Q, p)
    <3>1. /\ L \in Queues /\ L.num = Q.num + 1 /\ L.head = Q.head /\ (L.empty <=> Q.empty)
          /\ \A x \in Threads :
               /\ L.next[x] = IF x = p THEN Q.head ELSE IF x = Q.tail THEN p ELSE Q.next[x]
               /\ L.prev[x] = IF x = p THEN Q.tail ELSE IF x = Q.head THEN p ELSE Q.prev[x]
               /\ L.in[x] = IF x = p THEN TRUE ELSE Q.in[x]
      BY <2>1, <2>2, LinkFields
    <3>2. R = [L EXCEPT !.tail = p]
      BY <2>3
    <3> HIDE DEF L
    <3>3. /\ R \in Queues /\ R.num = L.num /\ R.head = L.head /\ R.tail = p
          /\ (R.empty <=> L.empty) /\ R.next = L.next /\ R.prev = L.prev /\ R.in = L.in
      BY <3>1, <3>2 DEF Queues
    <3>4. R.num = n + 1 /\ R.head = s[1] /\ ~R.empty
      BY <3>1, <3>3, <2>1, <2>2
    <3>5. \A x \in Threads :
               /\ R.next[x] = IF x = p THEN s[1] ELSE IF x = s[n] THEN p ELSE Q.next[x]
               /\ R.prev[x] = IF x = p THEN s[n] ELSE IF x = s[1] THEN p ELSE Q.prev[x]
               /\ R.in[x] = IF x = p THEN TRUE ELSE Q.in[x]
      BY <3>1, <3>3, <2>2
    <3> QED BY <3>3, <3>4, <3>5
  <2>5. r \in Seq(Threads) /\ Distinct(r) /\ \A x : Listed(r, x) <=> x = p \/ Listed(s, x)
    BY AppendLists DEF Spells
  <2>6. Len(r) = n + 1 /\ r[n + 1] = p /\ \A i \in 1..n : r[i] = s[i]
    BY AppendProperties DEF Spells
  <2>7. \A i \in 1..n : s[i] # p /\ s[i] \in Threads
    BY <2>1 DEF Listed
  <2>8. \A i, j \in 1..n : s[i] = s[j] => i = j
    BY DEF Spells, Distinct
  <2>9. \A i \in 1..n : /\ Q.next[s[i]] = s[IF i = n THEN 1 ELSE i + 1]
                        /\ Q.prev[s[i]] = s[IF i = 1 THEN n ELSE i - 1]
    BY DEF Spells, Round
  <2>10. \A x \in Threads : Q.in[x] <=> Listed(s, x)
    BY DEF Spells
  <2> HIDE DEF R, r, n
  <2>11. Ended(R, r)
    BY <2>1, <2>4, <2>6 DEF Ended
  <2>12. ASSUME NEW i \in 1..(n + 1)
         PROVE  /\ R.next[r[i]] = r[IF i = n + 1 THEN 1 ELSE i + 1]
                /\ R.prev[r[i]] = r[IF i = 1 THEN n + 1 ELSE i - 1]
    <3>1. CASE i = n + 1
      <4>1. r[i] = p /\ 1 \in 1..n /\ n \in 1..n /\ i # 1 /\ i - 1 = n
        BY <3>1, <2>1, <2>6
      <4>2. r[1] = s[1] /\ r[n] = s[n] /\ R.next[p] = s[1] /\ R.prev[p] = s[n]
        BY <4>1, <2>4, <2>6
      <4> QED BY <4>1, <4>2, <3>1
    <3>2. CASE i = n /\ i # 1
      <4>1. r[i] = s[n] /\ s[n] # p /\ s[n] # s[1] /\ r[n + 1] = p /\ i \in 1..n /\ 1 \in 1..n
        BY <3>2, <2>1, <2>6, <2>7, <2>8
      <4>2. Q.prev[s[n]] = s[n - 1] /\ r[n - 1] = s[n - 1]
        BY <3>2, <2>1, <2>9, <2>6
      <4> QED BY <4>1, <4>2, <3>2, <2>4, <2>1
    <3>3. CASE i = n /\ i = 1
      <4>1. r[1] = s[1] /\ s[1] # p /\ r[2] = p /\ n = 1 /\ s[1] \in Threads
        BY <3>3, <2>1, <2>6, <2>7
      <4>2. R.next[s[1]] = p /\ R.prev[s[1]] = p
        BY <4>1, <2>4
      <4> QED BY <4>1, <4>2, <3>3
    <3>4. CASE i \in 1..n /\ i # n
      <4>1. r[i] = s[i] /\ s[i] # p /\ s[i] # s[n] /\ s[i] \in Threads /\ r[i + 1] = s[i + 1]
            /\ Q.next[s[i]] = s[i + 1]
        BY <3>4, <2>1, <2>6, <2>7, <2>8, <2>9
      <4>2. R.next[r[i]] = r[i + 1]
        BY <4>1, <2>4
      <4>3. CASE i = 1
        BY <4>1, <4>2, <4>3, <2>4, <2>6, <2>1
      <4>4. CASE i # 1
        <5>1. s[i] # s[1] /\ r[i - 1] = s[i - 1] /\ Q.prev[s[i]] = s[i - 1]
          BY <4>4, <3>4, <2>1, <2>6, <2>8, <2>9
        <5>2. R.prev[s[i]] = s[i - 1]
          BY <5>1, <4>1, <2>4
        <5> QED BY <5>1, <5>2, <4>1, <4>2, <4>4, <3>4, <2>1
      <4> QED BY <4>3, <4>4
    <3> QED BY <3>1, <3>2, <3>3, <3>4, <2>1
  <2>13. Round(R, r)
    BY <2>12, <2>6 DEF Round
  <2>14. \A x \in Threads : R.in[x] <=> Listed(r, x)
    BY <2>4, <2>5, <2>10
  <2> QED BY <2>4, <2>5, <2>11, <2>13, <2>14 DEF Spells, R, r
<1> QED BY <1>1, <1>2

\* Going round, the last unit may as well be the first.
LEMMA RoundTurns ==
  ASSUME NEW R, NEW s \in Seq(Threads), s # <<>>, NEW p \in Threads, Round(R, Append(s, p))
  PROVE  Round(R, <<p>> \o s)
<1> DEFINE n == Len(s)
           r == Append(s, p)
           t == <<p>> \o s
<1>1. n \in Nat \ {0} /\ Len(r) = n + 1 /\ Len(t) = n + 1
      /\ r[n + 1] = p /\ t[1] = p
  BY LenProperties, AppendProperties
<1>2. \A i \in 1..n : r[i] = s[i] /\ t[i + 1] = s[i]
  BY AppendProperties
<1>3. \A i \in 1..(n + 1) : /\ R.next[r[i]] = r[IF i = n + 1 THEN 1 ELSE i + 1]
                            /\ R.prev[r[i]] = r[IF i = 1 THEN n + 1 ELSE i - 1]
  BY <1>1 DEF Round
<1> HIDE DEF r, t, n
<1>4. ASSUME NEW i \in 1..(n + 1)
      PROVE  /\ R.next[t[i]] = t[IF i = n + 1 THEN 1 ELSE i + 1]
             /\ R.prev[t[i]] = t[IF i = 1 THEN n + 1 ELSE i - 1]
  <2>1. CASE i = 1
    <3>1. 1 \in 1..n /\ n \in 1..n /\ n + 1 \in 1..(n + 1) /\ i # n + 1
      BY <2>1, <1>1
    <3>2. t[1] = r[n + 1] /\ t[2] = r[1] /\ t[n + 1] = r[n]
      BY <3>1, <1>1, <1>2
    <3>3. R.next[r[n + 1]] = r[1] /\ R.prev[r[n + 1]] = r[n]
      BY <3>1, <1>3, <1>1
    <3> QED BY <3>1, <3>2, <3>3, <2>1
  <2>2. CASE i # 1
    <3>1. i - 1 \in 1..n /\ i - 1 \in 1..(n + 1) /\ t[i] = r[i - 1] /\ i - 1 # n + 1
      BY <2>2, <1>1, <1>2
    <3>2. R.next[r[i - 1]] = r[i] /\ R.prev[r[i - 1]] = r[IF i = 2 THEN n + 1 ELSE i - 2]
      BY <3>1, <1>3
    <3>3. IF i = n + 1 THEN r[i] = t[1] ELSE r[i] = t[i + 1]
      BY <2>2, <1>1, <1>2
    <3>4. IF i = 2 THEN t[i - 1] = r[n + 1] ELSE t[i - 1] = r[i - 2]
      <4>1. CASE i = 2
        BY <4>1, <1>1
      <4>2. CASE i # 2
        <5>1. i - 2 \in 1..n /\ (i - 2) + 1 = i - 1
          BY <4>2, <2>2, <1>1
        <5> QED BY <5>1, <1>2, <4>2
      <4> QED BY <4>1, <4>2
    <3> QED BY <3>1, <3>2, <3>3, <3>4, <2>2
  <2> QED BY <2>1, <2>2
<1> QED BY <1>1, <1>4 DEF Round

\* Pushing at the head puts in front.
LEMMA PushHeadSpells ==
  ASSUME NEW Q, NEW s, NEW p \in Threads, Spells(Q, s), ~Listed(s, p)
  PROVE  Spells(PushHead(Q, p), <<p>> \o s)
<1>1. CASE s = <<>>
  <2>1. Q.num = 0 /\ <<p>> \o <<>> = <<p>>
    BY <1>1 DEF Spells, Ended
  <2> QED BY <1>1, <2>1, FirstSpells DEF PushHead
<1>2. CASE s # <<>>
  <2> DEFINE n == Len(s)
             t == <<p>> \o s
             T == PushTail(Q, p)
             R == PushHead(Q, p)
  <2>1. n \in Nat \ {0} /\ Q \in Queues /\ Q.num = n /\ n # 0 /\ s[1] \in Threads /\ s[n] \in Threads
        /\ Q.head = s[1] /\ Q.tail = s[n] /\ ~Q.empty /\ s \in Seq(Threads)
    BY <1>2, LenProperties DEF Spells, Ended
  <2>2. Spells(T, Append(s, p))
    BY PushTailSpells
  <2>3. R = [Link(Q, p) EXCEPT !.head = p] /\ T = [Link(Q, p) EXCEPT !.tail = p]
    BY <2>1 DEF PushHead, PushTail
  <2>4. /\ Link(Q, p) \in Queues /\ Link(Q, p).num = n + 1 /\ Link(Q, p).tail = s[n]
        /\ ~Link(Q, p).empty
    <3>1. Q.head \in Threads /\ Q.tail \in Threads
      BY <2>1
    <3>2. /\ Link(Q, p) \in Queues /\ Link(Q, p).num = Q.num + 1
          /\ Link(Q, p).tail = Q.tail /\ (Link(Q, p).empty <=> Q.empty)
      BY <2>1, <3>1, LinkFields
    <3> QED BY <2>1, <3>2
  <2>5. /\ R \in Queues /\ R.num = n + 1 /\ R.head = p /\ R.tail = s[n] /\ ~R.empty
        /\ R.next = T.next /\ R.prev = T.prev /\ R.in = T.in
    <3> DEFINE L == Link(Q, p)
    <3>1. L \in Queues /\ L.num = n + 1 /\ L.tail = s[n] /\ ~L.empty
      BY <2>4
    <3>2. R = [L EXCEPT !.head = p] /\ T = [L EXCEPT !.tail = p]
      BY <2>3
    <3> HIDE DEF L, R, T, n
    <3>3. /\ R \in Queues /\ R.num = L.num /\ R.head = p /\ R.tail = L.tail
          /\ (R.empty <=> L.empty) /\ R.next = L.next /\ R.prev = L.prev /\ R.in = L.in
      BY <3>1, <3>2 DEF Queues
    <3>4. T.next = L.next /\ T.prev = L.prev /\ T.in = L.in
      BY <3>1, <3>2 DEF Queues
    <3> QED BY <3>1, <3>3, <3>4
  <2>6. /\ t \in Seq(Threads) /\ Distinct(t) /\ Len(t) = n + 1 /\ t[1] = p /\ t[n + 1] = s[n]
        /\ \A x : Listed(t, x) <=> x = p \/ Listed(s, x)
    BY ConsLists, <2>1 DEF Spells
  <2>7. \A x \in Threads : T.in[x] <=> x = p \/ Listed(s, x)
    BY <2>2, AppendLists DEF Spells
  <2>8. Round(T, t)
    BY <2>2, <2>1, <1>2, RoundTurns DEF Spells
  <2> HIDE DEF R, T, t, n
  <2>9. Round(R, t)
    BY <2>8, <2>5 DEF Round
  <2>10. Ended(R, t)
    BY <2>5, <2>6, <2>1 DEF Ended
  <2> QED BY <2>5, <2>6, <2>7, <2>9, <2>10 DEF Spells, R, t
<1> QED BY <1>1, <1>2

\* Where the fields of a queue go when a unit's neighbours are joined.
LEMMA UnlinkFields ==
  ASSUME NEW Q \in Queues, NEW p \in Threads, Q.num # 0,
         Q.next[p] \in Threads, Q.prev[p] \in Threads
  PROVE  /\ Unlink(Q, p) \in Queues /\ Unlink(Q, p).num = Q.num - 1
         /\ (Unlink(Q, p).empty <=> Q.num = 1)
         /\ \A x \in Threads :
              /\ Unlink(Q, p).next[x] = IF x = p THEN NULL
                                        ELSE IF x = Q.prev[p] THEN Q.next[p] ELSE Q.next[x]
              /\ Unlink(Q, p).prev[x] = IF x = p THEN NULL
                                        ELSE IF x = Q.next[p] THEN Q.prev[p] ELSE Q.prev[x]
              /\ Unlink(Q, p).in[x] <=> x # p /\ Q.in[x]
<1> DEFINE next == [[Q.next EXCEPT ![Q.prev[p]] = Q.next[p]] EXCEPT ![p] = NULL]
           prev == [[Q.prev EXCEPT ![Q.next[p]] = Q.prev[p]] EXCEPT ![p] = NULL]
           in == [Q.in EXCEPT ![p] = FALSE]
<1>1. /\ next \in [Threads -> Threads \cup {NULL}]
      /\ \A x \in Threads : next[x] = IF x = p THEN NULL
                                     ELSE IF x = Q.prev[p] THEN Q.next[p] ELSE Q.next[x]
  BY DEF Queues
<1>2. /\ prev \in [Threads -> Threads \cup {NULL}]
      /\ \A x \in Threads : prev[x] = IF x = p THEN NULL
                                     ELSE IF x = Q.next[p] THEN Q.prev[p] ELSE Q.prev[x]
  BY DEF Queues
<1>3. /\ in \in [Threads -> BOOLEAN]
      /\ \A x \in Threads : in[x] <=> x # p /\ Q.in[x]
  BY DEF Queues
<1>4. Unlink(Q, p) = [Q EXCEPT !.num = @ - 1, !.in = in, !.empty = Q.num = 1, !.next = next,
                               !.prev = prev]
  BY DEF Unlink, Queues
<1> HIDE DEF next, prev, in
<1>5. Unlink(Q, p) = [num |-> Q.num - 1, head |-> Q.head, tail |-> Q.tail, empty |-> Q.num = 1,
                      prev |-> prev, next |-> next, in |-> in]
  BY <1>4 DEF Queues
<1>6. Q.num - 1 \in Nat
  BY DEF Queues
<1>7. Unlink(Q, p) \in Queues
  BY <1>1, <1>2, <1>3, <1>5, <1>6 DEF Queues
<1>8. /\ Unlink(Q, p).num = Q.num - 1
      /\ Unlink(Q, p).next = next /\ Unlink(Q, p).prev = prev /\ Unlink(Q, p).in = in
  BY <1>5
<1>9. Unlink(Q, p).empty <=> Q.num = 1
  <2>1. Unlink(Q, p).empty = (Q.num = 1)
    BY <1>5
  <2> QED BY <2>1
<1> QED BY <1>1, <1>2, <1>3, <1>7, <1>8, <1>9

\* Going round a sequence, with or without its k-th.
Nxt(n, i) == IF i = n THEN 1 ELSE i + 1
Prv(n, i) == IF i = 1 THEN n ELSE i - 1
Past(k, i) == IF i < k THEN i ELSE i + 1
LEMMA Skips ==
  ASSUME NEW n \in Nat, NEW k \in 1..n, NEW i \in 1..(n - 1)
  PROVE  /\ Nxt(n - 1, i) \in 1..(n - 1) /\ Prv(n - 1, i) \in 1..(n - 1)
         /\ Past(k, i) \in 1..n /\ Past(k, i) # k
         /\ Nxt(n, Past(k, i)) \in 1..n /\ Prv(n, Past(k, i)) \in 1..n
         /\ Nxt(n, k) \in 1..n /\ Prv(n, k) \in 1..n
         /\ Past(k, Nxt(n - 1, i)) = IF Past(k, i) = Prv(n, k) THEN Nxt(n, k)
                                     ELSE Nxt(n, Past(k, i))
         /\ Past(k, Prv(n - 1, i)) = IF Past(k, i) = Nxt(n, k) THEN Prv(n, k)
                                     ELSE Prv(n, Past(k, i))
BY DEF Nxt, Prv, Past

\* Taking the k-th unit out of a queue leaves the queue without it.
LEMMA UnlinkSpells ==
  ASSUME NEW Q, NEW s, Spells(Q, s), NEW k \in 1..Len(s),
         NEW h \in Threads \cup {NULL}, NEW t \in Threads \cup {NULL},
         Len(s) > 1 => h = Without(s, k)[1] /\ t = Without(s, k)[Len(s) - 1]
  PROVE  Spells(Ends(Unlink(Q, s[k]), h, t), Without(s, k))
<1> DEFINE n == Len(s)
           r == Without(s, k)
           p == s[k]
           U == Unlink(Q, p)
           R == Ends(U, h, t)
<1>1. n \in Nat \ {0} /\ s \in [1..n -> Threads] /\ Q \in Queues /\ Q.num = n /\ p \in Threads
      /\ k \in 1..n
  BY LenProperties DEF Spells, Ended
<1>2. \A i, j \in 1..n : s[i] = s[j] => i = j
  BY DEF Spells, Distinct
<1>3. \A i \in 1..n : Q.next[s[i]] = s[Nxt(n, i)] /\ Q.prev[s[i]] = s[Prv(n, i)]
  BY DEF Spells, Round, Nxt, Prv
<1>4. r \in Seq(Threads) /\ Distinct(r) /\ Len(r) = n - 1
      /\ \A x : Listed(r, x) <=> x # p /\ Listed(s, x)
  BY WithoutUnlists DEF Spells
<1>5. \A i \in 1..(n - 1) : r[i] = s[Past(k, i)]
  <2>1. \A i \in 1..(n - 1) : r[i] = IF i < k THEN s[i] ELSE s[i + 1]
    BY WithoutAt DEF Spells
  <2> QED BY <2>1 DEF Past
<1>6. \A x \in Threads : Q.in[x] <=> Listed(s, x)
  BY DEF Spells
<1>7. Nxt(n, k) \in 1..n /\ Prv(n, k) \in 1..n
  <2> HIDE DEF n
  <2> QED BY <1>1 DEF Nxt, Prv
<1>8. Q.next[p] = s[Nxt(n, k)] /\ Q.prev[p] = s[Prv(n, k)]
      /\ s[Nxt(n, k)] \in Threads /\ s[Prv(n, k)] \in Threads
  BY <1>1, <1>3, <1>7
<1>9. n > 1 => h = r[1] /\ t = r[n - 1]
  OBVIOUS
<1> HIDE DEF n, r
<1>10. /\ U \in Queues /\ U.num = n - 1 /\ (U.empty <=> n = 1)
       /\ \A x \in Threads :
            /\ U.next[x] = IF x = p THEN NULL ELSE IF x = s[Prv(n, k)] THEN s[Nxt(n, k)] ELSE Q.next[x]
            /\ U.prev[x] = IF x = p THEN NULL ELSE IF x = s[Nxt(n, k)] THEN s[Prv(n, k)] ELSE Q.prev[x]
            /\ U.in[x] <=> x # p /\ Q.in[x]
  <2>1. Q.next[p] \in Threads /\ Q.prev[p] \in Threads /\ Q.num # 0
    BY <1>1, <1>8
  <2> HIDE DEF p, U
  <2>2. /\ U \in Queues /\ U.num = Q.num - 1 /\ (U.empty <=> Q.num = 1)
        /\ \A x \in Threads :
            /\ U.next[x] = IF x = p THEN NULL ELSE IF x = Q.prev[p] THEN Q.next[p] ELSE Q.next[x]
            /\ U.prev[x] = IF x = p THEN NULL ELSE IF x = Q.next[p] THEN Q.prev[p] ELSE Q.prev[x]
            /\ U.in[x] <=> x # p /\ Q.in[x]
    BY <1>1, <2>1, UnlinkFields, Zenon DEF U
  <2>3. Q.next[p] = s[Nxt(n, k)] /\ Q.prev[p] = s[Prv(n, k)]
    BY <1>8 DEF p
  <2> QED BY <2>2, <2>3, <1>1
<1> HIDE DEF U
<1>11. /\ R \in Queues /\ R.num = U.num /\ (R.empty <=> U.empty)
       /\ R.next = U.next /\ R.prev = U.prev /\ R.in = U.in
       /\ R.head = (IF U.num = 0 THEN NULL ELSE h) /\ R.tail = (IF U.num = 0 THEN NULL ELSE t)
  <2>1. U \in Queues
    BY <1>10
  <2> QED BY <2>1 DEF Ends, Queues
<1> HIDE DEF R
<1>12. Ended(R, r)
  BY <1>1, <1>4, <1>9, <1>10, <1>11 DEF Ended
<1>13. ASSUME NEW i \in 1..(n - 1)
       PROVE  /\ R.next[r[i]] = r[IF i = n - 1 THEN 1 ELSE i + 1]
              /\ R.prev[r[i]] = r[IF i = 1 THEN n - 1 ELSE i - 1]
  <2> DEFINE j == Past(k, i)
  <2>1. /\ Nxt(n - 1, i) \in 1..(n - 1) /\ Prv(n - 1, i) \in 1..(n - 1)
        /\ j \in 1..n /\ j # k /\ Nxt(n, j) \in 1..n /\ Prv(n, j) \in 1..n
        /\ Past(k, Nxt(n - 1, i)) = IF j = Prv(n, k) THEN Nxt(n, k) ELSE Nxt(n, j)
        /\ Past(k, Prv(n - 1, i)) = IF j = Nxt(n, k) THEN Prv(n, k) ELSE Prv(n, j)
    <3>1. n \in Nat /\ k \in 1..n
      BY <1>1
    <3> QED BY <3>1, Skips, Zenon
  <2>2. r[i] = s[j] /\ s[j] \in Threads /\ s[j] # p
    BY <1>1, <1>2, <1>5, <2>1
  <2>3. R.next[s[j]] = (IF j = Prv(n, k) THEN s[Nxt(n, k)] ELSE s[Nxt(n, j)])
    <3>1. s[j] = s[Prv(n, k)] <=> j = Prv(n, k)
      BY <1>2, <1>7, <2>1
    <3>2. Q.next[s[j]] = s[Nxt(n, j)]
      BY <1>3, <2>1
    <3> QED BY <3>1, <3>2, <2>2, <1>10, <1>11
  <2>4. R.prev[s[j]] = (IF j = Nxt(n, k) THEN s[Prv(n, k)] ELSE s[Prv(n, j)])
    <3>1. s[j] = s[Nxt(n, k)] <=> j = Nxt(n, k)
      BY <1>2, <1>7, <2>1
    <3>2. Q.prev[s[j]] = s[Prv(n, j)]
      BY <1>3, <2>1
    <3> QED BY <3>1, <3>2, <2>2, <1>10, <1>11
  <2>5. /\ r[Nxt(n - 1, i)] = s[Past(k, Nxt(n - 1, i))]
        /\ r[Prv(n - 1, i)] = s[Past(k, Prv(n - 1, i))]
    BY <2>1, <1>5
  <2> HIDE DEF j
  <2>6. R.next[r[i]] = r[Nxt(n - 1, i)]
    BY <2>1, <2>2, <2>3, <2>5
  <2>7. R.prev[r[i]] = r[Prv(n - 1, i)]
    BY <2>1, <2>2, <2>4, <2>5
  <2> QED BY <2>6, <2>7 DEF Nxt, Prv
<1>14. Round(R, r)
  BY <1>13, <1>4 DEF Round
<1>15. \A x \in Threads : R.in[x] <=> Listed(r, x)
  BY <1>4, <1>6, <1>10, <1>11
<1> QED BY <1>4, <1>11, <1>12, <1>14, <1>15 DEF Spells, R, U, r

\* Popping at either end.
LEMMA PopSpells ==
  ASSUME NEW Q, NEW s, Spells(Q, s)
  PROVE  /\ s = <<>> => /\ PopHead(Q).q = Q /\ PopHead(Q).p = NULL
                       /\ PopTail(Q).q = Q /\ PopTail(Q).p = NULL
         /\ s # <<>> => /\ PopHead(Q).p = s[1] /\ Spells(PopHead(Q).q, Without(s, 1))
                       /\ PopTail(Q).p = s[Len(s)] /\ Spells(PopTail(Q).q, Without(s, Len(s)))
<1>1. CASE s = <<>>
  <2>1. Q.num = 0
    BY <1>1 DEF Spells, Ended
  <2> QED BY <2>1, <1>1 DEF PopHead, PopTail
<1>2. CASE s # <<>>
  <2> DEFINE n == Len(s)
  <2>1. /\ n \in Nat \ {0} /\ Q.num = n /\ Q.head = s[1] /\ Q.tail = s[n] /\ 1 \in 1..n /\ n \in 1..n
        /\ s \in [1..n -> Threads] /\ s \in Seq(Threads)
    BY <1>2, LenProperties DEF Spells, Ended
  <2>2. PopHead(Q).p = s[1] /\ PopTail(Q).p = s[n]
    BY <2>1 DEF PopHead, PopTail
  <2>3. /\ PopHead(Q).q = Ends(Unlink(Q, s[1]), Q.next[s[1]], s[n])
        /\ PopTail(Q).q = Ends(Unlink(Q, s[n]), s[1], Q.prev[s[n]])
    BY <2>1 DEF PopHead, PopTail
  <2>4. \A i \in 1..n : /\ Q.next[s[i]] = s[IF i = n THEN 1 ELSE i + 1]
                        /\ Q.prev[s[i]] = s[IF i = 1 THEN n ELSE i - 1]
    BY DEF Spells, Round
  <2>5. /\ \A i \in 1..(n - 1) : Without(s, 1)[i] = IF i < 1 THEN s[i] ELSE s[i + 1]
        /\ \A i \in 1..(n - 1) : Without(s, n)[i] = IF i < n THEN s[i] ELSE s[i + 1]
    BY <2>1, WithoutAt
  <2> HIDE DEF n
  <2>6. /\ Q.next[s[1]] \in Threads /\ s[n] \in Threads /\ s[1] \in Threads
        /\ Q.prev[s[n]] \in Threads
    BY <2>1, <2>4
  <2>7. n > 1 => /\ Q.next[s[1]] = Without(s, 1)[1] /\ s[n] = Without(s, 1)[n - 1]
                 /\ s[1] = Without(s, n)[1] /\ Q.prev[s[n]] = Without(s, n)[n - 1]
    BY <2>1, <2>4, <2>5
  <2>8. Spells(Ends(Unlink(Q, s[1]), Q.next[s[1]], s[n]), Without(s, 1))
    BY <2>1, <2>6, <2>7, UnlinkSpells DEF n
  <2>9. Spells(Ends(Unlink(Q, s[n]), s[1], Q.prev[s[n]]), Without(s, n))
    BY <2>1, <2>6, <2>7, UnlinkSpells DEF n
  <2> QED BY <1>2, <2>2, <2>3, <2>8, <2>9 DEF n
<1> QED BY <1>1, <1>2

\* Removing a unit, if the queue holds it.
LEMMA RemoveSpells ==
  ASSUME NEW Q, NEW s, NEW p \in Threads, Spells(Q, s)
  PROVE  /\ Removable(Q, p) <=> Listed(s, p)
         /\ \A k \in 1..Len(s) : s[k] = p => Spells(RemoveThread(Q, p), Without(s, k))
<1> DEFINE n == Len(s)
<1>1. n \in Nat /\ Q.num = n /\ s \in [1..n -> Threads] /\ s \in Seq(Threads)
  BY LenProperties DEF Spells, Ended
<1>2. Removable(Q, p) <=> Listed(s, p)
  BY <1>1 DEF Removable, Listed, Spells
<1>3. ASSUME NEW k \in 1..n, s[k] = p PROVE Spells(RemoveThread(Q, p), Without(s, k))
  <2> DEFINE h == IF p = Q.head THEN Q.next[p] ELSE Q.head
             t == IF p = Q.tail /\ p # Q.head THEN Q.prev[p] ELSE Q.tail
  <2>1. RemoveThread(Q, p) = Ends(Unlink(Q, p), h, t)
    BY DEF RemoveThread
  <2>2. Q.head = s[1] /\ Q.tail = s[n] /\ 1 \in 1..n /\ n \in 1..n
    BY <1>1, <1>3 DEF Spells, Ended
  <2>3. /\ Q.next[p] = s[IF k = n THEN 1 ELSE k + 1]
        /\ Q.prev[p] = s[IF k = 1 THEN n ELSE k - 1]
    BY <1>3 DEF Spells, Round
  <2>4. \A i, j \in 1..n : s[i] = s[j] => i = j
    BY DEF Spells, Distinct
  <2>5. \A i \in 1..(n - 1) : Without(s, k)[i] = IF i < k THEN s[i] ELSE s[i + 1]
    BY <1>1, <1>3, WithoutAt
  <2> HIDE DEF n
  <2>6. (p = Q.head <=> k = 1) /\ (p = Q.tail <=> k = n)
    BY <1>3, <2>2, <2>4
  <2>7. h = s[IF k = 1 THEN (IF k = n THEN 1 ELSE k + 1) ELSE 1]
    BY <2>2, <2>3, <2>6
  <2>8. t = s[IF k = n /\ k # 1 THEN k - 1 ELSE n]
    BY <2>2, <2>3, <2>6
  <2>9. h \in Threads /\ t \in Threads
    BY <1>1, <1>3, <2>7, <2>8
  <2>10. n > 1 => h = Without(s, k)[1] /\ t = Without(s, k)[n - 1]
    BY <1>1, <1>3, <2>5, <2>7, <2>8
  <2> HIDE DEF h, t
  <2> QED BY <1>1, <1>3, <2>1, <2>9, <2>10, UnlinkSpells DEF n
<1> QED BY <1>2, <1>3

------------------------------------------------------------------------------
(* The calls: their invariant *)

Ops == {"none", "push", "pop", "pop_wait", "pop_timedwait", "remove", "print"}
Places == {"idle", "test", "lock", "try", "spin", "look", "body", "each", "unlock", "nap",
           "asleep", "return"}
Calls == [op : Ops, pc : Places, units : Seq(Threads), n : Nat, flag : BOOLEAN,
          got : Seq(Threads), again : BOOLEAN]

TypeInv ==
  /\ kind \in {"fifo", "randws", "fifo_wait", "old"} /\ access \in {"PRIV", "MPMC"}
  /\ access = "PRIV" => kind \in {"fifo", "randws"}
  /\ lock \in BOOLEAN /\ sleeping \subseteq Callers /\ sawEmpty \subseteq Callers
  /\ call \in [Callers -> Calls]

\* Where a call can be, and what it has to push or remove.
Locks(m) == access # "PRIV" \/ m.op \in Waits
Sound(m) ==
  /\ m.pc = "idle" <=> m.op = "none"
  /\ m.op = "push" => Distinct(m.units) /\ Len(m.units) <= m.n
  /\ m.op = "push" /\ m.pc \in {"lock", "body", "each"} => m.units # <<>>
  /\ m.op = "remove" => Len(m.units) = 1
  /\ m.op = "print" /\ m.pc = "lock" => m.got = <<>>
  /\ m.op \in {"push", "print"} => m.pc \in {"lock", "body", "each", "unlock", "return"}
  /\ m.pc = "each" => kind = "old"
  /\ kind = "old" => m.pc \in {"idle", "each", "return"} /\ m.op \in {"none", "push", "pop"}
  /\ m.pc \in {"test", "lock", "try", "spin", "look", "unlock", "nap", "asleep"} => Locks(m)
  /\ m.pc \in {"nap", "asleep"} => m.op \in Waits
  /\ m.pc = "asleep" => kind = "fifo_wait"

\* Who has the lock, and that a private pool has one caller at a time.
Has(c) == call[c].pc \in {"body", "unlock"} /\ Locks(call[c])
Exclusive ==
  /\ lock <=> \E c \in Callers : Has(c)
  /\ \A c, d \in Callers : Has(c) /\ Has(d) => c = d
  /\ access = "PRIV" => \A c, d \in Callers : call[c].pc # "idle" /\ call[d].pc # "idle" => c = d

\* A unit that is being pushed is not in the pool, nor being pushed by somebody else.
Pushes(c, p) == call[c].op = "push" /\ Listed(call[c].units, p)
Fresh ==
  \A c \in Callers, p \in Threads :
    Pushes(c, p) => /\ ~Listed(queue, p)
                    /\ \A d \in Callers : Pushes(d, p) => c = d

\* What print_all has visited is the front of the queue.
Fronts(s, t) == Len(s) <= Len(t) /\ \A i \in 1..Len(s) : s[i] = t[i]
Printed(c) == call[c].pc = IF access = "PRIV" THEN "return" ELSE "unlock"
Visited ==
  \A c \in Callers :
    call[c].op = "print" => /\ call[c].pc = "body" => Fronts(call[c].got, queue)
                            /\ Printed(c) => call[c].got = queue

\* A pop that gives up has seen the pool empty.
Seen ==
  \A c \in Callers :
    call[c].op \in Pops /\ call[c].pc \in {"nap", "unlock", "return"}
      /\ Len(call[c].got) < call[c].n
    => c \in sawEmpty

PoolInv ==
  /\ TypeInv /\ Spells(q, queue) /\ (\A c \in Callers : Sound(call[c]))
  /\ Exclusive /\ Fresh /\ Visited /\ Seen
  /\ (\A c \in sleeping : call[c].pc = "asleep") /\ NoneAsleep

\* A pool starts empty and without calls.
LEMMA PoolInit == Init => PoolInv
<1> SUFFICES ASSUME Init PROVE PoolInv
  OBVIOUS
<1> USE DEF Init, InitAs
<1>1. q = EmptyQueue /\ queue = <<>> /\ sleeping = {} /\ sawEmpty = {}
  BY DEF InitialData, FifoInit, RandwsInit, FifoWaitInit
<1>2. Idle \in Calls /\ Idle.pc = "idle" /\ Idle.op = "none"
  BY DEF Idle, Calls, Ops, Places
<1>3. \A c \in Callers : call[c] = Idle
  OBVIOUS
<1>4. TypeInv
  <2>1. call \in [Callers -> Calls]
    BY <1>2
  <2>2. lock \in BOOLEAN /\ sleeping \subseteq Callers /\ sawEmpty \subseteq Callers
    <3>1. InitialData.lock \subseteq BOOLEAN
      BY DEF InitialData, FifoInit, RandwsInit, FifoWaitInit
    <3> QED BY <1>1, <3>1
  <2>3. /\ kind \in {"fifo", "randws", "fifo_wait", "old"} /\ access \in {"PRIV", "MPMC"}
        /\ access = "PRIV" => kind \in {"fifo", "randws"}
    OBVIOUS
  <2> QED BY <2>1, <2>2, <2>3 DEF TypeInv
<1>5. Spells(q, queue)
  BY <1>1, EmptySpells
<1> USE <1>2, <1>3
<1>6. \A c \in Callers : Sound(call[c])
  BY DEF Sound, Waits, Idle
<1>7. Exclusive
  BY DEF Exclusive, Has
<1>8. Fresh /\ Visited /\ Seen
  BY DEF Fresh, Pushes, Visited, Seen, Pops, Waits
<1>9. (\A c \in sleeping : call[c].pc = "asleep") /\ NoneAsleep
  BY <1>1 DEF NoneAsleep
<1> QED BY <1>4, <1>5, <1>6, <1>7, <1>8, <1>9 DEF PoolInv

\* What a step of one caller leaves alone.
Mine(c) ==
  /\ call' \in [Callers -> Calls] /\ (\A d \in Callers : d # c => call'[d] = call[d])
  /\ UNCHANGED <<kind, access>>
Saw == sawEmpty' = {c \in Callers : call'[c].pc # "idle" /\ (queue' = <<>> \/ c \in sawEmpty)}

\* The steps that leave the list alone: where they go, and what they do to the lock and
\* to the sleepers.
Same(c) ==
  /\ call'[c].op = call[c].op /\ call'[c].units = call[c].units /\ call'[c].n = call[c].n
  /\ call'[c].flag = call[c].flag /\ call'[c].got = call[c].got
Steps(c, a, b) == call[c].pc \in a /\ call'[c].pc \in b
Away(c) == Steps(c, {"test", "spin"}, {"nap", "return"}) /\ (call[c].op \in Pops => q.empty)
           /\ UNCHANGED <<lock, sleeping>>
Looks(c) == (\/ Steps(c, {"test"}, {"lock", "try"}) \/ Steps(c, {"nap"}, {"test", "return"})
              \/ Steps(c, {"try", "spin", "look"}, {"try", "spin", "look"}))
             /\ UNCHANGED <<lock, sleeping>>
Enters(c) == Steps(c, {"try", "lock"}, {"body"}) /\ ~lock /\ lock' = TRUE /\ UNCHANGED sleeping
Leaves(c) == Steps(c, {"unlock"}, {"nap", "return"}) /\ lock' = FALSE /\ UNCHANGED sleeping
Sleeps(c) == /\ Steps(c, {"body"}, {"asleep"}) /\ kind = "fifo_wait" /\ call[c].op \in Waits
             /\ q.empty /\ lock' = FALSE /\ sleeping' = sleeping \cup {c}
Wakes(c) == Steps(c, {"asleep"}, {"lock"}) /\ UNCHANGED lock /\ sleeping' = sleeping \ {c}
Walks(c) ==
  /\ Mine(c) /\ Same(c) /\ UNCHANGED <<q, queue>>
  /\ call'[c].pc = "nap" => call[c].op \in Waits
  /\ Away(c) \/ Looks(c) \/ Enters(c) \/ Leaves(c) \/ Sleeps(c) \/ Wakes(c)

\* A call that goes on is well formed.
LEMMA WalkIsSound ==
  ASSUME PoolInv, NEW c \in Callers, Walks(c)
  PROVE  (\A d \in Callers : Sound(call[d]))'
<1> DEFINE m == call[c]
           r == call'[c]
<1>1. m \in Calls /\ r \in Calls /\ Sound(m) /\ access \in {"PRIV", "MPMC"}
  BY DEF PoolInv, TypeInv, Walks, Mine
<1>2. /\ r.op = m.op /\ r.units = m.units /\ r.n = m.n /\ r.got = m.got
      /\ access' = access /\ kind' = kind /\ (r.pc = "nap" => m.op \in Waits)
  BY DEF Walks, Same, Mine
<1>3. \/ m.pc \in {"test", "spin"} /\ r.pc \in {"nap", "return"}
      \/ m.pc = "test" /\ r.pc \in {"lock", "try"}
      \/ m.pc = "nap" /\ r.pc \in {"test", "return"}
      \/ m.pc \in {"try", "spin", "look"} /\ r.pc \in {"try", "spin", "look"}
      \/ m.pc \in {"try", "lock"} /\ r.pc = "body"
      \/ m.pc = "unlock" /\ r.pc \in {"nap", "return"}
      \/ m.pc = "body" /\ r.pc = "asleep" /\ kind = "fifo_wait" /\ m.op \in Waits
      \/ m.pc = "asleep" /\ r.pc = "lock"
  BY DEF Walks, Away, Looks, Enters, Leaves, Sleeps, Wakes, Steps
<1>6. call'[c] = r /\ call[c] = m
  OBVIOUS
<1> HIDE DEF m, r
<1>4. Sound(call[c])'
  BY <1>1, <1>2, <1>3, <1>6 DEF Sound, Locks, Calls, Waits
<1>5. ASSUME NEW d \in Callers, d # c PROVE Sound(call[d])'
  <2>1. call'[d] = call[d] /\ Sound(call[d]) /\ access' = access /\ kind' = kind
    BY <1>5 DEF Walks, Mine, PoolInv
  <2> QED BY <2>1 DEF Sound, Locks
<1> QED BY <1>4, <1>5 DEF r

\* The lock keeps one caller in the list.
LEMMA WalkExcludes ==
  ASSUME PoolInv, NEW c \in Callers, Walks(c)
  PROVE  Exclusive'
<1>1. /\ call[c] \in Calls /\ call'[c] \in Calls /\ Sound(call[c]) /\ access' = access
      /\ call'[c].op = call[c].op /\ Exclusive /\ lock \in BOOLEAN
  BY DEF PoolInv, TypeInv, Walks, Mine, Same
<1>2. \A d \in Callers : d # c => call'[d] = call[d]
  BY DEF Walks, Mine
<1>3. \A d \in Callers : d # c => (Has(d)' <=> Has(d))
  BY <1>1, <1>2 DEF Has, Locks
<1>4. Locks(call[c])' <=> Locks(call[c])
  BY <1>1 DEF Locks
<1>5. call[c].pc # "idle" /\ call'[c].pc # "idle"
  BY DEF Walks, Away, Looks, Enters, Leaves, Sleeps, Wakes, Steps
<1>6. access' = "PRIV" => \A d, e \in Callers : call'[d].pc # "idle" /\ call'[e].pc # "idle" => d = e
  BY <1>1, <1>2, <1>5 DEF Exclusive
<1>7. CASE (Away(c) \/ Looks(c) \/ Wakes(c)) /\ UNCHANGED lock
  <2>1. ~Has(c) /\ ~Has(c)'
    BY <1>7 DEF Away, Looks, Wakes, Steps, Has
  <2> QED BY <1>1, <1>3, <1>6, <1>7, <2>1 DEF Exclusive
<1>8. CASE Enters(c)
  <2>1. Has(c)' /\ ~lock /\ lock'
    BY <1>1, <1>4, <1>8 DEF Enters, Steps, Has, Sound
  <2> QED BY <1>1, <1>3, <1>6, <2>1 DEF Exclusive
<1>9. CASE Leaves(c) \/ Sleeps(c)
  <2>1. Has(c) /\ ~Has(c)' /\ ~lock'
    BY <1>1, <1>9 DEF Leaves, Sleeps, Steps, Has, Sound, Locks
  <2> QED BY <1>1, <1>3, <1>6, <2>1 DEF Exclusive
<1> QED BY <1>7, <1>8, <1>9 DEF Walks, Away, Looks, Wakes

\* What is in the pool, and what is on its way there, stays.
LEMMA WalkKeepsList ==
  ASSUME PoolInv, NEW c \in Callers, Walks(c)
  PROVE  Spells(q, queue)' /\ Fresh' /\ Visited'
<1>1. /\ q' = q /\ queue' = queue /\ access' = access /\ access \in {"PRIV", "MPMC"}
      /\ Spells(q, queue) /\ Fresh /\ Visited /\ Sound(call[c]) /\ queue \in Seq(Threads)
  BY DEF PoolInv, TypeInv, Walks, Mine, Spells
<1>2. \A d \in Callers : call'[d].op = call[d].op /\ call'[d].units = call[d].units
                         /\ call'[d].got = call[d].got /\ (d # c => call'[d] = call[d])
  BY DEF Walks, Mine, Same
<1>3. Spells(q, queue)'
  BY <1>1
<1>4. \A d \in Callers, p \in Threads : Pushes(d, p)' <=> Pushes(d, p)
  BY <1>2 DEF Pushes
<1>5. Fresh'
  BY <1>1, <1>4 DEF Fresh
<1>6. call[c].op = "print" => \/ call[c].pc = "lock" /\ call'[c].pc = "body"
                              \/ call[c].pc = "unlock" /\ call'[c].pc \in {"nap", "return"}
  BY <1>1 DEF Walks, Away, Looks, Enters, Leaves, Sleeps, Wakes, Steps, Sound, Waits
<1>7. call[c].op = "print" => /\ call'[c].pc = "body" => Fronts(call[c].got, queue)
                              /\ ~Printed(c)'
  <2>1. call[c].pc = "lock" /\ call[c].op = "print" => call[c].got = <<>>
    BY <1>1 DEF Sound
  <2>2. Fronts(<<>>, queue)
    BY <1>1, LenProperties DEF Fronts
  <2>3. call[c].op = "print" /\ call[c].pc = "unlock" => access # "PRIV"
    BY <1>1 DEF Sound, Locks, Waits
  <2> QED BY <1>1, <1>6, <2>1, <2>2, <2>3 DEF Printed
<1>8. ASSUME NEW d \in Callers, call'[d].op = "print"
      PROVE  (call'[d].pc = "body" => Fronts(call'[d].got, queue')) /\ (Printed(d)' => call'[d].got = queue')
  <2>1. CASE d = c
    BY <2>1, <1>1, <1>2, <1>7, <1>8
  <2>2. CASE d # c
    BY <2>2, <1>1, <1>2, <1>8 DEF Visited, Printed
  <2> QED BY <2>1, <2>2
<1> QED BY <1>3, <1>5, <1>8 DEF Visited

\* A pop that gives up without the lock does so at an empty pool.
LEMMA WalkSees ==
  ASSUME PoolInv, NEW c \in Callers, Walks(c), Saw
  PROVE  Seen'
<1>1. /\ Spells(q, queue) /\ queue' = queue /\ Seen /\ sawEmpty \subseteq Callers
  BY DEF PoolInv, TypeInv, Walks
<1>2. q.empty => queue = <<>>
  BY <1>1, EmptySeq DEF Spells, Ended
<1>3. \A d \in Callers : /\ call'[d].op = call[d].op /\ call'[d].got = call[d].got
                         /\ call'[d].n = call[d].n /\ (d # c => call'[d] = call[d])
  BY DEF Walks, Mine, Same
<1>4. call'[c].pc \in {"nap", "unlock", "return"} /\ call[c].op \in Pops =>
        q.empty \/ call[c].pc \in {"nap", "unlock", "return"}
  BY DEF Walks, Away, Looks, Enters, Leaves, Sleeps, Wakes, Steps
<1>5. \A d \in Callers : d \in sawEmpty' <=> call'[d].pc # "idle" /\ (queue' = <<>> \/ d \in sawEmpty)
  BY DEF Saw
<1>6. ASSUME NEW d \in Callers, call'[d].op \in Pops, call'[d].pc \in {"nap", "unlock", "return"},
             Len(call'[d].got) < call'[d].n
      PROVE  d \in sawEmpty'
  <2>1. CASE d = c
    BY <2>1, <1>1, <1>2, <1>3, <1>4, <1>5, <1>6 DEF Seen
  <2>2. CASE d # c
    BY <2>2, <1>1, <1>3, <1>5, <1>6 DEF Seen
  <2> QED BY <2>1, <2>2
<1> QED BY <1>6 DEF Seen

\* Nobody falls asleep over a unit.
LEMMA WalkSleeps ==
  ASSUME PoolInv, NEW c \in Callers, Walks(c)
  PROVE  (\A d \in sleeping : call[d].pc = "asleep")' /\ NoneAsleep'
<1>1. /\ queue' = queue /\ Spells(q, queue) /\ sleeping \subseteq Callers
      /\ (\A d \in sleeping : call[d].pc = "asleep") /\ NoneAsleep /\ IsFiniteSet(Callers)
  BY PoolAssumption DEF PoolInv, TypeInv, Walks
<1>2. \A d \in Callers : /\ call'[d].op = call[d].op /\ call'[d].units = call[d].units
                         /\ call'[d].n = call[d].n /\ (d # c => call'[d] = call[d])
  BY DEF Walks, Mine, Same
<1>3. Len(queue) \in Nat /\ (q.empty => Len(queue) = 0)
  BY <1>1, LenProperties DEF Spells, Ended
<1>4. Coming \subseteq Callers /\ Coming' \subseteq Callers
  BY DEF Coming
<1>5. IsFiniteSet(Coming) /\ IsFiniteSet(Coming')
  BY <1>1, <1>4, FS_Subset
<1>6. Cardinality(Coming') \in Nat /\ Cardinality(Coming) \in Nat
  BY <1>5, FS_CardinalityType
<1>7. CASE Sleeps(c)
  <2>1. \A d \in sleeping' : call'[d].pc = "asleep"
    BY <1>1, <1>2, <1>7 DEF Sleeps, Steps
  <2>2. Len(queue') = 0
    BY <1>1, <1>3, <1>7 DEF Sleeps
  <2>3. NoneAsleep'
    BY <2>2, <1>6 DEF NoneAsleep
  <2> QED BY <2>1, <2>3
<1>8. CASE ~Sleeps(c)
  <2>1. Away(c) \/ Looks(c) \/ Enters(c) \/ Leaves(c) \/ Wakes(c)
    BY <1>8 DEF Walks
  <2>2. sleeping' \subseteq sleeping /\ c \notin sleeping'
    BY <1>1, <2>1 DEF Away, Looks, Enters, Leaves, Wakes, Steps
  <2>3. \A d \in sleeping' : call'[d].pc = "asleep"
    BY <1>1, <1>2, <2>2
  <2>4. \A d \in sleeping \ sleeping' : d = c /\ call'[c].pc = "lock"
    BY <2>1 DEF Away, Looks, Enters, Leaves, Wakes, Steps
  <2>5. call[c].pc \in {"asleep", "lock", "body"} => call'[c].pc \in {"asleep", "lock", "body"}
    BY <2>1 DEF Away, Looks, Enters, Leaves, Wakes, Steps
  <2>6. Coming \subseteq Coming'
    BY <1>2, <2>2, <2>5 DEF Coming
  <2>7. Cardinality(Coming) <= Cardinality(Coming')
    BY <1>5, <2>6, FS_Subset
  <2>8. (\A d \in Callers : ~Pushing(d))' => \A d \in Callers : ~Pushing(d)
    <3>1. call[c].pc = "body" => call'[c].pc = "body"
      BY <2>1 DEF Away, Looks, Enters, Leaves, Wakes, Steps
    <3> QED BY <1>2, <3>1 DEF Pushing
  <2>9. NoneAsleep'
    BY <1>1, <1>3, <1>6, <2>2, <2>7, <2>8 DEF NoneAsleep
  <2> QED BY <2>3, <2>9
<1> QED BY <1>7, <1>8

LEMMA WalkStep ==
  ASSUME PoolInv, NEW c \in Callers, Walks(c), Saw
  PROVE  PoolInv'
<1>1. TypeInv'
  <2>1. TypeInv /\ call' \in [Callers -> Calls] /\ kind' = kind /\ access' = access
    BY DEF PoolInv, Walks, Mine
  <2>2. lock' \in BOOLEAN /\ sleeping' \subseteq Callers
    BY <2>1 DEF TypeInv, Walks, Away, Looks, Enters, Leaves, Sleeps, Wakes
  <2> QED BY <2>1, <2>2 DEF TypeInv, Saw
<1> QED BY <1>1, WalkIsSound, WalkExcludes, WalkKeepsList, WalkSees, WalkSleeps DEF PoolInv

\* What going to another place of the call does.
LEMMA Going ==
  ASSUME TypeInv, Track, NEW c \in Callers, NEW pc \in Places, NEW again \in BOOLEAN,
         \/ Goto(c, pc)
         \/ call' = [call EXCEPT ![c].pc = pc, ![c].again = again]
  PROVE  Mine(c) /\ Same(c) /\ Saw /\ call'[c].pc = pc
<1> DEFINE m == call[c]
<1>1. m \in Calls /\ call \in [Callers -> Calls]
  BY DEF TypeInv
<1>2. call' = [call EXCEPT ![c] = [m EXCEPT !.pc = pc]]
      \/ call' = [call EXCEPT ![c] = [m EXCEPT !.pc = pc, !.again = again]]
  BY DEF Goto
<1> HIDE DEF m
<1>3. ASSUME NEW r, r = [m EXCEPT !.pc = pc] \/ r = [m EXCEPT !.pc = pc, !.again = again]
      PROVE  /\ r \in Calls /\ r.pc = pc /\ r.op = m.op /\ r.units = m.units /\ r.n = m.n
             /\ r.flag = m.flag /\ r.got = m.got
  BY <1>1, <1>3 DEF Calls
<1>4. PICK r : /\ r = [m EXCEPT !.pc = pc] \/ r = [m EXCEPT !.pc = pc, !.again = again]
               /\ call' = [call EXCEPT ![c] = r]
  BY <1>2
<1>5. r \in Calls /\ r.pc = pc /\ r.op = m.op /\ r.units = m.units /\ r.n = m.n /\ r.flag = m.flag /\ r.got = m.got
  BY <1>3, <1>4
<1>6. call' \in [Callers -> Calls] /\ call'[c] = r /\ \A d \in Callers : d # c => call'[d] = call[d]
  BY <1>1, <1>4, <1>5
<1> QED BY <1>5, <1>6 DEF Mine, Same, Saw, Track, m

\* Where a call goes that found nothing.
LEMMA NothingPlaces ==
  ASSUME NEW c \in Callers
  PROVE  /\ NothingPc(c) \in {"nap", "return"} /\ NothingPc(c) \in Places
         /\ NothingPc(c) = "nap" => call[c].op \in Waits
BY DEF NothingPc, Places

\* The steps of a call that leave the list alone are walks.
LEMMA WalkIsWalk ==
  ASSUME PoolInv, Track, NEW c \in Callers,
         \/ TestEmpty(c) \/ AcquireIfNotEmpty(c) \/ AcquireLock(c) \/ Sleep(c) \/ Wake(c)
         \/ ReleaseLock(c) \/ FifoPopWait(c) \/ RandwsPopWait(c) \/ FifoPopTimedwait(c)
         \/ RandwsPopTimedwait(c)
  PROVE  Walks(c) /\ Saw
<1>1. TypeInv /\ Sound(call[c]) /\ lock \in BOOLEAN /\ call[c] \in Calls
  BY DEF PoolInv, TypeInv
<1>2. /\ NothingPc(c) \in {"nap", "return"} /\ NothingPc(c) \in Places
      /\ NothingPc(c) = "nap" => call[c].op \in Waits
  BY NothingPlaces
<1>3. /\ {"test", "lock", "try", "spin", "look", "body", "asleep", "return", "nap"} \subseteq Places
      /\ TRUE \in BOOLEAN
  BY DEF Places
<1>4. CASE TestEmpty(c)
  <2>1. PICK pc \in Places :
          /\ Goto(c, pc) /\ pc \in {"nap", "return", "lock", "try"} /\ (pc = "nap" => call[c].op \in Waits)
          /\ pc \in {"nap", "return"} => (call[c].op \in Pops => q.empty)
    <3> DEFINE pc == IF q.empty \/ (call[c].op = "remove" /\ ~q.in[call[c].units[1]])
                     THEN NothingPc(c) ELSE IF kind = "fifo_wait" THEN "lock" ELSE "try"
    <3>1. Goto(c, pc)
      BY <1>4 DEF TestEmpty
    <3>2. pc \in Places /\ pc \in {"nap", "return", "lock", "try"} /\ (pc = "nap" => call[c].op \in Waits)
      BY <1>2, <1>3
    <3>3. pc \in {"nap", "return"} => (call[c].op \in Pops => q.empty)
      BY DEF Pops, Waits
    <3> HIDE DEF pc
    <3> QED BY <3>1, <3>2, <3>3
  <2>2. Mine(c) /\ Same(c) /\ Saw /\ call'[c].pc = pc
    BY <1>1, <1>3, <2>1, Going
  <2>3. call[c].pc = "test" /\ UNCHANGED <<lock, q, queue, sleeping>>
    BY <1>4 DEF TestEmpty, Keep
  <2> QED BY <2>1, <2>2, <2>3 DEF Walks, Away, Looks, Steps
<1>5. CASE AcquireIfNotEmpty(c)
  <2>1. UNCHANGED <<q, queue, sleeping>>
    BY <1>5 DEF AcquireIfNotEmpty, Keep
  <2>2. CASE call[c].pc = "try" /\ ~lock /\ lock' = TRUE /\ Goto(c, "body")
    <3>1. Mine(c) /\ Same(c) /\ Saw /\ call'[c].pc = "body"
      BY <1>1, <1>3, <2>2, Going
    <3> QED BY <2>1, <2>2, <3>1 DEF Walks, Enters, Steps
  <2>3. CASE call[c].pc = "try" /\ lock /\ Goto(c, "spin") /\ UNCHANGED lock
    <3>1. Mine(c) /\ Same(c) /\ Saw /\ call'[c].pc = "spin"
      BY <1>1, <1>3, <2>3, Going
    <3> QED BY <2>1, <2>3, <3>1 DEF Walks, Looks, Steps
  <2>4. CASE call[c].pc = "spin" /\ UNCHANGED lock /\ Goto(c, IF q.empty THEN NothingPc(c) ELSE "look")
    <3>1. CASE q.empty
      <4>1. Mine(c) /\ Same(c) /\ Saw /\ call'[c].pc = NothingPc(c)
        BY <1>1, <1>2, <1>3, <2>4, <3>1, Going
      <4> QED BY <1>2, <2>1, <2>4, <3>1, <4>1 DEF Walks, Away, Steps
    <3>2. CASE ~q.empty
      <4>1. Mine(c) /\ Same(c) /\ Saw /\ call'[c].pc = "look"
        BY <1>1, <1>3, <2>4, <3>2, Going
      <4> QED BY <2>1, <2>4, <4>1 DEF Walks, Looks, Steps
    <3> QED BY <3>1, <3>2
  <2>5. CASE call[c].pc = "look" /\ UNCHANGED lock /\ Goto(c, IF lock THEN "spin" ELSE "try")
    <3>1. PICK pc \in {"spin", "try"} : Goto(c, pc)
      BY <2>5
    <3>2. Mine(c) /\ Same(c) /\ Saw /\ call'[c].pc = pc
      BY <1>1, <1>3, <3>1, Going
    <3> QED BY <2>1, <2>5, <3>1, <3>2 DEF Walks, Looks, Steps
  <2> QED BY <1>5, <2>2, <2>3, <2>4, <2>5 DEF AcquireIfNotEmpty
<1>6. CASE AcquireLock(c)
  <2>1. call[c].pc = "lock" /\ ~lock /\ lock' = TRUE /\ Goto(c, "body") /\ UNCHANGED <<q, queue, sleeping>>
    BY <1>6 DEF AcquireLock, Keep
  <2>2. Mine(c) /\ Same(c) /\ Saw /\ call'[c].pc = "body"
    BY <1>1, <1>3, <2>1, Going
  <2> QED BY <2>1, <2>2 DEF Walks, Enters, Steps
<1>7. CASE Sleep(c)
  <2>1. /\ call[c].pc = "body" /\ lock' = FALSE /\ sleeping' = sleeping \cup {c} /\ UNCHANGED <<q, queue>>
        /\ kind = "fifo_wait" /\ call[c].op \in Waits /\ q.empty
        /\ call' = [call EXCEPT ![c].pc = "asleep", ![c].again = TRUE]
    BY <1>7 DEF Sleep, MustSleep
  <2>2. Mine(c) /\ Same(c) /\ Saw /\ call'[c].pc = "asleep"
    BY <1>1, <1>3, <2>1, Going
  <2> QED BY <2>1, <2>2 DEF Walks, Sleeps, Steps
<1>8. CASE Wake(c)
  <2>1. /\ call[c].pc = "asleep" /\ UNCHANGED <<lock, q, queue>> /\ sleeping' = sleeping \ {c}
        /\ Goto(c, "lock")
    BY <1>8 DEF Wake
  <2>2. Mine(c) /\ Same(c) /\ Saw /\ call'[c].pc = "lock"
    BY <1>1, <1>3, <2>1, Going
  <2> QED BY <2>1, <2>2 DEF Walks, Wakes, Steps
<1>9. CASE ReleaseLock(c)
  <2>1. PICK pc \in Places : /\ Goto(c, pc) /\ pc \in {"nap", "return"}
                             /\ pc = "nap" => call[c].op \in Waits
    BY <1>2, <1>3, <1>9 DEF ReleaseLock
  <2>2. Mine(c) /\ Same(c) /\ Saw /\ call'[c].pc = pc
    BY <1>1, <1>3, <2>1, Going
  <2>3. call[c].pc = "unlock" /\ lock' = FALSE /\ UNCHANGED <<q, queue, sleeping>>
    BY <1>9 DEF ReleaseLock, Keep
  <2> QED BY <2>1, <2>2, <2>3 DEF Walks, Leaves, Steps
<1>10. CASE FifoPopWait(c) \/ RandwsPopWait(c) \/ FifoPopTimedwait(c) \/ RandwsPopTimedwait(c)
  <2>1. call[c].pc = "nap" /\ UNCHANGED <<lock, q, queue, sleeping>>
    BY <1>10 DEF FifoPopWait, RandwsPopWait, FifoPopTimedwait, RandwsPopTimedwait, Keep
  <2>2. PICK pc \in {"test", "return"} :
          Goto(c, pc) \/ call' = [call EXCEPT ![c].pc = pc, ![c].again = TRUE]
    BY <1>10 DEF FifoPopWait, RandwsPopWait, FifoPopTimedwait, RandwsPopTimedwait
  <2>3. Mine(c) /\ Same(c) /\ Saw /\ call'[c].pc = pc
    BY <1>1, <1>3, <2>2, Going
  <2> QED BY <2>1, <2>2, <2>3 DEF Walks, Looks, Steps
<1> QED BY <1>4, <1>5, <1>6, <1>7, <1>8, <1>9, <1>10

------------------------------------------------------------------------------
(* The steps that start a call, end it, or work on the list *)

Visits(c) == call[c].op = "print" => /\ call[c].pc = "body" => Fronts(call[c].got, queue)
                                     /\ Printed(c) => call[c].got = queue
Sees(c) == call[c].op \in Pops /\ call[c].pc \in {"nap", "unlock", "return"}
             /\ Len(call[c].got) < call[c].n => c \in sawEmpty
Looking(c) == call[c].op = "print" /\ (call[c].pc = "body" \/ Printed(c))

\* What such a step has to show: the rest stays as it was.
LEMMA Frame ==
  ASSUME PoolInv, NEW c \in Callers, Mine(c), Saw,
         UNCHANGED lock, sleeping' \subseteq sleeping, c \notin sleeping,
         Sound(call[c])', Has(c)' <=> Has(c), Visits(c)', Sees(c)',
         access = "PRIV" => \/ call'[c].pc = "idle" \/ call[c].pc # "idle"
                            \/ \A d \in Callers : call[d].pc = "idle",
         queue' = queue \/ \A d \in Callers : d # c => ~Looking(d),
         Spells(q, queue)', Fresh', NoneAsleep'
  PROVE  PoolInv'
<1>1. /\ TypeInv /\ Exclusive /\ (\A d \in Callers : Sound(call[d])) /\ Visited /\ Seen
      /\ (\A d \in sleeping : call[d].pc = "asleep")
  BY DEF PoolInv
<1>2. /\ call' \in [Callers -> Calls] /\ (\A d \in Callers : d # c => call'[d] = call[d])
      /\ UNCHANGED <<kind, access>>
  BY DEF Mine
<1>3. TypeInv'
  BY <1>1, <1>2 DEF TypeInv, Saw
<1>4. (\A d \in Callers : Sound(call[d]))'
  <2>1. ASSUME NEW d \in Callers, d # c PROVE Sound(call[d])'
    BY <1>1, <1>2, <2>1 DEF Sound, Locks
  <2> QED BY <2>1
<1>5. Exclusive'
  <2>1. \A d \in Callers : Has(d)' <=> Has(d)
    BY <1>1, <1>2 DEF Has, Locks
  <2>2. access' = "PRIV" => \A d, e \in Callers : call'[d].pc # "idle" /\ call'[e].pc # "idle" => d = e
    BY <1>1, <1>2 DEF Exclusive
  <2>3. lock' <=> \E d \in Callers : Has(d)'
    BY <1>1, <2>1 DEF Exclusive
  <2>4. \A d, e \in Callers : Has(d)' /\ Has(e)' => d = e
    BY <1>1, <2>1 DEF Exclusive
  <2> QED BY <2>2, <2>3, <2>4 DEF Exclusive
<1>6. Visited'
  <2>1. ASSUME NEW d \in Callers, d # c PROVE Visits(d)'
    <3>1. CASE queue' = queue
      BY <1>1, <1>2, <2>1, <3>1 DEF Visited, Visits, Printed
    <3>2. CASE ~Looking(d)
      BY <1>1, <1>2, <2>1, <3>2 DEF Looking, Visits, Printed
    <3> QED BY <2>1, <3>1, <3>2
  <2>2. \A d \in Callers : Visits(d)'
    BY <2>1
  <2> QED BY <2>2 DEF Visits, Visited
<1>7. Seen'
  <2>1. ASSUME NEW d \in Callers, d # c PROVE Sees(d)'
    <3>1. d \in sawEmpty' <=> call'[d].pc # "idle" /\ (queue' = <<>> \/ d \in sawEmpty)
      BY DEF Saw
    <3>2. call'[d] = call[d] /\ (Sees(d))
      BY <1>1, <1>2, <2>1 DEF Seen, Sees
    <3> QED BY <3>1, <3>2 DEF Sees
  <2>2. \A d \in Callers : Sees(d)'
    BY <2>1
  <2> QED BY <2>2 DEF Sees, Seen
<1>8. (\A d \in sleeping : call[d].pc = "asleep")'
  BY <1>1, <1>2 DEF TypeInv
<1> QED BY <1>3, <1>4, <1>5, <1>6, <1>7, <1>8 DEF PoolInv

\* The waiters are as few as before for what is in the pool.
LEMMA StillAwake ==
  ASSUME PoolInv, NEW c \in Callers, Mine(c), UNCHANGED sleeping, Pushing(c) => Pushing(c)',
         \/ Len(queue') = 0
         \/ Len(queue') <= Len(queue) - One(c \in Coming) + One((c \in Coming)')
  PROVE  NoneAsleep'
<1>1. \A d \in Callers : d # c => call'[d] = call[d]
  BY DEF Mine
<1>2. \A d : d # c => (d \in Coming' <=> d \in Coming)
  BY <1>1 DEF Coming
<1>3. IsFiniteSet(Coming)
  BY PoolAssumption, FS_Subset DEF Coming
<1>4. /\ IsFiniteSet(Coming') /\ Cardinality(Coming) \in Nat
      /\ Cardinality(Coming') = Cardinality(Coming) + One(c \in Coming') - One(c \in Coming)
  BY <1>2, <1>3, CountChange, Zenon
<1>5. Cardinality(Coming') \in Nat
  BY <1>4, FS_CardinalityType
<1>6. (\A d \in Callers : ~Pushing(d))' => \A d \in Callers : ~Pushing(d)
  BY <1>1 DEF Pushing
<1>7. queue \in Seq(Threads) /\ Len(queue) \in Nat /\ NoneAsleep
  BY LenProperties DEF PoolInv, Spells
<1>8. One(c \in Coming) \in Nat /\ One(c \in Coming') \in Nat
  BY DEF One
<1>9. sleeping # {} /\ (\A d \in Callers : ~Pushing(d)) => Len(queue) <= Cardinality(Coming)
  BY <1>7 DEF NoneAsleep
<1>10. sleeping' # {} /\ (\A d \in Callers : ~Pushing(d))' => Len(queue') <= Cardinality(Coming')
  BY <1>4, <1>5, <1>6, <1>7, <1>8, <1>9
<1> QED BY <1>10 DEF NoneAsleep

\* Where a call begins.
LEMMA EntryPlaces ==
  ASSUME TypeInv, NEW op \in Ops
  PROVE  /\ Entry(op) \in {"test", "lock", "body", "each"} /\ (Entry(op) = "each" <=> kind = "old")
         /\ Entry(op) \in {"test", "lock"} => access # "PRIV" \/ op \in Waits
         /\ Entry(op) = "body" => access = "PRIV" /\ op \notin Waits
         /\ op \in {"push", "print"} => Entry(op) \in {"lock", "body", "each"}
<1> USE DEF TypeInv, Waits, Ops
<1>1. CASE kind = "fifo"
  BY <1>1 DEF Entry, FifoDef
<1>2. CASE kind = "randws"
  BY <1>2 DEF Entry, RandwsDef
<1>3. CASE kind = "fifo_wait"
  BY <1>3 DEF Entry, FifoWaitDef
<1>4. CASE kind = "old"
  BY <1>4 DEF Entry, FromOldDef
<1> QED BY <1>1, <1>2, <1>3, <1>4

\* Starting a call, with what it has to push, if anything.
LEMMA Started ==
  ASSUME PoolInv, Track, NEW c \in Callers, NEW op \in Ops \ {"none"}, NEW units \in Seq(Threads),
         NEW n \in Nat, NEW flag \in BOOLEAN, Start(c, op, units, n, flag),
         op = "push" => Distinct(units) /\ Len(units) = n /\ units # <<>>,
         op = "push" => \A p \in Threads : Listed(units, p) =>
                          ~Listed(queue, p) /\ \A d \in Callers : ~Pushes(d, p),
         op = "remove" => Len(units) = 1,
         kind = "old" => op \in {"push", "pop"}
  PROVE  PoolInv'
<1> DEFINE m == [Idle EXCEPT !.op = op, !.pc = Entry(op), !.units = units, !.n = n, !.flag = flag]
           pc == Entry(op)
<1>1. /\ TypeInv /\ Exclusive /\ Fresh /\ Spells(q, queue) /\ Sound(call[c]) /\ call[c] \in Calls
      /\ call \in [Callers -> Calls] /\ (\A d \in sleeping : call[d].pc = "asleep")
      /\ access \in {"PRIV", "MPMC"} /\ queue \in Seq(Threads)
  BY DEF PoolInv, TypeInv, Spells
<1>2. /\ pc \in {"test", "lock", "body", "each"} /\ (pc = "each" <=> kind = "old")
      /\ pc \in {"test", "lock"} => access # "PRIV" \/ op \in Waits
      /\ pc = "body" => access = "PRIV" /\ op \notin Waits
      /\ op \in {"push", "print"} => pc \in {"lock", "body", "each"}
  BY <1>1, EntryPlaces
<1> HIDE DEF pc
<1>3. Idle \in Calls /\ Idle.got = <<>>
  BY EmptyList DEF Idle, Calls, Ops, Places
<1>4. m \in Calls
  <2>1. pc \in Places /\ op \in Ops
    BY <1>2 DEF Places
  <2> QED BY <1>3, <2>1 DEF Calls, pc
<1>5. /\ call[c].pc = "idle" /\ call' = [call EXCEPT ![c] = m] /\ UNCHANGED <<q, lock, sleeping, queue>>
      /\ access = "PRIV" => \A d \in Callers : call[d].pc = "idle"
  BY DEF Start
<1>6. m.op = op /\ m.pc = pc /\ m.units = units /\ m.n = n /\ m.got = <<>>
  BY <1>3 DEF Calls, pc
<1> HIDE DEF m
<1>7. call'[c] = m /\ Mine(c) /\ Saw
  BY <1>1, <1>4, <1>5 DEF Mine, Saw, Track
<1>8. kind' = kind /\ access' = access
  BY DEF Track
<1>9. call[c].op = "none" /\ c \notin sleeping
  BY <1>1, <1>5 DEF Sound
<1>10. Sound(call[c])'
  <2>1. pc # "idle" /\ op # "none" /\ (op = "push" => Distinct(units) /\ Len(units) <= n /\ units # <<>>)
    BY <1>2
  <2> QED BY <1>2, <1>6, <1>7, <1>8, <2>1 DEF Sound, Locks
<1>11. Has(c)' <=> Has(c)
  BY <1>2, <1>5, <1>6, <1>7, <1>8 DEF Has, Locks
<1>12. Visits(c)'
  <2>1. Fronts(<<>>, queue)
    BY <1>1, LenProperties DEF Fronts
  <2>2. ~Printed(c)'
    BY <1>2, <1>6, <1>7, <1>8 DEF Printed
  <2> QED BY <1>5, <1>6, <1>7, <2>1, <2>2 DEF Visits
<1>13. Sees(c)'
  BY <1>2, <1>6, <1>7 DEF Sees
<1>14. Spells(q, queue)'
  BY <1>1, <1>5
<1>15. Fresh'
  <2>1. ASSUME NEW d \in Callers, d # c, NEW p \in Threads PROVE Pushes(d, p)' <=> Pushes(d, p)
    BY <1>7, <2>1 DEF Pushes, Mine
  <2>2. ASSUME NEW p \in Threads, Pushes(c, p)' PROVE ~Listed(queue, p) /\ \A d \in Callers : ~Pushes(d, p)
    BY <1>6, <1>7, <2>2 DEF Pushes
  <2>3. ASSUME NEW d \in Callers, NEW p \in Threads, Pushes(d, p)'
        PROVE  ~Listed(queue, p) /\ \A e \in Callers : Pushes(e, p)' => d = e
    <3>1. CASE d = c
      BY <2>1, <2>2, <2>3, <3>1
    <3>2. CASE d # c
      BY <1>1, <2>1, <2>2, <2>3, <3>2 DEF Fresh
    <3> QED BY <3>1, <3>2
  <2> QED BY <1>5, <2>3 DEF Fresh
<1>16. NoneAsleep'
  <2>1. ~Pushing(c) /\ c \notin Coming
    BY <1>5 DEF Pushing, Coming
  <2>2. Len(queue') <= Len(queue) - One(c \in Coming) + One((c \in Coming)')
    BY <1>1, <1>5, <2>1, LenProperties DEF One
  <2> QED BY <1>5, <1>7, <2>1, <2>2, StillAwake
<1> QED BY <1>5, <1>7, <1>9, <1>10, <1>11, <1>12, <1>13, <1>14, <1>15, <1>16, Frame

\* The units outside are in no queue and on no way.
LEMMA OutsideIsOutside ==
  ASSUME TypeInv, queue \in Seq(Threads), NEW p \in Outside
  PROVE  p \in Threads /\ ~Listed(queue, p) /\ \A d \in Callers : ~Pushes(d, p)
<1>1. \A s \in Seq(Threads) : Listed(s, p) => p \in ToSet(s)
  BY DEF Listed, ToSet
<1>2. \A d \in Callers : call[d].units \in Seq(Threads)
  BY DEF TypeInv, Calls
<1>3. p \in Threads /\ p \notin ToSet(queue)
  BY DEF Outside
<1>4. \A d \in Callers : p \notin ToSet(call[d].units)
  BY DEF Outside
<1> QED BY <1>1, <1>2, <1>3, <1>4 DEF Pushes

\* Every call starts well.
LEMMA CallStep ==
  ASSUME PoolInv, Track, NEW c \in Callers,
         \/ CallPush(c) \/ CallPop(c) \/ CallPopWait(c) \/ CallTimedwait(c) \/ CallRemove(c)
         \/ CallPrint(c)
  PROVE  PoolInv'
<1>1. Contexts \subseteq BOOLEAN /\ <<>> \in Seq(Threads) /\ FALSE \in BOOLEAN
  BY EmptyList DEF Contexts
<1>2. Lengths \subseteq Nat \ {0}
  BY PoolAssumption
<1>3. 1 \in Nat
  OBVIOUS
<1>4. CASE CallPush(c)
  <2>0. PICK n \in Lengths, create \in Contexts :
          \E u \in {v \in [1..n -> Outside] : IsInjective(v)} : Start(c, "push", u, n, create)
    BY <1>4 DEF CallPush
  <2>1. PICK u \in [1..n -> Outside] : IsInjective(u) /\ Start(c, "push", u, n, create)
    BY <2>0
  <2>2. TypeInv /\ queue \in Seq(Threads) /\ n \in Nat \ {0}
    BY <1>2 DEF PoolInv, Spells
  <2>3. \A i \in 1..n : u[i] \in Threads /\ ~Listed(queue, u[i]) /\ \A d \in Callers : ~Pushes(d, u[i])
    BY <2>1, <2>2, OutsideIsOutside
  <2>4. u \in Seq(Threads) /\ Len(u) = n
    BY <2>2, <2>3
  <2>5. Distinct(u)
    BY <2>1, <2>4 DEF Distinct, IsInjective
  <2>6. u # <<>>
    BY <2>2, <2>4
  <2>7. \A p \in Threads : Listed(u, p) => ~Listed(queue, p) /\ \A d \in Callers : ~Pushes(d, p)
    BY <2>3, <2>4 DEF Listed
  <2>8. create \in BOOLEAN /\ "push" \in Ops \ {"none"}
    BY <1>1 DEF Ops
  <2> QED BY <2>1, <2>2, <2>4, <2>5, <2>6, <2>7, <2>8, Started
<1>5. CASE CallPop(c)
  <2>1. PICK n \in Lengths, secondary \in Contexts : Start(c, "pop", <<>>, n, secondary)
    BY <1>5 DEF CallPop
  <2>2. n \in Nat /\ secondary \in BOOLEAN /\ "pop" \in Ops \ {"none"}
    BY <1>1, <1>2 DEF Ops
  <2> QED BY <1>1, <2>1, <2>2, Started
<1>6. CASE CallPopWait(c)
  <2>1. PICK secondary \in Contexts : Start(c, "pop_wait", <<>>, 1, secondary)
    BY <1>6 DEF CallPopWait
  <2>2. secondary \in BOOLEAN /\ "pop_wait" \in Ops \ {"none"} /\ kind # "old"
    BY <1>1, <1>6 DEF Ops, CallPopWait
  <2> QED BY <1>1, <1>3, <2>1, <2>2, Started
<1>7. CASE CallTimedwait(c)
  <2>1. "pop_timedwait" \in Ops \ {"none"} /\ kind # "old" /\ Start(c, "pop_timedwait", <<>>, 1, FALSE)
    BY <1>7 DEF Ops, CallTimedwait
  <2> QED BY <1>1, <1>3, <2>1, Started
<1>8. CASE CallRemove(c)
  <2>1. PICK p \in Threads : Start(c, "remove", <<p>>, 1, FALSE)
    BY <1>8 DEF CallRemove
  <2>2. "remove" \in Ops \ {"none"} /\ kind # "old" /\ <<p>> \in Seq(Threads) /\ Len(<<p>>) = 1
    BY <1>8 DEF Ops, CallRemove
  <2> QED BY <1>1, <1>3, <2>1, <2>2, Started
<1>9. CASE CallPrint(c)
  <2>1. "print" \in Ops \ {"none"} /\ kind # "old" /\ Start(c, "print", <<>>, 1, FALSE)
    BY <1>9 DEF Ops, CallPrint
  <2> QED BY <1>1, <1>3, <2>1, Started
<1> QED BY <1>4, <1>5, <1>6, <1>7, <1>8, <1>9

\* A call that returns leaves nothing behind.
LEMMA ReturnStep ==
  ASSUME PoolInv, Track, NEW c \in Callers, Return(c)
  PROVE  PoolInv'
<1>1. /\ TypeInv /\ Fresh /\ Spells(q, queue) /\ call \in [Callers -> Calls]
      /\ (\A d \in sleeping : call[d].pc = "asleep") /\ queue \in Seq(Threads)
  BY DEF PoolInv, TypeInv, Spells
<1>2. Idle \in Calls /\ Idle.pc = "idle" /\ Idle.op = "none"
  BY EmptyList DEF Idle, Calls, Ops, Places
<1>3. /\ call[c].pc = "return" /\ call' = [call EXCEPT ![c] = Idle]
      /\ UNCHANGED <<q, lock, sleeping, queue>>
  BY DEF Return, Keep
<1>4. call'[c] = Idle /\ Mine(c) /\ Saw
  BY <1>1, <1>2, <1>3 DEF Mine, Saw, Track
<1>5. Sound(call[c])'
  BY <1>2, <1>4 DEF Sound, Waits
<1>6. (Has(c)' <=> Has(c)) /\ Visits(c)' /\ Sees(c)'
  BY <1>2, <1>3, <1>4 DEF Has, Visits, Sees
<1>7. Spells(q, queue)'
  BY <1>1, <1>3
<1>8. Fresh'
  <2>1. \A d \in Callers, p \in Threads : Pushes(d, p)' => Pushes(d, p)
    BY <1>2, <1>4 DEF Pushes, Mine
  <2> QED BY <1>1, <1>3, <2>1 DEF Fresh
<1>9. NoneAsleep'
  <2>1. ~Pushing(c) /\ c \notin Coming /\ (c \notin Coming)'
    BY <1>2, <1>3, <1>4 DEF Pushing, Coming
  <2>2. Len(queue') <= Len(queue) - One(c \in Coming) + One((c \in Coming)')
    BY <1>1, <1>3, <2>1, LenProperties DEF One
  <2> QED BY <1>3, <1>4, <2>1, <2>2, StillAwake
<1>10. c \notin sleeping /\ call'[c].pc = "idle"
  BY <1>1, <1>2, <1>3, <1>4
<1> QED BY <1>3, <1>4, <1>5, <1>6, <1>7, <1>8, <1>9, <1>10, Frame

\* A step of a call that works on the list, and stays at it or leaves it.
Works(c) ==
  /\ Mine(c) /\ call[c].pc \in {"body", "each"} /\ call'[c].pc \in {call[c].pc, Leave(c)}
  /\ call'[c].op = call[c].op /\ call'[c].n = call[c].n
  /\ UNCHANGED lock /\ sleeping' \subseteq sleeping

\* Whoever works on the list does so alone.
LEMMA WorksAlone ==
  ASSUME PoolInv, NEW c \in Callers, call[c].pc \in {"body", "each"}
  PROVE  \A d \in Callers : d # c => ~Looking(d)
<1>1. /\ Exclusive /\ (\A d \in Callers : Sound(call[d])) /\ access \in {"PRIV", "MPMC"}
  BY DEF PoolInv, TypeInv
<1>2. ASSUME NEW d \in Callers, d # c, Looking(d) PROVE FALSE
  <2>1. Sound(call[c]) /\ Sound(call[d])
    BY <1>1
  <2>2. CASE access = "PRIV"
    BY <1>1, <1>2, <2>1, <2>2 DEF Exclusive, Looking, Sound
  <2>3. CASE access # "PRIV"
    <3>1. Has(d)
      BY <1>2, <2>3 DEF Looking, Printed, Has, Locks
    <3>2. ~Has(c)
      BY <1>1, <1>2, <3>1 DEF Exclusive
    <3>3. call[c].pc = "each" /\ kind = "old"
      BY <2>1, <2>3, <3>2 DEF Has, Locks, Sound
    <3> QED BY <1>2, <2>1, <3>3 DEF Looking, Sound
  <2> QED BY <2>2, <2>3
<1> QED BY <1>2

\* What such a step has to show.
LEMMA WorkFrame ==
  ASSUME PoolInv, NEW c \in Callers, Works(c), Saw,
         call[c].op = "push" => /\ Distinct(call'[c].units) /\ Len(call'[c].units) <= call[c].n
                                /\ call'[c].pc = call[c].pc => call'[c].units # <<>>,
         call[c].op = "remove" => call'[c].units = call[c].units,
         call[c].op = "print" => /\ call'[c].pc = "body" => Fronts(call'[c].got, queue')
                                 /\ call'[c].pc # "body" => call'[c].got = queue',
         call[c].op \in Pops /\ call'[c].pc # call[c].pc /\ Len(call'[c].got) < call[c].n
           => queue' = <<>>,
         Spells(q, queue)', Fresh', NoneAsleep'
  PROVE  PoolInv'
<1> DEFINE m == call[c]
           r == call'[c]
<1>1. /\ TypeInv /\ Exclusive /\ Sound(m) /\ m \in Calls /\ access \in {"PRIV", "MPMC"}
      /\ (\A d \in sleeping : call[d].pc = "asleep")
  BY DEF PoolInv, TypeInv
<1>2. /\ r \in Calls /\ m.pc \in {"body", "each"} /\ r.op = m.op /\ r.n = m.n
      /\ UNCHANGED <<lock, kind, access>> /\ Mine(c) /\ sleeping' \subseteq sleeping
  BY DEF Works, Mine
<1>3. \/ r.pc = m.pc
      \/ r.pc = "unlock" /\ m.pc = "body" /\ Locks(m)
      \/ r.pc = "return" /\ ~(m.pc = "body" /\ Locks(m))
  BY DEF Works, Leave, Locks
<1>4. c \notin sleeping
  BY <1>1, <1>2
<1>6. /\ m.op = "push" => /\ Distinct(r.units) /\ Len(r.units) <= m.n
                          /\ r.pc = m.pc => r.units # <<>>
      /\ m.op = "remove" => r.units = m.units
      /\ m.op = "print" => /\ r.pc = "body" => Fronts(r.got, queue')
                           /\ r.pc # "body" => r.got = queue'
      /\ m.op \in Pops /\ r.pc # m.pc /\ Len(r.got) < m.n => queue' = <<>>
  OBVIOUS
<1>7. m.pc # "idle" /\ r.pc # "idle" /\ call'[c] = r /\ call[c] = m
  BY <1>2, <1>3
<1> HIDE DEF m, r
<1>8. Sound(call[c])'
  <2>2. /\ r.pc = "idle" <=> r.op = "none"
        /\ r.op = "remove" => Len(r.units) = 1
        /\ r.op = "print" /\ r.pc = "lock" => r.got = <<>>
        /\ r.op \in {"push", "print"} => r.pc \in {"lock", "body", "each", "unlock", "return"}
        /\ r.pc = "each" => kind = "old"
        /\ kind = "old" => r.pc \in {"idle", "each", "return"} /\ r.op \in {"none", "push", "pop"}
    BY <1>1, <1>2, <1>3, <1>6 DEF Sound
  <2>3. /\ r.op = "push" => Distinct(r.units) /\ Len(r.units) <= r.n
        /\ r.op = "push" /\ r.pc \in {"lock", "body", "each"} => r.units # <<>>
    BY <1>1, <1>2, <1>3, <1>6 DEF Sound
  <2>4. r.pc \in {"test", "lock", "try", "spin", "look", "unlock", "nap", "asleep"} => Locks(r)
    BY <1>1, <1>2, <1>3 DEF Sound, Locks
  <2>5. /\ r.pc \in {"nap", "asleep"} => r.op \in Waits
        /\ r.pc = "asleep" => kind = "fifo_wait"
    BY <1>1, <1>2, <1>3 DEF Sound
  <2> QED BY <1>2, <1>7, <2>2, <2>3, <2>4, <2>5 DEF Sound, Locks
<1>9. Has(c)' <=> Has(c)
  BY <1>2, <1>3, <1>7 DEF Has, Locks
<1>10. Visits(c)'
  <2>1. Printed(c)' => r.pc # "body"
    BY <1>7 DEF Printed
  <2> QED BY <1>2, <1>6, <1>7, <2>1 DEF Visits
<1>11. Sees(c)'
  <2>1. c \in sawEmpty' <=> queue' = <<>> \/ c \in sawEmpty
    BY <1>7 DEF Saw
  <2> QED BY <1>2, <1>3, <1>6, <1>7, <2>1 DEF Sees
<1>12. \A d \in Callers : d # c => ~Looking(d)
  BY <1>2, <1>7, WorksAlone
<1> QED BY <1>2, <1>4, <1>7, <1>8, <1>9, <1>10, <1>11, <1>12, Frame

\* A caller's record becomes another.
LEMMA Working ==
  ASSUME TypeInv, Track, NEW c \in Callers, NEW r \in Calls, call' = [call EXCEPT ![c] = r]
  PROVE  Mine(c) /\ Saw /\ call'[c] = r
BY DEF TypeInv, Mine, Saw, Track

\* A call that pushes nothing keeps what is on its way out of the pool.
LEMMA FreshStays ==
  ASSUME PoolInv, NEW c \in Callers, Mine(c), call'[c].op = call[c].op,
         call'[c].units = call[c].units,
         \A x : Listed(queue', x) => Listed(queue, x)
  PROVE  Fresh'
<1>1. \A d \in Callers, p \in Threads : Pushes(d, p)' <=> Pushes(d, p)
  BY DEF Pushes, Mine
<1>2. Fresh
  BY DEF PoolInv
<1> QED BY <1>1, <1>2 DEF Fresh

LEMMA LeavePlaces ==
  ASSUME NEW c \in Callers
  PROVE  Leave(c) \in {"unlock", "return"} /\ Leave(c) \in Places
BY DEF Leave, Places

\* print_all follows the links.
LEMMA PrintStep ==
  ASSUME PoolInv, Track, NEW c \in Callers, PrintUnit(c)
  PROVE  PoolInv'
<1> DEFINE got == call[c].got
           k == Len(got)
           p == IF got = <<>> THEN q.head ELSE q.next[got[Len(got)]]
           n == Len(queue)
<1>1. /\ TypeInv /\ call[c] \in Calls /\ call \in [Callers -> Calls] /\ Spells(q, queue) /\ Visited
      /\ queue \in Seq(Threads) /\ got \in Seq(Threads) /\ call[c].units \in Seq(Threads)
  BY DEF PoolInv, TypeInv, Spells, Calls
<1>2. /\ call[c].pc = "body" /\ call[c].op = "print" /\ UNCHANGED <<lock, q, sleeping, queue>>
      /\ call' = IF k = q.num THEN [call EXCEPT ![c].pc = Leave(c)]
                 ELSE [call EXCEPT ![c].got = Append(got, p)]
  BY DEF PrintUnit, Keep
<1>3. k \in Nat /\ n \in Nat /\ k <= n /\ \A i \in 1..k : got[i] = queue[i]
  BY <1>1, <1>2, LenProperties DEF Visited, Fronts
<1>4. q.num = n
  BY <1>1 DEF Spells, Ended
<1>5. Leave(c) \in {"unlock", "return"} /\ Leave(c) \in Places /\ "body" \in Places
  BY LeavePlaces DEF Places
<1>6. /\ Works(c) /\ Saw /\ call'[c].units = call[c].units
      /\ call'[c].pc = "body" => Fronts(call'[c].got, queue)
      /\ call'[c].pc # "body" => call'[c].got = queue
  <2>1. CASE k = n
    <3>1. got = queue
      BY <1>1, <1>3, <2>1, SeqEqual
    <3> DEFINE r == [call[c] EXCEPT !.pc = Leave(c)]
    <3>2. call' = [call EXCEPT ![c] = r]
      BY <1>2, <1>4, <2>1
    <3> HIDE DEF k, p, n
    <3>3. /\ r \in Calls /\ r.pc = Leave(c) /\ r.units = call[c].units
          /\ r.got = got /\ r.op = call[c].op /\ r.n = call[c].n
      BY <1>1, <1>5 DEF Calls
    <3> HIDE DEF r
    <3>4. Mine(c) /\ Saw /\ call'[c] = r
      BY <1>1, <3>2, <3>3, Working
    <3> QED BY <1>2, <1>5, <3>1, <3>3, <3>4 DEF Works
  <2>2. CASE k # n
    <3>1. k + 1 \in 1..n /\ k < n /\ n # 0
      BY <1>3, <2>2
    <3>2. p = queue[k + 1]
      <4>1. CASE got = <<>>
        <5>1. q.head = queue[1] /\ k = 0
          BY <1>1, <3>1, <4>1 DEF Spells, Ended
        <5> QED BY <4>1, <5>1
      <4>2. CASE got # <<>>
        <5>1. k \in 1..n /\ k \in 1..k
          BY <1>1, <1>3, <4>2, EmptySeq
        <5>2. got[k] = queue[k] /\ q.next[queue[k]] = queue[k + 1]
          BY <1>1, <1>3, <3>1, <5>1 DEF Spells, Round
        <5> QED BY <4>2, <5>2
      <4> QED BY <4>1, <4>2
    <3>3. p \in Threads
      BY <1>1, <3>1, <3>2
    <3> HIDE DEF p
    <3>4. /\ Append(got, p) \in Seq(Threads) /\ Len(Append(got, p)) = k + 1
          /\ Append(got, p)[k + 1] = p /\ \A i \in 1..k : Append(got, p)[i] = got[i]
      BY <1>1, <3>3, AppendProperties
    <3>5. Fronts(Append(got, p), queue)
      <4> DEFINE g == Append(got, p)
      <4>1. \A i \in 1..(k + 1) : i = k + 1 \/ i \in 1..k
        BY <1>3
      <4> HIDE DEF g
      <4> SUFFICES Fronts(g, queue)
        BY DEF g
      <4>2. Len(g) = k + 1 /\ g[k + 1] = p /\ \A i \in 1..k : g[i] = got[i]
        BY <3>4 DEF g
      <4> HIDE DEF k, n, got
      <4> QED BY <1>3, <3>1, <3>2, <4>1, <4>2 DEF Fronts, n
    <3> DEFINE r == [call[c] EXCEPT !.got = Append(got, p)]
    <3>6. call' = [call EXCEPT ![c] = r]
      BY <1>2, <1>4, <2>2 DEF p
    <3> HIDE DEF k, n
    <3>7. /\ r \in Calls /\ r.pc = "body" /\ r.units = call[c].units
          /\ r.got = Append(got, p) /\ r.op = call[c].op /\ r.n = call[c].n
      BY <1>1, <1>2, <3>4 DEF Calls
    <3> HIDE DEF r
    <3>8. Mine(c) /\ Saw /\ call'[c] = r
      BY <1>1, <3>6, <3>7, Working
    <3> QED BY <1>2, <3>5, <3>7, <3>8 DEF Works
  <2> QED BY <2>1, <2>2
<1>7. Spells(q, queue)'
  BY <1>1, <1>2
<1>8. Fresh'
  BY <1>2, <1>6, FreshStays DEF Works
<1>9. NoneAsleep'
  <2>1. ~Pushing(c) /\ c \notin Coming /\ (c \notin Coming)'
    BY <1>2, <1>6 DEF Pushing, Coming, Waits, Works
  <2>2. Len(queue') <= Len(queue) - One(c \in Coming) + One((c \in Coming)')
    BY <1>1, <1>2, <2>1, LenProperties DEF One
  <2> QED BY <1>2, <1>6, <2>1, <2>2, StillAwake DEF Works
<1>10. /\ call[c].op = "push" => /\ Distinct(call'[c].units) /\ Len(call'[c].units) <= call[c].n
                                 /\ call'[c].pc = call[c].pc => call'[c].units # <<>>
       /\ call[c].op = "remove" => call'[c].units = call[c].units
       /\ call[c].op \in Pops /\ call'[c].pc # call[c].pc /\ Len(call'[c].got) < call[c].n
           => queue' = <<>>
  BY <1>2 DEF Pops, Waits
<1>11. call[c].op = "print" => /\ call'[c].pc = "body" => Fronts(call'[c].got, queue')
                               /\ call'[c].pc # "body" => call'[c].got = queue'
  BY <1>2, <1>6
<1> HIDE DEF got, k, p, n
<1> QED BY <1>6, <1>7, <1>8, <1>9, <1>10, <1>11, WorkFrame

\* Removing by position.
LEMMA RemoveAtIsWithout ==
  ASSUME NEW s \in Seq(Threads), NEW k \in 1..Len(s), Distinct(s)
  PROVE  /\ RemoveAt(s, k) = Without(s, k) /\ Len(RemoveAt(s, k)) = Len(s) - 1
         /\ \A x : Listed(RemoveAt(s, k), x) => Listed(s, x)
<1>1. RemoveAt(s, k) = Without(s, k)
  BY DEF RemoveAt, Without
<1> QED BY <1>1, WithoutUnlists

\* A pop takes the unit at its end.
LEMMA PopStep ==
  ASSUME PoolInv, Track, NEW c \in Callers, PopUnit(c)
  PROVE  PoolInv'
<1> DEFINE r == PopOne(c)
           k == IF AtTail(c) THEN Len(queue) ELSE 1
           got == IF r.p = NULL THEN call[c].got ELSE Append(call[c].got, r.p)
           pc == IF r.p = NULL \/ Len(got) = call[c].n THEN Leave(c) ELSE call[c].pc
           m == [call[c] EXCEPT !.got = got, !.pc = pc]
<1>1. /\ TypeInv /\ call[c] \in Calls /\ call \in [Callers -> Calls] /\ Spells(q, queue)
      /\ queue \in Seq(Threads) /\ Distinct(queue)
      /\ call[c].got \in Seq(Threads) /\ call[c].units \in Seq(Threads)
  BY DEF PoolInv, TypeInv, Spells, Calls
<1>2. /\ call[c].pc \in {"body", "each"} /\ call[c].op \in Pops /\ UNCHANGED <<lock, sleeping>>
      /\ q' = r.q /\ queue' = IF queue = <<>> THEN <<>> ELSE RemoveAt(queue, k)
      /\ call' = [call EXCEPT ![c] = m]
  <2>1. call' = [call EXCEPT ![c].got = got, ![c].pc = pc]
    BY DEF PopUnit
  <2>2. call' = [call EXCEPT ![c] = m]
    BY <2>1
  <2> QED BY <2>2 DEF PopUnit
<1>3. \/ /\ queue = <<>> /\ r.p = NULL /\ q' = q /\ queue' = <<>>
      \/ /\ queue # <<>> /\ r.p \in Threads /\ Len(queue') = Len(queue) - 1
         /\ Spells(q, queue)' /\ \A x : Listed(queue', x) => Listed(queue, x)
  <2>1. CASE queue = <<>>
    <3>1. PopHead(q).q = q /\ PopHead(q).p = NULL /\ PopTail(q).q = q /\ PopTail(q).p = NULL
      BY <1>1, <2>1, PopSpells
    <3> QED BY <1>2, <2>1, <3>1 DEF PopOne
  <2>2. CASE queue # <<>>
    <3>1. k \in 1..Len(queue) /\ queue[k] \in Threads
      <4>1. Len(queue) \in Nat \ {0} /\ \A i \in 1..Len(queue) : queue[i] \in Threads
        BY <1>1, <2>2, EmptySeq, LenProperties
      <4> QED BY <4>1
    <3>2. r.p = queue[k] /\ Spells(r.q, Without(queue, k))
      <4>1. /\ PopHead(q).p = queue[1] /\ Spells(PopHead(q).q, Without(queue, 1))
            /\ PopTail(q).p = queue[Len(queue)] /\ Spells(PopTail(q).q, Without(queue, Len(queue)))
        BY <1>1, <2>2, PopSpells
      <4> QED BY <4>1 DEF PopOne
    <3> HIDE DEF r, k
    <3>3. /\ RemoveAt(queue, k) = Without(queue, k) /\ Len(RemoveAt(queue, k)) = Len(queue) - 1
          /\ \A x : Listed(RemoveAt(queue, k), x) => Listed(queue, x)
      BY <1>1, <3>1, RemoveAtIsWithout
    <3> QED BY <1>2, <2>2, <3>1, <3>2, <3>3
  <2> QED BY <2>1, <2>2
<1>4. r.p = NULL => r.p \notin Threads
  BY PoolAssumption
<1> HIDE DEF r, k
<1>5. got \in Seq(Threads)
  BY <1>1, <1>3, AppendProperties
<1>6. /\ pc \in {call[c].pc, Leave(c)} /\ pc \in Places
      /\ pc # call[c].pc => r.p = NULL \/ Len(got) = call[c].n
  <2>1. Leave(c) \in Places /\ call[c].pc \in Places
    BY <1>1, LeavePlaces DEF Calls
  <2> QED BY <2>1
<1> HIDE DEF got, pc
<1>7. /\ m \in Calls /\ m.op = call[c].op /\ m.n = call[c].n /\ m.units = call[c].units
      /\ m.got = got /\ m.pc = pc
  BY <1>1, <1>5, <1>6 DEF Calls
<1> HIDE DEF m
<1>8. Mine(c) /\ Saw /\ call'[c] = m
  BY <1>1, <1>2, <1>7, Working
<1>9. Works(c)
  BY <1>2, <1>6, <1>7, <1>8 DEF Works
<1>10. Spells(q, queue)'
  <2>1. CASE q' = q /\ queue' = queue
    BY <1>1, <2>1
  <2> QED BY <1>3, <2>1
<1>11. Fresh'
  <2>1. \A x : Listed(queue', x) => Listed(queue, x)
    BY <1>3
  <2> QED BY <1>7, <1>8, <2>1, FreshStays
<1>12. NoneAsleep'
  <2>1. ~Pushing(c)
    BY <1>2 DEF Pushing, Pops, Waits
  <2>2. CASE queue' = <<>>
    BY <1>2, <1>8, <2>1, <2>2, StillAwake
  <2>3. CASE Len(queue') = Len(queue) - 1
    <3>1. Len(queue') <= Len(queue) - One(c \in Coming) + One((c \in Coming)')
      BY <1>1, <2>3, LenProperties DEF One
    <3> QED BY <1>2, <1>8, <2>1, <3>1, StillAwake
  <2> QED BY <1>3, <2>2, <2>3
<1>13. /\ call[c].op # "push" /\ call[c].op # "remove" /\ call[c].op # "print"
       /\ call'[c].pc # call[c].pc /\ Len(call'[c].got) < call[c].n => queue' = <<>>
  <2>1. call[c].n \in Nat
    BY <1>1 DEF Calls
  <2>2. call'[c].pc # call[c].pc /\ Len(call'[c].got) < call[c].n => r.p = NULL
    BY <1>6, <1>7, <1>8, <2>1
  <2>3. r.p = NULL => queue' = <<>>
    BY <1>3, <1>4
  <2> QED BY <1>2, <2>2, <2>3 DEF Pops, Waits
<1> QED BY <1>8, <1>9, <1>10, <1>11, <1>12, <1>13, WorkFrame

\* A removal takes the unit if it is there.
LEMMA RemoveStep ==
  ASSUME PoolInv, Track, NEW c \in Callers, RemoveUnit(c)
  PROVE  PoolInv'
<1> DEFINE p == call[c].units[1]
           got == IF Removable(q, p) THEN <<p>> ELSE <<>>
           m == [call[c] EXCEPT !.got = got, !.pc = Leave(c)]
<1>1. /\ TypeInv /\ call[c] \in Calls /\ call \in [Callers -> Calls] /\ Spells(q, queue)
      /\ queue \in Seq(Threads) /\ Distinct(queue) /\ Sound(call[c])
      /\ call[c].got \in Seq(Threads) /\ call[c].units \in Seq(Threads)
  BY DEF PoolInv, TypeInv, Spells, Calls
<1>2. /\ call[c].pc = "body" /\ call[c].op = "remove" /\ UNCHANGED <<lock, sleeping>>
      /\ q' = (IF Removable(q, p) THEN RemoveThread(q, p) ELSE q)
      /\ \/ \E i \in DOMAIN queue : queue[i] = p /\ queue' = RemoveAt(queue, i)
         \/ p \notin ToSet(queue) /\ UNCHANGED queue
      /\ call' = [call EXCEPT ![c] = m]
  <2>1. call' = [call EXCEPT ![c].got = got, ![c].pc = Leave(c)]
    BY DEF RemoveUnit
  <2>2. call' = [call EXCEPT ![c] = m]
    BY <2>1
  <2> QED BY <2>2 DEF RemoveUnit
<1>3. p \in Threads
  <2>1. Len(call[c].units) = 1
    BY <1>1, <1>2 DEF Sound
  <2> QED BY <1>1, <2>1
<1> HIDE DEF p
<1>4. /\ Spells(q, queue)' /\ Len(queue') <= Len(queue)
      /\ \A x : Listed(queue', x) => Listed(queue, x)
  <2>1. /\ Removable(q, p) <=> Listed(queue, p)
        /\ \A k \in 1..Len(queue) : queue[k] = p => Spells(RemoveThread(q, p), Without(queue, k))
    BY <1>1, <1>3, RemoveSpells
  <2>2. Len(queue) \in Nat /\ DOMAIN queue = 1..Len(queue)
    BY <1>1, LenProperties
  <2>3. CASE \E i \in DOMAIN queue : queue[i] = p /\ queue' = RemoveAt(queue, i)
    <3>1. PICK i \in 1..Len(queue) : queue[i] = p /\ queue' = RemoveAt(queue, i)
      BY <2>2, <2>3
    <3>2. Listed(queue, p)
      BY <3>1 DEF Listed
    <3>3. /\ queue' = Without(queue, i) /\ Len(queue') = Len(queue) - 1
          /\ \A x : Listed(queue', x) => Listed(queue, x)
      BY <1>1, <3>1, RemoveAtIsWithout
    <3> QED BY <1>2, <2>1, <2>2, <3>1, <3>2, <3>3
  <2>4. CASE p \notin ToSet(queue) /\ UNCHANGED queue
    <3>1. ~Listed(queue, p)
      BY <1>1, <2>4 DEF Listed, ToSet
    <3>2. q' = q
      BY <1>2, <2>1, <3>1
    <3> QED BY <1>1, <2>2, <2>4, <3>2
  <2> QED BY <1>2, <2>3, <2>4
<1>5. got \in Seq(Threads) /\ Leave(c) \in Places /\ Leave(c) \in {"unlock", "return"}
  <2>1. <<>> \in Seq(Threads) /\ <<p>> \in Seq(Threads)
    BY <1>3, EmptyList
  <2> QED BY <2>1, LeavePlaces
<1> HIDE DEF got
<1>6. /\ m \in Calls /\ m.op = call[c].op /\ m.n = call[c].n /\ m.units = call[c].units
      /\ m.pc = Leave(c)
  BY <1>1, <1>5 DEF Calls
<1> HIDE DEF m
<1>7. Mine(c) /\ Saw /\ call'[c] = m
  BY <1>1, <1>2, <1>6, Working
<1>8. Works(c)
  BY <1>2, <1>6, <1>7 DEF Works
<1>9. Fresh'
  BY <1>4, <1>6, <1>7, FreshStays
<1>10. NoneAsleep'
  <2>1. ~Pushing(c) /\ c \notin Coming /\ (c \notin Coming)'
    BY <1>2, <1>6, <1>7 DEF Pushing, Coming, Waits
  <2>2. Len(queue') <= Len(queue) - One(c \in Coming) + One((c \in Coming)')
    BY <1>1, <1>4, <2>1, LenProperties DEF One
  <2> QED BY <1>2, <1>7, <2>1, <2>2, StillAwake
<1>11. /\ call[c].op # "push" /\ call[c].op # "print" /\ call[c].op \notin Pops
       /\ call'[c].units = call[c].units
  BY <1>2, <1>6, <1>7 DEF Pops, Waits
<1> QED BY <1>4, <1>7, <1>8, <1>9, <1>10, <1>11, WorkFrame

\* Pushing one unit for nobody to sleep over: one waiter wakes for it.
LEMMA OneWakes ==
  ASSUME PoolInv, NEW c \in Callers, Mine(c), c \notin sleeping, c \notin Coming, (c \notin Coming)',
         NEW w \in sleeping, sleeping' = sleeping \ {w}, Len(queue') = Len(queue) + 1, ~Pushing(c)
  PROVE  NoneAsleep'
<1>1. /\ TypeInv /\ NoneAsleep /\ (\A d \in Callers : Sound(call[d])) /\ sleeping \subseteq Callers
      /\ (\A d \in sleeping : call[d].pc = "asleep") /\ queue \in Seq(Threads)
  BY DEF PoolInv, TypeInv, Spells
<1>2. \A d \in Callers : d # c => call'[d] = call[d]
  BY DEF Mine
<1>3. w \in Callers /\ w # c /\ call'[w] = call[w] /\ call[w].pc = "asleep" /\ call[w].op \in Waits
  BY <1>1, <1>2 DEF Sound
<1>4. w \notin Coming /\ (w \in Coming)'
  BY <1>3 DEF Coming
<1>5. \A d : d # w => (d \in Coming' <=> d \in Coming)
  BY <1>1, <1>2 DEF Coming
<1>6. IsFiniteSet(Coming)
  BY PoolAssumption, FS_Subset DEF Coming
<1>7. /\ Cardinality(Coming) \in Nat
      /\ Cardinality(Coming') = Cardinality(Coming) + One(w \in Coming') - One(w \in Coming)
  BY <1>5, <1>6, CountChange, Zenon
<1>8. Cardinality(Coming') = Cardinality(Coming) + 1
  BY <1>4, <1>7 DEF One
<1>9. (\A d \in Callers : ~Pushing(d))' => \A d \in Callers : ~Pushing(d)
  BY <1>2 DEF Pushing
<1>10. Len(queue) \in Nat /\ sleeping # {}
  BY <1>1, LenProperties
<1>11. (\A d \in Callers : ~Pushing(d))' => Len(queue') <= Cardinality(Coming')
  BY <1>1, <1>7, <1>8, <1>9, <1>10 DEF NoneAsleep
<1> QED BY <1>11 DEF NoneAsleep

\* A push adds its next unit, at the right end.
LEMMA PushStep ==
  ASSUME PoolInv, Track, NEW c \in Callers, PushUnit(c)
  PROVE  PoolInv'
<1> DEFINE units == call[c].units
           p == Head(units)
           last == Len(units) = 1
           pc == IF last THEN Leave(c) ELSE call[c].pc
           m == [call[c] EXCEPT !.units = Tail(units), !.pc = pc]
<1>1. /\ TypeInv /\ call[c] \in Calls /\ call \in [Callers -> Calls] /\ Spells(q, queue)
      /\ queue \in Seq(Threads) /\ Distinct(queue) /\ Sound(call[c]) /\ Fresh
      /\ units \in Seq(Threads) /\ (\A d \in sleeping : call[d].pc = "asleep")
  BY DEF PoolInv, TypeInv, Spells, Calls
<1>2. /\ call[c].pc \in {"body", "each"} /\ call[c].op = "push" /\ UNCHANGED lock
      /\ \/ q' = PushHead(q, p) /\ queue' = <<p>> \o queue
         \/ q' = PushTail(q, p) /\ queue' = Append(queue, p)
      /\ call' = [call EXCEPT ![c] = m]
      /\ IF kind = "fifo_wait" /\ last THEN Signal(call[c].n) ELSE UNCHANGED sleeping
  <2>1. call' = [call EXCEPT ![c].units = Tail(@), ![c].pc = IF last THEN Leave(c) ELSE @]
    BY DEF PushUnit
  <2>2. call' = [call EXCEPT ![c] = m]
    BY <2>1
  <2> QED BY <2>2 DEF PushUnit
<1>3. units # <<>> /\ Distinct(units) /\ Len(units) <= call[c].n /\ call[c].n \in Nat
  BY <1>1, <1>2 DEF Sound, Calls
<1>4. /\ Tail(units) \in Seq(Threads) /\ Distinct(Tail(units)) /\ Len(Tail(units)) = Len(units) - 1
      /\ p \in Threads /\ Listed(units, p)
      /\ \A x : Listed(Tail(units), x) <=> x # p /\ Listed(units, x)
  BY <1>1, <1>3, TailLists, TailAt
<1>5. Len(units) \in Nat /\ Len(units) >= 1
  BY <1>1, <1>3, LenProperties, EmptySeq
<1>6. pc \in Places /\ pc \in {call[c].pc, Leave(c)} /\ (last => pc \in {"unlock", "return"})
      /\ (~last => pc = call[c].pc)
  BY <1>1, LeavePlaces DEF Calls
<1> HIDE DEF pc
<1>7. /\ m \in Calls /\ m.op = call[c].op /\ m.n = call[c].n /\ m.units = Tail(units) /\ m.pc = pc
  BY <1>1, <1>4, <1>6 DEF Calls
<1> HIDE DEF m
<1>8. Mine(c) /\ Saw /\ call'[c] = m
  BY <1>1, <1>2, <1>7, Working
<1>9. Pushes(c, p)
  BY <1>2, <1>4 DEF Pushes
<1>10. ~Listed(queue, p) /\ \A d \in Callers : Pushes(d, p) => d = c
  BY <1>1, <1>4, <1>9 DEF Fresh
<1> HIDE DEF p, units
<1>11. Spells(q, queue)'
  BY <1>1, <1>2, <1>4, <1>10, PushTailSpells, PushHeadSpells
<1>12. Len(queue') = Len(queue) + 1 /\ \A x : Listed(queue', x) <=> x = p \/ Listed(queue, x)
  <2>1. CASE queue' = <<p>> \o queue
    BY <1>1, <1>4, <1>10, <2>1, ConsLists
  <2>2. CASE queue' = Append(queue, p)
    <3>1. Len(queue') = Len(queue) + 1
      BY <1>1, <1>4, <2>2, AppendProperties
    <3> QED BY <1>1, <1>4, <1>10, <2>2, <3>1, AppendLists
  <2> QED BY <1>2, <2>1, <2>2
<1>13. Fresh'
  <2>1. \A d \in Callers, x \in Threads : Pushes(d, x)' => Pushes(d, x) /\ x # p
    <3>1. ASSUME NEW x \in Threads, Pushes(c, x)' PROVE Pushes(c, x) /\ x # p
      BY <1>2, <1>4, <1>7, <1>8, <3>1 DEF Pushes, units
    <3>2. ASSUME NEW d \in Callers, d # c, NEW x \in Threads, Pushes(d, x)' PROVE Pushes(d, x) /\ x # p
      BY <1>8, <1>10, <3>2 DEF Pushes, Mine
    <3> QED BY <3>1, <3>2
  <2> QED BY <1>1, <1>12, <2>1 DEF Fresh
<1>14. c \notin sleeping /\ c \notin Coming /\ (c \notin Coming)'
  BY <1>1, <1>2, <1>7, <1>8 DEF Coming, Waits
<1>15. sleeping' \subseteq sleeping
  BY <1>2 DEF Signal
<1>16. Works(c)
  BY <1>2, <1>6, <1>7, <1>8, <1>15 DEF Works
<1>17. NoneAsleep'
  <2>1. CASE sleeping' = {}
    BY <2>1 DEF NoneAsleep
  <2>2. CASE sleeping' # {} /\ ~last
    <3>1. PICK w \in Callers : call[w].pc = "asleep" /\ Sound(call[w])
      BY <1>1, <1>15, <2>2 DEF TypeInv, PoolInv
    <3>2. kind = "fifo_wait"
      BY <3>1 DEF Sound
    <3>3. call[c].pc = "body"
      BY <1>1, <1>2, <3>2 DEF Sound
    <3>4. Pushing(c)'
      BY <1>2, <1>3, <1>4, <1>5, <1>6, <1>7, <1>8, <2>2, <3>3 DEF Pushing
    <3> QED BY <3>4 DEF NoneAsleep
  <2>3. CASE sleeping' # {} /\ last
    <3>1. PICK w \in Callers : call[w].pc = "asleep" /\ Sound(call[w])
      BY <1>1, <1>15, <2>3 DEF TypeInv, PoolInv
    <3>2. kind = "fifo_wait"
      BY <3>1 DEF Sound
    <3>3. ~(call[c].n > 1) /\ ~Pushing(c)
      BY <1>2, <1>3, <2>3, <3>2 DEF Signal, Pushing, units
    <3>4. PICK v \in sleeping : sleeping' = sleeping \ {v}
      BY <1>2, <2>3, <3>2, <3>3 DEF Signal
    <3> QED BY <1>8, <1>12, <1>14, <3>3, <3>4, OneWakes
  <2> QED BY <2>1, <2>2, <2>3
<1>18. /\ call[c].op # "remove" /\ call[c].op # "print" /\ call[c].op \notin Pops
       /\ Distinct(call'[c].units) /\ Len(call'[c].units) <= call[c].n
  <2>1. call'[c].units = Tail(units)
    BY <1>7, <1>8
  <2>2. Len(Tail(units)) <= call[c].n
    <3> HIDE DEF units
    <3> QED BY <1>3, <1>4, <1>5
  <2> QED BY <1>2, <1>4, <2>1, <2>2 DEF Pops, Waits
<1>19. call'[c].pc = call[c].pc => call'[c].units # <<>>
  <2>1. call'[c].pc = call[c].pc => Len(call'[c].units) # 0
    BY <1>2, <1>4, <1>5, <1>6, <1>7, <1>8
  <2> QED BY <1>4, <1>7, <1>8, <2>1, EmptySeq
<1> QED BY <1>8, <1>11, <1>13, <1>16, <1>17, <1>18, <1>19, WorkFrame

------------------------------------------------------------------------------
(* The invariant, and what it says *)

LEMMA PoolStep == PoolInv /\ [Next]_vars => PoolInv'
<1> SUFFICES ASSUME PoolInv, [Next]_vars PROVE PoolInv'
  OBVIOUS
<1>1. CASE UNCHANGED vars
  <2>1. /\ UNCHANGED <<kind, access, q, lock, sleeping, call, calls, queue, sawEmpty>>
    BY <1>1 DEF vars
  <2>2. TypeInv' /\ Spells(q, queue)' /\ (\A c \in Callers : Sound(call[c]))'
    BY <2>1 DEF PoolInv, TypeInv, Sound, Locks
  <2>3. Exclusive' /\ Fresh'
    BY <2>1 DEF PoolInv, Exclusive, Has, Locks, Fresh, Pushes
  <2>4. Visited' /\ Seen'
    BY <2>1 DEF PoolInv, Visited, Printed, Seen
  <2>5. (\A c \in sleeping : call[c].pc = "asleep")' /\ NoneAsleep'
    BY <2>1 DEF PoolInv, NoneAsleep, Coming, Pushing
  <2> QED BY <2>2, <2>3, <2>4, <2>5 DEF PoolInv
<1>2. CASE Next
  <2>1. PICK c \in Callers :
          \/ CallPush(c) \/ CallPop(c) \/ CallPopWait(c) \/ CallTimedwait(c)
          \/ CallRemove(c) \/ CallPrint(c) \/ Step(c)
    BY <1>2 DEF Next
  <2>2. Track
    BY <1>2 DEF Next
  <2>3. CASE \/ CallPush(c) \/ CallPop(c) \/ CallPopWait(c) \/ CallTimedwait(c)
             \/ CallRemove(c) \/ CallPrint(c)
    BY <2>2, <2>3, CallStep
  <2>4. CASE \/ TestEmpty(c) \/ AcquireIfNotEmpty(c) \/ AcquireLock(c) \/ Sleep(c) \/ Wake(c)
             \/ ReleaseLock(c) \/ FifoPopWait(c) \/ RandwsPopWait(c) \/ FifoPopTimedwait(c)
             \/ RandwsPopTimedwait(c)
    <3>1. Walks(c) /\ Saw
      BY <2>2, <2>4, WalkIsWalk
    <3> QED BY <3>1, WalkStep
  <2>5. CASE PushUnit(c)
    BY <2>2, <2>5, PushStep
  <2>6. CASE PopUnit(c)
    BY <2>2, <2>6, PopStep
  <2>7. CASE RemoveUnit(c)
    BY <2>2, <2>7, RemoveStep
  <2>8. CASE PrintUnit(c)
    BY <2>2, <2>8, PrintStep
  <2>9. CASE Return(c)
    BY <2>2, <2>9, ReturnStep
  <2> QED BY <2>1, <2>3, <2>4, <2>5, <2>6, <2>7, <2>8, <2>9 DEF Step
<1> QED BY <1>1, <1>2

\* The invariant of the pools.
THEOREM PoolInvariance == Spec => []PoolInv
<1>1. Init => PoolInv
  BY PoolInit
<1>2. PoolInv /\ [Next]_vars => PoolInv'
  BY PoolStep
<1> QED BY <1>1, <1>2, PTL DEF Spec

\* The circular list, its counter and its emptiness flag spell the pool's content in both
\* directions in every reachable state, one caller at a time is in the list, and print_all
\* visits what is there (thread_queue.h and the pools around it).
THEOREM QueueStaysIntact == Spec => []QueueIntact
<1>1. PoolInv => QueueIntact
  <2> SUFFICES ASSUME PoolInv PROVE QueueIntact
    OBVIOUS
  <2> DEFINE n == Len(queue)
  <2>1. Spells(q, queue) /\ Exclusive /\ Visited /\ TypeInv /\ \A c \in Callers : Sound(call[c])
    BY DEF PoolInv
  <2>2. /\ q.num = n /\ (q.empty <=> n = 0)
        /\ q.head = (IF n = 0 THEN NULL ELSE queue[1])
        /\ q.tail = (IF n = 0 THEN NULL ELSE queue[n])
    BY <2>1 DEF Spells, Ended
  <2>3. \A i \in 1..n : /\ q.next[queue[i]] = queue[IF i = n THEN 1 ELSE i + 1]
                        /\ q.prev[queue[i]] = queue[IF i = 1 THEN n ELSE i - 1]
    BY <2>1 DEF Spells, Round
  <2>4. \A p \in Threads : q.in[p] <=> \E i \in 1..n : queue[i] = p
    BY <2>1 DEF Spells, Listed
  <2>5. \A c, d \in Callers : call[c].pc = "body" /\ call[d].pc = "body" => c = d
    <3>1. CASE access = "PRIV"
      BY <2>1, <3>1 DEF Exclusive
    <3>2. CASE access # "PRIV"
      BY <2>1, <3>2 DEF Exclusive, Has, Locks
    <3> QED BY <3>1, <3>2
  <2>6. \A c \in Callers :
          call[c].op = "print" /\ call[c].pc = (IF access = "PRIV" THEN "return" ELSE "unlock")
            => call[c].got = queue
    BY <2>1 DEF Visited, Printed
  <2> QED BY <2>2, <2>3, <2>4, <2>5, <2>6 DEF QueueIntact
<1> QED BY <1>1, PoolInvariance, PTL

\* A pop that returns nothing, or too little, met an empty pool during its call, although it
\* reads the flag without the lock (thread_queue_acquire_spinlock_if_not_empty).
THEOREM PopsMeetEmpty == Spec => []PopNotBlind
<1>1. PoolInv => PopNotBlind
  BY DEF PoolInv, Seen, PopNotBlind
<1> QED BY <1>1, PoolInvariance, PTL

\* No waiter of a fifo_wait pool sleeps over a unit that nobody is about to take (pool_push,
\* pool_push_many and pool_pop_wait of fifo_wait.c).
THEOREM NobodySleepsOver == Spec => []NoneAsleep
<1>1. PoolInv => NoneAsleep
  BY DEF PoolInv
<1> QED BY <1>1, PoolInvariance, PTL
===============================================================================
