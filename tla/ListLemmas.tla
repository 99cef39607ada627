------------------------------ MODULE ListLemmas ------------------------------
(***************************************************************************)
(* Lists of waiters in which nobody is twice: what the operations of the   *)
(* wait lists and queues do to such a list; and counts of sets.            *)
(***************************************************************************)
EXTENDS Integers, Sequences, SequenceTheorems, FiniteSets, FiniteSetTheorems, TLAPS

Distinct(s) == \A i, j \in 1..Len(s) : s[i] = s[j] => i = j
Listed(s, x) == \E i \in 1..Len(s) : s[i] = x
Without(s, k) == SubSeq(s, 1, k - 1) \o SubSeq(s, k + 1, Len(s))

\* Nobody is in an empty list, and somebody is in any other.
LEMMA EmptyList ==
  ASSUME NEW S
  PROVE  /\ <<>> \in Seq(S) /\ Distinct(<<>>) /\ \A x : ~Listed(<<>>, x)
         /\ \A s \in Seq(S) : (\A x : ~Listed(s, x)) => s = <<>>
<1>1. /\ <<>> \in Seq(S) /\ Distinct(<<>>) /\ \A x : ~Listed(<<>>, x)
  BY DEF Distinct, Listed
<1>2. ASSUME NEW s \in Seq(S), s # <<>> PROVE \E x : Listed(s, x)
  <2>1. 1 \in 1..Len(s)
    BY <1>2
  <2> QED BY <2>1 DEF Listed
<1> QED BY <1>1, <1>2

\* Whoever is listed is one of those the list may hold.
LEMMA ListedType ==
  ASSUME NEW S, NEW s \in Seq(S), NEW x, Listed(s, x)
  PROVE  x \in S
BY DEF Listed

\* What enqueueing does.
LEMMA AppendLists ==
  ASSUME NEW S, NEW s \in Seq(S), NEW e \in S, Distinct(s), ~Listed(s, e)
  PROVE  /\ Append(s, e) \in Seq(S) /\ Distinct(Append(s, e))
         /\ \A x : Listed(Append(s, e), x) <=> x = e \/ Listed(s, x)
<1> DEFINE r == Append(s, e)
           n == Len(s)
<1>1. r \in Seq(S) /\ n \in Nat /\ Len(r) = n + 1
  BY AppendProperties
<1>2. \A i \in 1..(n + 1) : IF i = n + 1 THEN r[i] = e ELSE i \in 1..n /\ r[i] = s[i]
  BY AppendProperties
<1>3. \A i \in 1..n : i \in 1..(n + 1) /\ i # n + 1
  BY <1>1
<1>4. n + 1 \in 1..(n + 1)
  BY <1>1
<1> HIDE DEF r, n
<1>5. Distinct(r)
  BY <1>1, <1>2 DEF Distinct, Listed, n
<1>6. \A x : Listed(r, x) <=> x = e \/ Listed(s, x)
  BY <1>1, <1>2, <1>3, <1>4 DEF Listed, n
<1> QED BY <1>1, <1>5, <1>6 DEF r

\* What dequeueing the head does.
LEMMA TailLists ==
  ASSUME NEW S, NEW s \in Seq(S), s # <<>>, Distinct(s)
  PROVE  /\ Tail(s) \in Seq(S) /\ Distinct(Tail(s))
         /\ Head(s) \in S /\ Listed(s, Head(s))
         /\ \A x : Listed(Tail(s), x) <=> x # Head(s) /\ Listed(s, x)
<1> DEFINE r == Tail(s)
           n == Len(s)
<1>1. r \in Seq(S) /\ n \in Nat \ {0} /\ Len(r) = n - 1 /\ Head(s) = s[1] /\ s[1] \in S
  BY HeadTailProperties, LenProperties
<1>2. \A i \in 1..(n - 1) : r[i] = s[i + 1] /\ i + 1 \in 1..n /\ i + 1 # 1
  BY <1>1, HeadTailProperties
<1>3. \A i \in 1..n : i = 1 \/ (i - 1 \in 1..(n - 1) /\ r[i - 1] = s[i])
  BY <1>1, <1>2
<1>4. 1 \in 1..n
  BY <1>1
<1> HIDE DEF r, n
<1>5. Distinct(r)
  BY <1>1, <1>2 DEF Distinct, n
<1>6. \A x : Listed(r, x) <=> x # s[1] /\ Listed(s, x)
  BY <1>1, <1>2, <1>3, <1>4 DEF Listed, Distinct, n
<1>7. Listed(s, s[1])
  BY <1>4 DEF Listed, n
<1> QED BY <1>1, <1>5, <1>6, <1>7 DEF r

\* What pushing does.
LEMMA ConsLists ==
  ASSUME NEW S, NEW s \in Seq(S), NEW e \in S, Distinct(s), ~Listed(s, e)
  PROVE  /\ <<e>> \o s \in Seq(S) /\ Distinct(<<e>> \o s) /\ Len(<<e>> \o s) = Len(s) + 1
         /\ (<<e>> \o s)[1] = e /\ \A i \in 1..Len(s) : (<<e>> \o s)[i + 1] = s[i]
         /\ \A x : Listed(<<e>> \o s, x) <=> x = e \/ Listed(s, x)
<1> DEFINE n == Len(s)
           r == <<e>> \o s
<1>1. /\ n \in Nat /\ r \in Seq(S) /\ Len(r) = n + 1
      /\ r[1] = e /\ \A i \in 1..n : r[i + 1] = s[i]
  OBVIOUS
<1> HIDE DEF n, r
<1>2. \A j \in 1..(n + 1) : j = 1 \/ (j - 1 \in 1..n /\ r[j] = s[j - 1])
  BY <1>1
<1>3. \A i \in 1..n : i + 1 \in 1..(n + 1) /\ 1 \in 1..(n + 1)
  BY <1>1
<1>4. ASSUME NEW i \in 1..(n + 1), NEW j \in 1..(n + 1), r[i] = r[j] PROVE i = j
  <2>1. \A k \in 1..n : s[k] # e
    BY DEF Listed, n
  <2>2. i = 1 \/ j = 1 => i = j
    BY <1>1, <1>2, <1>4, <2>1
  <2>3. i # 1 /\ j # 1 => i - 1 = j - 1
    BY <1>2, <1>4 DEF Distinct, n
  <2> QED BY <1>1, <2>2, <2>3
<1>5. ASSUME NEW x
      PROVE  (\E i \in 1..(n + 1) : r[i] = x) <=> x = e \/ \E i \in 1..n : s[i] = x
  <2>1. ASSUME NEW i \in 1..n, s[i] = x PROVE \E j \in 1..(n + 1) : r[j] = x
    BY <1>1, <1>3, <2>1
  <2>2. 1 \in 1..(n + 1)
    BY <1>1
  <2> QED BY <1>1, <1>2, <2>1, <2>2
<1> QED BY <1>1, <1>4, <1>5 DEF n, r, Distinct, Listed

\* What popping does, place by place.
LEMMA TailAt ==
  ASSUME NEW S, NEW s \in Seq(S), s # <<>>
  PROVE  /\ SubSeq(s, 2, Len(s)) = Tail(s) /\ Head(s) = s[1] /\ Len(Tail(s)) = Len(s) - 1
         /\ \A i \in 1..(Len(s) - 1) : Tail(s)[i] = s[i + 1]
OBVIOUS

\* What is left of a list without its k-th.
LEMMA WithoutAt ==
  ASSUME NEW S, NEW s \in Seq(S), NEW k \in 1..Len(s)
  PROVE  /\ Without(s, k) \in Seq(S) /\ Len(Without(s, k)) = Len(s) - 1
         /\ \A i \in 1..(Len(s) - 1) : Without(s, k)[i] = IF i < k THEN s[i] ELSE s[i + 1]
<1> DEFINE n == Len(s)
           a == SubSeq(s, 1, k - 1)
           b == SubSeq(s, k + 1, n)
           r == Without(s, k)
<1>1. n \in Nat /\ k \in 1..n /\ s \in [1..n -> S]
  BY LenProperties
<1>2. r = a \o b
  BY DEF Without
<1> HIDE DEF n
<1>3. a \in Seq(S) /\ Len(a) = k - 1 /\ \A i \in 1..(k - 1) : a[i] = s[i]
  <2>1. \A i \in 1..(k - 1) : s[i] \in S /\ 1 + i - 1 = i
    BY <1>1
  <2>2. 1 \in Int /\ k - 1 \in Int /\ (k - 1) - 1 + 1 = k - 1 /\ (1 <= k - 1 \/ k - 1 = 0)
    BY <1>1
  <2> QED BY <2>1, <2>2, SubSeqProperties
<1>4. b \in Seq(S) /\ Len(b) = n - k /\ \A i \in 1..(n - k) : b[i] = s[k + i]
  <2>1. \A i \in (k + 1)..n : s[i] \in S
    BY <1>1
  <2>2. /\ k + 1 \in Int /\ n \in Int /\ n - (k + 1) + 1 = n - k
        /\ k + 1 <= n \/ (n - k = 0 /\ ~(k + 1 <= n))
        /\ \A i \in 1..(n - k) : (k + 1) + i - 1 = k + i
    BY <1>1
  <2> QED BY <2>1, <2>2, SubSeqProperties
<1> HIDE DEF a, b
<1>5. /\ r \in Seq(S) /\ Len(r) = n - 1
      /\ \A i \in 1..(n - 1) : r[i] = IF i <= k - 1 THEN a[i] ELSE b[i - (k - 1)]
  <2>1. Len(a) + Len(b) = n - 1
    BY <1>1, <1>3, <1>4
  <2>2. /\ a \o b \in Seq(S) /\ Len(a \o b) = Len(a) + Len(b)
        /\ \A i \in 1..(Len(a) + Len(b)) :
             (a \o b)[i] = IF i <= Len(a) THEN a[i] ELSE b[i - Len(a)]
    BY <1>3, <1>4, ConcatProperties
  <2> QED BY <2>1, <2>2, <1>2, <1>3
<1> HIDE DEF r
<1>6. \A i \in 1..(n - 1) : r[i] = IF i < k THEN s[i] ELSE s[i + 1]
  <2> SUFFICES ASSUME NEW i \in 1..(n - 1) PROVE r[i] = IF i < k THEN s[i] ELSE s[i + 1]
    OBVIOUS
  <2>1. CASE i < k
    BY <2>1, <1>1, <1>3, <1>5
  <2>2. CASE ~(i < k)
    <3>1. i - (k - 1) \in 1..(n - k) /\ k + (i - (k - 1)) = i + 1 /\ ~(i <= k - 1)
      BY <2>2, <1>1
    <3> QED BY <3>1, <1>4, <1>5, <2>2
  <2> QED BY <2>1, <2>2
<1> QED BY <1>1, <1>5, <1>6 DEF r, n

\* What unlinking a waiter does, wherever it is in the list.
LEMMA WithoutUnlists ==
  ASSUME NEW S, NEW s \in Seq(S), NEW k \in 1..Len(s), Distinct(s)
  PROVE  /\ Without(s, k) \in Seq(S) /\ Distinct(Without(s, k))
         /\ Len(Without(s, k)) = Len(s) - 1 /\ s[k] \in S /\ Listed(s, s[k])
         /\ \A x : Listed(Without(s, k), x) <=> x # s[k] /\ Listed(s, x)
<1> DEFINE n == Len(s)
           r == Without(s, k)
<1>1. n \in Nat /\ k \in 1..n /\ s \in [1..n -> S]
  BY LenProperties
<1>2. /\ r \in Seq(S) /\ Len(r) = n - 1
      /\ \A i \in 1..(n - 1) : r[i] = IF i < k THEN s[i] ELSE s[i + 1]
  BY WithoutAt
<1> HIDE DEF n, r
<1>3. ASSUME NEW i \in 1..(n - 1), NEW j \in 1..(n - 1), r[i] = r[j] PROVE i = j
  BY <1>1, <1>2, <1>3 DEF n, Distinct
<1>4. ASSUME NEW x
      PROVE  (\E i \in 1..(n - 1) : r[i] = x) <=> x # s[k] /\ \E i \in 1..n : s[i] = x
  <2>1. ASSUME NEW i \in 1..(n - 1), r[i] = x PROVE x # s[k] /\ \E j \in 1..n : s[j] = x
    <3>1. CASE i < k BY <3>1, <2>1, <1>1, <1>2 DEF n, Distinct
    <3>2. CASE ~(i < k) BY <3>2, <2>1, <1>1, <1>2 DEF n, Distinct
    <3> QED BY <3>1, <3>2
  <2>2. ASSUME NEW j \in 1..n, s[j] = x, x # s[k] PROVE \E i \in 1..(n - 1) : r[i] = x
    <3>1. CASE j < k
      <4>1. j \in 1..(n - 1) /\ r[j] = x
        BY <3>1, <2>2, <1>1, <1>2
      <4> QED BY <4>1
    <3>2. CASE j > k
      <4>1. j - 1 \in 1..(n - 1) /\ r[j - 1] = x
        BY <3>2, <2>2, <1>1, <1>2
      <4> QED BY <4>1
    <3> QED BY <3>1, <3>2, <2>2, <1>1
  <2> QED BY <2>1, <2>2
<1> QED BY <1>1, <1>2, <1>3, <1>4 DEF r, n, Distinct, Listed

\* What a list holds in terms of another function of its members.
Along(s, f) == [i \in 1..Len(s) |-> f[s[i]]]

\* It is as long, and holds the values one by one.
LEMMA AlongLen ==
  ASSUME NEW S, NEW f, NEW s \in Seq(S)
  PROVE  /\ Len(Along(s, f)) = Len(s) /\ DOMAIN Along(s, f) = 1..Len(s)
         /\ \A i \in 1..Len(s) : Along(s, f)[i] = f[s[i]]
BY DEF Along

\* It is a list of values of the function.
LEMMA AlongType ==
  ASSUME NEW S, NEW f, NEW s \in Seq(S)
  PROVE  Along(s, f) \in Seq({f[x] : x \in S})
BY DEF Along

\* Appending commutes with it.
LEMMA AlongAppend ==
  ASSUME NEW S, NEW f, NEW s \in Seq(S), NEW e \in S
  PROVE  Along(Append(s, e), f) = Append(Along(s, f), f[e])
BY DEF Along

\* So does removing the head.
LEMMA AlongTail ==
  ASSUME NEW S, NEW f, NEW s \in Seq(S), s # <<>>
  PROVE  /\ Along(s, f) # <<>> /\ Head(Along(s, f)) = f[Head(s)]
         /\ Along(Tail(s), f) = Tail(Along(s, f))
BY DEF Along

\* So does unlinking, wherever.
LEMMA AlongWithout ==
  ASSUME NEW S, NEW f, NEW s \in Seq(S), NEW k \in 1..Len(s)
  PROVE  Along(Without(s, k), f) = Without(Along(s, f), k)
<1> DEFINE n == Len(s)
           T == {f[x] : x \in S}
           a == Along(s, f)
           l == Without(s, k)
           r == Without(a, k)
<1>1. /\ n \in Nat /\ a \in Seq(T) /\ Len(a) = n /\ k \in 1..n
      /\ \A i \in 1..n : a[i] = f[s[i]]
  BY AlongLen, AlongType
<1>2. l \in Seq(S) /\ Len(l) = n - 1 /\ \A i \in 1..(n - 1) : l[i] = IF i < k THEN s[i] ELSE s[i + 1]
  BY WithoutAt
<1> HIDE DEF T, a
<1>3. r \in Seq(T) /\ Len(r) = n - 1 /\ \A i \in 1..(n - 1) : r[i] = IF i < k THEN a[i] ELSE a[i + 1]
  BY <1>1, WithoutAt
<1>4. Along(l, f) = [i \in 1..(n - 1) |-> f[l[i]]]
  BY <1>2 DEF Along
<1> HIDE DEF n, l, r
<1>5. r = [i \in 1..(n - 1) |-> r[i]]
  BY <1>1, <1>3
<1>6. ASSUME NEW i \in 1..(n - 1) PROVE r[i] = f[l[i]]
  <2>1. i \in 1..n /\ i + 1 \in 1..n
    BY <1>1
  <2>2. a[i] = f[s[i]] /\ a[i + 1] = f[s[i + 1]]
    BY <1>1, <2>1
  <2>3. CASE i < k
    BY <1>2, <1>3, <2>2, <2>3
  <2>4. CASE ~(i < k)
    BY <1>2, <1>3, <2>2, <2>4
  <2> QED BY <2>3, <2>4
<1> QED BY <1>4, <1>5, <1>6 DEF n, a, l, r

------------------------------------------------------------------------------
(* Counts *)

\* What one member adds to a count.
One(b) == IF b THEN 1 ELSE 0

\* What adding or removing one element does to a count.
LEMMA CountChange ==
  ASSUME NEW S, IsFiniteSet(S), NEW R, NEW x, \A y : y # x => (y \in R <=> y \in S)
  PROVE  /\ IsFiniteSet(R) /\ Cardinality(S) \in Nat
         /\ Cardinality(R) = Cardinality(S) + One(x \in R) - One(x \in S)
<1>1. Cardinality(S) \in Nat
  BY FS_CardinalityType
<1>2. CASE x \in R <=> x \in S
  <2>1. R = S
    BY <1>2
  <2> QED BY <1>1, <1>2, <2>1 DEF One
<1>3. CASE x \in R /\ x \notin S
  <2>1. R = S \cup {x}
    BY <1>3
  <2>2. IsFiniteSet(R) /\ Cardinality(R) = Cardinality(S) + 1
    BY <1>3, <2>1, FS_AddElement
  <2> QED BY <1>1, <1>3, <2>2 DEF One
<1>4. CASE x \notin R /\ x \in S
  <2>1. R = S \ {x}
    BY <1>4
  <2>2. IsFiniteSet(R) /\ Cardinality(R) = Cardinality(S) - 1
    BY <1>4, <2>1, FS_RemoveElement
  <2> QED BY <1>1, <1>4, <2>2 DEF One
<1> QED BY <1>2, <1>3, <1>4
===============================================================================
