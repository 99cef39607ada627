------------------------------- MODULE Atomic -------------------------------
(***************************************************************************)
(* The atomic operations of src/include/abtd_atomic.h and the spinlock of  *)
(* src/include/abtd_spinlock.h, with the memory orders they ask for.  The  *)
(* other modules take every access for sequentially consistent; here a     *)
(* location keeps the messages some thread may still read, and a thread    *)
(* reads any message that is not older than what it has seen.  A release   *)
(* attaches what the writer has seen to the message and an acquire takes   *)
(* it over.                                                                *)
(*                                                                         *)
(* Writes to one location take effect in the order they are made: the      *)
(* locations of this code are written by read-modify-write operations or   *)
(* under a lock.  Loads never read from the future.                        *)
(***************************************************************************)
EXTENDS Integers, Sequences, FiniteSetsExt

CONSTANTS Actor,  \* the threads
          Width   \* the width of the integers, in bits

VARIABLES mem,    \* the messages of each location that may still be read
          seen    \* the view of each thread

atomicVars == <<mem, seen>>

AtomicInit(init) ==
  /\ mem = [l \in DOMAIN init |-> <<[val |-> init[l], view |-> <<>>]>>]
  /\ seen = [t \in Actor |-> <<>>]

-----------------------------------------------------------------------------
(* A view gives for some locations the oldest message that may be read; of *)
(* any other location every message may be.                                *)

At(v, l) == IF l \in DOMAIN v THEN v[l] ELSE 1

Join(v, w) ==
  [l \in DOMAIN v \cup DOMAIN w |-> IF At(v, l) > At(w, l) THEN At(v, l) ELSE At(w, l)]

Only(l, i) == [k \in {l} |-> i]

Newest(l) == mem[l][Len(mem[l])].val

Readable(t, l) == At(seen[t], l) .. Len(mem[l])

\* The new state, without the messages that no thread may read any more.
Commit(m, s) ==
  LET old(l) == Min({At(s[t], l) : t \in Actor}) - 1
      Cut(v) == [l \in {k \in DOMAIN v : v[k] - old(k) > 1} |-> v[l] - old(l)]
  IN /\ mem' = [l \in DOMAIN m |->
                  [i \in 1 .. Len(m[l]) - old(l) |->
                     [val |-> m[l][i + old(l)].val,
                      view |-> Cut(m[l][i + old(l)].view)]]]
     /\ seen' = [t \in Actor |-> Cut(s[t])]

Write(t, l, v, after, view) ==
  Commit([mem EXCEPT ![l] = Append(@, [val |-> v, view |-> view])],
         [seen EXCEPT ![t] = after])

-----------------------------------------------------------------------------
(* Loads and stores.  A load names the message i it reads.                 *)

RelaxedLoad(t, l, i) ==
  Commit(mem, [seen EXCEPT ![t] = Join(@, Only(l, i))])

AcquireLoad(t, l, i) ==
  Commit(mem, [seen EXCEPT ![t] = Join(Join(@, Only(l, i)), mem[l][i].view)])

RelaxedStore(t, l, v) ==
  LET new == Only(l, Len(mem[l]) + 1)
  IN Write(t, l, v, Join(seen[t], new), new)

ReleaseStore(t, l, v) ==
  LET new == Join(seen[t], Only(l, Len(mem[l]) + 1))
  IN Write(t, l, v, new, new)

-----------------------------------------------------------------------------
(* Read-modify-write operations: they read the newest message.  All but    *)
(* test-and-set both acquire and release.                                  *)

Acquired(t, l) ==
  Join(Join(seen[t], Only(l, Len(mem[l]) + 1)), mem[l][Len(mem[l])].view)

Update(t, l, v) == Write(t, l, v, Acquired(t, l), Acquired(t, l))

Wrap(n) == n % 2^Width

FetchAdd(t, l, n) == Update(t, l, Wrap(Newest(l) + n))
FetchSub(t, l, n) == Update(t, l, Wrap(Newest(l) + 2^Width - n))
\* The bit operations work on sets of bits.
FetchAnd(t, l, b) == Update(t, l, Newest(l) \cap b)
FetchOr(t, l, b) == Update(t, l, Newest(l) \cup b)
FetchXor(t, l, b) == Update(t, l, (Newest(l) \cup b) \ (Newest(l) \cap b))
AtomicExchange(t, l, v) == Update(t, l, v)

\* The failing outcome of a compare-and-swap is an acquiring load; a weak one
\* may fail although it reads the expected value.
CasFails(t, l, old, i, weak) ==
  /\ i \in Readable(t, l)
  /\ weak \/ mem[l][i].val # old
  /\ AcquireLoad(t, l, i)

BoolCas(t, l, old, new, weak, ok) ==
  \/ ok /\ Newest(l) = old /\ Update(t, l, new)
  \/ ~ok /\ \E i \in Readable(t, l) : CasFails(t, l, old, i, weak)

\* Returns the value it met, which after a spurious failure is the expected one.
ValCas(t, l, old, new, weak, ret) ==
  \/ ret = old /\ Newest(l) = old /\ Update(t, l, new)
  \/ \E i \in Readable(t, l) :
       ret = mem[l][i].val /\ CasFails(t, l, old, i, weak)

BoolCasWeak(t, l, old, new, ok) == BoolCas(t, l, old, new, TRUE, ok)
BoolCasStrong(t, l, old, new, ok) == BoolCas(t, l, old, new, FALSE, ok)
ValCasStrong(t, l, old, new, ret) == ValCas(t, l, old, new, FALSE, ret)

-----------------------------------------------------------------------------
(* A pointer with a tag: one double-width compare-and-swap, but two loads. *)

\* LL/SC on some machines: it may fail for no reason.
CasWeakInt128(t, l, old, new, ok) == BoolCasWeak(t, l, old, new, ok)

BoolCasWeakTagged(t, l, oldptr, oldtag, newptr, newtag, ok) ==
  CasWeakInt128(t, l, [ptr |-> oldptr, tag |-> Wrap(oldtag)],
                [ptr |-> newptr, tag |-> Wrap(newtag)], ok)

\* One half of the acquiring load: field is "ptr" and then "tag".
AcquireLoadHalf(t, l, field, i, v) ==
  v = mem[l][i].val[field] /\ AcquireLoad(t, l, i)

-----------------------------------------------------------------------------
(* Flags and the spinlock.                                                 *)

TestAndSet(t, l, was) ==
  /\ was = Newest(l)
  /\ Write(t, l, TRUE, Acquired(t, l),
           Join(Only(l, Len(mem[l]) + 1), mem[l][Len(mem[l])].view))

RelaxedClear(t, l) == RelaxedStore(t, l, FALSE)
ReleaseClear(t, l) == ReleaseStore(t, l, FALSE)

SpinIsLocked(t, l, i) == AcquireLoad(t, l, i)

\* One round of the outer loop of ABTD_spinlock_acquire; while was holds, the
\* thread spins on SpinIsLocked until it reads FALSE.
SpinTry(t, l, was) == TestAndSet(t, l, was)

\* Mutant: the lock is cleared without the release order.
SpinReleaseRelaxed(t, l) == RelaxedClear(t, l)

SpinRelease(t, l) == ReleaseClear(t, l)
=============================================================================
