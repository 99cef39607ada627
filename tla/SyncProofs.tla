------------------------------ MODULE SyncProofs ------------------------------
(***************************************************************************)
(* Proofs about what the synchronization objects promise, for any callers  *)
(* and any bounds: the mutex and its wait list first, then the objects     *)
(* whose callers wait in turn, the condition variable, and the futexes of  *)
(* the Pthreads fallback.                                                  *)
(***************************************************************************)
EXTENDS Integers, MCSync, ListLemmas, FiniteSetTheorems

------------------------------------------------------------------------------
(* Mutex *)

\* The mutex word is set exactly while some caller holds it, and by one only.
LockInv ==
    /\ lock <=> \E t \in Threads : pc[t] \in Holding
    /\ MutualExclusion

\* The same for waiter_lock.
WaiterLockInv ==
    /\ waiter_lock <=> \E t \in Threads : pc[t] \in HoldingWaiterLock
    /\ \A t, u \in Threads :
         pc[t] \in HoldingWaiterLock /\ pc[u] \in HoldingWaiterLock => t = u

\* owner_id and nesting_cnt describe the caller in its critical section.
OwnerInv ==
    /\ Recursive => \A t \in Threads : owner_id = t <=> pc[t] = "cs"
    /\ ~Recursive => owner_id = NoThread
    /\ nesting_cnt # 0 => Recursive /\ \E t \in Threads : pc[t] = "cs"
    /\ \A t \in Threads : pc[t] = "set_owner" => Recursive

\* A caller that is not waiting is RUNNING, so it is in no list.
WaitingInv ==
    /\ \A t \in Threads : pc[t] \notin {"suspend", "blocked"} => state[t] = "RUNNING"
    /\ NoLostWakeup

\* Once the last reference is dropped, the only callers still inside the mutex are
\* its dropper and at most one unlocker that is still waking the list; and that one
\* is gone as soon as the dropper has waiter_lock.
FreeInv ==
    /\ \A t \in Threads :
         pc[t] \notin {"idle", "unlock", "release", "broadcast"} => ops[t] > 0
    /\ freed => freer \in Threads /\ pc[freer] = "idle"
    /\ freer \in Threads =>
         /\ \A u \in Threads : ops[u] = 0
         /\ pc[freer] \in {"unlock", "release", "broadcast", "idle"}
         /\ \A u \in Threads \ {freer} :
              /\ pc[u] \in {"idle", "broadcast"}
              /\ pc[freer] # "unlock" => pc[u] = "idle"

IInv == TypeOK /\ LockInv /\ WaiterLockInv /\ OwnerInv /\ WaitingInv /\ FreeInv

\* What registering a thread does to a list without duplicates.
LEMMA AppendRegisters ==
  ASSUME NEW S, NEW s \in Seq(S), NEW e \in S,
         \A i, j \in 1..Len(s) : s[i] = s[j] => i = j,
         \A i \in 1..Len(s) : s[i] # e
  PROVE  /\ Append(s, e) \in Seq(S)
         /\ \A i, j \in 1..Len(Append(s, e)) : Append(s, e)[i] = Append(s, e)[j] => i = j
         /\ \A x : (\E i \in 1..Len(Append(s, e)) : Append(s, e)[i] = x)
                   <=> x = e \/ \E i \in 1..Len(s) : s[i] = x
<1>1. Append(s, e) \in Seq(S) /\ Len(s) \in Nat /\ Len(Append(s, e)) = Len(s) + 1
  OBVIOUS
<1>2. Append(s, e)[Len(s) + 1] = e /\ \A i \in 1..Len(s) : Append(s, e)[i] = s[i]
  OBVIOUS
<1>3. \A i \in 1..(Len(s) + 1) : i \in 1..Len(s) \/ i = Len(s) + 1
  BY <1>1
<1>4. \A i \in 1..Len(s) : i \in 1..(Len(s) + 1)
  BY <1>1
<1>5. Len(s) + 1 \in 1..(Len(s) + 1)
  BY <1>1
<1>6. \A i, j \in 1..(Len(s) + 1) : Append(s, e)[i] = Append(s, e)[j] => i = j
  BY <1>2, <1>3
<1>7. ASSUME NEW x
      PROVE  (\E i \in 1..(Len(s) + 1) : Append(s, e)[i] = x)
               <=> x = e \/ \E i \in 1..Len(s) : s[i] = x
  BY <1>2, <1>3, <1>4, <1>5
<1> QED BY <1>1, <1>6, <1>7

\* What waking the head does to a list without duplicates.
LEMMA TailUnregisters ==
  ASSUME NEW S, NEW s \in Seq(S), s # <<>>,
         \A i, j \in 1..Len(s) : s[i] = s[j] => i = j
  PROVE  /\ Tail(s) \in Seq(S)
         /\ Head(s) \in S /\ \E i \in 1..Len(s) : s[i] = Head(s)
         /\ \A i, j \in 1..Len(Tail(s)) : Tail(s)[i] = Tail(s)[j] => i = j
         /\ \A x : (\E i \in 1..Len(Tail(s)) : Tail(s)[i] = x)
                   <=> x # Head(s) /\ \E i \in 1..Len(s) : s[i] = x
<1> DEFINE n == Len(s)
           r == Tail(s)
<1>1. r \in Seq(S) /\ n \in Nat \ {0} /\ Len(r) = n - 1 /\ Head(s) = s[1] /\ s[1] \in S
  OBVIOUS
<1>2. \A i \in 1..(n - 1) : r[i] = s[i + 1]
  OBVIOUS
<1>3. \A i \in 1..(n - 1) : i + 1 \in 1..n /\ i + 1 # 1
  BY <1>1
<1>4. \A i \in 1..n : i # 1 => i - 1 \in 1..(n - 1) /\ r[i - 1] = s[i]
  BY <1>1, <1>2
<1>5. 1 \in 1..n
  BY <1>1
<1> HIDE DEF n, r
<1>6. ASSUME NEW i \in 1..(n - 1), NEW j \in 1..(n - 1), r[i] = r[j] PROVE i = j
  <2>1. i + 1 = j + 1
    BY <1>6, <1>2, <1>3 DEF n
  <2> QED BY <2>1, <1>1
<1>7. ASSUME NEW x
      PROVE  (\E i \in 1..(n - 1) : r[i] = x) <=> x # Head(s) /\ \E i \in 1..n : s[i] = x
  <2>1. ASSUME NEW i \in 1..(n - 1), r[i] = x PROVE x # Head(s) /\ \E k \in 1..n : s[k] = x
    <3>1. s[i + 1] = x /\ i + 1 \in 1..n /\ i + 1 # 1 BY <2>1, <1>2, <1>3
    <3> QED BY <3>1, <1>1, <1>5 DEF n
  <2>2. ASSUME NEW i \in 1..n, s[i] = x, x # Head(s) PROVE \E k \in 1..(n - 1) : r[k] = x
    BY <2>2, <1>1, <1>4
  <2> QED BY <2>1, <2>2
<1> QED BY <1>1, <1>5, <1>6, <1>7 DEF n, r

\* Init establishes the inductive invariant: nobody holds, waits for or has freed
\* the mutex that ABT_mutex_create returns.
LEMMA InitIInv == Init => IInv
<1> SUFFICES ASSUME Init PROVE IInv
  OBVIOUS
<1> USE ThreadsAssumption, RecursiveAssumption, BoundsAssumption
<1>1. TypeOK
  <2>1. lock \in BOOLEAN /\ waiter_lock \in BOOLEAN /\ freed \in BOOLEAN
    BY DEF Init
  <2>2. waitlist \in Seq(Threads)
    BY DEF Init
  <2>3. pc \in [Threads -> Locations]
    BY DEF Init, Locations
  <2>4. state \in [Threads -> {"RUNNING", "BLOCKED", "READY"}] /\ ops \in [Threads -> Nat]
    BY DEF Init
  <2> QED
    BY <2>1, <2>2, <2>3, <2>4 DEF Init, TypeOK
<1>2. LockInv /\ WaiterLockInv
  BY DEF Init, LockInv, WaiterLockInv, MutualExclusion, Holding, HoldingWaiterLock
<1>3. OwnerInv
  BY DEF Init, OwnerInv
<1>4. WaitingInv
  BY DEF Init, WaitingInv, NoLostWakeup
<1>5. FreeInv
  BY DEF Init, FreeInv
<1> QED
  BY <1>1, <1>2, <1>3, <1>4, <1>5 DEF IInv

\* Each step of a caller keeps every variable in its type.
LEMMA StepTypeOK ==
  ASSUME NEW t \in Threads, IInv, Step(t)
  PROVE  TypeOK'
<1> USE ThreadsAssumption, RecursiveAssumption DEF IInv, TypeOK, Goto, Owned, Locations,
        Holding, HoldingWaiterLock
<1>1. ASSUME NEW how \in {"lock", "trylock", "spinlock"}, Call(t, how) PROVE TypeOK'
  <2>1. CASE Recursive /\ owner_id = t BY <1>1, <2>1 DEF Call
  <2>2. CASE ~(Recursive /\ owner_id = t) BY <1>1, <2>2 DEF Call
  <2> QED BY <2>1, <2>2
<1>2. CASE TryAcquire(t) BY <1>2 DEF TryAcquire
<1>3. CASE Trylock(t) BY <1>3 DEF Trylock
<1>4. CASE Spinlock(t) BY <1>4 DEF Spinlock
<1>5. CASE AcquireWaiterLock(t) BY <1>5 DEF AcquireWaiterLock
<1>6. CASE Retry(t)
  <2>1. CASE lock
    <3>1. Append(waitlist, t) \in Seq(Threads) OBVIOUS
    <3> QED BY <1>6, <2>1, <3>1 DEF Retry
  <2>2. CASE ~lock BY <1>6, <2>2 DEF Retry
  <2> QED BY <2>1, <2>2
<1>7. CASE ReleaseWaiterLock(t) BY <1>7 DEF ReleaseWaiterLock
<1>8. CASE Suspend(t) BY <1>8 DEF Suspend
<1>9. CASE Resume(t) BY <1>9 DEF Resume
<1>10. CASE SetOwner(t) BY <1>10 DEF SetOwner
<1>11. CASE UnlockCall(t)
  <2>1. CASE Recursive /\ nesting_cnt # 0 BY <1>11, <2>1 DEF UnlockCall
  <2>2. CASE ~(Recursive /\ nesting_cnt # 0)
    <3>1. ops[t] - 1 \in Nat BY <1>11 DEF UnlockCall, FreeInv
    <3> QED BY <1>11, <2>2, <3>1 DEF UnlockCall
  <2> QED BY <2>1, <2>2
<1>12. CASE UnlockAcquireWaiterLock(t) BY <1>12 DEF UnlockAcquireWaiterLock
<1>13. CASE ReleaseLock(t) BY <1>13 DEF ReleaseLock
<1>14. CASE Broadcast(t) BY <1>14 DEF Broadcast
<1>15. CASE UnlockDone(t) BY <1>15 DEF UnlockDone
<1>16. CASE Free(t) BY <1>16 DEF Free
<1> QED
  BY <1>1, <1>2, <1>3, <1>4, <1>5, <1>6, <1>7, <1>8, <1>9, <1>10, <1>11, <1>12,
     <1>13, <1>14, <1>15, <1>16 DEF Step

\* Each step of a caller keeps the mutex word in step with its single holder.
LEMMA StepLockInv ==
  ASSUME NEW t \in Threads, IInv, Step(t)
  PROVE  LockInv'
<1> USE DEF IInv, TypeOK, Goto, Owned, Locations,
        Holding, HoldingWaiterLock, LockInv, MutualExclusion, OwnerInv
<1>1. ASSUME NEW how \in {"lock", "trylock", "spinlock"}, Call(t, how) PROVE LockInv'
  <2>1. CASE Recursive /\ owner_id = t BY <1>1, <2>1 DEF Call
  <2>2. CASE ~(Recursive /\ owner_id = t) BY <1>1, <2>2 DEF Call
  <2> QED BY <2>1, <2>2
<1>2. CASE TryAcquire(t) BY <1>2 DEF TryAcquire
<1>3. CASE Trylock(t) BY <1>3 DEF Trylock
<1>4. CASE Spinlock(t) BY <1>4 DEF Spinlock
<1>5. CASE AcquireWaiterLock(t) BY <1>5 DEF AcquireWaiterLock
<1>6. CASE Retry(t) BY <1>6 DEF Retry
<1>7. CASE ReleaseWaiterLock(t) BY <1>7 DEF ReleaseWaiterLock
<1>8. CASE Suspend(t) BY <1>8 DEF Suspend
<1>9. CASE Resume(t) BY <1>9 DEF Resume
<1>10. CASE SetOwner(t) BY <1>10 DEF SetOwner
<1>11. CASE UnlockCall(t) BY <1>11 DEF UnlockCall
<1>12. CASE UnlockAcquireWaiterLock(t) BY <1>12 DEF UnlockAcquireWaiterLock
<1>13. CASE ReleaseLock(t) BY <1>13 DEF ReleaseLock
<1>14. CASE Broadcast(t) BY <1>14 DEF Broadcast
<1>15. CASE UnlockDone(t) BY <1>15 DEF UnlockDone
<1>16. CASE Free(t) BY <1>16 DEF Free
<1> QED
  BY <1>1, <1>2, <1>3, <1>4, <1>5, <1>6, <1>7, <1>8, <1>9, <1>10, <1>11, <1>12,
     <1>13, <1>14, <1>15, <1>16 DEF Step

\* Each step of a caller keeps waiter_lock in step with its single holder.
LEMMA StepWaiterLockInv ==
  ASSUME NEW t \in Threads, IInv, Step(t)
  PROVE  WaiterLockInv'
<1> USE DEF IInv, TypeOK, Goto, Owned, Locations,
        Holding, HoldingWaiterLock, WaiterLockInv
<1>1. ASSUME NEW how \in {"lock", "trylock", "spinlock"}, Call(t, how) PROVE WaiterLockInv'
  <2>1. CASE Recursive /\ owner_id = t BY <1>1, <2>1 DEF Call
  <2>2. CASE ~(Recursive /\ owner_id = t) BY <1>1, <2>2 DEF Call
  <2> QED BY <2>1, <2>2
<1>2. CASE TryAcquire(t) BY <1>2 DEF TryAcquire
<1>3. CASE Trylock(t) BY <1>3 DEF Trylock
<1>4. CASE Spinlock(t) BY <1>4 DEF Spinlock
<1>5. CASE AcquireWaiterLock(t) BY <1>5 DEF AcquireWaiterLock
<1>6. CASE Retry(t)
  <2>1. CASE lock
    <3>1. pc' = [pc EXCEPT ![t] = "suspend"] /\ pc[t] = "retry" /\ waiter_lock' = waiter_lock
      BY <1>6, <2>1 DEF Retry
    <3> QED BY <3>1
  <2>2. CASE ~lock BY <1>6, <2>2 DEF Retry
  <2> QED BY <2>1, <2>2
<1>7. CASE ReleaseWaiterLock(t) BY <1>7 DEF ReleaseWaiterLock
<1>8. CASE Suspend(t) BY <1>8 DEF Suspend
<1>9. CASE Resume(t) BY <1>9 DEF Resume
<1>10. CASE SetOwner(t) BY <1>10 DEF SetOwner
<1>11. CASE UnlockCall(t) BY <1>11 DEF UnlockCall
<1>12. CASE UnlockAcquireWaiterLock(t) BY <1>12 DEF UnlockAcquireWaiterLock
<1>13. CASE ReleaseLock(t) BY <1>13 DEF ReleaseLock
<1>14. CASE Broadcast(t) BY <1>14 DEF Broadcast
<1>15. CASE UnlockDone(t) BY <1>15 DEF UnlockDone
<1>16. CASE Free(t) BY <1>16 DEF Free
<1> QED
  BY <1>1, <1>2, <1>3, <1>4, <1>5, <1>6, <1>7, <1>8, <1>9, <1>10, <1>11, <1>12,
     <1>13, <1>14, <1>15, <1>16 DEF Step

\* Each step of a caller keeps owner_id and nesting_cnt with the caller in its
\* critical section.
LEMMA StepOwnerInv ==
  ASSUME NEW t \in Threads, IInv, Step(t)
  PROVE  OwnerInv'
<1> USE ThreadsAssumption, RecursiveAssumption DEF IInv, TypeOK, Goto, Owned, Locations,
        Holding, HoldingWaiterLock, LockInv, MutualExclusion,
        OwnerInv
<1>1. ASSUME NEW how \in {"lock", "trylock", "spinlock"}, Call(t, how) PROVE OwnerInv'
  BY <1>1 DEF Call
<1>2. CASE TryAcquire(t) BY <1>2 DEF TryAcquire
<1>3. CASE Trylock(t) BY <1>3 DEF Trylock
<1>4. CASE Spinlock(t) BY <1>4 DEF Spinlock
<1>5. CASE AcquireWaiterLock(t) BY <1>5 DEF AcquireWaiterLock
<1>6. CASE Retry(t) BY <1>6 DEF Retry
<1>7. CASE ReleaseWaiterLock(t) BY <1>7 DEF ReleaseWaiterLock
<1>8. CASE Suspend(t) BY <1>8 DEF Suspend
<1>9. CASE Resume(t) BY <1>9 DEF Resume
<1>10. CASE SetOwner(t) BY <1>10 DEF SetOwner
<1>11. CASE UnlockCall(t) BY <1>11 DEF UnlockCall
<1>12. CASE UnlockAcquireWaiterLock(t) BY <1>12 DEF UnlockAcquireWaiterLock
<1>13. CASE ReleaseLock(t) BY <1>13 DEF ReleaseLock
<1>14. CASE Broadcast(t) BY <1>14 DEF Broadcast
<1>15. CASE UnlockDone(t) BY <1>15 DEF UnlockDone
<1>16. CASE Free(t) BY <1>16 DEF Free
<1> QED
  BY <1>1, <1>2, <1>3, <1>4, <1>5, <1>6, <1>7, <1>8, <1>9, <1>10, <1>11, <1>12,
     <1>13, <1>14, <1>15, <1>16 DEF Step

\* Each step of a caller keeps the list and the blocked callers in step.
LEMMA StepWaitingInv ==
  ASSUME NEW t \in Threads, IInv, Step(t)
  PROVE  WaitingInv'
<1> USE DEF IInv, TypeOK, Goto, Owned, Locations, Holding, HoldingWaiterLock, LockInv,
        WaiterLockInv, WaitingInv
<1>1. ASSUME NEW l \in Locations \ {"broadcast"}, pc' = [pc EXCEPT ![t] = l],
             pc[t] # "broadcast", lock => lock', waitlist' = waitlist, state' = state,
             l \notin {"suspend", "blocked"} => state[t] = "RUNNING"
      PROVE  WaitingInv'
  <2>1. \A u \in Threads : pc'[u] \notin {"suspend", "blocked"} => state'[u] = "RUNNING"
    BY <1>1
  <2>2. \A u \in Threads : pc[u] = "broadcast" => pc'[u] = "broadcast"
    BY <1>1
  <2> QED BY <1>1, <2>1, <2>2 DEF NoLostWakeup
<1>2. ASSUME NEW how \in {"lock", "trylock", "spinlock"}, Call(t, how) PROVE WaitingInv'
  <2>1. PICK l \in {"lock", "trylock", "spinlock", "cs"} : pc' = [pc EXCEPT ![t] = l]
    BY <1>2 DEF Call
  <2>2. pc[t] \in {"idle", "cs"} /\ lock' = lock /\ waitlist' = waitlist /\ state' = state
    BY <1>2 DEF Call
  <2> QED BY <1>1, <2>1, <2>2
<1>3. CASE TryAcquire(t) \/ Trylock(t) \/ Spinlock(t)
  <2>1. pc[t] \in {"lock", "trylock", "spinlock"} /\ lock' /\ waitlist' = waitlist
        /\ state' = state
    BY <1>3 DEF TryAcquire, Trylock, Spinlock
  <2>2. PICK l \in {"acquire_waiter_lock", "idle", "set_owner", "cs"} :
          pc' = [pc EXCEPT ![t] = l]
    BY <1>3 DEF TryAcquire, Trylock, Spinlock
  <2> QED BY <1>1, <2>1, <2>2
<1>4. CASE AcquireWaiterLock(t) \/ ReleaseWaiterLock(t) \/ Suspend(t) \/ SetOwner(t)
  <2>1. pc[t] # "broadcast" /\ lock' = lock /\ waitlist' = waitlist /\ state' = state
    BY <1>4 DEF AcquireWaiterLock, ReleaseWaiterLock, Suspend, SetOwner
  <2>2. PICK l \in {"retry", "set_owner", "cs", "blocked"} :
          /\ pc' = [pc EXCEPT ![t] = l]
          /\ l # "blocked" => pc[t] \notin {"suspend", "blocked"}
    BY <1>4 DEF AcquireWaiterLock, ReleaseWaiterLock, Suspend, SetOwner
  <2> QED BY <1>1, <2>1, <2>2
<1>5. CASE UnlockCall(t) \/ UnlockAcquireWaiterLock(t) \/ Free(t)
  <2>1. pc[t] \in {"cs", "unlock", "idle"} /\ lock' = lock /\ waitlist' = waitlist
        /\ state' = state
    BY <1>5 DEF UnlockCall, UnlockAcquireWaiterLock, Free
  <2>2. PICK l \in {"cs", "unlock", "release", "idle"} : pc' = [pc EXCEPT ![t] = l]
    BY <1>5 DEF UnlockCall, UnlockAcquireWaiterLock, Free
  <2> QED BY <1>1, <2>1, <2>2
<1>6. CASE Retry(t)
  <2>1. CASE lock
    <3>1. state[t] = "RUNNING" /\ \A i \in 1..Len(waitlist) : waitlist[i] # t
      BY <1>6, <2>1 DEF Retry, NoLostWakeup
    <3>2. waitlist' = Append(waitlist, t) /\ lock'
          /\ state' = [state EXCEPT ![t] = "BLOCKED"] /\ pc' = [pc EXCEPT ![t] = "suspend"]
      BY <1>6, <2>1 DEF Retry
    <3>3. /\ \A i, j \in 1..Len(waitlist') : waitlist'[i] = waitlist'[j] => i = j
          /\ \A x : (\E i \in 1..Len(waitlist') : waitlist'[i] = x)
                    <=> x = t \/ \E i \in 1..Len(waitlist) : waitlist[i] = x
      <4>1. /\ waitlist \in Seq(Threads)
            /\ \A i, j \in 1..Len(waitlist) : waitlist[i] = waitlist[j] => i = j
        BY DEF NoLostWakeup
      <4> HIDE DEF IInv, TypeOK, LockInv, WaiterLockInv, WaitingInv
      <4> DEFINE w == Append(waitlist, t)
      <4>2. /\ \A i, j \in 1..Len(w) : w[i] = w[j] => i = j
            /\ \A x : (\E i \in 1..Len(w) : w[i] = x)
                      <=> x = t \/ \E i \in 1..Len(waitlist) : waitlist[i] = x
        BY <4>1, <3>1, AppendRegisters
      <4> HIDE DEF w
      <4>3. waitlist' = w BY <3>2 DEF w
      <4> QED BY <4>2, <4>3
    <3>4. \A u \in Threads :
            state'[u] = "BLOCKED" <=> \E i \in 1..Len(waitlist') : waitlist'[i] = u
      <4> SUFFICES ASSUME NEW u \in Threads
                   PROVE  state'[u] = "BLOCKED"
                            <=> \E i \in 1..Len(waitlist') : waitlist'[i] = u
        OBVIOUS
      <4>1. state'[u] = "BLOCKED" <=> u = t \/ state[u] = "BLOCKED" BY <3>2
      <4>2. state[u] = "BLOCKED" <=> \E i \in 1..Len(waitlist) : waitlist[i] = u
        BY DEF NoLostWakeup
      <4> QED BY <4>1, <4>2, <3>3, Zenon
    <3>5. \A u \in Threads : pc'[u] \notin {"suspend", "blocked"} => state'[u] = "RUNNING"
      BY <3>2
    <3> QED BY <3>2, <3>3, <3>4, <3>5 DEF NoLostWakeup
  <2>2. CASE ~lock
    BY <1>6, <2>2, <1>1 DEF Retry
  <2> QED BY <2>1, <2>2
<1>7. CASE Resume(t)
  BY <1>7 DEF Resume, NoLostWakeup
<1>8. CASE ReleaseLock(t)
  BY <1>8 DEF ReleaseLock, NoLostWakeup
<1>9. CASE Broadcast(t)
  <2> DEFINE h == Head(waitlist)
  <2>1. waitlist # <<>> /\ waitlist' = Tail(waitlist) /\ pc' = pc
        /\ state' = [state EXCEPT ![h] = "READY"]
    BY <1>9 DEF Broadcast
  <2>2. /\ h \in Threads /\ \E i \in 1..Len(waitlist) : waitlist[i] = h
        /\ \A i, j \in 1..Len(waitlist') : waitlist'[i] = waitlist'[j] => i = j
        /\ \A x : (\E i \in 1..Len(waitlist') : waitlist'[i] = x)
                  <=> x # h /\ \E i \in 1..Len(waitlist) : waitlist[i] = x
    <3>1. /\ waitlist \in Seq(Threads)
          /\ \A i, j \in 1..Len(waitlist) : waitlist[i] = waitlist[j] => i = j
      BY DEF NoLostWakeup
    <3> HIDE DEF IInv, TypeOK, LockInv, WaiterLockInv, WaitingInv
    <3> DEFINE w == Tail(waitlist)
    <3>2. /\ h \in Threads /\ \E i \in 1..Len(waitlist) : waitlist[i] = h
          /\ \A i, j \in 1..Len(w) : w[i] = w[j] => i = j
          /\ \A x : (\E i \in 1..Len(w) : w[i] = x)
                    <=> x # h /\ \E i \in 1..Len(waitlist) : waitlist[i] = x
      BY <3>1, <2>1, TailUnregisters
    <3> HIDE DEF w, h
    <3>3. waitlist' = w BY <2>1 DEF w
    <3> QED BY <3>2, <3>3
  <2> HIDE DEF h
  <2>3. state[h] = "BLOCKED" /\ pc[h] \in {"suspend", "blocked"}
    BY <2>2 DEF NoLostWakeup
  <2>4. \A u \in Threads :
          state'[u] = "BLOCKED" <=> \E i \in 1..Len(waitlist') : waitlist'[i] = u
    <3> SUFFICES ASSUME NEW u \in Threads
                 PROVE  state'[u] = "BLOCKED"
                          <=> \E i \in 1..Len(waitlist') : waitlist'[i] = u
      OBVIOUS
    <3>1. state'[u] = "BLOCKED" <=> u # h /\ state[u] = "BLOCKED" BY <2>1, <2>2
    <3>2. state[u] = "BLOCKED" <=> \E i \in 1..Len(waitlist) : waitlist[i] = u
      BY DEF NoLostWakeup
    <3> QED BY <3>1, <3>2, <2>2, Zenon
  <2>5. \A u \in Threads : pc'[u] \notin {"suspend", "blocked"} => state'[u] = "RUNNING"
    BY <2>1, <2>2, <2>3
  <2>6. \E u \in Threads : pc'[u] = "broadcast"
    BY <1>9 DEF Broadcast
  <2> QED BY <2>2, <2>4, <2>5, <2>6 DEF NoLostWakeup
<1>10. CASE UnlockDone(t)
  BY <1>10 DEF UnlockDone, NoLostWakeup
<1> QED
  BY <1>2, <1>3, <1>4, <1>5, <1>6, <1>7, <1>8, <1>9, <1>10 DEF Step

\* Each step of a caller keeps the mutex out of use once it is freed.
LEMMA StepFreeInv ==
  ASSUME NEW t \in Threads, IInv, Step(t)
  PROVE  FreeInv'
<1> USE ThreadsAssumption, RecursiveAssumption DEF IInv, TypeOK, Goto, Owned, Locations,
        Holding, HoldingWaiterLock, LockInv, MutualExclusion,
        WaiterLockInv, OwnerInv, FreeInv
<1>1. ASSUME NEW how \in {"lock", "trylock", "spinlock"}, Call(t, how) PROVE FreeInv'
  BY <1>1 DEF Call
<1>2. CASE TryAcquire(t) BY <1>2 DEF TryAcquire
<1>3. CASE Trylock(t) BY <1>3 DEF Trylock
<1>4. CASE Spinlock(t) BY <1>4 DEF Spinlock
<1>5. CASE AcquireWaiterLock(t) BY <1>5 DEF AcquireWaiterLock
<1>6. CASE Retry(t) BY <1>6 DEF Retry
<1>7. CASE ReleaseWaiterLock(t) BY <1>7 DEF ReleaseWaiterLock
<1>8. CASE Suspend(t) BY <1>8 DEF Suspend
<1>9. CASE Resume(t) BY <1>9 DEF Resume
<1>10. CASE SetOwner(t) BY <1>10 DEF SetOwner
<1>11. CASE UnlockCall(t) BY <1>11 DEF UnlockCall
<1>12. CASE UnlockAcquireWaiterLock(t) BY <1>12 DEF UnlockAcquireWaiterLock
<1>13. CASE ReleaseLock(t) BY <1>13 DEF ReleaseLock
<1>14. CASE Broadcast(t) BY <1>14 DEF Broadcast
<1>15. CASE UnlockDone(t) BY <1>15 DEF UnlockDone
<1>16. CASE Free(t) BY <1>16 DEF Free
<1> QED
  BY <1>1, <1>2, <1>3, <1>4, <1>5, <1>6, <1>7, <1>8, <1>9, <1>10, <1>11, <1>12,
     <1>13, <1>14, <1>15, <1>16 DEF Step

\* The invariant is inductive.
LEMMA NextIInv == IInv /\ [Next]_vars => IInv'
<1> SUFFICES ASSUME IInv, [Next]_vars PROVE IInv'
  OBVIOUS
<1>1. ASSUME NEW t \in Threads, Step(t) PROVE IInv'
  BY <1>1, StepTypeOK, StepLockInv, StepWaiterLockInv, StepOwnerInv, StepWaitingInv,
     StepFreeInv DEF IInv
<1>2. CASE UNCHANGED vars
  BY <1>2 DEF vars, IInv, TypeOK, LockInv, MutualExclusion, WaiterLockInv, OwnerInv,
     WaitingInv, NoLostWakeup, FreeInv
<1> QED
  BY <1>1, <1>2 DEF Next, Terminated

\* Every reachable state satisfies the inductive invariant.
THEOREM Invariance == Spec => []IInv
  BY InitIInv, NextIInv, PTL DEF Spec

\* Types are preserved by every operation of the mutex.
THEOREM TypeCorrect == Spec => []TypeOK
<1>1. IInv => TypeOK BY DEF IInv
<1> QED BY <1>1, Invariance, PTL

\* lock, trylock and spinlock never let two callers hold the mutex together,
\* whatever the number of callers.
THEOREM Exclusion == Spec => []MutualExclusion
<1>1. IInv => MutualExclusion BY DEF IInv, LockInv
<1> QED BY <1>1, Invariance, PTL

\* A blocked caller is always in the list and the list is only non-empty while an
\* unlock is still to come or is under way: no interleaving loses a wake-up.
THEOREM WakeupsKept == Spec => []NoLostWakeup
<1>1. IInv => NoLostWakeup BY DEF IInv, WaitingInv
<1> QED BY <1>1, Invariance, PTL

\* owner_id is exact whenever it is read, and nesting starts from zero.
THEOREM OwnerExact == Spec => []OwnerIsHolder
<1>1. IInv => OwnerIsHolder
  BY DEF IInv, TypeOK, LockInv, MutualExclusion, OwnerInv, OwnerIsHolder, Holding
<1> QED BY <1>1, Invariance, PTL

\* Freeing the mutex after the last unlock has returned is safe although
\* ABT_mutex_free takes no lock.
THEOREM FreeIsSafe == Spec => []NoUseAfterFree
<1>1. IInv => NoUseAfterFree
  BY DEF IInv, FreeInv, NoUseAfterFree
<1> QED BY <1>1, Invariance, PTL

\* What the refinement mapping reads off the concrete state: the mutex word decides
\* whether there is a holder, and the holder is whoever is at a holding location.
MappingInv ==
    /\ \A t \in Threads : pc[t] \in Holding => holder = t
    /\ ~lock => holder = NoThread /\ depth = 0
    /\ lock => holder \in Threads /\ pc[holder] \in Holding
    /\ lock => depth = nesting_cnt + 1

\* The mapping is well defined wherever the inductive invariant holds.
LEMMA HolderValue == IInv => MappingInv
<1> SUFFICES ASSUME IInv PROVE MappingInv
  OBVIOUS
<1>1. ASSUME NEW t \in Threads, pc[t] \in Holding PROVE holder = t
  <2>1. holder = CHOOSE u \in Threads : pc[u] \in Holding BY <1>1 DEF holder
  <2>2. holder \in Threads /\ pc[holder] \in Holding BY <1>1, <2>1
  <2> QED BY <1>1, <2>2 DEF IInv, LockInv, MutualExclusion
<1>2. lock <=> \E t \in Threads : pc[t] \in Holding
  BY DEF IInv, LockInv
<1>3. ~lock => holder = NoThread /\ depth = 0
  BY <1>2 DEF holder, depth
<1>4. lock => holder \in Threads /\ pc[holder] \in Holding
  BY <1>1, <1>2
<1>5. lock => depth = nesting_cnt + 1
  BY <1>4, ThreadsAssumption DEF depth
<1> QED BY <1>1, <1>3, <1>4, <1>5 DEF MappingInv

\* Each step of the mutex is a step of the abstract one or leaves it unchanged: the
\* test-and-set that succeeds is Acquire, the store that clears the word is Leave.
LEMMA StepImplements ==
  ASSUME NEW t \in Threads, IInv, IInv', Step(t)
  PROVE  Abstract!SpecNext \/ UNCHANGED <<holder, depth>>
<1>1. MappingInv
  BY HolderValue
<1>2. MappingInv'
  <2>1. IInv' => MappingInv' BY HolderValue, PTL
  <2> QED BY <2>1
<1>3. \A u \in Threads : pc[u] \notin Holding => (pc[u] # "cs")
  BY DEF Holding
<1>4. nesting_cnt \in Nat /\ lock \in BOOLEAN /\ pc \in [Threads -> Locations]
  BY DEF IInv, TypeOK
<1>5. ~lock => nesting_cnt = 0
  BY <1>3, <1>4 DEF IInv, OwnerInv, LockInv
<1>6. ASSUME lock' = lock, nesting_cnt' = nesting_cnt,
             \A u \in Threads : pc[u] \in Holding => pc'[u] \in Holding
      PROVE  UNCHANGED <<holder, depth>>
  <2>1. CASE lock
    <3>1. holder \in Threads /\ pc[holder] \in Holding BY <1>1, <2>1 DEF MappingInv
    <3>2. pc'[holder] \in Holding BY <3>1, <1>6
    <3>3. holder' = holder BY <3>1, <3>2, <1>2 DEF MappingInv
    <3>4. depth' = depth BY <2>1, <1>6, <1>1, <1>2 DEF MappingInv
    <3> QED BY <3>3, <3>4
  <2>2. CASE ~lock
    BY <2>2, <1>6, <1>1, <1>2 DEF MappingInv
  <2> QED BY <2>1, <2>2
<1>7. ASSUME ~lock, lock', nesting_cnt' = nesting_cnt, pc'[t] \in Holding
      PROVE  Abstract!SpecNext
  <2>1. holder = NoThread BY <1>1, <1>7 DEF MappingInv
  <2>2. holder' = t BY <1>2, <1>7 DEF MappingInv
  <2>3. depth' = 1 BY <1>2, <1>5, <1>7 DEF MappingInv
  <2> QED BY <2>1, <2>2, <2>3 DEF Abstract!SpecNext, Abstract!Acquire
<1>8. ASSUME pc[t] \in Holding, pc' = [pc EXCEPT ![t] = "cs"] \/ pc' = pc, lock' = lock, Recursive
      PROVE  /\ holder = t /\ holder' = t
             /\ depth = nesting_cnt + 1
             /\ depth' = nesting_cnt' + 1
  <2>1. pc'[t] \in Holding BY <1>8, <1>4 DEF Holding
  <2>2. holder = t /\ holder' = t BY <1>8, <2>1, <1>1, <1>2 DEF MappingInv
  <2>3. lock BY <1>8 DEF IInv, LockInv
  <2> QED BY <2>2, <2>3, <1>8, <1>1, <1>2 DEF MappingInv
<1> USE <1>4 DEF Goto
<1>9. ASSUME NEW how \in {"lock", "trylock", "spinlock"}, Call(t, how)
      PROVE  Abstract!SpecNext \/ UNCHANGED <<holder, depth>>
  <2>1. CASE Recursive /\ owner_id = t
    <3>1. pc[t] = "cs" BY <2>1 DEF IInv, OwnerInv
    <3>2. pc[t] \in Holding BY <3>1 DEF Holding
    <3>3. holder = t /\ holder' = t /\ depth = nesting_cnt + 1 /\ depth' = nesting_cnt' + 1
      BY <1>8, <1>9, <2>1, <3>2 DEF Call
    <3>4. depth' = depth + 1 BY <3>3, <1>9, <2>1 DEF Call
    <3> QED BY <3>3, <3>4, <2>1 DEF Abstract!SpecNext, Abstract!Nest
  <2>2. CASE ~(Recursive /\ owner_id = t)
    <3>1. pc[t] = "idle" BY <1>9, <2>2 DEF Call, IInv, OwnerInv
    <3>2. \A u \in Threads : pc[u] \in Holding => pc'[u] \in Holding
      BY <1>9, <2>2, <3>1 DEF Call, Holding
    <3> QED BY <1>6, <1>9, <2>2, <3>2 DEF Call
  <2> QED BY <2>1, <2>2
<1>10. ASSUME TryAcquire(t) \/ Trylock(t)
       PROVE  Abstract!SpecNext \/ UNCHANGED <<holder, depth>>
  <2>1. CASE lock
    <3>1. \A u \in Threads : pc[u] \in Holding => pc'[u] \in Holding
      BY <1>10, <2>1 DEF TryAcquire, Trylock, Holding
    <3> QED BY <1>6, <1>10, <2>1, <3>1 DEF TryAcquire, Trylock
  <2>2. CASE ~lock
    BY <1>7, <1>10, <2>2 DEF TryAcquire, Trylock, Holding, Owned
  <2> QED BY <2>1, <2>2
<1>11. CASE Spinlock(t)
  BY <1>7, <1>11 DEF Spinlock, Holding, Owned
<1>12. CASE Retry(t)
  <2>1. CASE lock
    <3>1. \A u \in Threads : pc[u] \in Holding => pc'[u] \in Holding
      BY <1>12, <2>1 DEF Retry, Holding
    <3> QED BY <1>6, <1>12, <2>1, <3>1 DEF Retry
  <2>2. CASE ~lock
    BY <1>7, <1>12, <2>2 DEF Retry, Holding
  <2> QED BY <2>1, <2>2
<1>13. ASSUME \/ AcquireWaiterLock(t) \/ ReleaseWaiterLock(t) \/ Suspend(t) \/ Resume(t)
              \/ SetOwner(t) \/ UnlockAcquireWaiterLock(t) \/ Broadcast(t)
              \/ UnlockDone(t) \/ Free(t)
       PROVE  UNCHANGED <<holder, depth>>
  <2>1. \A u \in Threads : pc[u] \in Holding => pc'[u] \in Holding
    BY <1>13 DEF AcquireWaiterLock, ReleaseWaiterLock, Suspend, Resume, SetOwner,
       UnlockAcquireWaiterLock, Broadcast, UnlockDone, Free, Holding, Owned
  <2>2. lock' = lock /\ nesting_cnt' = nesting_cnt
    BY <1>13 DEF AcquireWaiterLock, ReleaseWaiterLock, Suspend, Resume, SetOwner,
       UnlockAcquireWaiterLock, Broadcast, UnlockDone, Free
  <2> QED BY <1>6, <2>1, <2>2
<1>14. CASE UnlockCall(t)
  <2>1. pc[t] \in Holding BY <1>14 DEF UnlockCall, Holding
  <2>2. CASE Recursive /\ nesting_cnt # 0
    <3>1. holder = t /\ holder' = t /\ depth = nesting_cnt + 1 /\ depth' = nesting_cnt' + 1
      BY <1>8, <1>14, <2>1, <2>2 DEF UnlockCall
    <3>2. depth' = depth - 1 /\ depth # 1 BY <3>1, <1>14, <2>2 DEF UnlockCall
    <3> QED BY <3>1, <3>2 DEF Abstract!SpecNext, Abstract!Leave
  <2>3. CASE ~(Recursive /\ nesting_cnt # 0)
    <3>1. \A u \in Threads : pc[u] \in Holding => pc'[u] \in Holding
      BY <1>14, <2>3 DEF UnlockCall, Holding
    <3> QED BY <1>6, <1>14, <2>3, <3>1 DEF UnlockCall
  <2> QED BY <2>2, <2>3
<1>15. CASE ReleaseLock(t)
  <2>1. pc[t] \in Holding BY <1>15 DEF ReleaseLock, Holding
  <2>2. lock /\ holder = t BY <2>1, <1>1 DEF IInv, LockInv, MappingInv
  <2>3. nesting_cnt = 0
    <3>1. \A u \in Threads : pc[u] = "cs" => u = t
      BY <2>1 DEF IInv, LockInv, MutualExclusion, Holding
    <3> QED BY <3>1, <1>15 DEF ReleaseLock, IInv, OwnerInv
  <2>4. depth = 1 BY <2>2, <2>3, <1>1 DEF MappingInv
  <2>5. holder' = NoThread /\ depth' = 0 BY <1>15, <1>2 DEF ReleaseLock, MappingInv
  <2> QED BY <2>2, <2>4, <2>5 DEF Abstract!SpecNext, Abstract!Leave
<1> QED BY <1>9, <1>10, <1>11, <1>12, <1>13, <1>14, <1>15 DEF Step

\* ABT_mutex implements MutexSpec for every set of callers: whichever of lock,
\* trylock and spinlock they use, recursive or not.
THEOREM Implementation == Spec => ImplementsMutexSpec
<1>1. Init => Abstract!SpecInit
  BY DEF Init, Abstract!SpecInit, holder, depth, Holding
<1>2. IInv /\ IInv' /\ [Next]_vars => [Abstract!SpecNext]_(Abstract!specVars)
  <2> SUFFICES ASSUME IInv, IInv', [Next]_vars
               PROVE  Abstract!SpecNext \/ UNCHANGED <<holder, depth>>
    BY DEF Abstract!specVars
  <2>1. ASSUME NEW t \in Threads, Step(t)
        PROVE  Abstract!SpecNext \/ UNCHANGED <<holder, depth>>
    BY <2>1, StepImplements
  <2>2. CASE UNCHANGED vars
    BY <2>2 DEF vars, holder, depth
  <2> QED BY <2>1, <2>2 DEF Next, Terminated
<1> QED BY Invariance, <1>1, <1>2, PTL DEF Spec, ImplementsMutexSpec, Abstract!Spec

------------------------------------------------------------------------------
(* Eventual *)

EvtLocations == {"idle", "waitlock", "wait", "enqueued", "waiting", "timeup", "giveup",
                 "release", "testlock", "test", "setlock", "set", "broadcast", "setdone",
                 "error", "resetlock", "reset", "free"}
EvtHolding == {"wait", "enqueued", "giveup", "release", "test", "set", "broadcast",
               "setdone", "error", "reset"}
EvtBlocked == {"enqueued", "waiting", "timeup", "giveup"}

\* Whoever is in a critical section has the lock.
EvtLocked == \A c \in Callers : o_pc[c] \in EvtHolding => o_lock = c

\* The list holds, once each, the callers inside a wait that no set has woken.
EvtListed ==
    /\ Distinct(o_waitlist)
    /\ \A c \in Callers : Listed(o_waitlist, c) <=> o_pc[c] \in EvtBlocked /\ c \notin woken

\* A ready eventual was set once, and its list is empty or being woken.
EvtReady ==
    /\ sets <= 1 /\ (~ready => sets = 0)
    /\ ready /\ o_waitlist # <<>> => \E c \in Callers : o_pc[c] = "broadcast"

\* While one caller frees the eventual, only a set that has woken everybody is in it.
EvtFreed ==
    /\ o_freed => \A c \in Callers : o_pc[c] = "idle"
    /\ \A c \in Callers : o_pc[c] = "free" =>
         /\ ~o_freed
         /\ \A d \in Callers \ {c} :
              \/ o_pc[d] = "idle"
              \/ o_pc[d] \in {"broadcast", "setdone"} /\ o_waitlist = <<>>

EvtTypes ==
    /\ Evt!TypeOK
    /\ o_pc \in [Callers -> EvtLocations] /\ calls \in [Callers -> Nat] /\ sets \in Nat

EvtInv == EvtTypes /\ EvtLocked /\ EvtListed /\ EvtReady /\ EvtFreed

\* An eventual is created with nobody in it.
LEMMA EvtInit == Evt!Init => EvtInv
<1> SUFFICES ASSUME Evt!Init PROVE EvtInv
  OBVIOUS
<1> USE SyncAssumption DEF Evt!EventualConstants, Evt!Init
<1>1. EvtTypes
  <2>1. calls \in [Callers -> Nat]
    BY DEF MaxCalls
  <2>2. o_waitlist \in Seq(Callers)
    OBVIOUS
  <2>3. Evt!TypeOK
    BY <2>2 DEF Evt!TypeOK
  <2> QED BY <2>1, <2>3 DEF EvtTypes, EvtLocations
<1>2. EvtLocked /\ EvtReady /\ EvtFreed
  BY DEF EvtLocked, EvtReady, EvtFreed, EvtHolding
<1>3. EvtListed
  <2>1. Distinct(o_waitlist) /\ \A c \in Callers : ~Listed(o_waitlist, c)
    BY EmptyList
  <2> QED BY <2>1 DEF EvtListed, EvtBlocked
<1> QED BY <1>1, <1>2, <1>3 DEF EvtInv

\* Every step of a caller keeps the list, the flag and the lock in step.
LEMMA EvtStep == EvtInv /\ [Evt!Next]_(Evt!vars) => EvtInv'
<1> SUFFICES ASSUME EvtInv, [Evt!Next]_(Evt!vars) PROVE EvtInv'
  OBVIOUS
<1> USE SyncAssumption DEF Evt!EventualConstants, EvtInv, Evt!Goto, Evt!Done, Evt!Idle,
        Evt!eventual
<1> DEFINE Inv == EvtTypes /\ EvtLocked /\ EvtListed /\ EvtReady /\ EvtFreed
<1>1. ASSUME NEW c \in Callers, NEW l \in {"waitlock", "testlock", "setlock", "resetlock"},
             NEW t \in BOOLEAN, Evt!Call(c, l, t)
      PROVE  Inv'
  <2> USE <1>1 DEF Evt!Call
  <2>1. EvtTypes'
    BY DEF EvtTypes, Evt!TypeOK, EvtLocations
  <2>2. EvtLocked' /\ EvtReady'
    BY DEF EvtTypes, Evt!TypeOK, EvtLocked, EvtReady, EvtHolding
  <2>3. EvtListed'
    BY DEF EvtTypes, Evt!TypeOK, EvtListed, EvtBlocked
  <2>4. EvtFreed'
    BY DEF EvtTypes, Evt!TypeOK, EvtFreed
  <2> QED BY <2>1, <2>2, <2>3, <2>4
<1>2. ASSUME NEW c \in Callers, NEW from, NEW to, Evt!Lock(c, from, to),
             <<from, to>> \in {<<"waitlock", "wait">>, <<"timeup", "giveup">>,
                               <<"testlock", "test">>, <<"setlock", "set">>,
                               <<"resetlock", "reset">>}
      PROVE  Inv'
  <2> USE <1>2 DEF Evt!Lock
  <2>1. EvtTypes'
    BY DEF EvtTypes, Evt!TypeOK, EvtLocations
  <2>2. EvtLocked' /\ EvtReady'
    BY DEF EvtTypes, Evt!TypeOK, EvtLocked, EvtReady, EvtHolding
  <2>3. EvtListed'
    BY DEF EvtTypes, Evt!TypeOK, EvtListed, EvtBlocked
  <2>4. EvtFreed'
    BY DEF EvtTypes, Evt!TypeOK, EvtFreed
  <2> QED BY <2>1, <2>2, <2>3, <2>4
<1>3. ASSUME NEW c \in Callers, NEW from \in {"release", "setdone", "error"},
             NEW r \in {"ready", "set", "error"}, Evt!Release(c, from, r)
      PROVE  Inv'
  <2> USE <1>3 DEF Evt!Release
  <2>1. EvtTypes'
    BY DEF EvtTypes, Evt!TypeOK, EvtLocations
  <2>2. EvtLocked' /\ EvtReady'
    BY DEF EvtTypes, Evt!TypeOK, EvtLocked, EvtReady, EvtHolding
  <2>3. EvtListed'
    BY DEF EvtTypes, Evt!TypeOK, EvtListed, EvtBlocked
  <2>4. EvtFreed'
    BY DEF EvtTypes, Evt!TypeOK, EvtFreed
  <2> QED BY <2>1, <2>2, <2>3, <2>4
<1>4. ASSUME NEW c \in Callers, Evt!Wait(c)
      PROVE  Inv'
  <2> USE <1>4 DEF Evt!Wait
  <2>1. CASE ready
    <3>1. o_pc' = [o_pc EXCEPT ![c] = "release"] /\ UNCHANGED o_waitlist
      BY <2>1
    <3>2. EvtTypes'
      BY <3>1 DEF EvtTypes, Evt!TypeOK, EvtLocations
    <3>3. EvtLocked' /\ EvtReady' /\ EvtFreed'
      BY <3>1 DEF EvtTypes, EvtLocked, EvtReady, EvtFreed, EvtHolding
    <3>4. EvtListed'
      BY <3>1 DEF EvtTypes, EvtListed, EvtBlocked
    <3> QED BY <3>2, <3>3, <3>4
  <2>2. CASE ~ready
    <3>1. /\ o_waitlist \in Seq(Callers)
          /\ Distinct(o_waitlist)
          /\ ~Listed(o_waitlist, c)
      BY DEF EvtTypes, Evt!TypeOK, EvtListed, EvtBlocked
    <3>2. /\ o_waitlist' \in Seq(Callers)
          /\ Distinct(o_waitlist')
          /\ \A x : Listed(o_waitlist', x)
                    <=> x = c \/ Listed(o_waitlist, x)
      <4>1. o_waitlist' = Append(o_waitlist, c)
        BY <2>2
      <4> QED BY <3>1, <4>1, AppendLists
    <3>3. o_pc' = [o_pc EXCEPT ![c] = "enqueued"]
      BY <2>2
    <3>4. EvtTypes'
      BY <3>2, <3>3 DEF EvtTypes, Evt!TypeOK, EvtLocations
    <3>5. EvtLocked' /\ EvtReady'
      BY <2>2, <3>3 DEF EvtTypes, Evt!TypeOK, EvtLocked, EvtReady, EvtHolding
    <3>6. EvtListed'
      <4>1. c \notin woken /\ UNCHANGED woken
        BY DEF EvtTypes, Evt!TypeOK
      <4>2. ASSUME NEW d \in Callers
            PROVE  Listed(o_waitlist', d)
                     <=> o_pc'[d] \in EvtBlocked /\ d \notin woken'
        <5>1. o_pc'[d] = IF d = c THEN "enqueued" ELSE o_pc[d]
          BY <3>3 DEF EvtTypes
        <5>2. Listed(o_waitlist, d)
                <=> o_pc[d] \in EvtBlocked /\ d \notin woken
          BY DEF EvtListed
        <5> QED BY ONLY <3>2, <4>1, <5>1, <5>2 DEF EvtBlocked
      <4> QED BY <3>2, <4>2 DEF EvtListed
    <3>7. EvtFreed'
      BY <3>3 DEF EvtTypes, Evt!TypeOK, EvtFreed
    <3> QED BY <3>4, <3>5, <3>6, <3>7
  <2> QED BY <2>1, <2>2
<1>5. ASSUME NEW c \in Callers, Evt!Unlock(c)
      PROVE  Inv'
  <2> USE <1>5 DEF Evt!Unlock
  <2>1. EvtTypes'
    BY DEF EvtTypes, Evt!TypeOK, EvtLocations
  <2>2. EvtLocked' /\ EvtReady'
    BY DEF EvtTypes, Evt!TypeOK, EvtLocked, EvtReady, EvtHolding
  <2>3. EvtListed'
    BY DEF EvtTypes, Evt!TypeOK, EvtListed, EvtBlocked
  <2>4. EvtFreed'
    BY DEF EvtTypes, Evt!TypeOK, EvtFreed
  <2> QED BY <2>1, <2>2, <2>3, <2>4
<1>6. ASSUME NEW c \in Callers, Evt!Return(c)
      PROVE  Inv'
  <2> USE <1>6 DEF Evt!Return
  <2>1. EvtTypes'
    BY DEF EvtTypes, Evt!TypeOK, EvtLocations
  <2>2. EvtLocked' /\ EvtReady'
    BY DEF EvtTypes, Evt!TypeOK, EvtLocked, EvtReady, EvtHolding
  <2>3. EvtListed'
    BY DEF EvtTypes, Evt!TypeOK, EvtListed, EvtBlocked
  <2>4. EvtFreed'
    BY DEF EvtTypes, Evt!TypeOK, EvtFreed
  <2> QED BY <2>1, <2>2, <2>3, <2>4
<1>7. ASSUME NEW c \in Callers, Evt!TimeUp(c)
      PROVE  Inv'
  <2> USE <1>7 DEF Evt!TimeUp
  <2>1. EvtTypes'
    BY DEF EvtTypes, Evt!TypeOK, EvtLocations
  <2>2. EvtLocked' /\ EvtReady'
    BY DEF EvtTypes, Evt!TypeOK, EvtLocked, EvtReady, EvtHolding
  <2>3. EvtListed'
    BY DEF EvtTypes, Evt!TypeOK, EvtListed, EvtBlocked
  <2>4. EvtFreed'
    BY DEF EvtTypes, Evt!TypeOK, EvtFreed
  <2> QED BY <2>1, <2>2, <2>3, <2>4
<1>8. ASSUME NEW c \in Callers, Evt!Test(c)
      PROVE  Inv'
  <2> USE <1>8 DEF Evt!Test
  <2>1. EvtTypes'
    BY DEF EvtTypes, Evt!TypeOK, EvtLocations
  <2>2. EvtLocked' /\ EvtReady'
    BY DEF EvtTypes, Evt!TypeOK, EvtLocked, EvtReady, EvtHolding
  <2>3. EvtListed'
    BY DEF EvtTypes, Evt!TypeOK, EvtListed, EvtBlocked
  <2>4. EvtFreed'
    BY DEF EvtTypes, Evt!TypeOK, EvtFreed
  <2> QED BY <2>1, <2>2, <2>3, <2>4
<1>9. ASSUME NEW c \in Callers, Evt!Reset(c)
      PROVE  Inv'
  <2> USE <1>9 DEF Evt!Reset
  <2>1. EvtTypes'
    BY DEF EvtTypes, Evt!TypeOK, EvtLocations
  <2>2. EvtLocked' /\ EvtReady'
    BY DEF EvtTypes, Evt!TypeOK, EvtLocked, EvtReady, EvtHolding
  <2>3. EvtListed'
    BY DEF EvtTypes, Evt!TypeOK, EvtListed, EvtBlocked
  <2>4. EvtFreed'
    BY DEF EvtTypes, Evt!TypeOK, EvtFreed
  <2> QED BY <2>1, <2>2, <2>3, <2>4
<1>10. ASSUME NEW c \in Callers, Evt!FreeBegin(c)
      PROVE  Inv'
  <2> USE <1>10 DEF Evt!FreeBegin
  <2>1. EvtTypes'
    BY DEF EvtTypes, Evt!TypeOK, EvtLocations
  <2>2. EvtLocked' /\ EvtReady'
    BY DEF EvtTypes, Evt!TypeOK, EvtLocked, EvtReady, EvtHolding
  <2>3. EvtListed'
    BY DEF EvtTypes, Evt!TypeOK, EvtListed, EvtBlocked
  <2>4. EvtFreed'
    BY DEF EvtTypes, Evt!TypeOK, EvtFreed
  <2> QED BY <2>1, <2>2, <2>3, <2>4
<1>11. ASSUME NEW c \in Callers, Evt!GiveUp(c)
      PROVE  Inv'
  <2> USE <1>11 DEF Evt!GiveUp
  <2>1. o_pc' = [o_pc EXCEPT ![c] = "idle"] /\ o_lock' = Nobody /\ o_lock = c
    BY DEF EvtTypes, Evt!TypeOK, EvtLocked, EvtHolding
  <2>2. EvtLocked' /\ EvtFreed' /\ (ready => o_waitlist = <<>>)
    BY <2>1 DEF EvtTypes, Evt!TypeOK, EvtLocked, EvtFreed, EvtReady, EvtHolding
  <2>3. CASE c \in woken
    <3>1. /\ UNCHANGED o_waitlist /\ woken' = woken \ {c}
          /\ result' = [result EXCEPT ![c] = "ready"]
      BY <2>3
    <3>2. EvtTypes'
      BY <2>1, <3>1 DEF EvtTypes, Evt!TypeOK, EvtLocations
    <3>3. EvtReady' /\ EvtListed'
      BY <2>1, <2>2, <2>3, <3>1 DEF EvtTypes, EvtReady, EvtListed, EvtBlocked
    <3> QED BY <2>2, <3>2, <3>3
  <2>4. CASE c \notin woken
    <3>1. PICK k \in 1..Len(o_waitlist) :
            o_waitlist[k] = c /\ o_waitlist' = Evt!RemoveAt(o_waitlist, k)
      BY <2>4, LenProperties DEF EvtTypes, Evt!TypeOK
    <3>2. /\ o_waitlist' \in Seq(Callers)
          /\ Distinct(o_waitlist')
          /\ \A x : Listed(o_waitlist', x)
                    <=> x # c /\ Listed(o_waitlist, x)
      <4>1. o_waitlist \in Seq(Callers) /\ Distinct(o_waitlist)
        BY DEF EvtTypes, Evt!TypeOK, EvtListed
      <4>2. o_waitlist' = Without(o_waitlist, k)
        BY <3>1 DEF Evt!RemoveAt, Without
      <4>3. k \in 1..Len(o_waitlist) /\ o_waitlist[k] = c
        BY <3>1
      <4> QED BY ONLY <4>1, <4>2, <4>3, WithoutUnlists
    <3>3. ~ready /\ UNCHANGED woken /\ result' = [result EXCEPT ![c] = "timedout"]
      BY <2>2, <2>4, <3>1
    <3>4. EvtTypes'
      BY <2>1, <2>4, <3>2, <3>3 DEF EvtTypes, Evt!TypeOK, EvtLocations
    <3>5. EvtReady'
      BY <3>3 DEF EvtReady
    <3>6. ASSUME NEW d \in Callers
          PROVE  Listed(o_waitlist', d)
                   <=> o_pc'[d] \in EvtBlocked /\ d \notin woken'
      <4>1. o_pc'[d] = IF d = c THEN "idle" ELSE o_pc[d]
        BY <2>1 DEF EvtTypes
      <4>2. Listed(o_waitlist, d)
              <=> o_pc[d] \in EvtBlocked /\ d \notin woken
        BY DEF EvtListed
      <4> QED BY ONLY <3>2, <3>3, <4>1, <4>2 DEF EvtBlocked
    <3>7. EvtListed'
      BY <3>2, <3>6 DEF EvtListed
    <3> QED BY <2>2, <3>4, <3>5, <3>7
  <2> QED BY <2>3, <2>4
<1>12. ASSUME NEW c \in Callers, Evt!Set(c)
      PROVE  Inv'
  <2> USE <1>12 DEF Evt!Set
  <2>1. CASE ready
    <3>1. o_pc' = [o_pc EXCEPT ![c] = "error"] /\ UNCHANGED <<value, ready, sets>>
      BY <2>1
    <3>2. EvtTypes'
      BY <3>1 DEF EvtTypes, Evt!TypeOK, EvtLocations
    <3>3. EvtLocked' /\ EvtReady' /\ EvtFreed'
      BY <3>1 DEF EvtTypes, EvtLocked, EvtReady, EvtFreed, EvtHolding
    <3>4. EvtListed'
      BY <3>1 DEF EvtTypes, EvtListed, EvtBlocked
    <3> QED BY <3>2, <3>3, <3>4
  <2>2. CASE ~ready
    <3>1. o_pc' = [o_pc EXCEPT ![c] = "broadcast"] /\ ready' = TRUE /\ sets' = 1
      BY <2>2 DEF EvtReady
    <3>2. EvtTypes'
      BY <2>2, <3>1 DEF EvtTypes, Evt!TypeOK, EvtLocations
    <3>3. EvtLocked' /\ EvtReady'
      BY <3>1 DEF EvtTypes, Evt!TypeOK, EvtLocked, EvtReady, EvtHolding
    <3>4. EvtListed' /\ EvtFreed'
      BY <3>1 DEF EvtTypes, Evt!TypeOK, EvtListed, EvtBlocked, EvtFreed
    <3> QED BY <3>2, <3>3, <3>4
  <2> QED BY <2>1, <2>2
<1>13. ASSUME NEW c \in Callers, Evt!Broadcast(c)
      PROVE  Inv'
  <2> USE <1>13 DEF Evt!Broadcast
  <2>1. CASE o_waitlist = <<>>
    <3>1. o_pc' = [o_pc EXCEPT ![c] = "setdone"] /\ UNCHANGED <<o_waitlist, woken>>
      BY <2>1
    <3>2. EvtTypes'
      BY <3>1 DEF EvtTypes, Evt!TypeOK, EvtLocations
    <3>3. EvtLocked' /\ EvtReady' /\ EvtFreed'
      BY <2>1, <3>1 DEF EvtTypes, EvtLocked, EvtReady, EvtFreed, EvtHolding
    <3>4. EvtListed'
      BY <3>1 DEF EvtTypes, EvtListed, EvtBlocked
    <3> QED BY <3>2, <3>3, <3>4
  <2>2. CASE o_waitlist # <<>>
    <3> DEFINE h == Head(o_waitlist)
    <3>1. /\ o_waitlist' = Tail(o_waitlist) /\ woken' = woken \cup {h} /\ UNCHANGED o_pc
          /\ o_lock = c
      BY <2>2 DEF EvtLocked, EvtHolding
    <3>2. /\ o_waitlist' \in Seq(Callers)
          /\ h \in Callers /\ Listed(o_waitlist, h)
          /\ Distinct(o_waitlist')
          /\ \A x : Listed(o_waitlist', x)
                    <=> x # h /\ Listed(o_waitlist, x)
      <4>1. /\ o_waitlist \in Seq(Callers)
            /\ Distinct(o_waitlist)
        BY DEF EvtTypes, Evt!TypeOK, EvtListed
      <4> QED BY ONLY <2>2, <3>1, <4>1, TailLists
    <3> HIDE DEF h
    <3>3. o_pc[h] \in EvtBlocked /\ o_pc[h] # "enqueued"
      BY <3>1, <3>2 DEF EvtListed, EvtLocked, EvtHolding
    <3>4. EvtTypes'
      BY <3>1, <3>2, <3>3 DEF EvtTypes, Evt!TypeOK, EvtLocations, EvtBlocked
    <3>5. EvtLocked' /\ EvtReady'
      BY <3>1 DEF EvtTypes, Evt!TypeOK, EvtLocked, EvtReady
    <3>6. EvtListed'
      BY <3>1, <3>2, <3>3 DEF EvtListed
    <3>7. EvtFreed'
      BY <2>2, <3>1 DEF EvtFreed
    <3> QED BY <3>4, <3>5, <3>6, <3>7
  <2> QED BY <2>1, <2>2
<1>14. ASSUME NEW c \in Callers, Evt!Free(c)
      PROVE  Inv'
  <2> USE <1>14 DEF Evt!Free
  <2>1. EvtTypes'
    BY DEF EvtTypes, Evt!TypeOK, EvtLocations
  <2>2. EvtLocked' /\ EvtReady'
    BY DEF EvtTypes, Evt!TypeOK, EvtLocked, EvtReady, EvtHolding
  <2>3. EvtListed'
    BY DEF EvtTypes, Evt!TypeOK, EvtListed, EvtBlocked
  <2>4. EvtFreed'
    <3>1. \A d \in Callers : o_pc[d] \notin {"broadcast", "setdone"}
      BY DEF EvtLocked, EvtHolding
    <3> QED BY <3>1 DEF EvtTypes, Evt!TypeOK, EvtFreed
  <2> QED BY <2>1, <2>2, <2>3, <2>4
<1>15. CASE UNCHANGED Evt!vars
  BY <1>15 DEF Evt!vars, EvtTypes, Evt!TypeOK, EvtLocked, EvtListed, EvtReady, EvtFreed
<1> HIDE DEF EvtInv, Inv
<1>16. ASSUME NEW c \in Callers, Evt!Step(c) PROVE Inv'
  <2>1. CASE Evt!Acquire(c)
    <3>1. CASE Evt!Lock(c, "waitlock", "wait") BY <3>1, <1>2
    <3>2. CASE Evt!Lock(c, "timeup", "giveup") BY <3>2, <1>2
    <3>3. CASE Evt!Lock(c, "testlock", "test") BY <3>3, <1>2
    <3>4. CASE Evt!Lock(c, "setlock", "set") BY <3>4, <1>2
    <3>5. CASE Evt!Lock(c, "resetlock", "reset") BY <3>5, <1>2
    <3> QED BY <2>1, <3>1, <3>2, <3>3, <3>4, <3>5 DEF Evt!Acquire
  <2>2. CASE \/ Evt!Release(c, "release", "ready") \/ Evt!Release(c, "setdone", "set")
             \/ Evt!Release(c, "error", "error")
    BY <2>2, <1>3
  <2> QED BY <1>16, <2>1, <2>2, <1>4, <1>5, <1>6, <1>8, <1>9, <1>11, <1>12, <1>13, <1>14
          DEF Evt!Step
<1>17. ASSUME Evt!Next PROVE Inv'
  <2>1. PICK c \in Callers :
          \/ Evt!Call(c, "waitlock", FALSE) \/ Evt!Call(c, "waitlock", TRUE)
          \/ \E l \in {"testlock", "setlock", "resetlock"} : Evt!Call(c, l, FALSE)
          \/ Evt!Step(c) \/ Evt!TimeUp(c) \/ Evt!FreeBegin(c)
    BY <1>17 DEF Evt!Next
  <2>2. CASE Evt!Step(c) \/ Evt!TimeUp(c) \/ Evt!FreeBegin(c)
    BY <2>2, <1>7, <1>10, <1>16
  <2>3. CASE \E l \in {"testlock", "setlock", "resetlock"} : Evt!Call(c, l, FALSE)
    BY <2>3, <1>1
  <2>4. CASE Evt!Call(c, "waitlock", FALSE) \/ Evt!Call(c, "waitlock", TRUE)
    BY <2>4, <1>1
  <2> QED BY <2>1, <2>2, <2>3, <2>4
<1> QED BY <1>15, <1>17 DEF EvtInv, Inv
\* What the invariant says of the eventual's users.
LEMMA EvtSafe ==
  EvtInv => Evt!TypeOK /\ Evt!NoWaiterLeft /\ Evt!NoUseAfterFree /\ Evt!OneSet
<1> SUFFICES ASSUME EvtInv
             PROVE  Evt!TypeOK /\ Evt!NoWaiterLeft /\ Evt!NoUseAfterFree /\ Evt!OneSet
  OBVIOUS
<1> USE SyncAssumption DEF Evt!EventualConstants, EvtInv
<1>1. Evt!TypeOK
  BY DEF EvtTypes
<1>2. Evt!NoWaiterLeft
  BY DEF Evt!NoWaiterLeft, EvtReady, EvtLocked, EvtHolding
<1>3. Evt!NoUseAfterFree
  BY DEF Evt!NoUseAfterFree, EvtFreed, Evt!Idle
<1>4. Evt!OneSet
  BY DEF Evt!OneSet, EvtReady
<1> QED BY <1>1, <1>2, <1>3, <1>4

\* A wait that reports a timeout is still in the list, so no set has come: one that is
\* waking the list would have the lock that the caller has.
LEMMA EvtTimeout ==
  ASSUME EvtInv, Evt!Next, NEW c \in Callers, Evt!GivesUp(c)
  PROVE  ~ready
<1> USE SyncAssumption DEF Evt!EventualConstants, EvtInv
<1>1. o_pc[c] = "giveup" /\ o_pc'[c] = "idle" /\ result'[c] = "timedout"
  BY DEF Evt!GivesUp
<1>2. PICK d \in Callers :
        \/ Evt!Call(d, "waitlock", FALSE) \/ Evt!Call(d, "waitlock", TRUE)
        \/ \E l \in {"testlock", "setlock", "resetlock"} : Evt!Call(d, l, FALSE)
        \/ Evt!Step(d) \/ Evt!TimeUp(d) \/ Evt!FreeBegin(d)
  BY DEF Evt!Next
<1>3. c \notin woken
  <2> USE DEF Evt!Goto, Evt!Done, EvtTypes, Evt!TypeOK
  <2>1. Evt!GiveUp(c)
    BY <1>1, <1>2 DEF Evt!Call, Evt!Step, Evt!TimeUp, Evt!FreeBegin, Evt!Idle, Evt!Acquire,
       Evt!Lock, Evt!Release, Evt!Wait, Evt!Unlock, Evt!Return, Evt!GiveUp, Evt!Test, Evt!Set,
       Evt!Broadcast, Evt!Reset, Evt!Free
  <2> QED BY <1>1, <2>1 DEF Evt!GiveUp
<1>4. o_waitlist # <<>>
  BY <1>1, <1>3, EmptyList DEF EvtListed, EvtBlocked
<1>5. \A b \in Callers : o_pc[b] # "broadcast"
  BY <1>1 DEF EvtLocked, EvtHolding
<1> QED BY <1>4, <1>5 DEF EvtReady

------------------------------------------------------------------------------
(* Future *)

FutLocations == {"idle", "waitlock", "wait", "enqueued", "waiting", "woken", "release", "test",
                 "setlock", "set", "callback", "publish", "broadcast", "setdone", "error",
                 "resetlock", "reset", "resetdone", "free"}
FutHolding == {"wait", "enqueued", "release", "set", "callback", "publish", "broadcast",
               "setdone", "error", "reset", "resetdone"}
FutBlocked == {"enqueued", "waiting"}

FutTypes ==
    /\ Fut!TypeOK
    /\ o_pc \in [Callers -> FutLocations] /\ calls \in [Callers -> Nat]
    /\ accepted \in Seq(Callers)

\* Whoever is in a critical section has the lock.
FutLocked == \A c \in Callers : o_pc[c] \in FutHolding => o_lock = c

\* The list holds, once each, the callers inside a wait that no set has woken.
FutListed ==
    /\ Distinct(o_waitlist)
    /\ \A c \in Callers : Listed(o_waitlist, c) <=> o_pc[c] \in FutBlocked

\* The list of a ready future is empty or being woken.
FutReady ==
    counter = NumCompartments /\ o_waitlist # <<>> => \E c \in Callers : o_pc[c] = "broadcast"

\* A value is in its compartment before the counter says so, and the callback has seen
\* them all before the counter says that all are there.
FutFilled ==
    /\ IF \E c \in Callers : o_pc[c] \in {"callback", "publish"}
         THEN Len(accepted) = counter + 1 /\ counter < NumCompartments
         ELSE Len(accepted) = counter
    /\ \A i \in 1..Len(accepted) : array[i] = accepted[i]
    /\ IF \/ counter = NumCompartments /\ counter > 0
          \/ counter + 1 = NumCompartments /\ \E c \in Callers : o_pc[c] = "publish"
         THEN shown = <<accepted>> ELSE shown = <<>>

\* While one caller frees the future, only a set that has woken everybody is in it.
FutFreed ==
    /\ o_freed => \A c \in Callers : o_pc[c] = "idle"
    /\ \A c \in Callers : o_pc[c] = "free" =>
         /\ ~o_freed
         /\ \A d \in Callers \ {c} :
              \/ o_pc[d] = "idle"
              \/ o_pc[d] \in {"broadcast", "setdone"} /\ o_waitlist = <<>>

FutInv == FutTypes /\ FutLocked /\ FutListed /\ FutReady /\ FutFilled /\ FutFreed

\* A future is created empty, with nobody in it.
LEMMA FutInit == Fut!Init => FutInv
<1> SUFFICES ASSUME Fut!Init PROVE FutInv
  OBVIOUS
<1> USE SyncAssumption DEF Fut!FutureConstants, Fut!Init
<1>1. FutTypes
  <2>1. calls \in [Callers -> Nat]
    BY DEF MaxCalls
  <2>2. o_waitlist \in Seq(Callers) /\ accepted \in Seq(Callers) /\ counter \in 0..NumCompartments
    OBVIOUS
  <2>3. Fut!TypeOK
    BY <2>2 DEF Fut!TypeOK
  <2> QED BY <2>1, <2>2, <2>3 DEF FutTypes, FutLocations
<1>2. FutLocked /\ FutReady /\ FutFilled /\ FutFreed
  BY DEF FutLocked, FutReady, FutFilled, FutFreed, FutHolding
<1>3. FutListed
  <2>1. Distinct(o_waitlist) /\ \A c \in Callers : ~Listed(o_waitlist, c)
    BY EmptyList
  <2> QED BY <2>1 DEF FutListed, FutBlocked
<1> QED BY <1>1, <1>2, <1>3 DEF FutInv

\* Every step of a caller keeps the list, the compartments and the counter in step.
LEMMA FutStep == FutInv /\ [Fut!Next]_(Fut!vars) => FutInv'
<1> SUFFICES ASSUME FutInv, [Fut!Next]_(Fut!vars) PROVE FutInv'
  OBVIOUS
<1> USE SyncAssumption DEF Fut!FutureConstants, FutInv, Fut!Goto, Fut!Done, Fut!Idle,
        Fut!future, Fut!history
<1> DEFINE Inv == FutTypes /\ FutLocked /\ FutListed /\ FutReady /\ FutFilled /\ FutFreed
<1>1. ASSUME NEW c \in Callers, NEW l \in {"waitlock", "test", "setlock", "resetlock"}, Fut!Call(c, l)
      PROVE  Inv'
  <2> USE <1>1 DEF Fut!Call
  <2>1. FutTypes'
    BY DEF FutTypes, Fut!TypeOK, FutLocations, Fut!Compartments
  <2>2. FutLocked' /\ FutReady'
    BY DEF FutTypes, Fut!TypeOK, FutLocked, FutReady, FutHolding
  <2>3. FutListed'
    BY DEF FutTypes, Fut!TypeOK, FutListed, FutBlocked
  <2>4. FutFilled'
    BY DEF FutTypes, Fut!TypeOK, FutFilled, FutLocked, FutHolding
  <2>5. FutFreed'
    BY DEF FutTypes, Fut!TypeOK, FutFreed
  <2> QED BY <2>1, <2>2, <2>3, <2>4, <2>5
<1>2. ASSUME NEW c \in Callers, NEW from, NEW to, Fut!Lock(c, from, to),
             <<from, to>> \in {<<"waitlock", "wait">>, <<"setlock", "set">>,
                               <<"resetlock", "reset">>}
      PROVE  Inv'
  <2> USE <1>2 DEF Fut!Lock
  <2>1. FutTypes'
    BY DEF FutTypes, Fut!TypeOK, FutLocations, Fut!Compartments
  <2>2. FutLocked' /\ FutReady'
    BY DEF FutTypes, Fut!TypeOK, FutLocked, FutReady, FutHolding
  <2>3. FutListed'
    BY DEF FutTypes, Fut!TypeOK, FutListed, FutBlocked
  <2>4. FutFilled'
    BY DEF FutTypes, Fut!TypeOK, FutFilled, FutLocked, FutHolding
  <2>5. FutFreed'
    <3>1. ~o_freed /\ \A d \in Callers : o_pc[d] # "free"
      BY DEF FutFreed
    <3> QED BY <3>1 DEF FutTypes, FutFreed
  <2> QED BY <2>1, <2>2, <2>3, <2>4, <2>5
<1>3. ASSUME NEW c \in Callers, NEW from \in {"release", "setdone", "error", "resetdone"},
             NEW r \in {"ready", "set", "error", "reset"}, Fut!Release(c, from, r)
      PROVE  Inv'
  <2> USE <1>3 DEF Fut!Release
  <2>1. FutTypes'
    BY DEF FutTypes, Fut!TypeOK, FutLocations, Fut!Compartments
  <2>2. FutLocked' /\ FutReady'
    BY DEF FutTypes, Fut!TypeOK, FutLocked, FutReady, FutHolding
  <2>3. FutListed'
    BY DEF FutTypes, Fut!TypeOK, FutListed, FutBlocked
  <2>4. FutFilled'
    BY DEF FutTypes, Fut!TypeOK, FutFilled, FutLocked, FutHolding
  <2>5. FutFreed'
    <3>1. o_pc[c] # "idle" /\ o_pc[c] # "free" /\ o_pc' = [o_pc EXCEPT ![c] = "idle"]
      OBVIOUS
    <3> QED BY <3>1 DEF FutTypes, FutFreed
  <2> QED BY <2>1, <2>2, <2>3, <2>4, <2>5
<1>4. ASSUME NEW c \in Callers, Fut!Wait(c)
      PROVE  Inv'
  <2> USE <1>4 DEF Fut!Wait
  <2>1. FutFreed'
    <3>1. ~o_freed /\ \A d \in Callers : o_pc[d] # "free"
      BY DEF FutFreed
    <3> QED BY <3>1 DEF FutTypes, FutFreed
  <2>2. FutLocked' /\ FutReady'
    BY DEF FutTypes, Fut!TypeOK, FutLocked, FutReady, FutHolding
  <2>3. FutFilled'
    BY DEF FutTypes, Fut!TypeOK, FutFilled, FutLocked, FutHolding
  <2>4. CASE counter < NumCompartments
    <3>1. o_waitlist' = Append(o_waitlist, c) /\ o_pc' = [o_pc EXCEPT ![c] = "enqueued"]
      BY <2>4
    <3>2. o_waitlist \in Seq(Callers) /\ Distinct(o_waitlist) /\ ~Listed(o_waitlist, c)
      BY DEF FutTypes, Fut!TypeOK, FutListed, FutBlocked
    <3>3. /\ o_waitlist' \in Seq(Callers) /\ Distinct(o_waitlist')
          /\ \A x : Listed(o_waitlist', x) <=> x = c \/ Listed(o_waitlist, x)
      BY <3>1, <3>2, AppendLists
    <3>4. FutTypes'
      BY <3>1, <3>3 DEF FutTypes, Fut!TypeOK, FutLocations
    <3>5. FutListed'
      BY <3>1, <3>3 DEF FutTypes, FutListed, FutBlocked
    <3> QED BY <2>1, <2>2, <2>3, <3>4, <3>5
  <2>5. CASE ~(counter < NumCompartments)
    <3>1. UNCHANGED o_waitlist /\ o_pc' = [o_pc EXCEPT ![c] = "release"]
      BY <2>5
    <3>2. FutTypes'
      BY <3>1 DEF FutTypes, Fut!TypeOK, FutLocations
    <3>3. FutListed'
      BY <3>1 DEF FutTypes, FutListed, FutBlocked
    <3> QED BY <2>1, <2>2, <2>3, <3>2, <3>3
  <2> QED BY <2>4, <2>5
<1>5. ASSUME NEW c \in Callers, Fut!Unlock(c)
      PROVE  Inv'
  <2> USE <1>5 DEF Fut!Unlock
  <2>1. FutTypes'
    BY DEF FutTypes, Fut!TypeOK, FutLocations, Fut!Compartments
  <2>2. FutLocked' /\ FutReady'
    BY DEF FutTypes, Fut!TypeOK, FutLocked, FutReady, FutHolding
  <2>3. FutListed'
    BY DEF FutTypes, Fut!TypeOK, FutListed, FutBlocked
  <2>4. FutFilled'
    BY DEF FutTypes, Fut!TypeOK, FutFilled, FutLocked, FutHolding
  <2>5. FutFreed'
    BY DEF FutTypes, Fut!TypeOK, FutFreed
  <2> QED BY <2>1, <2>2, <2>3, <2>4, <2>5
<1>6. ASSUME NEW c \in Callers, Fut!Return(c)
      PROVE  Inv'
  <2> USE <1>6 DEF Fut!Return
  <2>1. FutTypes'
    BY DEF FutTypes, Fut!TypeOK, FutLocations, Fut!Compartments
  <2>2. FutLocked' /\ FutReady'
    BY DEF FutTypes, Fut!TypeOK, FutLocked, FutReady, FutHolding
  <2>3. FutListed'
    BY DEF FutTypes, Fut!TypeOK, FutListed, FutBlocked
  <2>4. FutFilled'
    BY DEF FutTypes, Fut!TypeOK, FutFilled, FutLocked, FutHolding
  <2>5. FutFreed'
    BY DEF FutTypes, Fut!TypeOK, FutFreed
  <2> QED BY <2>1, <2>2, <2>3, <2>4, <2>5
<1>7. ASSUME NEW c \in Callers, Fut!Test(c)
      PROVE  Inv'
  <2> USE <1>7 DEF Fut!Test
  <2>1. FutTypes'
    BY DEF FutTypes, Fut!TypeOK, FutLocations, Fut!Compartments
  <2>2. FutLocked' /\ FutReady'
    BY DEF FutTypes, Fut!TypeOK, FutLocked, FutReady, FutHolding
  <2>3. FutListed'
    BY DEF FutTypes, Fut!TypeOK, FutListed, FutBlocked
  <2>4. FutFilled'
    BY DEF FutTypes, Fut!TypeOK, FutFilled, FutLocked, FutHolding
  <2>5. FutFreed'
    BY DEF FutTypes, Fut!TypeOK, FutFreed
  <2> QED BY <2>1, <2>2, <2>3, <2>4, <2>5
<1>8. ASSUME NEW c \in Callers, Fut!Fill(c)
      PROVE  Inv'
  <2> USE <1>8 DEF Fut!Fill
  <2>1. FutFreed'
    <3>1. ~o_freed /\ \A d \in Callers : o_pc[d] # "free"
      BY DEF FutFreed
    <3> QED BY <3>1 DEF FutTypes, FutFreed
  <2>2. FutLocked' /\ FutReady'
    BY DEF FutTypes, Fut!TypeOK, FutLocked, FutReady, FutHolding
  <2>3. FutListed'
    BY DEF FutTypes, Fut!TypeOK, FutListed, FutBlocked
  <2>4. /\ \A d \in Callers : o_pc[d] \notin {"callback", "publish"}
        /\ counter \in Nat /\ Len(accepted) = counter
    BY DEF FutLocked, FutHolding, FutFilled, FutTypes, Fut!TypeOK
  <2>5. CASE counter >= NumCompartments
    <3>1. o_pc' = [o_pc EXCEPT ![c] = "error"] /\ UNCHANGED <<array, accepted>>
      BY <2>5
    <3>2. FutTypes'
      BY <3>1 DEF FutTypes, Fut!TypeOK, FutLocations
    <3>3. FutFilled'
      BY <2>4, <3>1 DEF FutTypes, FutFilled
    <3> QED BY <2>1, <2>2, <2>3, <3>2, <3>3
  <2>6. CASE counter < NumCompartments
    <3>1. /\ o_pc' = [o_pc EXCEPT ![c] = "callback"]
          /\ array' = [array EXCEPT ![counter + 1] = c] /\ accepted' = Append(accepted, c)
      BY <2>4, <2>6
    <3>2. /\ accepted' \in Seq(Callers) /\ Len(accepted') = counter + 1
          /\ \A i \in 1..counter : accepted'[i] = accepted[i]
          /\ accepted'[counter + 1] = c
      BY <2>4, <3>1, AppendProperties DEF FutTypes
    <3>3. FutTypes'
      BY <3>1, <3>2 DEF FutTypes, Fut!TypeOK, FutLocations
    <3>4. /\ counter + 1 \in 1..NumCompartments
          /\ \A i \in 1..counter : i \in 1..(counter + 1) /\ array'[i] = array[i]
          /\ array'[counter + 1] = c
      BY <2>4, <2>6, <3>1 DEF FutTypes, Fut!TypeOK, Fut!Compartments
    <3>5. \A i \in 1..Len(accepted') : array'[i] = accepted'[i]
      <4> SUFFICES ASSUME NEW i \in 1..(counter + 1) PROVE array'[i] = accepted'[i]
        BY <3>2
      <4>1. CASE i = counter + 1
        BY <4>1, <3>2, <3>4
      <4>2. CASE i # counter + 1
        <5>1. i \in 1..counter
          BY <4>2, <2>4
        <5> QED BY <5>1, <2>4, <3>2, <3>4 DEF FutFilled
      <4> QED BY <4>1, <4>2
    <3>6. FutFilled'
      BY <2>4, <2>6, <3>1, <3>2, <3>5 DEF FutTypes, FutFilled
    <3> QED BY <2>1, <2>2, <2>3, <3>3, <3>6
  <2> QED BY <2>4, <2>5, <2>6
<1>9. ASSUME NEW c \in Callers, Fut!Callback(c)
      PROVE  Inv'
  <2> USE <1>9 DEF Fut!Callback
  <2>1. FutFreed'
    <3>1. ~o_freed /\ \A d \in Callers : o_pc[d] # "free"
      BY DEF FutFreed
    <3> QED BY <3>1 DEF FutTypes, FutFreed
  <2>2. FutLocked' /\ FutReady' /\ FutListed'
    BY DEF FutTypes, Fut!TypeOK, FutLocked, FutReady, FutHolding, FutListed, FutBlocked
  <2>3. FutTypes'
    BY DEF FutTypes, Fut!TypeOK, FutLocations
  <2>4. /\ \A d \in Callers : o_pc[d] # "publish"
        /\ o_pc' = [o_pc EXCEPT ![c] = "publish"]
        /\ Len(accepted) = counter + 1 /\ counter < NumCompartments /\ counter \in Nat
    BY DEF FutLocked, FutHolding, FutFilled, FutTypes, Fut!TypeOK
  <2>5. shown = <<>>
    BY <2>4 DEF FutFilled
  <2>6. counter + 1 = NumCompartments => array = accepted
    <3>1. /\ accepted \in [1..Len(accepted) -> Callers]
          /\ array \in [1..NumCompartments -> Callers \cup {Nobody}]
      BY LenProperties DEF FutTypes, Fut!TypeOK, Fut!Compartments
    <3> QED BY <2>4, <3>1 DEF FutFilled
  <2>7. shown' = IF counter + 1 = NumCompartments THEN <<accepted>> ELSE <<>>
    BY <2>5, <2>6
  <2>8. FutFilled'
    BY <2>4, <2>7 DEF FutFilled, FutTypes
  <2> QED BY <2>1, <2>2, <2>3, <2>8
<1>10. ASSUME NEW c \in Callers, Fut!Publish(c)
      PROVE  Inv'
  <2> USE <1>10 DEF Fut!Publish
  <2>1. FutFreed'
    <3>1. ~o_freed /\ \A d \in Callers : o_pc[d] # "free"
      BY DEF FutFreed
    <3> QED BY <3>1 DEF FutTypes, FutFreed
  <2>2. /\ \A d \in Callers : o_pc[d] \in {"callback", "publish"} => d = c
        /\ Len(accepted) = counter + 1 /\ counter < NumCompartments /\ counter \in Nat
        /\ counter' = counter + 1
        /\ o_pc' = [o_pc EXCEPT ![c] = IF counter + 1 = NumCompartments
                                       THEN "broadcast" ELSE "setdone"]
    BY DEF FutLocked, FutHolding, FutFilled, FutTypes, Fut!TypeOK
  <2>3. FutTypes'
    BY <2>2 DEF FutTypes, Fut!TypeOK, FutLocations
  <2>4. FutLocked' /\ FutReady'
    BY <2>2 DEF FutTypes, FutLocked, FutReady, FutHolding
  <2>5. FutListed'
    BY <2>2 DEF FutTypes, FutListed, FutBlocked
  <2>6. FutFilled'
    BY <2>2 DEF FutTypes, FutFilled
  <2> QED BY <2>1, <2>3, <2>4, <2>5, <2>6
<1>11. ASSUME NEW c \in Callers, Fut!Broadcast(c)
      PROVE  Inv'
  <2> USE <1>11 DEF Fut!Broadcast
  <2>1. CASE o_waitlist = <<>>
    <3>1. UNCHANGED o_waitlist /\ o_pc' = [o_pc EXCEPT ![c] = "setdone"]
      BY <2>1
    <3>2. FutTypes'
      BY <3>1 DEF FutTypes, Fut!TypeOK, FutLocations
    <3>3. FutListed'
      BY <3>1 DEF FutTypes, FutListed, FutBlocked
    <3>4. FutLocked' /\ FutReady'
      BY <2>1, <3>1 DEF FutTypes, FutLocked, FutReady, FutHolding
    <3>5. FutFilled'
      BY <3>1 DEF FutTypes, FutFilled
    <3>6. FutFreed'
      BY <2>1, <3>1 DEF FutTypes, FutFreed
    <3> QED BY <3>2, <3>3, <3>4, <3>5, <3>6
  <2>2. CASE o_waitlist # <<>>
    <3> DEFINE h == Head(o_waitlist)
    <3>1. o_waitlist' = Tail(o_waitlist) /\ o_pc' = [o_pc EXCEPT ![h] = "woken"]
      BY <2>2
    <3>2. o_waitlist \in Seq(Callers) /\ Distinct(o_waitlist)
      BY DEF FutTypes, Fut!TypeOK, FutListed
    <3>3. /\ o_waitlist' \in Seq(Callers) /\ Distinct(o_waitlist')
          /\ h \in Callers /\ Listed(o_waitlist, h)
          /\ \A x : Listed(o_waitlist', x) <=> x # h /\ Listed(o_waitlist, x)
      BY <2>2, <3>1, <3>2, TailLists
    <3> HIDE DEF h
    <3>4. o_pc[h] \in FutBlocked /\ h # c
      BY <3>3 DEF FutListed, FutBlocked
    <3>5. FutTypes'
      BY <3>1, <3>3 DEF FutTypes, Fut!TypeOK, FutLocations
    <3>6. FutListed'
      BY <3>1, <3>3, <3>4 DEF FutTypes, FutListed, FutBlocked
    <3>7. FutLocked' /\ FutReady'
      BY <3>1, <3>3, <3>4 DEF FutTypes, FutLocked, FutReady, FutHolding
    <3>8. FutFilled'
      BY <3>1, <3>4 DEF FutTypes, FutFilled, FutBlocked
    <3>9. FutFreed'
      BY <2>2, <3>1, <3>4 DEF FutTypes, FutFreed, FutBlocked
    <3> QED BY <3>5, <3>6, <3>7, <3>8, <3>9
  <2> QED BY <2>1, <2>2
<1>12. ASSUME NEW c \in Callers, Fut!Reset(c)
      PROVE  Inv'
  <2> USE <1>12 DEF Fut!Reset
  <2>1. FutTypes'
    BY DEF FutTypes, Fut!TypeOK, FutLocations, Fut!Compartments
  <2>2. FutLocked' /\ FutReady'
    BY DEF FutTypes, Fut!TypeOK, FutLocked, FutReady, FutHolding
  <2>3. FutListed'
    BY DEF FutTypes, Fut!TypeOK, FutListed, FutBlocked
  <2>4. FutFilled'
    BY DEF FutTypes, Fut!TypeOK, FutFilled, FutLocked, FutHolding
  <2>5. FutFreed'
    <3>1. ~o_freed /\ \A d \in Callers : o_pc[d] # "free"
      BY DEF FutFreed
    <3> QED BY <3>1 DEF FutTypes, FutFreed
  <2> QED BY <2>1, <2>2, <2>3, <2>4, <2>5
<1>13. ASSUME NEW c \in Callers, Fut!FreeBegin(c)
      PROVE  Inv'
  <2> USE <1>13 DEF Fut!FreeBegin
  <2>1. FutTypes'
    BY DEF FutTypes, Fut!TypeOK, FutLocations, Fut!Compartments
  <2>2. FutLocked' /\ FutReady'
    BY DEF FutTypes, Fut!TypeOK, FutLocked, FutReady, FutHolding
  <2>3. FutListed'
    BY DEF FutTypes, Fut!TypeOK, FutListed, FutBlocked
  <2>4. FutFilled'
    BY DEF FutTypes, Fut!TypeOK, FutFilled, FutLocked, FutHolding
  <2>5. FutFreed'
    BY DEF FutTypes, Fut!TypeOK, FutFreed
  <2> QED BY <2>1, <2>2, <2>3, <2>4, <2>5
<1>14. ASSUME NEW c \in Callers, Fut!Free(c)
      PROVE  Inv'
  <2> USE <1>14 DEF Fut!Free
  <2>1. FutTypes'
    BY DEF FutTypes, Fut!TypeOK, FutLocations, Fut!Compartments
  <2>2. FutLocked' /\ FutReady'
    BY DEF FutTypes, Fut!TypeOK, FutLocked, FutReady, FutHolding
  <2>3. FutListed'
    BY DEF FutTypes, Fut!TypeOK, FutListed, FutBlocked
  <2>4. FutFilled'
    BY DEF FutTypes, Fut!TypeOK, FutFilled, FutLocked, FutHolding
  <2>5. FutFreed'
    <3>1. \A d \in Callers : o_pc[d] \notin {"broadcast", "setdone"}
      BY DEF FutLocked, FutHolding
    <3> QED BY <3>1 DEF FutTypes, FutFreed
  <2> QED BY <2>1, <2>2, <2>3, <2>4, <2>5
<1>15. CASE UNCHANGED Fut!vars
  BY <1>15 DEF Fut!vars, FutTypes, Fut!TypeOK, FutLocked, FutListed, FutReady, FutFilled, FutFreed
<1> HIDE DEF FutInv, Inv
<1>16. ASSUME NEW c \in Callers, Fut!Step(c) PROVE Inv'
  <2>1. CASE Fut!Acquire(c)
    <3>1. CASE Fut!Lock(c, "waitlock", "wait") BY <3>1, <1>2
    <3>2. CASE Fut!Lock(c, "setlock", "set") BY <3>2, <1>2
    <3>3. CASE Fut!Lock(c, "resetlock", "reset") BY <3>3, <1>2
    <3> QED BY <2>1, <3>1, <3>2, <3>3 DEF Fut!Acquire
  <2>2. CASE \/ Fut!Release(c, "release", "ready") \/ Fut!Release(c, "setdone", "set")
             \/ Fut!Release(c, "error", "error") \/ Fut!Release(c, "resetdone", "reset")
    BY <2>2, <1>3
  <2> QED BY <1>16, <2>1, <2>2, <1>4, <1>5, <1>6, <1>7, <1>8, <1>9, <1>10, <1>11, <1>12, <1>14
          DEF Fut!Step
<1>17. ASSUME Fut!Next PROVE Inv'
  <2>1. PICK c \in Callers :
          \/ \E l \in {"waitlock", "test", "setlock", "resetlock"} : Fut!Call(c, l)
          \/ Fut!Step(c) \/ Fut!FreeBegin(c)
    BY <1>17 DEF Fut!Next
  <2>2. CASE Fut!Step(c) \/ Fut!FreeBegin(c)
    BY <2>2, <1>13, <1>16
  <2>3. CASE \E l \in {"waitlock", "test", "setlock", "resetlock"} : Fut!Call(c, l)
    BY <2>3, <1>1
  <2> QED BY <2>1, <2>2, <2>3
<1> QED BY <1>15, <1>17 DEF FutInv, Inv
\* What the invariant says of the future's users.
LEMMA FutSafe ==
  FutInv => /\ Fut!TypeOK /\ Fut!NoWaiterLeft /\ Fut!NoUseAfterFree
            /\ Fut!NoValueLost /\ Fut!CallbackFirst
<1> SUFFICES ASSUME FutInv
             PROVE  /\ Fut!TypeOK /\ Fut!NoWaiterLeft /\ Fut!NoUseAfterFree
                    /\ Fut!NoValueLost /\ Fut!CallbackFirst
  OBVIOUS
<1> USE SyncAssumption DEF Fut!FutureConstants, FutInv
<1>1. Fut!TypeOK
  BY DEF FutTypes
<1>2. Fut!NoWaiterLeft
  BY DEF Fut!NoWaiterLeft, FutReady, FutLocked, FutHolding
<1>3. Fut!NoUseAfterFree
  BY DEF Fut!NoUseAfterFree, FutFreed, Fut!Idle
<1>4. counter \in Nat /\ Len(accepted) \in Nat /\ DOMAIN accepted = 1..Len(accepted)
  BY DEF FutTypes, Fut!TypeOK
<1>5. Fut!NoValueLost
  <2>1. Len(accepted) = counter \/ Len(accepted) = counter + 1
    BY DEF FutFilled
  <2>2. \A m, n \in Nat : m = n \/ m = n + 1 => \A i \in 1..n : i \in 1..m
    OBVIOUS
  <2>3. \A i \in 1..counter : i \in 1..Len(accepted)
    BY ONLY <1>4, <2>1, <2>2
  <2> QED BY <1>4, <2>3 DEF Fut!NoValueLost, FutFilled
<1>6. Fut!CallbackFirst
  BY DEF Fut!CallbackFirst, FutFilled
<1> QED BY <1>1, <1>2, <1>3, <1>5, <1>6

------------------------------------------------------------------------------
(* Readers-writer lock *)

\* The callers are finitely many, and an instance counts as this module does.
LEMMA CallersFinite ==
  /\ IsFiniteSet(Callers) /\ Cardinality(Callers) \in Nat
  /\ Rwl!Cardinality(Callers) = Cardinality(Callers)
<1>1. \A S : Rwl!IsFiniteSet(S) <=> IsFiniteSet(S)
  BY DEF IsFiniteSet, Rwl!IsFiniteSet
<1>2. IsFiniteSet(Callers)
  BY <1>1, SyncAssumption DEF Rwl!RwlockConstants
<1>3. Rwl!Cardinality(Callers) = Cardinality(Callers)
  BY Zenon DEF Cardinality, Rwl!Cardinality
<1> QED BY <1>2, <1>3, FS_CardinalityType

RwlPhases == {"idle", "lock", "check", "waiting", "unlock"}

RwlTypes ==
    /\ mutex \in Callers \cup {Nobody} /\ cond \subseteq Callers
    /\ reader_count \in Nat /\ write_flag \in BOOLEAN
    /\ o_pc \in [Callers -> RwlPhases]
    /\ op \in [Callers -> {"none", "rdlock", "wrlock", "unlock"}]
    /\ holds \in [Callers -> {"no", "read", "write"}]
    /\ calls \in [Callers -> 0..MaxLocks]

\* The mutex protects the counter and the flag.
RwlLocked == \A c \in Callers : o_pc[c] \in {"check", "unlock"} => mutex = c

\* A caller inside a call has no lock to show for it yet, or any more.
RwlHolds ==
    \A c \in Callers : /\ holds[c] # "no" => o_pc[c] = "idle"
                       /\ op[c] = "none" => o_pc[c] = "idle"

\* Sleepers are blocked, whether the mutex is held or not.
RwlAsleep ==
    \A c \in Callers :
      /\ c \in cond <=> o_pc[c] = "waiting"
      /\ c \in cond => op[c] \in {"rdlock", "wrlock"} /\ Rwl!Blocked(op[c])

\* An unlock has its lock until it reaches the counter or the flag; which of them it
\* gives up the flag alone tells.
Unlocking(c) == op[c] = "unlock" /\ o_pc[c] \in {"lock", "check"}
Reads(c) ==
    holds[c] = "read" \/ (op[c] = "rdlock" /\ o_pc[c] = "unlock") \/ (Unlocking(c) /\ ~write_flag)
Writes(c) ==
    holds[c] = "write" \/ (op[c] = "wrlock" /\ o_pc[c] = "unlock") \/ (Unlocking(c) /\ write_flag)
Readers == {c \in Callers : Reads(c)}

\* The counter and the flag are exact, and a writer is alone.
RwlCounted ==
    /\ reader_count = Cardinality(Readers)
    /\ \A c \in Callers : Writes(c) => write_flag
    /\ write_flag => /\ \A c \in Callers : ~Reads(c)
                     /\ \A c, d \in Callers : Writes(c) /\ Writes(d) => c = d

RwlInv == RwlTypes /\ RwlLocked /\ RwlHolds /\ RwlAsleep /\ RwlCounted

\* A readers-writer lock is created free.
LEMMA RwlInit == Rwl!Init => RwlInv
<1> SUFFICES ASSUME Rwl!Init PROVE RwlInv
  OBVIOUS
<1> USE SyncAssumption DEF Rwl!RwlockConstants, Rwl!Init
<1>1. RwlTypes
  <2>1. MaxLocks \in 0..MaxLocks
    OBVIOUS
  <2> QED BY <2>1 DEF RwlTypes, RwlPhases
<1>2. RwlLocked /\ RwlHolds /\ RwlAsleep
  BY DEF RwlLocked, RwlHolds, RwlAsleep
<1>3. Readers = {} /\ \A c \in Callers : ~Writes(c) /\ ~write_flag
  BY DEF Readers, Reads, Writes, Unlocking
<1>4. RwlCounted
  BY <1>3, FS_EmptySet DEF RwlCounted
<1> QED BY <1>1, <1>2, <1>4 DEF RwlInv

\* What a step does to the number of readers.
LEMMA ReadersCounted ==
  ASSUME NEW R \in SUBSET Callers, NEW c \in Callers
  PROVE  /\ Cardinality(R) \in Nat /\ (Cardinality(R) = 0 <=> R = {})
         /\ c \notin R => Cardinality(R \cup {c}) = Cardinality(R) + 1
         /\ c \in R => Cardinality(R \ {c}) = Cardinality(R) - 1
<1>1. IsFiniteSet(R)
  BY CallersFinite, FS_Subset
<1> QED BY <1>1, FS_CardinalityType, FS_EmptySet, FS_AddElement, FS_RemoveElement

\* Every step keeps the counter and the flag exact.
LEMMA RwlStep == RwlInv /\ [Rwl!Next]_(Rwl!vars) => RwlInv'
<1> SUFFICES ASSUME RwlInv, [Rwl!Next]_(Rwl!vars) PROVE RwlInv'
  OBVIOUS
<1> USE SyncAssumption DEF Rwl!RwlockConstants, RwlInv, Rwl!Goto
<1> DEFINE Inv == RwlTypes /\ RwlLocked /\ RwlHolds /\ RwlAsleep /\ RwlCounted
<1>1. ASSUME NEW c \in Callers, NEW o \in {"rdlock", "wrlock"}, Rwl!CallLock(c, o)
      PROVE  Inv'
  <2> USE <1>1 DEF Rwl!CallLock
  <2>1. RwlTypes' /\ RwlLocked' /\ RwlHolds'
    BY DEF RwlTypes, RwlPhases, RwlLocked, RwlHolds
  <2>2. RwlAsleep'
    BY DEF RwlTypes, RwlAsleep, Rwl!Blocked
  <2>3. \A d \in Callers : (Reads(d)' <=> Reads(d)) /\ (Writes(d)' <=> Writes(d))
    BY DEF RwlTypes, Reads, Writes, Unlocking
  <2>4. Readers' = Readers
    BY <2>3 DEF Readers
  <2>5. RwlCounted'
    BY <2>3, <2>4 DEF RwlCounted
  <2> QED BY <2>1, <2>2, <2>5
<1>2. ASSUME NEW c \in Callers, Rwl!CallUnlock(c)
      PROVE  Inv'
  <2> USE <1>2 DEF Rwl!CallUnlock
  <2>1. RwlTypes' /\ RwlLocked' /\ RwlHolds'
    BY DEF RwlTypes, RwlPhases, RwlLocked, RwlHolds
  <2>2. RwlAsleep'
    BY DEF RwlTypes, RwlAsleep, Rwl!Blocked
  <2>3. \A d \in Callers : (Reads(d)' <=> Reads(d)) /\ (Writes(d)' <=> Writes(d))
    BY DEF RwlTypes, RwlCounted, Reads, Writes, Unlocking
  <2>4. Readers' = Readers
    BY <2>3 DEF Readers
  <2>5. RwlCounted'
    BY <2>3, <2>4 DEF RwlCounted
  <2> QED BY <2>1, <2>2, <2>5
<1>3. ASSUME NEW c \in Callers, Rwl!LockMutex(c)
      PROVE  Inv'
  <2> USE <1>3 DEF Rwl!LockMutex
  <2>1. RwlTypes' /\ RwlLocked' /\ RwlHolds'
    BY DEF RwlTypes, RwlPhases, RwlLocked, RwlHolds
  <2>2. RwlAsleep'
    BY DEF RwlTypes, RwlAsleep, Rwl!Blocked
  <2>3. \A d \in Callers : (Reads(d)' <=> Reads(d)) /\ (Writes(d)' <=> Writes(d))
    BY DEF RwlTypes, Reads, Writes, Unlocking
  <2>4. Readers' = Readers
    BY <2>3 DEF Readers
  <2>5. RwlCounted'
    BY <2>3, <2>4 DEF RwlCounted
  <2> QED BY <2>1, <2>2, <2>5
<1>4. ASSUME NEW c \in Callers, Rwl!CondWait(c)
      PROVE  Inv'
  <2> USE <1>4 DEF Rwl!CondWait
  <2>1. RwlTypes' /\ RwlLocked' /\ RwlHolds'
    BY DEF RwlTypes, RwlPhases, RwlLocked, RwlHolds
  <2>2. op[c] \in {"rdlock", "wrlock"}
    BY DEF RwlTypes, Rwl!Blocked, RwlHolds
  <2>3. RwlAsleep'
    BY <2>2 DEF RwlTypes, RwlAsleep, Rwl!Blocked
  <2>4. \A d \in Callers : (Reads(d)' <=> Reads(d)) /\ (Writes(d)' <=> Writes(d))
    BY DEF RwlTypes, Reads, Writes, Unlocking
  <2>5. Readers' = Readers
    BY <2>4 DEF Readers
  <2>6. RwlCounted'
    BY <2>4, <2>5 DEF RwlCounted
  <2> QED BY <2>1, <2>3, <2>6
<1>5. ASSUME NEW c \in Callers, Rwl!Rdlock(c)
      PROVE  Inv'
  <2> USE <1>5 DEF Rwl!Rdlock
  <2>1. RwlTypes' /\ RwlLocked' /\ RwlHolds'
    BY DEF RwlTypes, RwlPhases, RwlLocked, RwlHolds
  <2>2. ~write_flag
    BY DEF Rwl!Blocked
  <2>3. RwlAsleep'
    BY DEF RwlTypes, RwlAsleep, Rwl!Blocked
  <2>4. \A d \in Callers : (Reads(d)' <=> Reads(d) \/ d = c) /\ (Writes(d)' <=> Writes(d))
    BY DEF RwlTypes, Reads, Writes, Unlocking
  <2>5. ~Reads(c)
    BY DEF RwlTypes, RwlHolds, Reads, Unlocking
  <2>6. Readers' = Readers \cup {c} /\ c \notin Readers /\ Readers \in SUBSET Callers
    BY <2>4, <2>5 DEF Readers
  <2>7. Cardinality(Readers') = Cardinality(Readers) + 1
    BY ONLY <2>6, c \in Callers, ReadersCounted
  <2>8. RwlCounted'
    BY <2>2, <2>4, <2>7 DEF RwlCounted
  <2> QED BY <2>1, <2>3, <2>8
<1>6. ASSUME NEW c \in Callers, Rwl!Wrlock(c)
      PROVE  Inv'
  <2> USE <1>6 DEF Rwl!Wrlock
  <2>1. RwlTypes' /\ RwlLocked' /\ RwlHolds'
    BY DEF RwlTypes, RwlPhases, RwlLocked, RwlHolds
  <2>2. ~write_flag /\ reader_count = 0
    BY DEF Rwl!Blocked, RwlTypes
  <2>3. RwlAsleep'
    BY DEF RwlTypes, RwlAsleep, Rwl!Blocked
  <2>4. Readers = {}
    <3>1. Readers \in SUBSET Callers /\ Cardinality(Readers) = 0
      BY <2>2 DEF RwlCounted, Readers
    <3> QED BY ONLY <3>1, c \in Callers, ReadersCounted
  <2>5. \A d \in Callers : ~Reads(d) /\ ~Writes(d) /\ ~Unlocking(d)
    BY <2>2, <2>4 DEF RwlCounted, Readers, Reads
  <2>6. \A d \in Callers : ~Reads(d)' /\ (Writes(d)' <=> d = c)
    BY <2>5 DEF RwlTypes, Reads, Writes, Unlocking
  <2>7. Readers' = {}
    BY <2>6 DEF Readers
  <2>8. RwlCounted'
    BY <2>2, <2>4, <2>6, <2>7 DEF RwlCounted
  <2> QED BY <2>1, <2>3, <2>8
<1>7. ASSUME NEW c \in Callers, Rwl!Unlock(c)
      PROVE  Inv'
  <2> USE <1>7 DEF Rwl!Unlock, Rwl!Broadcast
  <2>0. c \notin cond /\ Unlocking(c)
    BY DEF RwlAsleep, Unlocking
  <2>1. \A d \in Callers : o_pc'[d] = IF d \in cond THEN "lock" ELSE IF d = c THEN "unlock" ELSE o_pc[d]
    OBVIOUS
  <2>2. o_pc' \in [Callers -> RwlPhases]
    BY DEF RwlTypes, RwlPhases
  <2>3. RwlLocked' /\ RwlHolds'
    BY <2>1 DEF RwlTypes, RwlLocked, RwlHolds, RwlAsleep
  <2>4. RwlAsleep'
    BY <2>1 DEF RwlTypes, RwlAsleep
  <2>5. CASE write_flag
    <3>1. \A d \in Callers : ~Reads(d) /\ (Writes(d) <=> d = c)
      BY <2>0, <2>5 DEF RwlCounted, Writes
    <3>2. ~write_flag' /\ reader_count' = reader_count
      BY <2>5
    <3>3. \A d \in Callers : ~Reads(d)' /\ ~Writes(d)'
      BY <2>0, <2>1, <2>5, <3>1, <3>2 DEF RwlAsleep, RwlHolds, Reads, Writes, Unlocking
    <3>4. Readers' = {} /\ Readers = {}
      BY <3>1, <3>3 DEF Readers
    <3>5. RwlCounted'
      BY <3>2, <3>3, <3>4 DEF RwlCounted
    <3>6. RwlTypes'
      BY <2>2, <3>2 DEF RwlTypes
    <3> QED BY <2>3, <2>4, <3>5, <3>6
  <2>6. CASE ~write_flag
    <3>1. ~write_flag' /\ reader_count' = reader_count - 1
      BY <2>6
    <3>2. Reads(c) /\ \A d \in Callers : ~Writes(d)
      BY <2>0, <2>6 DEF RwlCounted, Reads
    <3>3. \A d \in Callers : (Reads(d)' <=> Reads(d) /\ d # c) /\ ~Writes(d)'
      BY <2>0, <2>1, <2>6, <3>1, <3>2 DEF RwlAsleep, RwlHolds, Reads, Writes, Unlocking
    <3>4. Readers' = Readers \ {c} /\ c \in Readers /\ Readers \in SUBSET Callers
      BY <3>2, <3>3 DEF Readers
    <3>5. Cardinality(Readers') = Cardinality(Readers) - 1 /\ Cardinality(Readers) # 0
          /\ Cardinality(Readers) \in Nat
      BY <3>4, ReadersCounted
    <3>6. RwlCounted'
      BY <3>1, <3>3, <3>5 DEF RwlCounted
    <3>7. RwlTypes'
      BY <2>2, <3>1, <3>5 DEF RwlTypes, RwlCounted
    <3> QED BY <2>3, <2>4, <3>6, <3>7
  <2> QED BY <2>5, <2>6
<1>8. ASSUME NEW c \in Callers, Rwl!UnlockMutex(c)
      PROVE  Inv'
  <2> USE <1>8 DEF Rwl!UnlockMutex
  <2>1. holds' \in [Callers -> {"no", "read", "write"}]
        /\ holds'[c] = CASE op[c] = "rdlock" -> "read" [] op[c] = "wrlock" -> "write" [] OTHER -> "no"
    BY DEF RwlTypes
  <2>2. RwlTypes' /\ RwlLocked' /\ RwlHolds'
    BY <2>1 DEF RwlTypes, RwlPhases, RwlLocked, RwlHolds
  <2>3. RwlAsleep'
    BY DEF RwlTypes, RwlAsleep, Rwl!Blocked
  <2>4. \A d \in Callers : (Reads(d)' <=> Reads(d)) /\ (Writes(d)' <=> Writes(d))
    BY <2>1 DEF RwlTypes, RwlHolds, Reads, Writes, Unlocking
  <2>5. Readers' = Readers
    BY <2>4 DEF Readers
  <2>6. RwlCounted'
    BY <2>4, <2>5 DEF RwlCounted
  <2> QED BY <2>2, <2>3, <2>6
<1>9. ASSUME UNCHANGED Rwl!vars PROVE Inv'
  <2> USE <1>9 DEF Rwl!vars
  <2>1. \A d \in Callers : (Reads(d)' <=> Reads(d)) /\ (Writes(d)' <=> Writes(d))
    BY DEF Reads, Writes, Unlocking
  <2>2. Readers' = Readers
    BY <2>1 DEF Readers
  <2>3. RwlCounted'
    BY <2>1, <2>2 DEF RwlCounted
  <2> QED BY <2>3 DEF RwlTypes, RwlLocked, RwlHolds, RwlAsleep, Rwl!Blocked
<1> HIDE DEF RwlInv, Inv
<1>10. ASSUME Rwl!Next PROVE Inv'
  <2>1. CASE \E c \in Callers : \/ Rwl!CallLock(c, "rdlock") \/ Rwl!CallLock(c, "wrlock")
                                \/ Rwl!CallUnlock(c) \/ Rwl!Step(c)
    BY <2>1, <1>1, <1>2, <1>3, <1>4, <1>5, <1>6, <1>7, <1>8 DEF Rwl!Step
  <2>2. CASE Rwl!Terminated
    BY <2>2, <1>9 DEF Rwl!Terminated, Rwl!vars
  <2> QED BY <1>10, <2>1, <2>2 DEF Rwl!Next
<1> QED BY <1>9, <1>10 DEF RwlInv, Inv

\* What the invariant says of the lock's users.
LEMMA RwlSafe == RwlInv => Rwl!TypeOK /\ Rwl!SleepersBlocked /\ Rwl!Exclusion
<1> SUFFICES ASSUME RwlInv PROVE Rwl!TypeOK /\ Rwl!SleepersBlocked /\ Rwl!Exclusion
  OBVIOUS
<1> USE SyncAssumption DEF Rwl!RwlockConstants, RwlInv
<1>1. Cardinality(Readers) <= Cardinality(Callers) /\ Cardinality(Callers) \in Nat
  BY CallersFinite, FS_Subset DEF Readers
<1>2. Rwl!TypeOK
  BY <1>1, CallersFinite DEF Rwl!TypeOK, RwlTypes, RwlPhases, RwlCounted
<1>3. Rwl!SleepersBlocked
  BY DEF Rwl!SleepersBlocked, RwlTypes, RwlAsleep
<1>4. Rwl!Exclusion
  <2>1. ASSUME NEW c \in Callers, NEW d \in Callers, holds[c] = "write", c # d
        PROVE  holds[d] = "no"
    BY <2>1 DEF RwlTypes, RwlCounted, Reads, Writes
  <2> QED BY <2>1 DEF Rwl!Exclusion
<1> QED BY <1>2, <1>3, <1>4

------------------------------------------------------------------------------
(* Barrier *)

BarLocations == {"idle", "lock", "enter", "enqueued", "waiting", "woken",
                 "broadcast", "reset", "release", "free"}
BarHolding == {"enter", "enqueued", "broadcast", "reset", "release"}
BarBlocked == {"enqueued", "waiting"}
BarLeaving == {"woken", "broadcast", "reset", "release"}

BarTypes ==
    /\ o_lock \in Callers \cup {Nobody} /\ num_waiters \in Counts /\ counter \in Nat
    /\ o_waitlist \in Seq(Callers) /\ o_freed \in BOOLEAN
    /\ o_pc \in [Callers -> BarLocations]
    /\ arrivals \in Nat /\ passed \in Nat /\ waits \in [Callers -> 0..MaxWaits]

\* Whoever is in a critical section has the lock.
BarLocked == \A c \in Callers : o_pc[c] \in BarHolding => o_lock = c

\* The list holds, once each, the callers that wait for the round to fill up.
BarListed ==
    /\ Distinct(o_waitlist)
    /\ \A c \in Callers : Listed(o_waitlist, c) <=> o_pc[c] \in BarBlocked

\* The counter is the length of the list, except while the caller that filled the round
\* is waking it.
Opening == \E c \in Callers : o_pc[c] \in {"broadcast", "reset"}
BarFull ==
    /\ IF Opening THEN counter = num_waiters ELSE counter = Len(o_waitlist) /\ counter < num_waiters
    /\ \A c \in Callers : o_pc[c] \in {"reset", "release"} => o_waitlist = <<>>

\* Every caller that arrived has passed, is on its way out or waits; the rounds before
\* this one were full.
Leaving == {c \in Callers : o_pc[c] \in BarLeaving}
BarRounds ==
    /\ passed + Cardinality(Leaving) + Len(o_waitlist) = arrivals
    /\ \E k \in Nat : arrivals = k * num_waiters + counter

\* While one caller frees the barrier, only the caller that opened it is in it.
BarFreed ==
    /\ o_freed => \A c \in Callers : o_pc[c] = "idle"
    /\ \A c \in Callers : o_pc[c] = "free" =>
         /\ ~o_freed
         /\ \A d \in Callers \ {c} :
              \/ o_pc[d] = "idle"
              \/ o_pc[d] \in {"broadcast", "reset", "release"} /\ o_waitlist = <<>>

BarInv == BarTypes /\ BarLocked /\ BarListed /\ BarFull /\ BarRounds /\ BarFreed

\* The counts are numbers of callers.
LEMMA BarNumbers == \A n \in Counts : n \in Nat /\ n > 0
BY SyncAssumption DEF Bar!BarrierConstants

\* Nobody has arrived at a barrier that is created.
LEMMA BarInit == Bar!Init => BarInv
<1> SUFFICES ASSUME Bar!Init PROVE BarInv
  OBVIOUS
<1> USE SyncAssumption DEF Bar!BarrierConstants, Bar!Init
<1>1. BarTypes
  <2>1. MaxWaits \in 0..MaxWaits /\ o_waitlist \in Seq(Callers)
    OBVIOUS
  <2> QED BY <2>1 DEF BarTypes, BarLocations
<1>2. BarLocked /\ BarFreed
  BY DEF BarLocked, BarFreed, BarHolding
<1>3. BarListed
  <2>1. Distinct(o_waitlist) /\ \A c \in Callers : ~Listed(o_waitlist, c)
    BY EmptyList
  <2> QED BY <2>1 DEF BarListed, BarBlocked
<1>4. BarFull
  BY BarNumbers DEF BarFull, Opening
<1>5. BarRounds
  <2>1. Cardinality(Leaving) = 0
    <3>1. Leaving = {}
      BY DEF Leaving, BarLeaving
    <3> QED BY <3>1, FS_EmptySet
  <2>2. 0 = 0 * num_waiters + 0
    BY BarNumbers
  <2> QED BY <2>1, <2>2 DEF BarRounds
<1> QED BY <1>1, <1>2, <1>3, <1>4, <1>5 DEF BarInv

\* Every step of a caller keeps the list, the counter and the rounds in step.
LEMMA BarStep == BarInv /\ [Bar!Next]_(Bar!vars) => BarInv'
<1> SUFFICES ASSUME BarInv, [Bar!Next]_(Bar!vars) PROVE BarInv'
  OBVIOUS
<1> USE SyncAssumption DEF Bar!BarrierConstants, BarInv, Bar!Goto, Bar!Idle
<1> DEFINE Inv == BarTypes /\ BarLocked /\ BarListed /\ BarFull /\ BarRounds /\ BarFreed
<1>1. ASSUME NEW c \in Callers, Bar!Wait(c) PROVE Inv'
  <2> USE <1>1 DEF Bar!Wait
  <2>1. BarTypes'
    BY DEF BarTypes, BarLocations
  <2>2. BarLocked' /\ BarListed'
    BY DEF BarTypes, BarLocked, BarHolding, BarListed, BarBlocked
  <2>3. Opening' <=> Opening
    BY DEF BarTypes, Opening
  <2>4. BarFull'
    BY <2>3 DEF BarTypes, BarFull
  <2>5. Leaving' = Leaving
    BY DEF BarTypes, Leaving, BarLeaving
  <2>6. BarRounds'
    BY <2>5 DEF BarRounds
  <2>7. BarFreed'
    BY DEF BarTypes, BarFreed
  <2> QED BY <2>1, <2>2, <2>4, <2>6, <2>7
<1>2. ASSUME NEW c \in Callers, Bar!Lock(c) PROVE Inv'
  <2> USE <1>2 DEF Bar!Lock
  <2>1. BarTypes'
    BY DEF BarTypes, BarLocations
  <2>2. BarLocked' /\ BarListed'
    BY DEF BarTypes, BarLocked, BarHolding, BarListed, BarBlocked
  <2>3. Opening' <=> Opening
    BY DEF BarTypes, Opening
  <2>4. BarFull'
    BY <2>3 DEF BarTypes, BarFull
  <2>5. Leaving' = Leaving
    BY DEF BarTypes, Leaving, BarLeaving
  <2>6. BarRounds'
    BY <2>5 DEF BarRounds
  <2>7. BarFreed'
    <3>1. ~o_freed /\ \A d \in Callers : o_pc[d] # "free"
      BY DEF BarFreed
    <3> QED BY <3>1 DEF BarTypes, BarFreed
  <2> QED BY <2>1, <2>2, <2>4, <2>6, <2>7
<1>3. ASSUME NEW c \in Callers, Bar!Enter(c) PROVE Inv'
  <2> USE <1>3 DEF Bar!Enter, Bar!Arrive
  <2>0. /\ passed + Cardinality(Leaving) + Len(o_waitlist) = arrivals
        /\ passed \in Nat /\ Len(o_waitlist) \in Nat
        /\ passed' = passed /\ arrivals' = arrivals + 1
    BY DEF BarTypes, BarRounds
  <2>1. /\ \A d \in Callers : o_pc[d] \in BarHolding => d = c
        /\ ~Opening /\ counter = Len(o_waitlist) /\ counter < num_waiters
        /\ num_waiters \in Nat /\ counter \in Nat
    BY BarNumbers DEF BarTypes, BarLocked, BarHolding, Opening, BarFull
  <2>2. ~o_freed /\ \A d \in Callers : o_pc[d] # "free"
    BY DEF BarFreed
  <2>3. PICK k \in Nat : arrivals = k * num_waiters + counter
    BY DEF BarRounds
  <2>4. k * num_waiters \in Nat /\ arrivals' = k * num_waiters' + counter'
    BY <2>1, <2>3
  <2>5. Cardinality(Leaving) \in Nat /\ Leaving \in SUBSET Callers /\ c \notin Leaving
    BY ReadersCounted DEF Leaving, BarLeaving
  <2>6. CASE counter + 1 < num_waiters
    <3>1. o_waitlist' = Append(o_waitlist, c) /\ o_pc' = [o_pc EXCEPT ![c] = "enqueued"]
      BY <2>6
    <3>2. o_waitlist \in Seq(Callers) /\ Distinct(o_waitlist) /\ ~Listed(o_waitlist, c)
      BY DEF BarTypes, BarListed, BarBlocked
    <3>3. /\ o_waitlist' \in Seq(Callers) /\ Distinct(o_waitlist')
          /\ \A x : Listed(o_waitlist', x) <=> x = c \/ Listed(o_waitlist, x)
      BY <3>1, <3>2, AppendLists
    <3>4. Len(o_waitlist') = Len(o_waitlist) + 1
      BY <3>1, <3>2
    <3>5. BarTypes' /\ BarLocked'
      BY <2>1, <3>1, <3>3 DEF BarTypes, BarLocations, BarLocked, BarHolding
    <3>6. BarListed'
      BY <3>1, <3>3 DEF BarTypes, BarListed, BarBlocked
    <3>7. ~Opening'
      BY <2>1, <3>1 DEF BarTypes, Opening
    <3>8. BarFull'
      BY <2>1, <2>6, <3>1, <3>4, <3>7 DEF BarTypes, BarFull, BarHolding
    <3>9. Leaving' = Leaving
      BY <3>1 DEF BarTypes, Leaving, BarLeaving
    <3>10. passed' + Cardinality(Leaving') + Len(o_waitlist') = arrivals'
      BY ONLY <2>0, <2>5, <3>4, <3>9
    <3>11. BarFreed'
      BY <2>2, <3>1 DEF BarTypes, BarFreed
    <3>12. BarRounds'
      BY ONLY <2>4, <3>10 DEF BarRounds
    <3> QED BY <3>5, <3>6, <3>8, <3>11, <3>12
  <2>7. CASE ~(counter + 1 < num_waiters)
    <3>1. UNCHANGED o_waitlist /\ o_pc' = [o_pc EXCEPT ![c] = "broadcast"]
          /\ counter + 1 = num_waiters
      BY <2>1, <2>7
    <3>2. BarTypes' /\ BarLocked'
      BY <2>1, <3>1 DEF BarTypes, BarLocations, BarLocked, BarHolding
    <3>3. BarListed'
      BY <3>1 DEF BarTypes, BarListed, BarBlocked
    <3>4. Opening'
      BY <3>1 DEF BarTypes, Opening
    <3>5. BarFull'
      BY <2>1, <3>1, <3>4 DEF BarTypes, BarFull, BarHolding
    <3>6. Leaving' = Leaving \cup {c}
      BY <3>1 DEF BarTypes, Leaving, BarLeaving
    <3>7. Cardinality(Leaving') = Cardinality(Leaving) + 1
      BY ONLY <2>5, <3>6, c \in Callers, ReadersCounted
    <3>8. passed' + Cardinality(Leaving') + Len(o_waitlist') = arrivals'
      BY ONLY <2>0, <2>5, <3>1, <3>7
    <3>9. BarRounds'
      BY ONLY <2>4, <3>8 DEF BarRounds
    <3>10. BarFreed'
      BY <2>2, <3>1 DEF BarTypes, BarFreed
    <3> QED BY <3>2, <3>3, <3>5, <3>9, <3>10
  <2> QED BY <2>6, <2>7
<1>4. ASSUME NEW c \in Callers, Bar!Unlock(c) PROVE Inv'
  <2> USE <1>4 DEF Bar!Unlock
  <2>1. BarTypes'
    BY DEF BarTypes, BarLocations
  <2>2. BarLocked' /\ BarListed'
    BY DEF BarTypes, BarLocked, BarHolding, BarListed, BarBlocked
  <2>3. Opening' <=> Opening
    BY DEF BarTypes, Opening
  <2>4. BarFull'
    BY <2>3 DEF BarTypes, BarFull
  <2>5. Leaving' = Leaving
    BY DEF BarTypes, Leaving, BarLeaving
  <2>6. BarRounds'
    BY <2>5 DEF BarRounds
  <2>7. BarFreed'
    <3>1. ~o_freed /\ \A d \in Callers : o_pc[d] # "free"
      BY DEF BarFreed
    <3> QED BY <3>1 DEF BarTypes, BarFreed
  <2> QED BY <2>1, <2>2, <2>4, <2>6, <2>7
<1>5. ASSUME NEW c \in Callers, Bar!Return(c) PROVE Inv'
  <2> USE <1>5 DEF Bar!Return
  <2>1. BarTypes'
    BY DEF BarTypes, BarLocations
  <2>2. BarLocked' /\ BarListed'
    BY DEF BarTypes, BarLocked, BarHolding, BarListed, BarBlocked
  <2>3. Opening' <=> Opening
    BY DEF BarTypes, Opening
  <2>4. BarFull'
    BY <2>3 DEF BarTypes, BarFull
  <2>5. Leaving' = Leaving \ {c} /\ c \in Leaving /\ Leaving \in SUBSET Callers
    BY DEF BarTypes, Leaving, BarLeaving
  <2>6. Cardinality(Leaving') = Cardinality(Leaving) - 1 /\ Cardinality(Leaving) \in Nat
    BY ONLY <2>5, c \in Callers, ReadersCounted
  <2>7. Len(o_waitlist) \in Nat
    BY DEF BarTypes
  <2>8. passed' + Cardinality(Leaving') + Len(o_waitlist') = arrivals'
    BY <2>6, <2>7 DEF BarTypes, BarRounds
  <2>10. BarRounds'
    BY <2>8 DEF BarRounds
  <2>9. BarFreed'
    BY DEF BarTypes, BarFreed
  <2> QED BY <2>1, <2>2, <2>4, <2>9, <2>10
<1>6. ASSUME NEW c \in Callers, Bar!Broadcast(c) PROVE Inv'
  <2> USE <1>6 DEF Bar!Broadcast
  <2>1. Opening /\ \A d \in Callers : o_pc[d] \in BarHolding => d = c
    BY DEF BarLocked, BarHolding, Opening
  <2>2. CASE o_waitlist = <<>>
    <3>1. UNCHANGED o_waitlist /\ o_pc' = [o_pc EXCEPT ![c] = "reset"]
      BY <2>2
    <3>2. BarTypes' /\ BarLocked'
      BY <3>1 DEF BarTypes, BarLocations, BarLocked, BarHolding
    <3>3. BarListed'
      BY <3>1 DEF BarTypes, BarListed, BarBlocked
    <3>4. Opening'
      BY <3>1 DEF BarTypes, Opening
    <3>5. BarFull'
      BY <2>1, <2>2, <3>1, <3>4 DEF BarTypes, BarFull
    <3>6. Leaving' = Leaving
      BY <3>1 DEF BarTypes, Leaving, BarLeaving
    <3>7. BarRounds'
      BY <3>1, <3>6 DEF BarRounds
    <3>8. BarFreed'
      BY <2>2, <3>1 DEF BarTypes, BarFreed
    <3> QED BY <3>2, <3>3, <3>5, <3>7, <3>8
  <2>3. CASE o_waitlist # <<>>
    <3> DEFINE h == Head(o_waitlist)
    <3>1. o_waitlist' = Tail(o_waitlist) /\ o_pc' = [o_pc EXCEPT ![h] = "woken"]
      BY <2>3
    <3>2. o_waitlist \in Seq(Callers) /\ Distinct(o_waitlist)
      BY DEF BarTypes, BarListed
    <3>3. /\ o_waitlist' \in Seq(Callers) /\ Distinct(o_waitlist')
          /\ h \in Callers /\ Listed(o_waitlist, h)
          /\ \A x : Listed(o_waitlist', x) <=> x # h /\ Listed(o_waitlist, x)
      BY <2>3, <3>1, <3>2, TailLists
    <3>4. Len(o_waitlist') = Len(o_waitlist) - 1 /\ Len(o_waitlist) \in Nat
      BY <2>3, <3>1, <3>2
    <3> HIDE DEF h
    <3>5. o_pc[h] \in BarBlocked /\ h # c
      BY <3>3 DEF BarListed, BarBlocked
    <3>6. BarTypes' /\ BarLocked'
      BY <3>1, <3>3, <3>5 DEF BarTypes, BarLocations, BarLocked, BarHolding, BarBlocked
    <3>7. BarListed'
      BY <3>1, <3>3, <3>5 DEF BarTypes, BarListed, BarBlocked
    <3>8. Opening' /\ \A d \in Callers : o_pc'[d] \notin {"reset", "release"}
      BY <2>1, <3>1, <3>3, <3>5 DEF BarTypes, Opening, BarHolding
    <3>9. BarFull'
      BY <2>1, <3>8 DEF BarTypes, BarFull
    <3>10. Leaving' = Leaving \cup {h} /\ h \notin Leaving /\ Leaving \in SUBSET Callers
      BY <3>1, <3>3, <3>5 DEF BarTypes, Leaving, BarLeaving, BarBlocked
    <3>11. Cardinality(Leaving') = Cardinality(Leaving) + 1 /\ Cardinality(Leaving) \in Nat
      BY ONLY <3>3, <3>10, ReadersCounted
    <3>12. passed' + Cardinality(Leaving') + Len(o_waitlist') = arrivals'
      BY <3>4, <3>11 DEF BarTypes, BarRounds
    <3>14. BarRounds'
      BY <3>12 DEF BarRounds
    <3>13. BarFreed'
      BY <2>3, <3>1, <3>5 DEF BarTypes, BarFreed, BarBlocked
    <3> QED BY <3>6, <3>7, <3>9, <3>13, <3>14
  <2> QED BY <2>2, <2>3
<1>7. ASSUME NEW c \in Callers, Bar!Reset(c) PROVE Inv'
  <2> USE <1>7 DEF Bar!Reset
  <2>1. Opening /\ \A d \in Callers : o_pc[d] \in BarHolding => d = c
    BY DEF BarLocked, BarHolding, Opening
  <2>2. counter = num_waiters /\ num_waiters \in Nat /\ num_waiters > 0 /\ o_waitlist = <<>>
    BY <2>1, BarNumbers DEF BarTypes, BarFull
  <2>3. BarTypes' /\ BarLocked'
    BY DEF BarTypes, BarLocations, BarLocked, BarHolding
  <2>4. BarListed'
    BY DEF BarTypes, BarListed, BarBlocked
  <2>5. ~Opening'
    BY <2>1 DEF BarTypes, Opening, BarHolding
  <2>6. BarFull'
    BY <2>2, <2>5 DEF BarFull
  <2>7. Leaving' = Leaving
    BY DEF BarTypes, Leaving, BarLeaving
  <2>8. PICK k \in Nat : arrivals = k * num_waiters + counter
    BY DEF BarRounds
  <2>9. k + 1 \in Nat /\ arrivals' = (k + 1) * num_waiters' + counter'
    BY <2>2, <2>8
  <2>10. BarRounds'
    BY <2>7, <2>9 DEF BarRounds
  <2>11. BarFreed'
    BY DEF BarTypes, BarFreed
  <2> QED BY <2>3, <2>4, <2>6, <2>10, <2>11
<1>8. ASSUME NEW c \in Callers, Bar!Release(c) PROVE Inv'
  <2> USE <1>8 DEF Bar!Release
  <2>1. BarTypes'
    BY DEF BarTypes, BarLocations
  <2>2. BarLocked' /\ BarListed'
    BY DEF BarTypes, BarLocked, BarHolding, BarListed, BarBlocked
  <2>3. Opening' <=> Opening
    BY DEF BarTypes, Opening
  <2>4. BarFull'
    BY <2>3 DEF BarTypes, BarFull
  <2>5. Leaving' = Leaving \ {c} /\ c \in Leaving /\ Leaving \in SUBSET Callers
    BY DEF BarTypes, Leaving, BarLeaving
  <2>6. Cardinality(Leaving') = Cardinality(Leaving) - 1 /\ Cardinality(Leaving) \in Nat
    BY ONLY <2>5, c \in Callers, ReadersCounted
  <2>7. Len(o_waitlist) \in Nat
    BY DEF BarTypes
  <2>8. passed' + Cardinality(Leaving') + Len(o_waitlist') = arrivals'
    BY <2>6, <2>7 DEF BarTypes, BarRounds
  <2>10. BarRounds'
    BY <2>8 DEF BarRounds
  <2>9. BarFreed'
    BY DEF BarTypes, BarFreed
  <2> QED BY <2>1, <2>2, <2>4, <2>9, <2>10
<1>9. ASSUME NEW c \in Callers, NEW n \in Counts, Bar!Reinit(c, n) PROVE Inv'
  <2> USE <1>9 DEF Bar!Reinit
  <2>1. BarTypes'
    BY DEF BarTypes, BarLocations
  <2>2. BarLocked' /\ BarListed' /\ BarFreed'
    BY DEF BarTypes, BarLocked, BarHolding, BarListed, BarBlocked, BarFreed
  <2>3. ~Opening' /\ ~Opening /\ n \in Nat /\ n > 0
    BY BarNumbers DEF Opening
  <2>4. Len(o_waitlist) = 0
    BY <2>3 DEF BarFull
  <2>5. BarFull'
    BY <2>3, <2>4 DEF BarTypes, BarFull
  <2>6. Cardinality(Leaving') = 0
    <3>1. Leaving' = {}
      BY DEF Leaving, BarLeaving
    <3> QED BY <3>1, FS_EmptySet
  <2>7. 0 = 0 * n + 0
    BY <2>3
  <2>8. BarRounds'
    BY <2>4, <2>6, <2>7 DEF BarRounds
  <2> QED BY <2>1, <2>2, <2>5, <2>8
<1>10. ASSUME NEW c \in Callers, Bar!FreeBegin(c) PROVE Inv'
  <2> USE <1>10 DEF Bar!FreeBegin
  <2>1. BarTypes'
    BY DEF BarTypes, BarLocations
  <2>2. BarLocked' /\ BarListed'
    BY DEF BarTypes, BarLocked, BarHolding, BarListed, BarBlocked
  <2>3. Opening' <=> Opening
    BY DEF BarTypes, Opening
  <2>4. BarFull'
    BY <2>3 DEF BarTypes, BarFull
  <2>5. Leaving' = Leaving
    BY DEF BarTypes, Leaving, BarLeaving
  <2>6. BarRounds'
    BY <2>5 DEF BarRounds
  <2>7. BarFreed'
    BY DEF BarTypes, BarFreed
  <2> QED BY <2>1, <2>2, <2>4, <2>6, <2>7
<1>11. ASSUME NEW c \in Callers, Bar!Free(c) PROVE Inv'
  <2> USE <1>11 DEF Bar!Free
  <2>1. BarTypes'
    BY DEF BarTypes, BarLocations
  <2>2. BarListed'
    BY DEF BarTypes, BarListed, BarBlocked
  <2>3. \A d \in Callers : o_pc[d] \notin BarHolding
    BY DEF BarLocked, BarHolding
  <2>4. BarLocked' /\ BarFreed'
    BY <2>3 DEF BarTypes, BarLocked, BarHolding, BarFreed
  <2>5. Opening' <=> Opening
    BY DEF BarTypes, Opening
  <2>6. BarFull'
    BY <2>5 DEF BarTypes, BarFull
  <2>7. Leaving' = Leaving
    BY DEF BarTypes, Leaving, BarLeaving
  <2>8. BarRounds'
    BY <2>7 DEF BarRounds
  <2> QED BY <2>1, <2>2, <2>4, <2>6, <2>8
<1>12. ASSUME UNCHANGED Bar!vars PROVE Inv'
  <2> USE <1>12 DEF Bar!vars
  <2>1. (Opening' <=> Opening) /\ Leaving' = Leaving
    BY DEF Opening, Leaving
  <2>2. BarFull' /\ BarRounds'
    BY <2>1 DEF BarFull, BarRounds
  <2> QED BY <2>2 DEF BarTypes, BarLocked, BarListed, BarFreed
<1> HIDE DEF BarInv, Inv
<1>13. ASSUME Bar!Next PROVE Inv'
  BY <1>13, <1>1, <1>2, <1>3, <1>4, <1>5, <1>6, <1>7, <1>8, <1>9, <1>10, <1>11
     DEF Bar!Next, Bar!Step
<1> QED BY <1>12, <1>13 DEF BarInv, Inv

\* The arrivals since the last full round.
LEMMA RoundsFull ==
  ASSUME NEW n \in Nat \ {0}, NEW k \in Nat, NEW r \in Nat, r < n
  PROVE  (k * n + r) % n = r
OBVIOUS

\* What the invariant says of the barrier's users.
LEMMA BarSafe ==
  BarInv => Bar!TypeOK /\ Bar!CounterIsQueue /\ Bar!NoUseAfterFree /\ Bar!NoEarlyPass
<1> SUFFICES ASSUME BarInv
             PROVE  Bar!TypeOK /\ Bar!CounterIsQueue /\ Bar!NoUseAfterFree /\ Bar!NoEarlyPass
  OBVIOUS
<1> USE SyncAssumption DEF Bar!BarrierConstants, BarInv
<1>1. num_waiters \in Nat /\ num_waiters > 0 /\ counter \in Nat /\ Len(o_waitlist) \in Nat
  BY BarNumbers DEF BarTypes
<1>2. Bar!TypeOK
  BY <1>1 DEF Bar!TypeOK, BarTypes, BarLocations, BarFull
<1>3. Bar!CounterIsQueue
  BY DEF Bar!CounterIsQueue, BarTypes, BarLocked, BarHolding, BarFull, Opening
<1>4. Bar!NoUseAfterFree
  BY DEF Bar!NoUseAfterFree, BarFreed, Bar!Idle
<1>5. PICK k \in Nat : arrivals = k * num_waiters + counter
  BY DEF BarRounds
<1>6. Cardinality(Leaving) \in Nat
  BY CallersFinite, FS_Subset, FS_CardinalityType DEF Leaving
<1>7. passed + Len(o_waitlist) <= arrivals
  BY <1>1, <1>6 DEF BarTypes, BarRounds
<1>8. Bar!NoEarlyPass
  <2>1. CASE Opening
    <3>1. counter = num_waiters
      BY <2>1 DEF BarFull
    <3>2. k + 1 \in Nat /\ arrivals = (k + 1) * num_waiters + 0
      BY <1>1, <1>5, <3>1
    <3>3. arrivals % num_waiters = 0
      BY <1>1, <3>2
    <3> QED BY <1>1, <1>7, <3>3 DEF BarTypes, Bar!NoEarlyPass
  <2>2. CASE ~Opening
    <3>1. counter = Len(o_waitlist) /\ counter < num_waiters
      BY <2>2 DEF BarFull
    <3>2. (k * num_waiters + counter) % num_waiters = counter
      BY ONLY <1>1, <3>1, k \in Nat, RoundsFull
    <3> QED BY <1>1, <1>5, <1>7, <3>1, <3>2 DEF BarTypes, Bar!NoEarlyPass
  <2> QED BY <2>1, <2>2
<1> QED BY <1>2, <1>3, <1>4, <1>8

------------------------------------------------------------------------------
(* Condition variable *)

CndLocations == {"out", "in", "unlock", "enqueue", "blocked", "relock",
                 "signal", "broadcast", "release"}
CndHolding == {"unlock", "enqueue", "signal", "broadcast", "release"}

CndTypes ==
    /\ c_lock \in Callers \cup {Nobody} /\ p_waiter_mutex \in Mutexes \cup {Nobody}
    /\ c_waitlist \in Seq(Callers) /\ c_freed \in BOOLEAN
    /\ c_holder \in [Mutexes -> Callers \cup {Nobody}]
    /\ c_pc \in [Callers -> CndLocations]
    /\ p_mutex \in [Callers -> Mutexes \cup {Nobody}]
    /\ c_timed \in [Callers -> BOOLEAN]
    /\ c_result \in [Callers -> {"none", "SUCCESS", "ERR_INV_MUTEX", "ERR_COND_TIMEDOUT"}]
    /\ c_ops \in [Callers -> Nat] /\ wakes \in [Callers -> Nat]

\* Whoever is in a critical section of the condition variable has its lock.
CndLocked == \A c \in Callers : c_pc[c] \in CndHolding => c_lock = c

\* The list holds, once each, the callers that are blocked.
CndListed ==
    /\ Distinct(c_waitlist)
    /\ \A c \in Callers : Listed(c_waitlist, c) <=> c_pc[c] = "blocked"

\* A caller has its mutex until the wait releases it, and again when the wait is over;
\* all that wait gave the condition variable the same mutex.
CndMutex ==
    \A c \in Callers :
      /\ c_pc[c] = "out" => p_mutex[c] = Nobody
      /\ c_pc[c] \in {"in", "unlock"} => p_mutex[c] \in Mutexes
      /\ c_pc[c] \in {"in", "unlock", "signal", "broadcast", "release"} =>
           (p_mutex[c] \in Mutexes => c_holder[p_mutex[c]] = c)
      /\ c_pc[c] \in {"enqueue", "blocked", "relock"} =>
           p_mutex[c] \in Mutexes /\ c_holder[p_mutex[c]] # c
      /\ c_pc[c] \in {"unlock", "enqueue", "blocked"} => p_mutex[c] = p_waiter_mutex

\* The caller that freed the condition variable keeps its lock, and nobody that is still
\* to use it is left.
CndFreed ==
    c_freed => c_lock # Nobody /\ \A c \in Callers : c_pc[c] \in {"out", "in", "relock"}

CndInv == CndTypes /\ CndLocked /\ CndListed /\ CndMutex /\ CndFreed

\* A condition variable is created with nobody in it.
LEMMA CndInit == Cnd!Init => CndInv
<1> SUFFICES ASSUME Cnd!Init PROVE CndInv
  OBVIOUS
<1> USE SyncAssumption DEF Cnd!CondConstants, Cnd!Init
<1>1. CndTypes
  <2>1. c_waitlist \in Seq(Callers) /\ CondOps \in [Callers -> Nat]
    OBVIOUS
  <2> QED BY <2>1 DEF CndTypes, CndLocations
<1>2. CndLocked /\ CndMutex /\ CndFreed
  BY DEF CndLocked, CndHolding, CndMutex, CndFreed
<1>3. CndListed
  <2>1. Distinct(c_waitlist) /\ \A c \in Callers : ~Listed(c_waitlist, c)
    BY EmptyList
  <2> QED BY <2>1 DEF CndListed
<1> QED BY <1>1, <1>2, <1>3 DEF CndInv

\* Every step of a caller keeps the list, the mutexes and the lock in step.
LEMMA CndStep == CndInv /\ [Cnd!Next]_(Cnd!vars) => CndInv'
<1> SUFFICES ASSUME CndInv, [Cnd!Next]_(Cnd!vars) PROVE CndInv'
  OBVIOUS
<1> USE SyncAssumption DEF Cnd!CondConstants, CndInv, Cnd!Goto, Cnd!AcquireLock,
        Cnd!ReleaseLock, Cnd!condVars, Cnd!callVars
<1> DEFINE Inv == CndTypes /\ CndLocked /\ CndListed /\ CndMutex /\ CndFreed
<1>1. ASSUME NEW c \in Callers, NEW m \in Mutexes, Cnd!LockMutex(c, m) PROVE Inv'
  <2> USE <1>1 DEF Cnd!LockMutex
  <2>1. CndTypes'
    BY DEF CndTypes, CndLocations
  <2>2. CndLocked' /\ CndListed' /\ CndFreed'
    BY DEF CndTypes, CndLocked, CndHolding, CndListed, CndFreed
  <2>3. CndMutex'
    BY DEF CndTypes, CndMutex
  <2> QED BY <2>1, <2>2, <2>3
<1>2. ASSUME NEW c \in Callers, Cnd!UnlockMutex(c) PROVE Inv'
  <2> USE <1>2 DEF Cnd!UnlockMutex
  <2>1. CndTypes'
    BY DEF CndTypes, CndLocations
  <2>2. CndLocked' /\ CndListed' /\ CndFreed'
    BY DEF CndTypes, CndLocked, CndHolding, CndListed, CndFreed
  <2>3. CndMutex'
    BY DEF CndTypes, CndMutex
  <2> QED BY <2>1, <2>2, <2>3
<1>3. ASSUME NEW c \in Callers, NEW t \in BOOLEAN, Cnd!Wait(c, t) PROVE Inv'
  <2> USE <1>3 DEF Cnd!Wait
  <2>1. CASE p_waiter_mutex \in {Nobody, p_mutex[c]}
    <3>1. /\ c_lock = Nobody /\ c_lock' = c /\ p_waiter_mutex' = p_mutex[c]
          /\ c_timed' = [c_timed EXCEPT ![c] = t]
          /\ c_result' = [c_result EXCEPT ![c] = "none"]
          /\ c_pc' = [c_pc EXCEPT ![c] = "unlock"]
      BY <2>1
    <3>2. CndTypes'
      BY <3>1 DEF CndTypes, CndLocations
    <3>3. CndLocked' /\ CndListed' /\ CndFreed'
      BY <3>1 DEF CndTypes, CndLocked, CndHolding, CndListed, CndFreed
    <3>4. \A d \in Callers : c_pc[d] = "blocked" => p_waiter_mutex = p_mutex[c]
      BY <2>1 DEF CndTypes, CndMutex
    <3>5. CndMutex'
      BY <3>1, <3>4 DEF CndTypes, CndLocked, CndHolding, CndMutex
    <3> QED BY <3>2, <3>3, <3>5
  <2>2. CASE p_waiter_mutex \notin {Nobody, p_mutex[c]}
    <3>1. /\ UNCHANGED <<c_lock, p_waiter_mutex, c_timed, c_pc>>
          /\ c_result' = [c_result EXCEPT ![c] = "ERR_INV_MUTEX"]
      BY <2>2
    <3> QED BY <3>1 DEF CndTypes, CndLocked, CndListed, CndMutex, CndFreed
  <2> QED BY <2>1, <2>2
<1>4. ASSUME NEW c \in Callers, Cnd!Unlock(c) PROVE Inv'
  <2> USE <1>4 DEF Cnd!Unlock
  <2>1. CndTypes'
    BY DEF CndTypes, CndLocations
  <2>2. CndLocked' /\ CndListed' /\ CndFreed'
    BY DEF CndTypes, CndLocked, CndHolding, CndListed, CndFreed
  <2>3. CndMutex'
    BY DEF CndTypes, CndMutex
  <2> QED BY <2>1, <2>2, <2>3
<1>5. ASSUME NEW c \in Callers, Cnd!WaitAndUnlock(c) PROVE Inv'
  <2> USE <1>5 DEF Cnd!WaitAndUnlock
  <2>1. c_waitlist \in Seq(Callers) /\ Distinct(c_waitlist) /\ ~Listed(c_waitlist, c)
    BY DEF CndTypes, CndListed
  <2>2. /\ c_waitlist' \in Seq(Callers) /\ Distinct(c_waitlist')
        /\ \A x : Listed(c_waitlist', x) <=> x = c \/ Listed(c_waitlist, x)
    BY <2>1, AppendLists
  <2>3. CndTypes' /\ CndListed'
    BY <2>2 DEF CndTypes, CndLocations, CndListed
  <2>4. CndLocked' /\ CndFreed'
    BY DEF CndTypes, CndLocked, CndHolding, CndFreed
  <2>5. CndMutex'
    BY DEF CndTypes, CndMutex
  <2> QED BY <2>3, <2>4, <2>5
<1>6. ASSUME NEW c \in Callers, Cnd!TimeOut(c) PROVE Inv'
  <2> USE <1>6 DEF Cnd!TimeOut
  <2>1. PICK i \in DOMAIN c_waitlist :
          c_waitlist[i] = c /\ c_waitlist' = Without(c_waitlist, i)
    BY DEF Cnd!RemoveAt, Without
  <2>2. c_waitlist \in Seq(Callers) /\ Distinct(c_waitlist) /\ i \in 1..Len(c_waitlist)
    BY <2>1 DEF CndTypes, CndListed
  <2>3. /\ c_waitlist' \in Seq(Callers) /\ Distinct(c_waitlist')
        /\ \A x : Listed(c_waitlist', x) <=> x # c /\ Listed(c_waitlist, x)
    BY ONLY <2>1, <2>2, WithoutUnlists
  <2> HIDE <1>6
  <2>4. /\ c_pc[c] = "blocked" /\ c_pc' = [c_pc EXCEPT ![c] = "relock"]
        /\ c_result' = [c_result EXCEPT ![c] = "ERR_COND_TIMEDOUT"]
        /\ UNCHANGED <<c_lock, p_waiter_mutex, c_freed, c_holder, p_mutex, c_timed, c_ops, wakes>>
    BY <1>6
  <2>5. CndTypes' /\ CndListed'
    BY <2>3, <2>4 DEF CndTypes, CndLocations, CndListed
  <2>6. CndLocked' /\ CndFreed'
    BY <2>4 DEF CndTypes, CndLocked, CndHolding, CndFreed
  <2>7. CndMutex'
    BY <2>4 DEF CndTypes, CndMutex
  <2> QED BY <2>5, <2>6, <2>7
<1>7. ASSUME NEW c \in Callers, Cnd!LockAgain(c) PROVE Inv'
  <2> USE <1>7 DEF Cnd!LockAgain
  <2>1. CndTypes'
    BY DEF CndTypes, CndLocations
  <2>2. CndLocked' /\ CndListed' /\ CndFreed'
    BY DEF CndTypes, CndLocked, CndHolding, CndListed, CndFreed
  <2>3. CndMutex'
    BY DEF CndTypes, CndMutex
  <2> QED BY <2>1, <2>2, <2>3
<1>8. ASSUME NEW c \in Callers, NEW l \in {"signal", "broadcast"}, Cnd!Begin(c, l) PROVE Inv'
  <2> USE <1>8 DEF Cnd!Begin
  <2>1. CndTypes'
    BY DEF CndTypes, CndLocations
  <2>2. CndLocked' /\ CndListed' /\ CndFreed'
    BY DEF CndTypes, CndLocked, CndHolding, CndListed, CndFreed
  <2>3. CndMutex'
    BY DEF CndTypes, CndMutex
  <2> QED BY <2>1, <2>2, <2>3
<1>9. ASSUME NEW c \in Callers, c_pc[c] \in {"signal", "broadcast"},
             Cnd!Signal(c) \/ Cnd!Broadcast(c)
      PROVE  Inv'
  <2>1. CASE c_waitlist = <<>>
    <3>1. c_pc' = [c_pc EXCEPT ![c] = "release"] /\ UNCHANGED <<Cnd!condVars, c_holder, Cnd!callVars>>
      BY <1>9, <2>1 DEF Cnd!Signal, Cnd!Broadcast
    <3>2. CndTypes' /\ CndFreed'
      BY <1>9, <3>1 DEF CndTypes, CndLocations, CndFreed
    <3>3. CndLocked' /\ CndListed'
      BY <1>9, <3>1 DEF CndTypes, CndLocked, CndHolding, CndListed
    <3>4. CndMutex'
      BY <1>9, <3>1 DEF CndTypes, CndMutex
    <3> QED BY <3>2, <3>3, <3>4
  <2>2. CASE c_waitlist # <<>>
    <3> DEFINE h == Head(c_waitlist)
    <3>1. /\ c_waitlist' = Tail(c_waitlist)
          /\ \/ c_pc' = [c_pc EXCEPT ![c] = "release", ![h] = "relock"]
             \/ c_pc' = [c_pc EXCEPT ![h] = "relock"]
          /\ UNCHANGED <<c_lock, p_waiter_mutex, c_freed, c_holder, Cnd!callVars>>
      BY <1>9, <2>2 DEF Cnd!Signal, Cnd!Broadcast, Cnd!WakeFirst
    <3>2. c_waitlist \in Seq(Callers) /\ Distinct(c_waitlist)
      BY DEF CndTypes, CndListed
    <3>3. /\ c_waitlist' \in Seq(Callers) /\ Distinct(c_waitlist')
          /\ h \in Callers /\ Listed(c_waitlist, h)
          /\ \A x : Listed(c_waitlist', x) <=> x # h /\ Listed(c_waitlist, x)
      BY <2>2, <3>1, <3>2, TailLists
    <3> HIDE DEF h
    <3>4. c_pc[h] = "blocked" /\ h # c
      BY <1>9, <3>3 DEF CndListed
    <3>5. /\ c_pc' \in [Callers -> CndLocations]
          /\ c_pc'[h] = "relock" /\ c_pc'[c] \in {c_pc[c], "release"}
          /\ \A d \in Callers \ {c, h} : c_pc'[d] = c_pc[d]
      BY <3>1, <3>3, <3>4 DEF CndTypes, CndLocations
    <3>6. CndTypes' /\ CndFreed'
      BY <1>9, <3>1, <3>3, <3>5 DEF CndTypes, CndFreed
    <3>7. CndLocked'
      BY <1>9, <3>1, <3>3, <3>4, <3>5 DEF CndLocked, CndHolding
    <3>8. CndListed'
      BY <1>9, <3>3, <3>4, <3>5 DEF CndListed
    <3>9. CndMutex'
      BY <1>9, <3>1, <3>3, <3>4, <3>5 DEF CndTypes, CndMutex
    <3> QED BY <3>6, <3>7, <3>8, <3>9
  <2> QED BY <2>1, <2>2
<1>10. ASSUME NEW c \in Callers, Cnd!Release(c) PROVE Inv'
  <2> USE <1>10 DEF Cnd!Release
  <2>1. CndTypes'
    BY DEF CndTypes, CndLocations
  <2>2. CndLocked' /\ CndListed' /\ CndFreed'
    BY DEF CndTypes, CndLocked, CndHolding, CndListed, CndFreed
  <2>3. CndMutex'
    BY DEF CndTypes, CndMutex
  <2> QED BY <2>1, <2>2, <2>3
<1>11. ASSUME NEW c \in Callers, Cnd!Free(c) PROVE Inv'
  <2> USE <1>11 DEF Cnd!Free, Cnd!LastUser
  <2>1. CndTypes' /\ CndListed' /\ CndMutex'
    BY DEF CndTypes, CndListed, CndMutex
  <2>2. \A d \in Callers : c_pc[d] \notin CndHolding
    BY DEF CndLocked
  <2>3. CndLocked' /\ CndFreed'
    BY <2>2 DEF CndLocked, CndFreed, CndHolding
  <2> QED BY <2>1, <2>3
<1>12. ASSUME UNCHANGED Cnd!vars PROVE Inv'
  BY <1>12 DEF Cnd!vars, CndTypes, CndLocked, CndListed, CndMutex, CndFreed
<1> HIDE DEF CndInv, Inv
<1>13. ASSUME Cnd!Next PROVE Inv'
  <2>1. ASSUME NEW c \in Callers, Cnd!Step(c) PROVE Inv'
    <3>1. CASE Cnd!Signal(c) \/ Cnd!Broadcast(c)
      BY <3>1, <1>9 DEF Cnd!Signal, Cnd!Broadcast
    <3> QED BY <2>1, <3>1, <1>1, <1>2, <1>3, <1>4, <1>5, <1>7, <1>8, <1>10, <1>11 DEF Cnd!Step
  <2>2. CASE Cnd!Terminated
    BY <2>2, <1>12 DEF Cnd!Terminated, Cnd!vars
  <2> QED BY <1>13, <2>1, <2>2, <1>6 DEF Cnd!Next
<1> QED BY <1>12, <1>13 DEF CndInv, Inv

\* What the invariant says of the condition variable's users.
LEMMA CndSafe == CndInv => Cnd!WaitersMatch /\ Cnd!NoUseAfterFree
<1> SUFFICES ASSUME CndInv PROVE Cnd!WaitersMatch /\ Cnd!NoUseAfterFree
  OBVIOUS
<1> USE SyncAssumption DEF Cnd!CondConstants, CndInv
<1>1. Cnd!IsInjective(c_waitlist) /\ DOMAIN c_waitlist = 1..Len(c_waitlist)
  <2>1. c_waitlist \in Seq(Callers) /\ Distinct(c_waitlist)
    BY DEF CndTypes, CndListed
  <2>2. DOMAIN c_waitlist = 1..Len(c_waitlist)
    BY <2>1
  <2> QED BY ONLY <2>1, <2>2 DEF Cnd!IsInjective, Distinct
<1>2. Cnd!TypeOK
  BY <1>1 DEF Cnd!TypeOK, CndTypes, CndLocations
<1>3. \A c \in Callers : c \in Cnd!ToSet(c_waitlist) <=> c_pc[c] = "blocked"
  BY <1>1 DEF Cnd!ToSet, CndListed, Listed
<1>4. Cnd!ToSet(c_waitlist) \subseteq Callers
  BY <1>1 DEF Cnd!ToSet, CndTypes
<1>5. Cnd!ToSet(c_waitlist) = {c \in Callers : c_pc[c] = "blocked"}
  BY <1>3, <1>4
<1>6. Cnd!WaitersMatch
  BY <1>2, <1>5 DEF Cnd!WaitersMatch, CndMutex
<1>7. Cnd!NoUseAfterFree
  BY DEF Cnd!NoUseAfterFree, CndFreed
<1> QED BY <1>6, <1>7

\* Who is in the queue that the specification sees: the callers in the list, and then the
\* one that has released its mutex and not joined the list yet.
LEMMA CndQueue ==
  ASSUME CndInv
  PROVE  /\ Cnd!queue \in Seq(Callers) /\ c_waitlist \in Seq(Callers)
         /\ \A c \in Callers : Listed(Cnd!queue, c) => c_pc[c] \in {"enqueue", "blocked"}
         /\ (\A c \in Callers : c_pc[c] # "enqueue") => Cnd!queue = c_waitlist
         /\ Cnd!call \in [Callers -> Callers \X (Mutexes \cup {Nobody})]
         /\ Cnd!waiters = Along(Cnd!queue, Cnd!call)
<1> USE SyncAssumption DEF Cnd!CondConstants, CndInv
<1>1. c_waitlist \in Seq(Callers) /\ Distinct(c_waitlist)
  BY DEF CndTypes, CndListed
<1>2. CASE c_lock \in Callers /\ c_pc[c_lock] = "enqueue"
  <2>1. Cnd!queue = Append(c_waitlist, c_lock)
    BY <1>2 DEF Cnd!queue
  <2>2. ~Listed(c_waitlist, c_lock)
    BY <1>2 DEF CndListed
  <2>3. Cnd!queue \in Seq(Callers)
        /\ \A x : Listed(Cnd!queue, x) <=> x = c_lock \/ Listed(c_waitlist, x)
    BY <1>1, <1>2, <2>1, <2>2, AppendLists
  <2> QED BY <1>1, <1>2, <2>3 DEF CndListed, CndTypes, Cnd!call, Cnd!waiters, Along
<1>3. CASE ~(c_lock \in Callers /\ c_pc[c_lock] = "enqueue")
  <2>1. Cnd!queue = c_waitlist
    BY <1>3 DEF Cnd!queue
  <2> QED BY <1>1, <2>1 DEF CndListed, CndTypes, Cnd!call, Cnd!waiters, Along
<1> QED BY <1>2, <1>3

\* The specification's view changes only with the mutexes of the callers that wait.
LEMMA CndView ==
  ASSUME CndInv, CndInv', Cnd!queue' = Cnd!queue, 
         \A c \in Callers : c_pc[c] \in {"enqueue", "blocked"} => p_mutex'[c] = p_mutex[c]
  PROVE  Cnd!waiters' = Cnd!waiters
<1>1. Cnd!queue \in Seq(Callers)
      /\ \A c \in Callers : Listed(Cnd!queue, c) => c_pc[c] \in {"enqueue", "blocked"}
  BY CndQueue
<1>2. ASSUME NEW i \in 1..Len(Cnd!queue) PROVE Cnd!call'[Cnd!queue[i]] = Cnd!call[Cnd!queue[i]]
  BY <1>1 DEF Cnd!call, Listed
<1> QED BY <1>1, <1>2 DEF Cnd!waiters

\* A condition variable with nobody in it is one nobody waits on.
LEMMA CndInitImplements == Cnd!Init => Cnd!Abstract!Init
<1> SUFFICES ASSUME Cnd!Init PROVE Cnd!Abstract!Init
  OBVIOUS
<1>1. Cnd!queue = <<>> /\ Cnd!leaving = {}
  BY SyncAssumption DEF Cnd!CondConstants, Cnd!Init, Cnd!queue, Cnd!leaving
<1>2. Cnd!waiters = <<>>
  BY <1>1 DEF Cnd!waiters
<1>3. Cnd!waking = [c \in Callers |-> "no"]
  BY DEF Cnd!Init, Cnd!waking
<1> QED BY <1>1, <1>2, <1>3 DEF Cnd!Abstract!Init, Cnd!Init

\* Every step is one of the specification, or does not show there.
LEMMA CndStepImplements ==
  CndInv /\ CndInv' /\ [Cnd!Next]_(Cnd!vars) => [Cnd!Abstract!Next]_(Cnd!Abstract!vars)
<1> SUFFICES ASSUME CndInv, CndInv', [Cnd!Next]_(Cnd!vars)
             PROVE  [Cnd!Abstract!Next]_(Cnd!Abstract!vars)
  OBVIOUS
<1> USE SyncAssumption DEF Cnd!CondConstants, Cnd!Goto, Cnd!AcquireLock, Cnd!ReleaseLock
<1> DEFINE Goal == [Cnd!Abstract!Next]_(Cnd!Abstract!vars)
<1>q. /\ Cnd!queue \in Seq(Callers) /\ c_waitlist \in Seq(Callers)
      /\ \A c \in Callers : Listed(Cnd!queue, c) => c_pc[c] \in {"enqueue", "blocked"}
      /\ (\A c \in Callers : c_pc[c] # "enqueue") => Cnd!queue = c_waitlist
      /\ Cnd!call \in [Callers -> Callers \X (Mutexes \cup {Nobody})]
      /\ Cnd!waiters = Along(Cnd!queue, Cnd!call)
  BY CndQueue
<1>t. /\ c_pc \in [Callers -> CndLocations] /\ c_holder \in [Mutexes -> Callers \cup {Nobody}]
      /\ p_mutex \in [Callers -> Mutexes \cup {Nobody}]
  BY DEF CndInv, CndTypes
<1>1. ASSUME NEW c \in Callers, NEW m \in Mutexes, Cnd!LockMutex(c, m) PROVE Goal
  <2> USE <1>1 DEF Cnd!LockMutex
  <2>1. Cnd!queue' = Cnd!queue
    BY <1>t DEF Cnd!queue, Cnd!condVars
  <2>2. Cnd!waiters' = Cnd!waiters
    BY <1>t, <2>1, CndView
  <2>3. Cnd!leaving' = Cnd!leaving /\ Cnd!waking' = Cnd!waking
    BY <1>t DEF Cnd!leaving, Cnd!call, Cnd!waking
  <2>4. \A n \in Mutexes : <<c, n>> \notin Cnd!Abstract!Range(Cnd!waiters)
    <3>1. ~Listed(Cnd!queue, c)
      BY <1>q
    <3>2. \A i \in 1..Len(Cnd!queue) : Cnd!waiters[i][1] = Cnd!queue[i]
      BY <1>q DEF Along, Cnd!call
    <3>3. DOMAIN Cnd!waiters = 1..Len(Cnd!queue)
      BY <1>q DEF Along
    <3> QED BY <3>1, <3>2, <3>3 DEF Cnd!Abstract!Range, Listed
  <2>5. \A n \in Mutexes : <<c, n>> \notin Cnd!leaving
    BY <1>t DEF Cnd!leaving, Cnd!call
  <2>6. Cnd!Abstract!Lock(c, m)
    BY <2>2, <2>3, <2>4, <2>5 DEF Cnd!Abstract!Lock
  <2> QED BY <2>6 DEF Cnd!Abstract!Next
<1>2. ASSUME NEW c \in Callers, Cnd!UnlockMutex(c) PROVE Goal
  <2> USE <1>2 DEF Cnd!UnlockMutex
  <2>1. Cnd!queue' = Cnd!queue
    BY <1>t DEF Cnd!queue, Cnd!condVars
  <2>2. Cnd!waiters' = Cnd!waiters
    BY <1>t, <2>1, CndView
  <2>3. Cnd!leaving' = Cnd!leaving /\ Cnd!waking' = Cnd!waking
    BY <1>t DEF Cnd!leaving, Cnd!call, Cnd!waking
  <2>4. p_mutex[c] \in Mutexes /\ c_holder[p_mutex[c]] = c
    BY DEF CndInv, CndMutex
  <2>5. Cnd!Abstract!Unlock(c, p_mutex[c])
    BY <2>2, <2>3, <2>4 DEF Cnd!Abstract!Unlock
  <2> QED BY <2>4, <2>5 DEF Cnd!Abstract!Next
<1>3. ASSUME NEW c \in Callers, NEW t \in BOOLEAN, Cnd!Wait(c, t) PROVE Goal
  <2> USE <1>3 DEF Cnd!Wait
  <2>1. Cnd!queue' = Cnd!queue /\ p_mutex' = p_mutex /\ c_holder' = c_holder
    BY <1>t DEF Cnd!queue
  <2>2. Cnd!waiters' = Cnd!waiters
    BY <2>1, CndView
  <2>3. Cnd!leaving' = Cnd!leaving /\ Cnd!waking' = Cnd!waking
    BY <1>t DEF Cnd!leaving, Cnd!call, Cnd!waking
  <2> QED BY <2>1, <2>2, <2>3 DEF Cnd!Abstract!vars
<1>4. ASSUME NEW c \in Callers, Cnd!Unlock(c) PROVE Goal
  <2> USE <1>4 DEF Cnd!Unlock, Cnd!condVars, Cnd!callVars
  <2>1. c_lock = c /\ p_mutex[c] \in Mutexes /\ c_holder[p_mutex[c]] = c
    BY DEF CndInv, CndLocked, CndHolding, CndMutex
  <2>2. Cnd!queue = c_waitlist /\ Cnd!queue' = Append(c_waitlist, c)
    BY <1>t, <2>1 DEF Cnd!queue
  <2>3. Cnd!call' = Cnd!call /\ Cnd!call[c] = <<c, p_mutex[c]>>
    BY DEF Cnd!call
  <2>4. Along(Append(c_waitlist, c), Cnd!call) = Append(Along(c_waitlist, Cnd!call), Cnd!call[c])
    BY <1>q, AlongAppend
  <2>5. Cnd!waiters' = Along(Cnd!queue', Cnd!call')
    BY DEF Cnd!waiters, Along
  <2>6. Cnd!waiters' = Append(Cnd!waiters, <<c, p_mutex[c]>>)
    BY <1>q, <2>2, <2>3, <2>4, <2>5
  <2>7. Cnd!leaving' = Cnd!leaving /\ Cnd!waking' = Cnd!waking
    BY <1>t DEF Cnd!leaving, Cnd!call, Cnd!waking
  <2>8. Cnd!Abstract!Wait(c, p_mutex[c])
    BY <2>1, <2>6, <2>7 DEF Cnd!Abstract!Wait
  <2> QED BY <2>1, <2>8 DEF Cnd!Abstract!Next
<1>5. ASSUME NEW c \in Callers, Cnd!WaitAndUnlock(c) PROVE Goal
  <2> USE <1>5 DEF Cnd!WaitAndUnlock, Cnd!callVars
  <2>1. c_lock = c
    BY DEF CndInv, CndLocked, CndHolding
  <2>2. Cnd!queue' = Cnd!queue
    BY <1>t, <2>1 DEF Cnd!queue
  <2>3. Cnd!waiters' = Cnd!waiters
    BY <2>2, CndView
  <2>4. Cnd!leaving' = Cnd!leaving /\ Cnd!waking' = Cnd!waking
    BY <1>t DEF Cnd!leaving, Cnd!call, Cnd!waking
  <2> QED BY <2>3, <2>4 DEF Cnd!Abstract!vars
<1>6. ASSUME NEW c \in Callers, Cnd!TimeOut(c) PROVE Goal
  <2> USE <1>6 DEF Cnd!TimeOut
  <2>1. PICK i \in DOMAIN c_waitlist : c_waitlist[i] = c /\ c_waitlist' = Without(c_waitlist, i)
    BY DEF Cnd!RemoveAt, Without
  <2>2. i \in 1..Len(c_waitlist)
    BY <1>q, <2>1
  <2>3. Cnd!queue = c_waitlist /\ Cnd!queue' = c_waitlist'
    BY DEF Cnd!queue
  <2>4. Cnd!call' = Cnd!call /\ Cnd!call[c] = <<c, p_mutex[c]>> /\ p_mutex[c] \in Mutexes
    BY DEF Cnd!call, CndInv, CndMutex
  <2>5. Cnd!waiters' = Along(Cnd!queue', Cnd!call')
    BY DEF Cnd!waiters, Along
  <2>6. /\ i \in DOMAIN Along(c_waitlist, Cnd!call)
        /\ Along(c_waitlist, Cnd!call)[i] = Cnd!call[c_waitlist[i]]
        /\ Along(Without(c_waitlist, i), Cnd!call) = Without(Along(c_waitlist, Cnd!call), i)
    BY <1>q, <2>2, AlongLen, AlongWithout
  <2>7. i \in DOMAIN Cnd!waiters /\ Cnd!waiters[i] = <<c, p_mutex[c]>>
        /\ Cnd!waiters' = Without(Cnd!waiters, i)
    BY <1>q, <2>1, <2>2, <2>3, <2>4, <2>5, <2>6
  <2>8. Cnd!leaving' = Cnd!leaving \cup {<<c, p_mutex[c]>>} /\ Cnd!waking' = Cnd!waking
    BY <1>t DEF Cnd!leaving, Cnd!call, Cnd!waking
  <2>9. Cnd!Abstract!TimeOut(<<c, p_mutex[c]>>)
    BY <2>7, <2>8 DEF Cnd!Abstract!TimeOut, Cnd!Abstract!RemoveAt, Without
  <2> QED BY <2>4, <2>9 DEF Cnd!Abstract!Next
<1>7. ASSUME NEW c \in Callers, Cnd!LockAgain(c) PROVE Goal
  <2> USE <1>7 DEF Cnd!LockAgain, Cnd!condVars
  <2>1. p_mutex[c] \in Mutexes /\ p_mutex' = p_mutex
    BY DEF CndInv, CndMutex
  <2>2. Cnd!queue' = Cnd!queue
    BY <1>t DEF Cnd!queue
  <2>3. Cnd!waiters' = Cnd!waiters
    BY <2>1, <2>2, CndView
  <2>4. /\ Cnd!leaving' = Cnd!leaving \ {<<c, p_mutex[c]>>} /\ <<c, p_mutex[c]>> \in Cnd!leaving
        /\ Cnd!waking' = Cnd!waking
    BY <1>t, <2>1 DEF Cnd!leaving, Cnd!call, Cnd!waking
  <2>5. Cnd!Abstract!Return(c, p_mutex[c])
    BY <2>3, <2>4 DEF Cnd!Abstract!Return
  <2> QED BY <2>1, <2>5 DEF Cnd!Abstract!Next
<1>8. ASSUME NEW c \in Callers, NEW l \in {"signal", "broadcast"}, Cnd!Begin(c, l) PROVE Goal
  <2> USE <1>8 DEF Cnd!Begin
  <2>1. Cnd!queue' = Cnd!queue /\ p_mutex' = p_mutex /\ c_holder' = c_holder
    BY <1>t DEF Cnd!queue
  <2>2. Cnd!waiters' = Cnd!waiters
    BY <2>1, CndView
  <2>3. /\ Cnd!leaving' = Cnd!leaving /\ Cnd!waking[c] = "no"
        /\ Cnd!waking' = [Cnd!waking EXCEPT ![c] = l]
    BY <1>t DEF Cnd!leaving, Cnd!call, Cnd!waking
  <2>4. Cnd!Abstract!StartWaking(c, l)
    BY <2>1, <2>2, <2>3 DEF Cnd!Abstract!StartWaking
  <2> QED BY <2>4 DEF Cnd!Abstract!Next
<1>9. ASSUME NEW c \in Callers, NEW l \in {"signal", "broadcast"}, c_pc[c] = l,
             Cnd!Signal(c) \/ Cnd!Broadcast(c)
      PROVE  Goal
  <2> USE <1>9 DEF Cnd!condVars, Cnd!callVars
  <2>1. c_lock = c /\ \A d \in Callers : c_pc[d] # "enqueue"
    BY DEF CndInv, CndLocked, CndHolding
  <2>2. Cnd!queue = c_waitlist /\ Cnd!waiters = Along(c_waitlist, Cnd!call) /\ Cnd!waking[c] = l
    BY <1>q, <1>t, <2>1 DEF Cnd!waking
  <2>3. CASE c_waitlist = <<>>
    <3>1. c_pc' = [c_pc EXCEPT ![c] = "release"]
          /\ UNCHANGED <<c_lock, c_waitlist, c_holder, p_mutex>>
      BY <2>3 DEF Cnd!Signal, Cnd!Broadcast
    <3> HIDE <1>9
    <3>2. Cnd!queue' = Cnd!queue
      BY <1>t, <2>1, <2>2, <3>1 DEF Cnd!queue
    <3>3. Cnd!waiters' = Cnd!waiters /\ Cnd!waiters = <<>>
      BY <2>2, <2>3, <3>1, <3>2, CndView DEF Along
    <3>4. Cnd!leaving' = Cnd!leaving /\ Cnd!waking' = [Cnd!waking EXCEPT ![c] = "no"]
      BY <1>9, <1>t, <3>1 DEF Cnd!leaving, Cnd!call, Cnd!waking
    <3>5. Cnd!Abstract!StopWaking(c)
      BY <1>9, <2>2, <3>1, <3>3, <3>4 DEF Cnd!Abstract!StopWaking
    <3> QED BY <3>5 DEF Cnd!Abstract!Next
  <2>4. CASE c_waitlist # <<>>
    <3> DEFINE h == Head(c_waitlist)
    <3>1. /\ c_waitlist' = Tail(c_waitlist) /\ UNCHANGED <<c_lock, c_holder, p_mutex>>
          /\ \/ l = "signal" /\ c_pc' = [c_pc EXCEPT ![c] = "release", ![h] = "relock"]
             \/ l = "broadcast" /\ c_pc' = [c_pc EXCEPT ![h] = "relock"]
      BY <2>4 DEF Cnd!Signal, Cnd!Broadcast, Cnd!WakeFirst
    <3>2. h \in Callers /\ c_pc[h] = "blocked"
      BY <1>q, <2>4, TailLists DEF CndInv, CndListed
    <3>3. /\ Along(c_waitlist, Cnd!call) # <<>> /\ Head(Along(c_waitlist, Cnd!call)) = Cnd!call[h]
          /\ Along(Tail(c_waitlist), Cnd!call) = Tail(Along(c_waitlist, Cnd!call))
      BY <1>q, <2>4, AlongTail
    <3> HIDE <1>9 DEF h
    <3>4. \A d \in Callers : c_pc'[d] # "enqueue"
      BY <1>9, <1>t, <2>1, <3>1, <3>2
    <3>5. Cnd!queue' = c_waitlist' /\ Cnd!call' = Cnd!call
      BY <3>1, <3>4 DEF Cnd!queue, Cnd!call
    <3>6. Cnd!waiters' = Along(Cnd!queue', Cnd!call')
      BY DEF Cnd!waiters, Along
    <3>7. Cnd!waiters # <<>> /\ Head(Cnd!waiters) = Cnd!call[h] /\ Cnd!waiters' = Tail(Cnd!waiters)
      BY <2>2, <3>1, <3>3, <3>5, <3>6
    <3>8. Cnd!leaving' = Cnd!leaving \cup {Cnd!call[h]}
      BY <1>9, <1>t, <3>1, <3>2 DEF Cnd!leaving, Cnd!call
    <3>9. Cnd!waking' = [Cnd!waking EXCEPT ![c] = IF @ = "signal" THEN "no" ELSE @]
      BY <1>9, <1>t, <3>1, <3>2 DEF Cnd!waking
    <3>10. Cnd!Abstract!Wake(c)
      BY <1>9, <2>2, <3>1, <3>7, <3>8, <3>9 DEF Cnd!Abstract!Wake
    <3> QED BY <3>10 DEF Cnd!Abstract!Next
  <2> QED BY <2>3, <2>4
<1>10. ASSUME NEW c \in Callers, Cnd!Release(c) PROVE Goal
  <2> USE <1>10 DEF Cnd!Release, Cnd!callVars
  <2>1. c_lock = c
    BY DEF CndInv, CndLocked, CndHolding
  <2>2. Cnd!queue' = Cnd!queue
    BY <1>t, <2>1 DEF Cnd!queue
  <2>3. Cnd!waiters' = Cnd!waiters
    BY <2>2, CndView
  <2>4. Cnd!leaving' = Cnd!leaving /\ Cnd!waking' = Cnd!waking
    BY <1>t DEF Cnd!leaving, Cnd!call, Cnd!waking
  <2> QED BY <2>3, <2>4 DEF Cnd!Abstract!vars
<1>11. ASSUME NEW c \in Callers, Cnd!Free(c) PROVE Goal
  <2> USE <1>11 DEF Cnd!Free, Cnd!callVars
  <2>1. Cnd!queue' = Cnd!queue
    BY DEF Cnd!queue
  <2>2. Cnd!waiters' = Cnd!waiters
    BY <2>1, CndView
  <2>3. Cnd!leaving' = Cnd!leaving /\ Cnd!waking' = Cnd!waking
    BY DEF Cnd!leaving, Cnd!call, Cnd!waking
  <2> QED BY <2>2, <2>3 DEF Cnd!Abstract!vars
<1>12. ASSUME UNCHANGED Cnd!vars PROVE Goal
  <2>1. Cnd!waiters' = Cnd!waiters /\ Cnd!leaving' = Cnd!leaving /\ Cnd!waking' = Cnd!waking
    BY <1>12 DEF Cnd!vars, Cnd!waiters, Cnd!queue, Cnd!call, Cnd!leaving, Cnd!waking
  <2> QED BY <1>12, <2>1 DEF Cnd!Abstract!vars, Cnd!vars
<1> HIDE DEF Goal
<1>13. ASSUME Cnd!Next PROVE Goal
  <2>1. ASSUME NEW c \in Callers, Cnd!Step(c) PROVE Goal
    <3>1. CASE Cnd!Signal(c) \/ Cnd!Broadcast(c)
      BY <3>1, <1>9 DEF Cnd!Signal, Cnd!Broadcast
    <3> QED BY <2>1, <3>1, <1>1, <1>2, <1>3, <1>4, <1>5, <1>7, <1>8, <1>10, <1>11 DEF Cnd!Step
  <2>2. CASE Cnd!Terminated
    BY <2>2, <1>12 DEF Cnd!Terminated, Cnd!vars
  <2> QED BY <1>13, <2>1, <2>2, <1>6 DEF Cnd!Next
<1> QED BY <1>12, <1>13 DEF Goal

------------------------------------------------------------------------------
(* Futexes of the Pthreads fallback *)

Waiters == FutexWaiters
Waker == Ftx!Waker

FtxObject == [alive : BOOLEAN, mutex : Waiters \cup {Waker, Nobody}, parked : BOOLEAN,
              val : {0, 1}, prev : Waiters \cup {Nobody}, next : Waiters \cup {Nobody, Invalid}]

FtxTypes ==
    /\ plock \in BOOLEAN /\ word \in Waiters \cup {Nobody, Invalid}
    /\ obj \in [Waiters -> FtxObject]
    /\ rounds \in [Waiters \cup {Waker} -> 0..MaxRounds]
    /\ wild = FALSE

------------------------------------------------------------------------------
(* A futex that many wait on *)

MulHolding == {"next", "store", "signal", "unlock"}

\* An object is alive while its owner is in the call, and the owner has the object's mutex
\* until it is blocked.
MulOwned ==
    /\ fpc \in [Waiters \cup {Waker} -> {"idle", "linked", "check", "blocked", "free"}
                                        \cup MulHolding]
    /\ \A w \in Waiters :
         /\ fpc[w] \in {"idle", "linked", "check", "blocked", "free"}
         /\ obj[w].alive <=> fpc[w] # "idle"
         /\ fpc[w] \in {"linked", "check"} => obj[w].mutex = w
         /\ fpc[w] = "free" => obj[w].val = 1
    /\ fpc[Waker] \in {"idle"} \cup MulHolding

\* One of the waiters or the waker has the lock.
MulLocked ==
    /\ fpc[Waker] # "idle" => plock /\ \A w \in Waiters : fpc[w] # "linked"
    /\ \A v, w \in Waiters : fpc[v] = "linked" => plock /\ (fpc[w] = "linked" => v = w)

\* The list: what is linked and not signaled yet, and the first of it.
Pending == {w \in Waiters : obj[w].alive /\ obj[w].val = 0}
First == CASE fpc[Waker] = "idle" -> word
           [] fpc[Waker] \in {"next", "store"} -> cur
           [] OTHER -> nxt

\* The objects that are linked are a list: no two have the same successor, and none has the
\* first.
MulLinked ==
    /\ First \in Pending \cup {Nobody}
    /\ \A w \in Pending : obj[w].next # Nobody => obj[w].next \in Pending \ {First}
    /\ \A v, w \in Pending : obj[v].next = obj[w].next /\ obj[v].next # Nobody => v = w

\* The object that is being signaled belongs to a waiter that cannot leave before the waker
\* gives its mutex back.
MulWaking ==
    fpc[Waker] \in {"store", "signal", "unlock"} =>
      /\ cur \in Waiters /\ fpc[cur] = "blocked" /\ obj[cur].mutex = Waker
      /\ fpc[Waker] = "store" => nxt = obj[cur].next
      /\ fpc[Waker] # "store" => obj[cur].val = 1

FtxMultiple == FtxTypes /\ MulOwned /\ MulLocked /\ MulLinked /\ MulWaking

\* The waiters, the waker, no object and the word of a futex that was woken early are
\* different values.
LEMMA FtxNames ==
  /\ Waker \notin Waiters /\ Nobody \notin Waiters /\ Nobody # Waker
  /\ Invalid \notin Waiters /\ Invalid # Nobody /\ MaxRounds \in Nat /\ Waiters # {}
BY SyncAssumption DEF Ftx!FutexConstants, Ftx!Users, Waiters, Waker

\* Linking, waking and leaving keep the list whole and the object that is being signaled.
LEMMA MulStep == use = "multiple" /\ FtxMultiple /\ Ftx!FutexNext => FtxMultiple'
<1> SUFFICES ASSUME use = "multiple", FtxMultiple, Ftx!FutexNext PROVE FtxMultiple'
  OBVIOUS
<1> USE FtxNames DEF FtxMultiple, Waiters, Waker, Ftx!Users, Ftx!FGoto, Ftx!FAt, Ftx!Begin, Ftx!Finish,
        Ftx!CountersKept, Ftx!barrierVars, Ftx!Touch, Ftx!Alive, MulHolding
<1> DEFINE Inv == FtxTypes /\ MulOwned /\ MulLocked /\ MulLinked /\ MulWaking
<1>1. ASSUME NEW w \in Waiters, Ftx!WaitLink(w) PROVE Inv'
  <2> USE <1>1 DEF Ftx!WaitLink
  <2>1. /\ fpc[w] = "idle" /\ fpc' = [fpc EXCEPT ![w] = "linked"] /\ ~plock /\ plock' = TRUE
        /\ word' = w /\ rounds[w] > 0 /\ rounds' = [rounds EXCEPT ![w] = @ - 1]
        /\ UNCHANGED <<cur, nxt, due>>
    OBVIOUS
  <2>2. /\ fpc[Waker] = "idle" /\ \A v \in Waiters : fpc[v] # "linked"
        /\ word \in Pending \cup {Nobody} /\ w \notin Pending
    BY <2>1 DEF MulLocked, MulOwned, MulLinked, Pending, First
  <2>3. /\ obj' \in [Waiters -> FtxObject]
        /\ obj'[w].alive /\ obj'[w].mutex = w /\ obj'[w].val = 0 /\ obj'[w].next = word
        /\ \A v \in Waiters \ {w} :
             /\ obj'[v].alive = obj[v].alive /\ obj'[v].mutex = obj[v].mutex
             /\ obj'[v].val = obj[v].val /\ obj'[v].next = obj[v].next
    <3>1. obj'[w] = [alive |-> TRUE, mutex |-> w, parked |-> FALSE, val |-> 0,
                     prev |-> Nobody, next |-> word]
      BY DEF Ftx!NewObj
    <3>2. \A v \in Waiters \ {w} : \/ obj'[v] = obj[v]
                                   \/ obj'[v] = [obj[v] EXCEPT !.prev = w]
      OBVIOUS
    <3>3. obj' = [v \in Waiters |-> obj'[v]]
      OBVIOUS
    <3> HIDE <1>1
    <3>4. obj'[w] \in FtxObject
      BY <3>1 DEF FtxTypes, FtxObject
    <3>5. \A v \in Waiters \ {w} :
            /\ obj'[v] \in FtxObject
            /\ obj'[v].alive = obj[v].alive /\ obj'[v].mutex = obj[v].mutex
            /\ obj'[v].val = obj[v].val /\ obj'[v].next = obj[v].next
      <4> SUFFICES ASSUME NEW v \in Waiters \ {w}
                   PROVE  /\ obj'[v] \in FtxObject
                          /\ obj'[v].alive = obj[v].alive /\ obj'[v].mutex = obj[v].mutex
                          /\ obj'[v].val = obj[v].val /\ obj'[v].next = obj[v].next
        OBVIOUS
      <4>1. obj[v] \in FtxObject
        BY DEF FtxTypes
      <4> QED BY ONLY <3>2, <4>1, w \in Waiters DEF FtxObject
    <3>6. obj' \in [Waiters -> FtxObject]
      BY <3>3, <3>4, <3>5
    <3> QED BY <3>1, <3>5, <3>6
  <2>4. wild' = FALSE
    BY <2>2 DEF FtxTypes, Pending
  <2> HIDE <1>1
  <2>5. FtxTypes'
    BY <2>1, <2>3, <2>4 DEF FtxTypes
  <2>6. MulOwned' /\ MulLocked' /\ MulWaking'
    BY <2>1, <2>2, <2>3 DEF MulOwned, MulLocked, MulWaking
  <2>7. Pending' = Pending \cup {w} /\ First' = w /\ First = word
    BY <2>1, <2>2, <2>3 DEF Pending, First, MulOwned
  <2>8. \A v \in Pending : v # w /\ obj'[v].next = obj[v].next
    BY <2>2, <2>3 DEF Pending
  <2>9. MulLinked'
    BY <2>2, <2>3, <2>7, <2>8 DEF MulLinked
  <2> QED BY <2>5, <2>6, <2>9

<1>2. ASSUME NEW w \in Waiters, Ftx!WaitUnlock(w) PROVE Inv'
  <2> USE <1>2 DEF Ftx!WaitUnlock
  <2>1. /\ fpc[w] = "linked" /\ fpc' = [fpc EXCEPT ![w] = "check"] /\ plock' = FALSE
        /\ UNCHANGED <<word, obj, rounds, cur, nxt, wild>>
    OBVIOUS
  <2> HIDE <1>2
  <2>2. FtxTypes' /\ MulOwned' /\ MulLocked' /\ MulWaking'
    BY <2>1 DEF FtxTypes, MulOwned, MulLocked, MulWaking
  <2>3. Pending' = Pending /\ First' = First
    BY <2>1 DEF Pending, First, MulOwned
  <2>4. MulLinked'
    BY <2>1, <2>3 DEF MulLinked
  <2> QED BY <2>2, <2>4
<1>3. ASSUME NEW w \in Waiters, Ftx!WaitLoop(w) PROVE Inv'
  <2> USE <1>3 DEF Ftx!WaitLoop
  <2>1. /\ fpc[w] = "check" /\ obj[w].alive
        /\ fpc' = [fpc EXCEPT ![w] = IF obj[w].val = 0 THEN "blocked" ELSE "free"]
        /\ UNCHANGED <<plock, word, rounds, cur, nxt, wild>>
    BY DEF MulOwned
  <2>2. /\ obj' \in [Waiters -> FtxObject] /\ obj'[w].mutex = Nobody
        /\ \A v \in Waiters :
             /\ obj'[v].alive = obj[v].alive
             /\ v # w => obj'[v].mutex = obj[v].mutex
             /\ obj'[v].val = obj[v].val /\ obj'[v].next = obj[v].next
    BY DEF FtxTypes, FtxObject
  <2> HIDE <1>3
  <2>3. obj[w].val \in {0, 1}
    BY DEF FtxTypes, FtxObject
  <2>4. FtxTypes' /\ MulOwned' /\ MulLocked' /\ MulWaking'
    <3>1. FtxTypes'
      BY <2>1, <2>2, <2>3 DEF FtxTypes
    <3>2. MulOwned'
      BY <2>1, <2>2, <2>3 DEF MulOwned
    <3>3. MulLocked' /\ MulWaking'
      BY <2>1, <2>2, <2>3 DEF MulOwned, MulLocked, MulWaking
    <3> QED BY <3>1, <3>2, <3>3
  <2>5. Pending' = Pending /\ First' = First
    <3>1. Pending' = Pending
      BY <2>1, <2>2 DEF Pending
    <3>2. First' = First
      BY <2>1, <2>2 DEF First, MulOwned
    <3> QED BY <3>1, <3>2
  <2>6. MulLinked'
    BY <2>2, <2>5 DEF MulLinked, Pending
  <2> QED BY <2>4, <2>6
<1>4. ASSUME NEW w \in Waiters, Ftx!Wake(w) PROVE Inv'
  <2> USE <1>4 DEF Ftx!Wake
  <2>1. /\ fpc[w] = "blocked" /\ obj[w].mutex = Nobody
        /\ fpc' = [fpc EXCEPT ![w] = "check"]
        /\ UNCHANGED <<plock, word, rounds, cur, nxt, wild>>
    OBVIOUS
  <2>2. /\ obj' \in [Waiters -> FtxObject] /\ obj'[w].mutex = w
        /\ \A v \in Waiters :
             /\ obj'[v].alive = obj[v].alive
             /\ v # w => obj'[v].mutex = obj[v].mutex
             /\ obj'[v].val = obj[v].val /\ obj'[v].next = obj[v].next
    BY DEF FtxTypes, FtxObject
  <2> HIDE <1>4
  <2>3. FtxTypes' /\ MulOwned' /\ MulLocked' /\ MulWaking'
    <3>1. FtxTypes'
      BY <2>1, <2>2 DEF FtxTypes
    <3>2. MulOwned'
      BY <2>1, <2>2 DEF MulOwned
    <3>3. MulLocked' /\ MulWaking'
      BY <2>1, <2>2 DEF MulOwned, MulLocked, MulWaking
    <3> QED BY <3>1, <3>2, <3>3
  <2>4. Pending' = Pending /\ First' = First
    <3>1. Pending' = Pending
      BY <2>1, <2>2 DEF Pending
    <3>2. First' = First
      BY <2>1, <2>2 DEF First, MulOwned
    <3> QED BY <3>1, <3>2
  <2>5. MulLinked'
    BY <2>2, <2>4 DEF MulLinked, Pending
  <2> QED BY <2>3, <2>5
<1>5. ASSUME NEW w \in Waiters, Ftx!Spurious(w) PROVE Inv'
  <2> USE <1>5 DEF Ftx!Spurious
  <2>1. UNCHANGED <<fpc, plock, word, rounds, cur, nxt, wild>>
    OBVIOUS
  <2>2. /\ obj' \in [Waiters -> FtxObject]
        /\ \A v \in Waiters :
             /\ obj'[v].alive = obj[v].alive /\ obj'[v].mutex = obj[v].mutex
             /\ obj'[v].val = obj[v].val /\ obj'[v].next = obj[v].next
    BY DEF FtxTypes, FtxObject
  <2> HIDE <1>5
  <2>3. FtxTypes' /\ MulOwned' /\ MulLocked' /\ MulWaking'
    BY <2>1, <2>2 DEF FtxTypes, MulOwned, MulLocked, MulWaking
  <2>4. Pending' = Pending /\ First' = First
    BY <2>1, <2>2 DEF Pending, First
  <2>5. MulLinked'
    BY <2>2, <2>4 DEF MulLinked, Pending
  <2> QED BY <2>3, <2>5
<1>6. ASSUME NEW w \in Waiters, Ftx!FreeObj(w) PROVE Inv'
  <2> USE <1>6 DEF Ftx!FreeObj
  <2>1. /\ fpc[w] = "free" /\ fpc' = [fpc EXCEPT ![w] = "idle"] /\ obj[w].val = 1
        /\ UNCHANGED <<plock, word, rounds, cur, nxt, wild>>
    BY DEF MulOwned
  <2>2. /\ obj' \in [Waiters -> FtxObject] /\ ~obj'[w].alive
        /\ \A v \in Waiters \ {w} : obj'[v] = obj[v]
    BY DEF FtxTypes, FtxObject, Ftx!NewObj, Ftx!Freed
  <2> HIDE <1>6
  <2>3. FtxTypes' /\ MulOwned' /\ MulLocked' /\ MulWaking'
    BY <2>1, <2>2 DEF FtxTypes, MulOwned, MulLocked, MulWaking
  <2>4. Pending' = Pending /\ First' = First /\ w \notin Pending
    BY <2>1, <2>2 DEF Pending, First, MulOwned
  <2>5. MulLinked'
    BY <2>2, <2>4 DEF MulLinked, Pending
  <2> QED BY <2>3, <2>5
<1>7. ASSUME Ftx!BroadcastLock PROVE Inv'
  <2> USE <1>7 DEF Ftx!BroadcastLock
  <2>1. /\ fpc[Waker] = "idle" /\ fpc' = [fpc EXCEPT ![Waker] = "next"] /\ ~plock /\ plock' = TRUE
        /\ cur' = word /\ rounds[Waker] > 0 /\ rounds' = [rounds EXCEPT ![Waker] = @ - 1]
        /\ UNCHANGED <<word, obj, nxt, wild>>
    OBVIOUS
  <2> HIDE <1>7
  <2>2. FtxTypes' /\ MulOwned' /\ MulLocked' /\ MulWaking'
    BY <2>1 DEF FtxTypes, MulOwned, MulLocked, MulWaking
  <2>3. Pending' = Pending /\ First' = First
    BY <2>1 DEF Pending, First, MulOwned
  <2>4. MulLinked'
    BY <2>1, <2>3 DEF MulLinked
  <2> QED BY <2>2, <2>4
<1>8. ASSUME Ftx!BroadcastNext PROVE Inv'
  <2> USE <1>8 DEF Ftx!BroadcastNext
  <2>1. CASE cur = Nobody
    <3>1. /\ fpc[Waker] = "next" /\ fpc' = [fpc EXCEPT ![Waker] = "idle"] /\ plock' = FALSE
          /\ word' = Nobody /\ UNCHANGED <<obj, nxt, wild, rounds, cur>>
      BY <2>1
    <3> HIDE <1>8
    <3>2. FtxTypes' /\ MulOwned' /\ MulLocked' /\ MulWaking'
      BY <3>1 DEF FtxTypes, MulOwned, MulLocked, MulWaking
    <3>3. Pending' = Pending /\ First' = Nobody /\ First = Nobody
      BY <2>1, <3>1 DEF Pending, First, MulOwned
    <3>4. MulLinked'
      BY <3>1, <3>3 DEF MulLinked
    <3> QED BY <3>2, <3>4
  <2>2. CASE cur # Nobody
    <3>1. /\ fpc[Waker] = "next" /\ fpc' = [fpc EXCEPT ![Waker] = "store"] /\ obj[cur].mutex = Nobody
          /\ nxt' = obj[cur].next /\ obj' = [obj EXCEPT ![cur].mutex = Waker]
          /\ UNCHANGED <<word, plock, rounds, cur>>
      BY <2>2
    <3>2. First = cur /\ cur \in Pending
      BY <2>2, <3>1 DEF First, MulLinked
    <3>3. wild' = FALSE
      BY <2>2, <3>1, <3>2 DEF FtxTypes, Pending
    <3> HIDE <1>8
    <3>4. fpc[cur] = "blocked"
      BY <3>1, <3>2 DEF MulOwned, Pending
    <3>5. /\ obj' \in [Waiters -> FtxObject] /\ obj'[cur].mutex = Waker
          /\ \A v \in Waiters :
               /\ obj'[v].alive = obj[v].alive
               /\ v # cur => obj'[v].mutex = obj[v].mutex
               /\ obj'[v].val = obj[v].val /\ obj'[v].next = obj[v].next
      BY <3>1, <3>2 DEF FtxTypes, FtxObject, Pending
    <3>6. FtxTypes' /\ MulOwned' /\ MulLocked' /\ MulWaking'
      BY <3>1, <3>2, <3>3, <3>4, <3>5 DEF FtxTypes, MulOwned, MulLocked, MulWaking, Pending
    <3>7. Pending' = Pending /\ First' = First
      BY <3>1, <3>5 DEF Pending, First, MulOwned
    <3>8. MulLinked'
      BY <3>5, <3>7 DEF MulLinked, Pending
    <3> QED BY <3>6, <3>8
  <2> QED BY <2>1, <2>2
<1>9. ASSUME Ftx!SignalStore PROVE Inv'
  <2> USE <1>9 DEF Ftx!SignalStore
  <2>1. /\ fpc[Waker] = "store" /\ fpc' = [fpc EXCEPT ![Waker] = "signal"]
        /\ cur \in Waiters /\ fpc[cur] = "blocked" /\ obj[cur].mutex = Waker /\ nxt = obj[cur].next
        /\ obj[cur].alive /\ UNCHANGED <<plock, word, rounds, cur, nxt>>
    BY DEF MulWaking, MulOwned
  <2>2. wild' = FALSE
    BY <2>1 DEF FtxTypes
  <2>3. /\ obj' \in [Waiters -> FtxObject] /\ obj'[cur].val = 1
        /\ \A v \in Waiters :
             /\ obj'[v].alive = obj[v].alive /\ obj'[v].mutex = obj[v].mutex
             /\ v # cur => obj'[v].val = obj[v].val
             /\ obj'[v].next = obj[v].next
    BY <2>1 DEF FtxTypes, FtxObject
  <2> HIDE <1>9
  <2>4. FtxTypes' /\ MulOwned' /\ MulLocked' /\ MulWaking'
    BY <2>1, <2>2, <2>3 DEF FtxTypes, MulOwned, MulLocked, MulWaking
  <2>5. First = cur /\ cur \in Pending
    BY <2>1 DEF First, MulLinked
  <2>6. Pending' = Pending \ {cur} /\ First' = obj[cur].next
    BY <2>1, <2>3, <2>5 DEF Pending, First, MulOwned
  <2>7. obj[cur].next # Nobody => obj[cur].next \in Pending \ {cur}
    BY <2>5 DEF MulLinked
  <2>8. \A v \in Pending \ {cur} : /\ obj'[v].next = obj[v].next
                                   /\ obj[v].next # Nobody => obj[v].next # obj[cur].next /\ obj[v].next # cur
    BY <2>3, <2>5 DEF MulLinked, Pending
  <2>9. MulLinked'
    BY <2>5, <2>6, <2>7, <2>8 DEF MulLinked
  <2> QED BY <2>4, <2>9
<1>10. ASSUME Ftx!SignalCond PROVE Inv'
  <2> USE <1>10 DEF Ftx!SignalCond
  <2>1. /\ fpc[Waker] = "signal" /\ fpc' = [fpc EXCEPT ![Waker] = "unlock"]
        /\ cur \in Waiters /\ fpc[cur] = "blocked" /\ obj[cur].alive
        /\ UNCHANGED <<plock, word, rounds, cur, nxt>>
    BY DEF MulWaking, MulOwned
  <2>2. wild' = FALSE
    BY <2>1 DEF FtxTypes
  <2>3. /\ obj' \in [Waiters -> FtxObject]
        /\ \A v \in Waiters :
             /\ obj'[v].alive = obj[v].alive /\ obj'[v].mutex = obj[v].mutex
             /\ obj'[v].val = obj[v].val /\ obj'[v].next = obj[v].next
    BY <2>1 DEF FtxTypes, FtxObject
  <2> HIDE <1>10
  <2>4. FtxTypes' /\ MulOwned' /\ MulLocked' /\ MulWaking'
    BY <2>1, <2>2, <2>3 DEF FtxTypes, MulOwned, MulLocked, MulWaking
  <2>5. Pending' = Pending /\ First' = First
    BY <2>1, <2>3 DEF Pending, First, MulOwned
  <2>6. MulLinked'
    BY <2>3, <2>5 DEF MulLinked, Pending
  <2> QED BY <2>4, <2>6
<1>11. ASSUME Ftx!SignalUnlock PROVE Inv'
  <2> USE <1>11 DEF Ftx!SignalUnlock
  <2>1. /\ fpc[Waker] = "unlock" /\ fpc' = [fpc EXCEPT ![Waker] = "next"]
        /\ cur \in Waiters /\ fpc[cur] = "blocked" /\ obj[cur].alive
        /\ cur' = nxt /\ nxt' = Nobody /\ UNCHANGED <<plock, word, rounds>>
    BY DEF MulWaking, MulOwned
  <2>2. wild' = FALSE
    BY <2>1 DEF FtxTypes
  <2>3. /\ obj' \in [Waiters -> FtxObject]
        /\ \A v \in Waiters :
             /\ obj'[v].alive = obj[v].alive
             /\ v # cur => obj'[v].mutex = obj[v].mutex
             /\ obj'[v].val = obj[v].val /\ obj'[v].next = obj[v].next
    BY <2>1 DEF FtxTypes, FtxObject
  <2> HIDE <1>11
  <2>4. FtxTypes' /\ MulOwned' /\ MulLocked' /\ MulWaking'
    <3>1. FtxTypes'
      BY <2>1, <2>2, <2>3 DEF FtxTypes
    <3>2. MulOwned'
      BY <2>1, <2>2, <2>3 DEF MulOwned
    <3>3. MulLocked' /\ MulWaking'
      BY <2>1, <2>2, <2>3 DEF MulOwned, MulLocked, MulWaking
    <3> QED BY <3>1, <3>2, <3>3
  <2>5. Pending' = Pending /\ First' = First
    <3>1. Pending' = Pending
      BY <2>1, <2>3 DEF Pending
    <3>2. First' = First
      BY <2>1, <2>3 DEF First, MulOwned
    <3> QED BY <3>1, <3>2
  <2>6. MulLinked'
    BY <2>3, <2>5 DEF MulLinked, Pending
  <2> QED BY <2>4, <2>6
<1> HIDE DEF FtxMultiple, Inv
<1>12. ASSUME NEW w \in Waiters, Ftx!WaiterNext(w) \/ Ftx!Spurious(w) PROVE Inv'
  <2>1. CASE \/ Ftx!TimedWake(w) \/ Ftx!TimedUnlock(w) \/ Ftx!TimedLook(w) \/ Ftx!TimedUnlink(w)
             \/ Ftx!Suspend(w) \/ Ftx!SuspendOver(w)
             \/ Ftx!BarrierEnter(w) \/ Ftx!BarrierLast(w) \/ Ftx!BarrierSpin(w)
    BY <2>1 DEF Ftx!TimedWake, Ftx!TimedUnlock, Ftx!TimedLook, Ftx!TimedUnlink, Ftx!Suspend,
                Ftx!SuspendOver, Ftx!BarrierEnter, Ftx!BarrierLast, Ftx!BarrierSpin
  <2> QED BY <1>12, <2>1, <1>1, <1>2, <1>3, <1>4, <1>5, <1>6 DEF Ftx!WaiterNext
<1>13. ASSUME Ftx!WakerNext PROVE Inv'
  <2>1. ~Ftx!Resume
    BY DEF Ftx!Resume
  <2> QED BY <1>13, <2>1, <1>7, <1>8, <1>9, <1>10, <1>11 DEF Ftx!WakerNext
<1>14. ~Ftx!SingleInit /\ ~Ftx!BarrierCreate /\ ~Ftx!BarrierFree
  BY DEF Ftx!SingleInit, Ftx!BarrierCreate, Ftx!BarrierFree
<1> QED BY <1>12, <1>13, <1>14 DEF Ftx!FutexNext, FtxMultiple, Inv

------------------------------------------------------------------------------
(* A futex that one thread waits on *)

Sus == Ftx!Suspender

SngTypes ==
    /\ FtxTypes
    /\ fpc \in [Waiters \cup {Waker} ->
                {"idle", "load", "over", "swap", "check", "blocked", "free",
                 "lock", "store", "signal", "unlock"}]
    /\ \A w \in Waiters \ {Sus} : fpc[w] = "idle"
    /\ fpc[Sus] \in {"idle", "load", "over", "swap", "check", "blocked", "free"}
    /\ fpc[Waker] \in {"idle", "load", "swap", "lock", "store", "signal", "unlock"}

\* The object is alive while its owner needs it, and the owner has its mutex until it is
\* blocked.
SngOwned ==
    /\ obj[Sus].alive <=> fpc[Sus] \in {"swap", "check", "blocked", "free"}
    /\ fpc[Sus] \in {"swap", "check"} => obj[Sus].mutex = Sus

\* Which of the two calls on the futex came first, and what the word says of it.
SngCalls ==
    LET s == fpc[Sus]  r == fpc[Waker]
    IN \/ /\ rounds[Waker] = rounds[Sus] + 1 /\ r = "idle"
          /\ \/ word = Nobody /\ s \in {"load", "swap"}
             \/ word = Sus /\ s \in {"check", "blocked"}
       \/ /\ rounds[Sus] = rounds[Waker] + 1 /\ s = "idle"
          /\ \/ word = Nobody /\ r \in {"load", "swap"}
             \/ word = Invalid /\ r = "idle"
       \/ /\ rounds[Sus] = rounds[Waker]
          /\ \/ word = Nobody /\ s = "idle" /\ r = "idle"
             \/ word = Nobody /\ s \in {"load", "swap"} /\ r \in {"load", "swap"}
             \/ word = Invalid /\ s \in {"load", "over", "swap", "free", "idle"} /\ r = "idle"
             \/ word = Sus /\ s \in {"check", "blocked"} /\ r \in {"load", "swap", "lock"}
             \/ word = Sus /\ s = "blocked" /\ r \in {"store", "signal", "unlock"}
             \/ word = Sus /\ s \in {"check", "blocked", "free", "idle"} /\ r = "idle"

\* Until the waker has stored 1 the owner stays, and while the waker has the object's
\* mutex too.
SngWaking ==
    /\ word = Sus /\ (fpc[Waker] \in {"load", "swap", "lock", "store"} \/ rounds[Waker] = rounds[Sus] + 1)
         => obj[Sus].val = 0
    /\ fpc[Sus] = "swap" => obj[Sus].val = 0
    /\ fpc[Waker] \in {"lock", "store", "signal", "unlock"} => cur = Sus
    /\ fpc[Waker] \in {"store", "signal", "unlock"} => obj[Sus].mutex = Waker

FtxSingle == SngTypes /\ SngOwned /\ SngCalls /\ SngWaking

\* Suspending and resuming, each by one thread, keep the object until both are done.
LEMMA SngStep == use = "single" /\ FtxSingle /\ Ftx!FutexNext => FtxSingle'
<1> SUFFICES ASSUME use = "single", FtxSingle, Ftx!FutexNext PROVE FtxSingle'
  OBVIOUS
<1>0. Sus \in Waiters
  BY FtxNames DEF Sus, Ftx!Suspender, Waiters
<1>a. Ftx!Suspender = Sus
  BY DEF Sus
<1> USE FtxNames, <1>0, <1>a DEF FtxSingle, Waiters, Waker, Ftx!Users, Ftx!FGoto, Ftx!FAt,
        Ftx!Begin, Ftx!Finish, Ftx!CountersKept, Ftx!barrierVars, Ftx!Touch, Ftx!Alive, Ftx!MayCall
<1> DEFINE Inv == SngTypes /\ SngOwned /\ SngCalls /\ SngWaking
<1>1. ASSUME NEW w \in Waiters, Ftx!WaitLoop(w) PROVE Inv'
  <2> USE <1>1 DEF Ftx!WaitLoop
  <2>1. /\ w = Sus /\ fpc[w] = "check"
        /\ fpc' = [fpc EXCEPT ![w] = IF obj[w].val = 0 THEN "blocked" ELSE "free"]
        /\ UNCHANGED <<plock, word, rounds, cur, nxt, wild>>
    BY DEF SngTypes
  <2>2. /\ obj' \in [Waiters -> FtxObject] /\ obj'[w].mutex = Nobody
        /\ obj'[w].alive = obj[w].alive /\ obj'[w].val = obj[w].val
    BY DEF SngTypes, FtxTypes, FtxObject
  <2>3. obj[w].val \in {0, 1}
    BY DEF SngTypes, FtxTypes, FtxObject
  <2> HIDE <1>1
  <2>4. SngTypes'
    BY <2>1, <2>2 DEF SngTypes, FtxTypes
  <2>5. SngOwned' /\ SngWaking'
    BY <2>1, <2>2, <2>3 DEF SngTypes, SngOwned, SngWaking, SngCalls
  <2>6. SngCalls'
    BY <2>1, <2>2, <2>3 DEF SngTypes, SngCalls, SngWaking
  <2> QED BY <2>4, <2>5, <2>6
<1>2. ASSUME NEW w \in Waiters, Ftx!Wake(w) PROVE Inv'
  <2> USE <1>2 DEF Ftx!Wake
  <2>1. /\ w = Sus /\ fpc[w] = "blocked" /\ obj[w].mutex = Nobody
        /\ fpc' = [fpc EXCEPT ![w] = "check"]
        /\ UNCHANGED <<plock, word, rounds, cur, nxt, wild>>
    BY DEF SngTypes
  <2>2. /\ obj' \in [Waiters -> FtxObject] /\ obj'[w].mutex = w
        /\ obj'[w].alive = obj[w].alive /\ obj'[w].val = obj[w].val
    BY DEF SngTypes, FtxTypes, FtxObject
  <2> HIDE <1>2
  <2>3. SngTypes'
    BY <2>1, <2>2 DEF SngTypes, FtxTypes
  <2>4. SngOwned' /\ SngWaking'
    BY <2>1, <2>2 DEF SngTypes, SngOwned, SngWaking
  <2>5. SngCalls'
    BY <2>1, <2>2 DEF SngTypes, SngCalls, SngWaking
  <2> QED BY <2>3, <2>4, <2>5
<1>3. ASSUME NEW w \in Waiters, Ftx!Spurious(w) PROVE Inv'
  <2> USE <1>3 DEF Ftx!Spurious
  <2>1. w = Sus /\ UNCHANGED <<fpc, plock, word, rounds, cur, nxt, wild>>
    BY DEF SngTypes
  <2>2. /\ obj' \in [Waiters -> FtxObject]
        /\ obj'[Sus].alive = obj[Sus].alive /\ obj'[Sus].val = obj[Sus].val
        /\ obj'[Sus].mutex = obj[Sus].mutex
    <3>1. obj' = [obj EXCEPT ![Sus].parked = FALSE] /\ obj \in [Waiters -> FtxObject]
      BY <2>1 DEF SngTypes, FtxTypes
    <3> QED BY ONLY <3>1, <1>0 DEF FtxObject
  <2> HIDE <1>3
  <2> QED BY <2>1, <2>2 DEF SngTypes, FtxTypes, SngOwned, SngWaking, SngCalls
<1>4. ASSUME NEW w \in Waiters, Ftx!FreeObj(w) PROVE Inv'
  <2> USE <1>4 DEF Ftx!FreeObj
  <2>1. /\ w = Sus /\ fpc[w] = "free" /\ fpc' = [fpc EXCEPT ![w] = "idle"]
        /\ UNCHANGED <<plock, word, rounds, cur, nxt, wild>>
    BY DEF SngTypes
  <2>2. obj' \in [Waiters -> FtxObject] /\ ~obj'[w].alive /\ obj'[w].val = 0
    BY DEF SngTypes, FtxTypes, FtxObject, Ftx!NewObj, Ftx!Freed
  <2> HIDE <1>4
  <2>3. SngTypes'
    BY <2>1, <2>2 DEF SngTypes, FtxTypes
  <2>4. SngOwned' /\ SngCalls'
    BY <2>1, <2>2 DEF SngTypes, SngOwned, SngCalls
  <2>5. SngWaking'
    BY <2>1, <2>2 DEF SngTypes, SngWaking, SngCalls
  <2> QED BY <2>3, <2>4, <2>5
<1>5. ASSUME NEW w \in Waiters, Ftx!Suspend(w) PROVE Inv'
  <2> USE <1>5 DEF Ftx!Suspend
  <2>1. CASE Ftx!Begin(w, "single", "load") /\ w = Sus /\ Ftx!MayCall(w, Ftx!Waker)
             /\ UNCHANGED <<due, word, obj>>
    <3>1. /\ fpc[Sus] = "idle" /\ fpc' = [fpc EXCEPT ![Sus] = "load"]
          /\ rounds[Sus] > 0 /\ rounds' = [rounds EXCEPT ![Sus] = @ - 1]
          /\ rounds[Sus] = rounds[Waker] + 1 \/ (rounds[Sus] = rounds[Waker] /\ word = Nobody)
          /\ UNCHANGED <<plock, word, obj, cur, nxt, wild>>
      BY <2>1
    <3> HIDE <1>5
    <3>2. /\ rounds[Sus] \in Nat /\ rounds[Waker] \in Nat /\ rounds'[Waker] = rounds[Waker]
          /\ rounds'[Sus] = rounds[Sus] - 1
      BY <3>1 DEF SngTypes, FtxTypes
    <3>3. SngTypes'
      BY <3>1 DEF SngTypes, FtxTypes
    <3>4. SngCalls'
      BY <3>1, <3>2 DEF SngTypes, SngCalls
    <3>5. SngOwned' /\ SngWaking'
      BY <3>1, <3>2 DEF SngTypes, SngOwned, SngWaking, SngCalls
    <3> QED BY <3>3, <3>4, <3>5
  <2>2. CASE Ftx!FAt(w, "single", "load") /\ word # Nobody
    <3>1. /\ w = Sus /\ fpc[Sus] = "load" /\ fpc' = [fpc EXCEPT ![Sus] = "over"]
          /\ UNCHANGED <<plock, word, obj, cur, nxt, wild, rounds>>
      BY <2>2 DEF SngTypes
    <3> HIDE <1>5
    <3>2. SngTypes'
      BY <3>1 DEF SngTypes, FtxTypes
    <3>3. SngOwned' /\ SngWaking'
      BY <3>1 DEF SngTypes, SngOwned, SngWaking
    <3>4. SngCalls'
      BY <2>2, <3>1 DEF SngTypes, SngCalls
    <3> QED BY <3>2, <3>3, <3>4
  <2>3. CASE Ftx!FAt(w, "single", "load") /\ word = Nobody
    <3>1. /\ w = Sus /\ fpc[Sus] = "load" /\ fpc' = [fpc EXCEPT ![Sus] = "swap"]
          /\ UNCHANGED <<plock, word, cur, nxt, wild, rounds>>
      BY <2>3 DEF SngTypes
    <3>2. obj' \in [Waiters -> FtxObject] /\ obj'[Sus].alive /\ obj'[Sus].mutex = Sus /\ obj'[Sus].val = 0
      <4>1. obj' = [obj EXCEPT ![Sus] = [alive |-> TRUE, mutex |-> Sus, parked |-> FALSE,
                                         val |-> 0, prev |-> Nobody, next |-> Nobody]]
        BY <2>3, <3>1 DEF Ftx!NewObj
      <4>2. obj \in [Waiters -> FtxObject]
        BY DEF SngTypes, FtxTypes
      <4> QED BY ONLY <4>1, <4>2, <1>0 DEF FtxObject
    <3> HIDE <1>5
    <3>3. SngTypes'
      BY <3>1, <3>2 DEF SngTypes, FtxTypes
    <3>4. SngOwned' /\ SngWaking'
      BY <2>3, <3>1, <3>2 DEF SngTypes, SngOwned, SngWaking, SngCalls
    <3>5. SngCalls'
      BY <2>3, <3>1 DEF SngTypes, SngCalls
    <3> QED BY <3>3, <3>4, <3>5
  <2>4. CASE Ftx!FAt(w, "single", "swap") /\ word = Nobody
    <3>1. /\ w = Sus /\ fpc[Sus] = "swap" /\ fpc' = [fpc EXCEPT ![Sus] = "check"]
          /\ word' = Sus /\ UNCHANGED <<plock, obj, cur, nxt, wild, rounds>>
      BY <2>4 DEF SngTypes
    <3> HIDE <1>5
    <3>2. SngTypes'
      BY <3>1 DEF SngTypes, FtxTypes
    <3>3. SngOwned' /\ SngWaking'
      BY <3>1 DEF SngTypes, SngOwned, SngWaking
    <3>4. SngCalls'
      BY <2>4, <3>1 DEF SngTypes, SngCalls
    <3> QED BY <3>2, <3>3, <3>4
  <2>5. CASE Ftx!FAt(w, "single", "swap") /\ word # Nobody
    <3>1. /\ w = Sus /\ fpc[Sus] = "swap" /\ fpc' = [fpc EXCEPT ![Sus] = "free"]
          /\ UNCHANGED <<plock, word, cur, nxt, wild, rounds>>
      BY <2>5 DEF SngTypes
    <3>2. obj' \in [Waiters -> FtxObject] /\ obj'[Sus].alive = obj[Sus].alive /\ obj'[Sus].val = obj[Sus].val
      BY <2>5, <3>1 DEF SngTypes, FtxTypes, FtxObject
    <3> HIDE <1>5
    <3>3. word = Invalid /\ fpc[Waker] = "idle" /\ rounds[Sus] = rounds[Waker]
      BY <2>5, <3>1 DEF SngTypes, FtxTypes, SngCalls
    <3>4. SngTypes'
      BY <3>1, <3>2 DEF SngTypes, FtxTypes
    <3>5. SngOwned' /\ SngCalls' /\ SngWaking'
      BY <3>1, <3>2, <3>3 DEF SngTypes, SngOwned, SngWaking, SngCalls
    <3> QED BY <3>4, <3>5
  <2> QED BY <2>1, <2>2, <2>3, <2>4, <2>5
<1>6. ASSUME NEW w \in Waiters, Ftx!SuspendOver(w) PROVE Inv'
  <2> USE <1>6 DEF Ftx!SuspendOver
  <2>1. /\ w = Sus /\ fpc[w] = "over" /\ fpc' = [fpc EXCEPT ![w] = "idle"]
        /\ UNCHANGED <<plock, word, obj, rounds, cur, nxt, wild>>
    BY DEF SngTypes
  <2> HIDE <1>6
  <2>2. SngTypes' /\ SngOwned'
    BY <2>1 DEF SngTypes, FtxTypes, SngOwned
  <2>3. SngCalls' /\ SngWaking'
    BY <2>1 DEF SngTypes, SngCalls, SngWaking
  <2> QED BY <2>2, <2>3
<1>7. ASSUME Ftx!Resume PROVE Inv'
  <2> USE <1>7 DEF Ftx!Resume
  <2>1. CASE Ftx!Begin(Ftx!Waker, "single", "load") /\ Ftx!MayCall(Ftx!Waker, Ftx!Suspender)
             /\ UNCHANGED <<due, word, cur, wild, obj>>
    <3>1. /\ fpc[Waker] = "idle" /\ fpc' = [fpc EXCEPT ![Waker] = "load"]
          /\ rounds[Waker] > 0 /\ rounds' = [rounds EXCEPT ![Waker] = @ - 1]
          /\ rounds[Waker] = rounds[Sus] + 1 \/ (rounds[Sus] = rounds[Waker] /\ word = Nobody)
          /\ UNCHANGED <<plock, word, obj, cur, nxt, wild>>
      BY <2>1
    <3> HIDE <1>7
    <3>2. /\ rounds[Sus] \in Nat /\ rounds[Waker] \in Nat /\ rounds'[Sus] = rounds[Sus]
          /\ rounds'[Waker] = rounds[Waker] - 1
      BY <3>1 DEF SngTypes, FtxTypes
    <3>3. SngTypes'
      BY <3>1 DEF SngTypes, FtxTypes
    <3>4. SngCalls'
      BY <3>1, <3>2 DEF SngTypes, SngCalls
    <3>5. SngOwned' /\ SngWaking'
      BY <3>1, <3>2 DEF SngTypes, SngOwned, SngWaking, SngCalls
    <3> QED BY <3>3, <3>4, <3>5
  <2>2. CASE fpc[Waker] = "load" /\ word = Nobody
    <3>1. /\ fpc' = [fpc EXCEPT ![Waker] = "swap"]
          /\ UNCHANGED <<plock, word, obj, cur, nxt, wild, rounds>>
      BY <2>2
    <3> HIDE <1>7
    <3>2. SngTypes' /\ SngOwned'
      BY <3>1 DEF SngTypes, FtxTypes, SngOwned
    <3>3. SngCalls' /\ SngWaking'
      BY <2>2, <3>1 DEF SngTypes, SngCalls, SngWaking
    <3> QED BY <3>2, <3>3
  <2>3. CASE fpc[Waker] \in {"load", "swap"} /\ word # Nobody
    <3>1. /\ fpc' = [fpc EXCEPT ![Waker] = "lock"] /\ cur' = word
          /\ UNCHANGED <<plock, word, obj, nxt, wild, rounds>>
      BY <2>3
    <3> HIDE <1>7
    <3>2. word = Sus
      BY <2>3 DEF SngTypes, FtxTypes, SngCalls
    <3>3. SngTypes' /\ SngOwned'
      BY <3>1 DEF SngTypes, FtxTypes, SngOwned
    <3>4. SngCalls' /\ SngWaking'
      BY <2>3, <3>1, <3>2 DEF SngTypes, SngCalls, SngWaking
    <3> QED BY <3>3, <3>4
  <2>4. CASE fpc[Waker] = "swap" /\ word = Nobody
    <3>1. /\ fpc' = [fpc EXCEPT ![Waker] = "idle"] /\ word' = Invalid
          /\ UNCHANGED <<plock, obj, cur, nxt, wild, rounds>>
      BY <2>4
    <3> HIDE <1>7
    <3>2. SngTypes' /\ SngOwned'
      BY <3>1 DEF SngTypes, FtxTypes, SngOwned
    <3>3. SngCalls' /\ SngWaking'
      BY <2>4, <3>1 DEF SngTypes, SngCalls, SngWaking
    <3> QED BY <3>2, <3>3
  <2>5. CASE fpc[Waker] = "lock"
    <3>1. /\ fpc' = [fpc EXCEPT ![Waker] = "store"] /\ obj[cur].mutex = Nobody
          /\ obj' = [obj EXCEPT ![cur].mutex = Waker] /\ cur = Sus
          /\ UNCHANGED <<plock, word, cur, nxt, rounds>>
      BY <2>5 DEF SngWaking
    <3>2. fpc[Sus] = "blocked" /\ obj[Sus].alive /\ word = Sus
      BY <2>5, <3>1 DEF SngTypes, SngCalls, SngOwned
    <3>3. wild' = FALSE
      BY <2>5, <3>1, <3>2 DEF SngTypes, FtxTypes
    <3> HIDE <1>7
    <3>4. /\ obj' \in [Waiters -> FtxObject] /\ obj'[Sus].mutex = Waker
          /\ obj'[Sus].alive = obj[Sus].alive /\ obj'[Sus].val = obj[Sus].val
      BY <3>1 DEF SngTypes, FtxTypes, FtxObject
    <3>5. SngTypes' /\ SngOwned'
      BY <2>5, <3>1, <3>2, <3>3, <3>4 DEF SngTypes, FtxTypes, SngOwned
    <3>6. SngCalls' /\ SngWaking'
      BY <2>5, <3>1, <3>2, <3>4 DEF SngTypes, SngCalls, SngWaking
    <3> QED BY <3>5, <3>6
  <2> QED BY <2>1, <2>2, <2>3, <2>4, <2>5
<1>8. ASSUME NEW l \in {"store", "signal", "unlock"}, fpc[Waker] = l,
             Ftx!SignalStore \/ Ftx!SignalCond \/ Ftx!SignalUnlock
      PROVE  Inv'
  <2>1. cur = Sus /\ word = Sus /\ fpc[Sus] = "blocked" /\ obj[Sus].alive /\ obj[Sus].mutex = Waker
        /\ rounds[Sus] = rounds[Waker]
    BY <1>8 DEF SngWaking, SngOwned, SngCalls
  <2>2. /\ wild' = FALSE
        /\ fpc' = [fpc EXCEPT ![Waker] = IF l = "store" THEN "signal"
                                         ELSE IF l = "signal" THEN "unlock" ELSE "idle"]
        /\ l # "unlock" => cur' = cur
        /\ UNCHANGED <<plock, word, rounds>>
        /\ \/ obj' = [obj EXCEPT ![Sus].val = 1] \/ obj' = [obj EXCEPT ![Sus].parked = FALSE]
           \/ l = "unlock" /\ obj' = [obj EXCEPT ![Sus].mutex = Nobody]
    <3>0. ~wild
      BY DEF SngTypes, FtxTypes
    <3>1. CASE Ftx!SignalStore
      BY <1>8, <2>1, <3>0, <3>1 DEF Ftx!SignalStore
    <3>2. CASE Ftx!SignalCond
      BY <1>8, <2>1, <3>0, <3>2 DEF Ftx!SignalCond
    <3>3. CASE Ftx!SignalUnlock
      BY <1>8, <2>1, <3>0, <3>3 DEF Ftx!SignalUnlock
    <3> QED BY <1>8, <3>1, <3>2, <3>3
  <2>3. /\ obj' \in [Waiters -> FtxObject] /\ obj'[Sus].alive
        /\ l # "unlock" => obj'[Sus].mutex = Waker
    <3>1. obj \in [Waiters -> FtxObject]
      BY DEF SngTypes, FtxTypes
    <3>2. CASE obj' = [obj EXCEPT ![Sus].val = 1]
      BY ONLY <2>1, <3>1, <3>2, <1>0 DEF FtxObject
    <3>3. CASE obj' = [obj EXCEPT ![Sus].parked = FALSE]
      BY ONLY <2>1, <3>1, <3>3, <1>0 DEF FtxObject
    <3>4. CASE l = "unlock" /\ obj' = [obj EXCEPT ![Sus].mutex = Nobody]
      BY ONLY <2>1, <3>1, <3>4, <1>0 DEF FtxObject
    <3> QED BY <2>2, <3>2, <3>3, <3>4
  <2>4. SngTypes' /\ SngOwned'
    BY <1>8, <2>1, <2>2, <2>3 DEF SngTypes, FtxTypes, SngOwned
  <2>5. SngCalls' /\ SngWaking'
    BY <1>8, <2>1, <2>2, <2>3 DEF SngTypes, FtxTypes, SngCalls, SngWaking
  <2> QED BY <2>4, <2>5
<1>9. ASSUME Ftx!SingleInit PROVE Inv'
  <2>1. /\ word # Nobody /\ word' = Nobody /\ fpc[Sus] = "idle" /\ fpc[Waker] = "idle"
        /\ rounds[Sus] = rounds[Waker]
        /\ UNCHANGED <<plock, obj, fpc, cur, nxt, wild, rounds>>
    BY <1>9 DEF Ftx!SingleInit
  <2> QED BY <2>1 DEF SngTypes, FtxTypes, SngOwned, SngCalls, SngWaking
<1> HIDE DEF FtxSingle, Inv
<1>10. ASSUME NEW w \in Waiters, Ftx!WaiterNext(w) \/ Ftx!Spurious(w) PROVE Inv'
  <2>1. CASE Ftx!WaitUnlock(w)
    BY <2>1 DEF Ftx!WaitUnlock, FtxSingle, SngTypes
  <2>2. CASE \/ Ftx!WaitLink(w) \/ Ftx!TimedWake(w) \/ Ftx!TimedUnlock(w) \/ Ftx!TimedLook(w)
             \/ Ftx!TimedUnlink(w)
             \/ Ftx!BarrierEnter(w) \/ Ftx!BarrierLast(w) \/ Ftx!BarrierSpin(w)
    BY <2>2 DEF Ftx!WaitLink, Ftx!TimedWake, Ftx!TimedUnlock, Ftx!TimedLook, Ftx!TimedUnlink,
                Ftx!BarrierEnter, Ftx!BarrierLast, Ftx!BarrierSpin
  <2> QED BY <1>10, <2>1, <2>2, <1>1, <1>2, <1>3, <1>4, <1>5, <1>6 DEF Ftx!WaiterNext
<1>11. ASSUME Ftx!WakerNext PROVE Inv'
  <2>1. ~Ftx!BroadcastLock /\ ~Ftx!BroadcastNext
    BY DEF Ftx!BroadcastLock, Ftx!BroadcastNext, FtxSingle, SngTypes
  <2>2. CASE Ftx!SignalStore \/ Ftx!SignalCond \/ Ftx!SignalUnlock
    <3>1. fpc[Waker] \in {"store", "signal", "unlock"}
      BY <2>2 DEF Ftx!SignalStore, Ftx!SignalCond, Ftx!SignalUnlock
    <3> QED BY <2>2, <3>1, <1>8
  <2> QED BY <1>11, <2>1, <2>2, <1>7 DEF Ftx!WakerNext
<1>12. ~Ftx!BarrierCreate /\ ~Ftx!BarrierFree
  BY DEF Ftx!BarrierCreate, Ftx!BarrierFree
<1> QED BY <1>9, <1>10, <1>11, <1>12 DEF Ftx!FutexNext, FtxSingle, Inv

------------------------------------------------------------------------------
(* The barrier of execution streams *)

Ahead(k) == {w \in Waiters : MaxRounds - rounds[w] = k + 1}

\* Every waiter has entered k rounds, or k + 1 and is still inside; the counter is the
\* number of those.
RoundsAre(k) ==
    /\ \A w \in Waiters \ Ahead(k) : MaxRounds - rounds[w] = k
    /\ \A w \in Ahead(k) : fpc[w] = "inside" \/ (fpc[w] = "spin" /\ curTag[w] = barrier.tag)
    /\ barrier.counter = Cardinality(Ahead(k))

FtxBarrier ==
    /\ rounds \in [Waiters \cup {Waker} -> 0..MaxRounds] /\ wild = FALSE
    /\ fpc \in [Waiters \cup {Waker} -> {"idle", "inside", "spin"}] /\ fpc[Waker] = "idle"
    /\ curTag \in [Waiters -> Nat]
    /\ \A w \in Waiters : fpc[w] = "inside" => plock /\ barrier # Nobody
    /\ \A v, w \in Waiters : fpc[v] = "inside" /\ fpc[w] = "inside" => v = w
    /\ IF barrier = Nobody
         THEN /\ \A w \in Waiters : fpc[w] = "idle"
              /\ \A v, w \in Waiters : rounds[v] = rounds[w]
         ELSE /\ barrier \in [counter : Nat, tag : Nat]
              /\ \E k \in Nat : RoundsAre(k) /\ \A w \in Waiters \ Ahead(k) : fpc[w] # "inside"

\* The waiters of a barrier of execution streams are finitely many.
LEMMA WaitersFinite ==
  /\ IsFiniteSet(Waiters) /\ Cardinality(Waiters) \in Nat
  /\ Ftx!Cardinality(Waiters) = Cardinality(Waiters)
<1>1. \A S : Ftx!IsFiniteSet(S) <=> IsFiniteSet(S)
  BY DEF IsFiniteSet, Ftx!IsFiniteSet
<1>2. IsFiniteSet(Waiters)
  BY <1>1, SyncAssumption DEF Ftx!FutexConstants, Waiters
<1>3. Ftx!Cardinality(Waiters) = Cardinality(Waiters)
  BY Zenon DEF Cardinality, Ftx!Cardinality
<1> QED BY <1>2, <1>3, FS_CardinalityType

\* A round ends when everybody has entered it.
LEMMA FbrStep == use = "barrier" /\ FtxBarrier /\ Ftx!FutexNext => FtxBarrier'
<1> SUFFICES ASSUME use = "barrier", FtxBarrier, Ftx!FutexNext PROVE FtxBarrier'
  OBVIOUS
<1> USE FtxNames DEF Waker, Ftx!Users, Ftx!FGoto, Ftx!FAt,
        Ftx!Begin, Ftx!Finish, Ftx!CountersKept, Ftx!barrierVars
<1>0. /\ TagModulus \in Nat \ {0} /\ Waiters = FutexWaiters
      /\ Nobody \notin [counter : Nat, tag : Nat]
  BY SyncAssumption DEF Ftx!FutexConstants, Waiters
<1>1. ASSUME NEW w \in Waiters, Ftx!BarrierEnter(w) PROVE FtxBarrier'
  <2> USE <1>1 DEF Ftx!BarrierEnter, FtxBarrier
  <2>1. /\ barrier # Nobody /\ ~plock /\ plock' = TRUE /\ fpc[w] = "idle" /\ rounds[w] > 0
        /\ fpc' = [fpc EXCEPT ![w] = "inside"] /\ rounds' = [rounds EXCEPT ![w] = @ - 1]
        /\ barrier' = [barrier EXCEPT !.counter = @ + 1] /\ UNCHANGED <<wild, curTag>>
    OBVIOUS
  <2>2. PICK k \in Nat : RoundsAre(k) /\ \A v \in Waiters \ Ahead(k) : fpc[v] # "inside"
    BY <2>1
  <2>3. /\ barrier \in [counter : Nat, tag : Nat] /\ barrier'.counter = barrier.counter + 1
        /\ barrier'.tag = barrier.tag /\ barrier' \in [counter : Nat, tag : Nat]
    BY <2>1
  <2>4. \A v \in Waiters : fpc[v] # "inside"
    BY <2>1
  <2>5. /\ rounds' \in [Waiters \cup {Waker} -> 0..MaxRounds] /\ rounds'[w] = rounds[w] - 1
        /\ rounds[w] \in Nat /\ \A v \in Waiters \ {w} : rounds'[v] = rounds[v]
    BY <2>1
  <2>6. w \notin Ahead(k) /\ MaxRounds - rounds[w] = k
    BY <2>1, <2>2 DEF RoundsAre
  <2>7. Ahead(k)' = Ahead(k) \cup {w}
    BY <2>5, <2>6 DEF Ahead
  <2>8. Cardinality(Ahead(k)') = Cardinality(Ahead(k)) + 1
    <3>1. IsFiniteSet(Ahead(k))
      BY WaitersFinite, FS_Subset DEF Ahead
    <3> QED BY ONLY <3>1, <2>6, <2>7, FS_AddElement
  <2>9. RoundsAre(k)'
    <3>1. \A v \in Waiters \ Ahead(k)' : MaxRounds - rounds'[v] = k
      BY <2>2, <2>5, <2>7 DEF RoundsAre
    <3>2. \A v \in Ahead(k)' : fpc'[v] = "inside" \/ (fpc'[v] = "spin" /\ curTag'[v] = barrier'.tag)
      BY <2>1, <2>2, <2>3, <2>7 DEF RoundsAre, Ahead
    <3> QED BY <2>2, <2>3, <2>8, <3>1, <3>2 DEF RoundsAre
  <2>10. \A v \in Waiters \ Ahead(k)' : fpc'[v] # "inside"
    BY <2>1, <2>4, <2>7
  <2>11. barrier' # Nobody
    BY <2>3, <1>0
  <2> HIDE <1>1
  <2> QED BY <2>1, <2>3, <2>4, <2>5, <2>9, <2>10, <2>11
<1>2. ASSUME NEW w \in Waiters, Ftx!BarrierLast(w) PROVE FtxBarrier'
  <2> USE <1>2 DEF Ftx!BarrierLast, FtxBarrier
  <2>1. /\ barrier # Nobody /\ plock' = FALSE /\ fpc[w] = "inside"
        /\ barrier.counter = Cardinality(Waiters)
        /\ fpc' = [fpc EXCEPT ![w] = "idle"]
        /\ barrier' = [counter |-> 0, tag |-> (barrier.tag + 1) % TagModulus]
        /\ UNCHANGED <<wild, curTag, rounds>>
    BY <1>0, WaitersFinite
  <2>2. PICK k \in Nat : RoundsAre(k) /\ \A v \in Waiters \ Ahead(k) : fpc[v] # "inside"
    BY <2>1
  <2>3. (barrier.tag + 1) % TagModulus \in Nat
    BY <1>0, <2>1
  <2>4. Ahead(k) = Waiters
    <3>1. Ahead(k) \in SUBSET Waiters /\ Cardinality(Ahead(k)) = Cardinality(Waiters)
      BY <2>1, <2>2 DEF RoundsAre, Ahead
    <3> QED BY ONLY <3>1, WaitersFinite, FS_Subset
  <2>5. \A v \in Waiters : MaxRounds - rounds'[v] = k + 1 /\ rounds[v] \in Nat
    BY <2>1, <2>4 DEF Ahead
  <2>6. Ahead(k + 1)' = {}
    BY <2>5 DEF Ahead
  <2>7. RoundsAre(k + 1)'
    <3>1. barrier'.counter = Cardinality(Ahead(k + 1)')
      BY <2>1, <2>6, FS_EmptySet
    <3> QED BY <2>5, <2>6, <3>1 DEF RoundsAre
  <2>8. \A v \in Waiters : fpc'[v] # "inside"
    BY <2>1
  <2>9. barrier' # Nobody
    BY <2>1, <2>3, <1>0
  <2> HIDE <1>2
  <2> QED BY <2>1, <2>3, <2>7, <2>8, <2>9
<1>3. ASSUME NEW w \in Waiters, Ftx!BarrierSpin(w) PROVE FtxBarrier'
  <2> USE <1>3 DEF Ftx!BarrierSpin, FtxBarrier
  <2>1. CASE fpc[w] = "inside"
    <3>1. /\ barrier # Nobody /\ curTag' = [curTag EXCEPT ![w] = barrier.tag]
          /\ fpc' = [fpc EXCEPT ![w] = "spin"] /\ plock' = FALSE
          /\ UNCHANGED <<rounds, barrier, wild>>
      BY <2>1
    <3>2. PICK k \in Nat : RoundsAre(k) /\ \A v \in Waiters \ Ahead(k) : fpc[v] # "inside"
      BY <3>1
    <3>3. Ahead(k)' = Ahead(k)
      BY <3>1 DEF Ahead
    <3>4. RoundsAre(k)' /\ \A v \in Waiters : fpc'[v] # "inside"
      BY <2>1, <3>1, <3>2, <3>3 DEF RoundsAre
    <3> HIDE <1>3
    <3> QED BY <3>1, <3>3, <3>4
  <2>2. CASE fpc[w] # "inside"
    <3>1. /\ fpc[w] = "spin" /\ curTag[w] # barrier.tag /\ barrier # Nobody
          /\ fpc' = [fpc EXCEPT ![w] = "idle"]
          /\ UNCHANGED <<rounds, barrier, wild, plock, curTag>>
      BY <2>2
    <3>2. PICK k \in Nat : RoundsAre(k) /\ \A v \in Waiters \ Ahead(k) : fpc[v] # "inside"
      BY <3>1
    <3>3. Ahead(k)' = Ahead(k) /\ w \notin Ahead(k)
      BY <3>1, <3>2 DEF Ahead, RoundsAre
    <3>4. RoundsAre(k)' /\ \A v \in Waiters \ Ahead(k) : fpc'[v] # "inside"
      BY <3>1, <3>2, <3>3 DEF RoundsAre
    <3> HIDE <1>3
    <3> QED BY <3>1, <3>3, <3>4
  <2> QED BY <2>1, <2>2
<1>4. ASSUME Ftx!BarrierCreate PROVE FtxBarrier'
  <2> USE <1>4 DEF Ftx!BarrierCreate, FtxBarrier
  <2>1. /\ barrier = Nobody /\ barrier' = [counter |-> 0, tag |-> 0] /\ plock' = FALSE
        /\ \A w \in Waiters : rounds[w] = MaxRounds
        /\ UNCHANGED <<fpc, rounds, curTag, wild>>
    BY <1>0
  <2>2. Ahead(0)' = {}
    BY <2>1 DEF Ahead
  <2>3. RoundsAre(0)'
    <3>1. barrier'.counter = Cardinality(Ahead(0)')
      BY <2>1, <2>2, FS_EmptySet
    <3> QED BY <2>1, <2>2, <3>1 DEF RoundsAre
  <2> HIDE <1>4
  <2>4. \A v \in Waiters : fpc'[v] # "inside"
    BY <2>1
  <2>5. barrier' # Nobody
    BY <2>1, <1>0
  <2> QED BY <2>1, <2>3, <2>4, <2>5
<1>5. ASSUME Ftx!BarrierFree PROVE FtxBarrier'
  BY <1>5, <1>0 DEF Ftx!BarrierFree, FtxBarrier
<1>6. ASSUME NEW w \in Waiters, Ftx!WaiterNext(w) \/ Ftx!Spurious(w) PROVE FtxBarrier'
  <2>1. CASE Ftx!WaitUnlock(w) \/ Ftx!WaitLoop(w) \/ Ftx!Wake(w) \/ Ftx!FreeObj(w) \/ Ftx!Spurious(w)
    BY <2>1 DEF Ftx!WaitUnlock, Ftx!WaitLoop, Ftx!Wake, Ftx!FreeObj, Ftx!Spurious, FtxBarrier
  <2>2. CASE \/ Ftx!WaitLink(w) \/ Ftx!TimedWake(w) \/ Ftx!TimedUnlock(w) \/ Ftx!TimedLook(w)
             \/ Ftx!TimedUnlink(w) \/ Ftx!Suspend(w) \/ Ftx!SuspendOver(w)
    BY <2>2 DEF Ftx!WaitLink, Ftx!TimedWake, Ftx!TimedUnlock, Ftx!TimedLook, Ftx!TimedUnlink,
                Ftx!Suspend, Ftx!SuspendOver
  <2> QED BY <1>6, <2>1, <2>2, <1>1, <1>2, <1>3 DEF Ftx!WaiterNext
<1>7. ~Ftx!WakerNext
  <2>1. ~Ftx!BroadcastLock /\ ~Ftx!Resume
    BY DEF Ftx!BroadcastLock, Ftx!Resume
  <2>2. ~Ftx!BroadcastNext /\ ~Ftx!SignalStore /\ ~Ftx!SignalCond /\ ~Ftx!SignalUnlock
    BY DEF Ftx!BroadcastNext, Ftx!SignalStore, Ftx!SignalCond, Ftx!SignalUnlock, FtxBarrier
  <2> QED BY <2>1, <2>2 DEF Ftx!WakerNext
<1>8. ~Ftx!SingleInit
  BY DEF Ftx!SingleInit
<1> QED BY <1>0, <1>4, <1>5, <1>6, <1>7, <1>8 DEF Ftx!FutexNext

------------------------------------------------------------------------------
(* All of them *)

\* An object that no behaviour is about is not touched.
FtxUnused ==
    /\ wild = FALSE /\ fpc = [t \in Waiters \cup {Waker} |-> "idle"]

FtxInv ==
    /\ use = "multiple" => FtxMultiple
    /\ use = "single" => FtxSingle
    /\ use = "barrier" => FtxBarrier
    /\ use \notin {"multiple", "timed", "single", "barrier"} => FtxUnused

\* Nobody is in a futex that is created.
LEMMA FtxInit == ASSUME NEW U, Ftx!FutexInit(U) PROVE FtxInv
<1> USE FtxNames DEF Ftx!FutexInit, Ftx!Users, Waiters, Waker
<1>1. FtxTypes
  <2>1. Ftx!Freed \in FtxObject
    BY DEF Ftx!Freed, Ftx!NewObj, FtxObject
  <2>2. MaxRounds \in 0..MaxRounds
    OBVIOUS
  <2> QED BY <2>1, <2>2 DEF FtxTypes, FtxObject
<1>2. \A w \in Waiters : ~obj[w].alive
  BY DEF Ftx!Freed, Ftx!NewObj
<1>3. FtxMultiple
  <2>1. Pending = {} /\ First = Nobody
    BY <1>2 DEF Pending, First
  <2>2. MulOwned /\ MulLocked /\ MulWaking
    BY <1>2 DEF MulOwned, MulLocked, MulWaking, MulHolding
  <2> QED BY <1>1, <2>1, <2>2 DEF FtxMultiple, MulLinked
<1>4. FtxSingle
  <2>1. Sus \in Waiters
    BY DEF Sus, Ftx!Suspender
  <2> QED BY <1>1, <1>2, <2>1 DEF FtxSingle, SngTypes, SngOwned, SngCalls, SngWaking
<1>5. FtxBarrier
  <2>1. MaxRounds \in 0..MaxRounds
    OBVIOUS
  <2> QED BY <2>1 DEF FtxBarrier
<1>6. FtxUnused
  BY DEF FtxUnused
<1> QED BY <1>3, <1>4, <1>5, <1>6 DEF FtxInv

\* Every step of a waiter or of the waker keeps the invariant of the use it is about.
LEMMA FtxStep == FtxInv /\ Ftx!FutexNext => FtxInv'
<1> SUFFICES ASSUME FtxInv, Ftx!FutexNext PROVE FtxInv'
  OBVIOUS
<1>1. use' = use
  BY DEF Ftx!FutexNext, Ftx!WaiterNext, Ftx!WakerNext, Ftx!CountersKept, Ftx!Begin, Ftx!Finish,
         Ftx!WaitLink, Ftx!WaitUnlock, Ftx!WaitLoop, Ftx!Wake, Ftx!Spurious, Ftx!TimedWake,
         Ftx!TimedUnlock, Ftx!TimedLook, Ftx!TimedUnlink, Ftx!FreeObj, Ftx!Suspend,
         Ftx!SuspendOver, Ftx!BarrierEnter, Ftx!BarrierLast, Ftx!BarrierSpin, Ftx!BroadcastLock,
         Ftx!BroadcastNext, Ftx!SignalStore, Ftx!SignalCond, Ftx!SignalUnlock, Ftx!Resume,
         Ftx!SingleInit, Ftx!BarrierCreate, Ftx!BarrierFree
<1>2. use \notin {"multiple", "timed", "single", "barrier"} => ~Ftx!FutexNext
  <2> SUFFICES ASSUME use \notin {"multiple", "timed", "single", "barrier"} PROVE ~Ftx!FutexNext
    OBVIOUS
  <2> USE FtxNames DEF Ftx!FAt, Ftx!Begin, FtxInv, FtxUnused, Waiters, Waker
  <2>1. ASSUME NEW w \in Waiters PROVE ~Ftx!WaiterNext(w) /\ ~Ftx!Spurious(w)
    BY DEF Ftx!WaiterNext, Ftx!Spurious,
           Ftx!WaitLink, Ftx!WaitUnlock, Ftx!WaitLoop, Ftx!Wake, Ftx!Spurious, Ftx!TimedWake,
           Ftx!TimedUnlock, Ftx!TimedLook, Ftx!TimedUnlink, Ftx!FreeObj, Ftx!Suspend,
           Ftx!SuspendOver, Ftx!BarrierEnter, Ftx!BarrierLast, Ftx!BarrierSpin
  <2>2. ~Ftx!WakerNext
    BY DEF Ftx!WakerNext, Ftx!BroadcastLock,
           Ftx!BroadcastNext, Ftx!SignalStore, Ftx!SignalCond, Ftx!SignalUnlock, Ftx!Resume
  <2>3. ~Ftx!SingleInit /\ ~Ftx!BarrierCreate /\ ~Ftx!BarrierFree
    BY DEF Ftx!SingleInit, Ftx!BarrierCreate, Ftx!BarrierFree
  <2> QED BY <2>1, <2>2, <2>3 DEF Ftx!FutexNext
<1> QED BY <1>1, <1>2, MulStep, SngStep, FbrStep DEF FtxInv

\* What the invariant says of the waiters and the waker.
LEMMA FtxSafe == FtxInv => Ftx!NoWildAccess /\ Ftx!BarrierRounds
<1> SUFFICES ASSUME FtxInv PROVE Ftx!NoWildAccess /\ Ftx!BarrierRounds
  OBVIOUS
<1>1. Ftx!NoWildAccess
  BY DEF Ftx!NoWildAccess, FtxInv, FtxMultiple, FtxSingle, SngTypes, FtxTypes, FtxBarrier, FtxUnused
<1>2. ASSUME NEW v \in Waiters, NEW w \in Waiters, use = "barrier"
      PROVE  (IF fpc[w] = "idle" THEN Ftx!Entered(w) ELSE Ftx!Entered(w) - 1) <= Ftx!Entered(v)
  <2> USE FtxNames DEF FtxInv, FtxBarrier, Ftx!Entered
  <2>1. rounds[v] \in Nat /\ rounds[w] \in Nat
    BY <1>2
  <2>2. CASE barrier = Nobody
    BY <1>2, <2>1, <2>2
  <2>3. CASE barrier # Nobody
    <3>1. PICK k \in Nat : RoundsAre(k)
      BY <1>2, <2>3
    <3> QED BY <1>2, <2>1, <3>1 DEF RoundsAre, Ahead
  <2> QED BY <2>2, <2>3
<1> QED BY <1>1, <1>2 DEF Ftx!BarrierRounds, Waiters

------------------------------------------------------------------------------
(* What the objects promise *)

\* Each object's own invariant.
SyncInv ==
    /\ kind \in Kinds
    /\ kind = "barrier" => BarInv
    /\ kind = "eventual" => EvtInv
    /\ kind = "future" => FutInv
    /\ kind = "rwlock" => RwlInv
    /\ IInv /\ CndInv /\ FtxInv

\* Every object is created with its invariant.
LEMMA SyncInitInv == SyncInit => SyncInv
BY BarInit, EvtInit, FutInit, RwlInit, InitIInv, CndInit, FtxInit
   DEF SyncInit, ObjectInit, SyncInv

\* What is left alone keeps its invariant.
LEMMA KeptInv ==
  /\ IInv /\ UNCHANGED vars => IInv'
  /\ CndInv /\ UNCHANGED condOnly => CndInv'
  /\ FtxInv /\ UNCHANGED futexOnly => FtxInv'
<1>1. IInv /\ UNCHANGED vars => IInv'
  BY NextIInv
<1>2. CndInv /\ UNCHANGED condOnly => CndInv'
  BY CndStep DEF condOnly, Cnd!vars
<1>3. ASSUME UNCHANGED futexOnly PROVE FtxInv' <=> FtxInv
  <2>1. /\ use' = use /\ plock' = plock /\ word' = word /\ obj' = obj /\ fpc' = fpc /\ cur' = cur
        /\ nxt' = nxt /\ rounds' = rounds /\ barrier' = barrier /\ curTag' = curTag
        /\ wild' = wild
    BY <1>3 DEF futexOnly
  <2>2. FtxTypes' <=> FtxTypes
    BY <2>1 DEF FtxTypes
  <2>3. Pending' = Pending /\ First' = First
    BY <2>1 DEF Pending, First
  <2>4. FtxMultiple' <=> FtxMultiple
    BY <2>1, <2>2, <2>3 DEF FtxMultiple, MulOwned, MulLocked, MulLinked, MulWaking
  <2>5. FtxSingle' <=> FtxSingle
    BY <2>1, <2>2 DEF FtxSingle, SngTypes, SngOwned, SngCalls, SngWaking
  <2>6. \A k : Ahead(k)' = Ahead(k)
    BY <2>1 DEF Ahead
  <2>7. FtxBarrier' <=> FtxBarrier
    BY <2>1, <2>6 DEF FtxBarrier, RoundsAre
  <2> QED BY <2>1, <2>4, <2>5, <2>7 DEF FtxInv, FtxUnused
<1> QED BY <1>1, <1>2, <1>3

\* A step is one of the object that the behaviour is about, which keeps its invariant,
\* and touches no other.
LEMMA SyncStepInv == SyncInv /\ [SyncNext]_syncVars => SyncInv'
<1> SUFFICES ASSUME SyncInv, [SyncNext]_syncVars PROVE SyncInv'
  OBVIOUS
<1>1. CASE Only("barrier") /\ Bar!Next
  BY <1>1, BarStep, KeptInv DEF Only, SyncInv
<1>2. CASE Only("eventual") /\ Evt!Next
  BY <1>2, EvtStep, KeptInv DEF Only, SyncInv
<1>3. CASE Only("future") /\ Fut!Next
  BY <1>3, FutStep, KeptInv DEF Only, SyncInv
<1>4. CASE Only("rwlock") /\ Rwl!Next
  BY <1>4, RwlStep, KeptInv DEF Only, SyncInv
<1>5. CASE OnlyMutex /\ Next
  BY <1>5, NextIInv, KeptInv DEF OnlyMutex, SyncInv, objectVars, common
<1>6. CASE OnlyCond /\ Cnd!Next
  BY <1>6, CndStep, KeptInv DEF OnlyCond, SyncInv, objectVars, common
<1>7. CASE OnlyFutex /\ Ftx!FutexNext
  BY <1>7, FtxStep, KeptInv DEF OnlyFutex, SyncInv, objectVars, common
<1>8. CASE UNCHANGED syncVars
  <2>1. /\ UNCHANGED Bar!vars /\ UNCHANGED Evt!vars /\ UNCHANGED Fut!vars /\ UNCHANGED Rwl!vars
        /\ UNCHANGED kind /\ UNCHANGED vars /\ UNCHANGED condOnly /\ UNCHANGED futexOnly
    BY <1>8 DEF syncVars, objectVars, common, barrierOnly, eventualOnly, futureOnly, rwlockOnly,
       Bar!vars, Evt!vars, Fut!vars, Rwl!vars
  <2> QED BY <2>1, BarStep, EvtStep, FutStep, RwlStep, KeptInv DEF SyncInv
<1> QED BY <1>1, <1>2, <1>3, <1>4, <1>5, <1>6, <1>7, <1>8 DEF SyncNext, MayRest

\* Whatever the callers do, every object is as its invariant says.
THEOREM SyncInvariance == SyncSpec => []SyncInv
BY SyncInitInv, SyncStepInv, PTL DEF SyncSpec

\* The wait lists of barrier.c, eventual.c, futures.c, rwlock.c and cond.c hold exactly the
\* callers that have to wait: between two critical sections nobody is missing from a list
\* and nobody is left in the list of an object that is ready.
THEOREM WaitersAreThose == SyncSpec => []WaitersMatch
<1>1. SyncInv => WaitersMatch
  BY BarSafe, EvtSafe, FutSafe, RwlSafe, CndSafe DEF SyncInv, WaitersMatch
<1> QED BY <1>1, SyncInvariance, PTL

\* Whoever wakes a caller has left the object (or the futex node on the caller's stack)
\* when the caller that it woke frees the memory.
THEOREM AccessIsSafe == SyncSpec => []NoWildAccess
<1>1. SyncInv => NoWildAccess
  BY BarSafe, EvtSafe, FutSafe, CndSafe, FtxSafe DEF SyncInv, NoWildAccess
<1> QED BY <1>1, SyncInvariance, PTL

\* A round of ABT_barrier_wait or of the barrier of execution streams ends only when all of
\* its callers have entered it, and a writer of a readers-writer lock is alone.
THEOREM NobodyPassesEarly == SyncSpec => []NoEarlyPass
<1>1. SyncInv => NoEarlyPass
  BY BarSafe, RwlSafe, FtxSafe DEF SyncInv, NoEarlyPass
<1> QED BY <1>1, SyncInvariance, PTL

\* One of the racing ABT_eventual_set succeeds; the ABT_future_set that succeed have a
\* compartment each, and the callback has seen them all before the future is ready.
THEOREM SetsCount == SyncSpec => []NoSetLost
<1>1. SyncInv => NoSetLost
  BY EvtSafe, FutSafe DEF SyncInv, NoSetLost
<1> QED BY <1>1, SyncInvariance, PTL

\* ABT_eventual_timedwait looks again under the lock: it reports a timeout only while no
\* set has come.
THEOREM SetBeatsTimeout == SyncSpec => TimeoutLoses
<1> DEFINE Loses == kind = "eventual" => \A c \in Callers : Evt!GivesUp(c) => ~ready
<1>1. SyncInv /\ [SyncNext]_syncVars => [Loses]_objectVars
  <2> SUFFICES ASSUME SyncInv, [SyncNext]_syncVars, kind = "eventual",
                      ~UNCHANGED objectVars, NEW c \in Callers, Evt!GivesUp(c)
               PROVE  ~ready
    OBVIOUS
  <2>1. Evt!Next
    BY DEF SyncNext, Only, OnlyMutex, OnlyCond, OnlyFutex, MayRest, syncVars
  <2> QED BY <2>1, EvtTimeout DEF SyncInv
<1> QED BY <1>1, SyncInvariance, PTL DEF SyncSpec, TimeoutLoses

\* Releasing the mutex and joining the list is one step for every other caller of cond.c,
\* wake-ups go first come first, and a wait ends only when woken or late.
THEOREM CondImplementation == SyncSpec => ImplementsCondSpec
<1>1. SyncInit => Cnd!Abstract!Init
  BY CndInitImplements DEF SyncInit
<1>2. SyncInv /\ SyncInv' /\ [SyncNext]_syncVars => [Cnd!Abstract!Next]_(Cnd!Abstract!vars)
  <2> SUFFICES ASSUME SyncInv, SyncInv', [SyncNext]_syncVars
               PROVE  [Cnd!Abstract!Next]_(Cnd!Abstract!vars)
    OBVIOUS
  <2>1. [Cnd!Next]_(Cnd!vars)
    BY DEF SyncNext, Only, OnlyMutex, OnlyCond, OnlyFutex, MayRest, syncVars, condOnly, Cnd!vars
  <2> QED BY <2>1, CndStepImplements DEF SyncInv
<1> QED BY <1>1, <1>2, SyncInvariance, PTL
        DEF SyncSpec, ImplementsCondSpec, Cnd!ImplementsCondSpec, Cnd!Abstract!Spec
==============================================================================
