---------------------------- MODULE PthreadFutex ----------------------------
(***************************************************************************)
(* src/arch/abtd_futex.c on a system without the Linux futex: every waiter *)
(* has a mutex, a condition variable and a flag on its stack, linked into  *)
(* a list (ABTD_futex_multiple) or published in one word                   *)
(* (ABTD_futex_single), and frees them when it returns.  And the barrier   *)
(* of src/stream_barrier.c on a system without pthread_barrier_t.          *)
(*                                                                         *)
(* Each step is one access to shared memory or one call of Pthreads.  A    *)
(* condition variable may wake without a signal.                           *)
(***************************************************************************)
EXTENDS Integers, FiniteSets

CONSTANTS Waiters,   \* threads that wait
          NULL, Invalid,
          MaxRounds,     \* bound: calls of each thread
          TagModulus     \* 2^63 in the code: the barrier's tag wraps

Waker == "waker"
Users == Waiters \cup {Waker}

FutexConstants ==
  /\ IsFiniteSet(Waiters) /\ Waiters # {} /\ Waker \notin Waiters
  /\ NULL \notin Users /\ Invalid \notin Users \cup {NULL}
  /\ NULL \notin [counter : Nat, tag : Nat]     \* the barrier may be NULL
  /\ MaxRounds \in Nat /\ TagModulus \in Nat \ {0}

VARIABLES use,      \* the object this behaviour is about: a futex_multiple whose
                    \* waits have no timeout or may, a futex_single, a barrier
          plock,    \* the lock around a futex_multiple, or the barrier's
          word,     \* p_futex->p_next, or p_sync_obj of a futex_single
          obj,      \* the pthread_sync of each waiter
          fpc,      \* where each thread is
          cur, nxt, \* p_cur and p_next of the broadcast, p_sync_obj of resume
          rounds,   \* calls left
          barrier,  \* counter and tag, or NULL when it does not exist
          curTag,   \* cur_tag of each waiter
          due,      \* history: waiters that were linked when a broadcast began
          wild      \* history: a freed object or NULL was dereferenced

barrierVars == <<barrier, curTag>>

\* parked: in pthread_cond_wait, and no signal yet.
NewObj == [alive |-> TRUE, mutex |-> NULL, parked |-> FALSE, val |-> 0,
           prev |-> NULL, next |-> NULL]
Freed == [NewObj EXCEPT !.alive = FALSE]

FutexInit(uses) ==
  /\ use \in uses
  /\ plock = FALSE /\ word = NULL
  /\ obj = [w \in Waiters |-> Freed]
  /\ fpc = [t \in Users |-> "idle"]
  /\ cur = NULL /\ nxt = NULL
  /\ rounds = [t \in Users |-> MaxRounds]
  /\ barrier = NULL /\ curTag = [w \in Waiters |-> 0]
  /\ due = {} /\ wild = FALSE

FGoto(t, pc) == fpc' = [fpc EXCEPT ![t] = pc]
FAt(t, u, pc) == use = u /\ fpc[t] = pc
Alive(w) == w \in Waiters /\ obj[w].alive
\* Objects that are dereferenced.
Touch(S) == wild' = (wild \/ \E w \in S : ~Alive(w))
CountersKept == UNCHANGED <<use, rounds, due>>

Begin(t, u, pc) ==
  /\ FAt(t, u, "idle") /\ rounds[t] > 0
  /\ rounds' = [rounds EXCEPT ![t] = @ - 1] /\ FGoto(t, pc) /\ UNCHANGED use

Finish(w) == FGoto(w, "idle") /\ due' = due \ {w} /\ UNCHANGED <<use, rounds>>
Entered(w) == MaxRounds - rounds[w]

-----------------------------------------------------------------------------
(* ABTD_futex_wait_and_unlock and ABTD_futex_timedwait_and_unlock          *)

\* The caller takes the lock; the object is locked before it is linked.
WaitLink(w) ==
  /\ (Begin(w, "multiple", "linked") \/ Begin(w, "timed", "linked"))
  /\ ~plock /\ plock' = TRUE
  /\ obj' = [o \in Waiters |->
               IF o = w THEN [NewObj EXCEPT !.mutex = w, !.next = word]
               ELSE IF o = word THEN [obj[o] EXCEPT !.prev = w] ELSE obj[o]]
  /\ word' = w /\ Touch({word} \ {NULL})
  /\ UNCHANGED <<cur, nxt, due, barrierVars>>

WaitUnlock(w) ==
  /\ fpc[w] = "linked" /\ plock' = FALSE
  /\ \/ FGoto(w, "check") /\ UNCHANGED obj
     \/ /\ use = "timed" /\ FGoto(w, "timed")
        /\ obj' = [obj EXCEPT ![w].mutex = NULL]
  /\ CountersKept /\ UNCHANGED <<word, cur, nxt, wild, barrierVars>>

\* The loop around pthread_cond_wait, also of ABTD_futex_suspend.
WaitLoop(w) ==
  /\ fpc[w] = "check"
  /\ IF obj[w].val = 0
     THEN FGoto(w, "blocked") /\ obj' = [obj EXCEPT ![w].mutex = NULL, ![w].parked = TRUE]
     ELSE FGoto(w, "free") /\ obj' = [obj EXCEPT ![w].mutex = NULL]
  /\ CountersKept /\ UNCHANGED <<plock, word, cur, nxt, wild, barrierVars>>

\* pthread_cond_wait returns: after a signal, or for no reason.
Wake(w) ==
  /\ fpc[w] = "blocked" /\ obj[w].mutex = NULL /\ ~obj[w].parked
  /\ obj' = [obj EXCEPT ![w].mutex = w] /\ FGoto(w, "check")
  /\ CountersKept /\ UNCHANGED <<plock, word, cur, nxt, wild, barrierVars>>

Spurious(w) ==
  /\ fpc[w] = "blocked" /\ obj[w].parked
  /\ obj' = [obj EXCEPT ![w].parked = FALSE]
  /\ CountersKept /\ UNCHANGED <<plock, word, fpc, cur, nxt, wild, barrierVars>>

\* pthread_cond_timedwait returns: a signal, the deadline, or neither.
TimedWake(w) ==
  /\ FAt(w, "timed", "timed") /\ obj[w].mutex = NULL
  /\ obj' = [obj EXCEPT ![w].mutex = w] /\ FGoto(w, "timed out")
  /\ CountersKept /\ UNCHANGED <<plock, word, cur, nxt, wild, barrierVars>>

TimedUnlock(w) ==
  /\ FAt(w, "timed", "timed out")
  /\ obj' = [obj EXCEPT ![w].mutex = NULL] /\ FGoto(w, "look")
  /\ CountersKept /\ UNCHANGED <<plock, word, cur, nxt, wild, barrierVars>>

TimedLook(w) ==
  /\ \/ FAt(w, "timed", "look") /\ UNCHANGED plock
        /\ FGoto(w, IF obj[w].val # 0 THEN "free" ELSE "relock")
     \/ FAt(w, "timed", "relock") /\ ~plock /\ plock' = TRUE /\ FGoto(w, "unlink")
  /\ CountersKept /\ UNCHANGED <<word, obj, cur, nxt, wild, barrierVars>>

\* Still not signaled: the object leaves the list.
TimedUnlink(w) ==
  LET o == obj[w]
  IN /\ FAt(w, "timed", "unlink") /\ FGoto(w, "free") /\ plock' = FALSE
     /\ IF o.val # 0 THEN UNCHANGED <<word, obj, wild>>
        ELSE IF word = w THEN word' = o.next /\ UNCHANGED <<obj, wild>>
        ELSE /\ Touch({o.prev, o.next}) /\ UNCHANGED word
             /\ obj' = [x \in Waiters |->
                          IF x = o.prev THEN [obj[x] EXCEPT !.next = o.next]
                          ELSE IF x = o.next THEN [obj[x] EXCEPT !.prev = o.prev]
                          ELSE obj[x]]
     /\ CountersKept /\ UNCHANGED <<cur, nxt, barrierVars>>

FreeObj(w) ==
  /\ fpc[w] = "free" /\ use # "barrier"
  /\ obj' = [obj EXCEPT ![w] = Freed] /\ Finish(w)
  /\ UNCHANGED <<plock, word, cur, nxt, wild, barrierVars>>

-----------------------------------------------------------------------------
(* ABTD_futex_broadcast, with the lock held                                *)

BroadcastLock ==
  /\ (Begin(Waker, "multiple", "next") \/ Begin(Waker, "timed", "next")) /\ ~plock /\ plock' = TRUE
  /\ cur' = word
  /\ due' = due \cup {w \in Waiters : fpc[w] # "idle" /\ obj[w].val = 0}
  /\ UNCHANGED <<word, obj, nxt, wild, barrierVars>>

\* The object's mutex is taken, once its owner does not hold it.
BroadcastNext ==
  /\ fpc[Waker] = "next"
  /\ \/ /\ cur = NULL /\ word' = NULL /\ plock' = FALSE /\ FGoto(Waker, "idle")
        /\ UNCHANGED <<obj, nxt, wild>>
     \/ /\ cur # NULL /\ obj[cur].mutex = NULL /\ FGoto(Waker, "store")
        /\ nxt' = obj[cur].next /\ Touch({cur})
        /\ obj' = [obj EXCEPT ![cur].mutex = Waker]
        /\ UNCHANGED <<word, plock>>
  /\ CountersKept /\ UNCHANGED <<cur, barrierVars>>

\* val = 1, the signal, and the unlock; also of ABTD_futex_resume.
\* Mutant: the mutex is released with the store.
SignalStoreUnlocks ==
  /\ fpc[Waker] = "store" /\ FGoto(Waker, "signal") /\ Touch({cur})
  /\ obj' = [obj EXCEPT ![cur].val = 1, ![cur].mutex = NULL]
  /\ CountersKept /\ UNCHANGED <<plock, word, cur, nxt, barrierVars>>

SignalStore ==
  /\ fpc[Waker] = "store" /\ FGoto(Waker, "signal") /\ Touch({cur})
  /\ obj' = [obj EXCEPT ![cur].val = IF obj[cur].alive THEN 1 ELSE @]
  /\ CountersKept /\ UNCHANGED <<plock, word, cur, nxt, barrierVars>>

SignalCond ==
  /\ fpc[Waker] = "signal" /\ FGoto(Waker, "unlock") /\ Touch({cur})
  /\ obj' = [obj EXCEPT ![cur].parked = FALSE]
  /\ CountersKept /\ UNCHANGED <<plock, word, cur, nxt, barrierVars>>

SignalUnlock ==
  /\ fpc[Waker] = "unlock" /\ Touch({cur})
  /\ obj' = [obj EXCEPT ![cur].mutex = IF @ = Waker THEN NULL ELSE @]
  /\ FGoto(Waker, IF use # "single" THEN "next" ELSE "idle")
  /\ cur' = nxt /\ nxt' = NULL
  /\ CountersKept /\ UNCHANGED <<plock, word, barrierVars>>

-----------------------------------------------------------------------------
(* ABTD_futex_suspend and ABTD_futex_resume: one of each for every          *)
(* initialized futex, by one thread each.                                  *)

Suspender == CHOOSE w \in Waiters : TRUE
\* The calls on this futex that have not begun.
MayCall(t, other) == rounds[t] = rounds[other] + 1 \/ (rounds[t] = rounds[other] /\ word = NULL)

Suspend(w) ==
  /\ \/ /\ Begin(w, "single", "load") /\ w = Suspender /\ MayCall(w, Waker)
        /\ UNCHANGED <<due, word, obj>>
     \/ /\ FAt(w, "single", "load") /\ CountersKept /\ UNCHANGED word
        /\ IF word # NULL THEN FGoto(w, "over") /\ UNCHANGED obj
           ELSE FGoto(w, "swap") /\ obj' = [obj EXCEPT ![w] = [NewObj EXCEPT !.mutex = w]]
     \/ /\ FAt(w, "single", "swap") /\ CountersKept
        /\ IF word = NULL THEN word' = w /\ FGoto(w, "check") /\ UNCHANGED obj
           ELSE /\ FGoto(w, "free") /\ UNCHANGED word
                /\ obj' = [obj EXCEPT ![w].mutex = NULL]
  /\ UNCHANGED <<plock, cur, nxt, wild, barrierVars>>

\* Nothing to free: it was resumed before.
SuspendOver(w) ==
  /\ FAt(w, "single", "over") /\ Finish(w)
  /\ UNCHANGED <<plock, word, obj, cur, nxt, wild, barrierVars>>

Resume ==
  /\ \/ /\ Begin(Waker, "single", "load") /\ MayCall(Waker, Suspender)
        /\ UNCHANGED <<due, word, cur, wild, obj>>
     \/ /\ FAt(Waker, "single", "load") /\ CountersKept
        /\ IF word = NULL THEN FGoto(Waker, "swap") /\ UNCHANGED cur
           ELSE FGoto(Waker, "lock") /\ cur' = word
        /\ UNCHANGED <<word, wild, obj>>
     \/ /\ FAt(Waker, "single", "swap") /\ CountersKept
        /\ IF word = NULL THEN word' = Invalid /\ FGoto(Waker, "idle") /\ UNCHANGED cur
           ELSE cur' = word /\ FGoto(Waker, "lock") /\ UNCHANGED word
        /\ UNCHANGED <<wild, obj>>
     \/ /\ FAt(Waker, "single", "lock") /\ CountersKept
        /\ obj[cur].mutex = NULL /\ Touch({cur}) /\ FGoto(Waker, "store")
        /\ obj' = [obj EXCEPT ![cur].mutex = Waker]
        /\ UNCHANGED <<word, cur>>
  /\ UNCHANGED <<plock, nxt, barrierVars>>

\* Both calls are over: the owner initializes the futex for the next use.
SingleInit ==
  /\ use = "single" /\ word # NULL
  /\ \A t \in Users : fpc[t] = "idle"
  /\ rounds[Suspender] = rounds[Waker]
  /\ word' = NULL
  /\ UNCHANGED <<plock, obj, fpc, cur, nxt, wild, barrierVars>> /\ CountersKept

-----------------------------------------------------------------------------
(* ABT_xstream_barrier with its own spinlock; num_waiters is the number of *)
(* Waiters, more than one (with one, the wait returns at once).            *)

BarrierCreate ==
  /\ use = "barrier" /\ barrier = NULL
  /\ \A w \in Waiters : rounds[w] = MaxRounds
  /\ barrier' = [counter |-> 0, tag |-> 0] /\ plock' = FALSE
  /\ UNCHANGED <<use, word, obj, fpc, cur, nxt, rounds, curTag, due, wild>>

\* Every call has returned.
BarrierFree ==
  /\ use = "barrier" /\ barrier # NULL
  /\ \A w \in Waiters : fpc[w] = "idle" /\ rounds[w] = 0
  /\ barrier' = NULL
  /\ UNCHANGED <<use, plock, word, obj, fpc, cur, nxt, rounds, curTag, due, wild>>

BarrierEnter(w) ==
  /\ barrier # NULL /\ ~plock
  /\ Begin(w, "barrier", "inside") /\ plock' = TRUE
  /\ barrier' = [barrier EXCEPT !.counter = @ + 1]
  /\ UNCHANGED <<word, obj, cur, nxt, curTag, due, wild>>

BarrierLast(w) ==
  /\ FAt(w, "barrier", "inside") /\ barrier.counter = Cardinality(Waiters)
  /\ barrier' = [counter |-> 0, tag |-> (barrier.tag + 1) % TagModulus]
  /\ plock' = FALSE /\ Finish(w)
  /\ UNCHANGED <<word, obj, cur, nxt, curTag, wild>>

BarrierSpin(w) ==
  /\ \/ /\ FAt(w, "barrier", "inside") /\ barrier.counter # Cardinality(Waiters)
        /\ curTag' = [curTag EXCEPT ![w] = barrier.tag]
        /\ FGoto(w, "spin") /\ plock' = FALSE /\ CountersKept
     \/ /\ FAt(w, "barrier", "spin") /\ curTag[w] # barrier.tag
        /\ Finish(w) /\ UNCHANGED <<plock, curTag>>
  /\ UNCHANGED <<word, obj, cur, nxt, barrier, wild>>

-----------------------------------------------------------------------------
WaiterNext(w) ==
  \/ WaitLink(w) \/ WaitUnlock(w) \/ WaitLoop(w) \/ Wake(w)
  \/ TimedWake(w) \/ TimedUnlock(w) \/ TimedLook(w) \/ TimedUnlink(w) \/ FreeObj(w)
  \/ Suspend(w) \/ SuspendOver(w)
  \/ BarrierEnter(w) \/ BarrierLast(w) \/ BarrierSpin(w)

WakerNext == BroadcastLock \/ BroadcastNext \/ SignalStore \/ SignalCond \/ SignalUnlock \/ Resume

\* What the program does after a wild access is undefined: it is the last step.
FutexNext ==
  /\ ~wild
  /\ \/ \E w \in Waiters : WaiterNext(w) \/ Spurious(w)
     \/ WakerNext \/ SingleInit \/ BarrierCreate \/ BarrierFree

-----------------------------------------------------------------------------
\* No thread touches an object its owner has freed, nor a NULL neighbour:
\* the comments at abtd_futex.c:107-109 and 184.
NoWildAccess == use # "timed" => ~wild

\* The same for waits with a timeout: the comments at abtd_futex.c:148-150
\* and 157, which the code does not live up to.
NoTimedWildAccess == ~wild

\* A call of the barrier returns in the round it entered: nobody is a
\* round ahead of one who has not come.
BarrierRounds ==
  \A v, w \in Waiters :
    use = "barrier" => (IF fpc[w] = "idle" THEN Entered(w) ELSE Entered(w) - 1) <= Entered(v)

\* A wait that a broadcast found, a suspend whose resume has been called and
\* a barrier call whose round is complete return.
Owed(w) ==
  \/ use = "multiple" /\ w \in due
  \/ use = "single" /\ w = Suspender /\ fpc[w] # "idle" /\ rounds[Waker] <= rounds[w]
  \/ use = "barrier" /\ fpc[w] # "idle" /\ \A v \in Waiters : rounds[v] <= rounds[w]

=============================================================================
