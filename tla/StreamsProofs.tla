----------------------------- MODULE StreamsProofs -----------------------------
(***************************************************************************)
(* Proofs about an execution stream that is joined, cancelled, revived and *)
(* freed while its main scheduler is replaced, and about the stop test of  *)
(* the predefined schedulers, for any ULTs, pools, schedulers and bounds.  *)
(***************************************************************************)
EXTENDS MCStreams, ListLemmas, FiniteSetTheorems

------------------------------------------------------------------------------
(* One execution stream: its invariant *)

\* Where the main scheduler's ULT runs.
Inside == {"main", "pop", "count", "events", "stop", "empty", "blocked", "ult", "ran",
           "cancel", "exit"}

ThreadTypes ==
    /\ state \in {"RUNNING", "TERMINATED"} /\ sleeping \subseteq {"native", "joiner"}
    /\ main_request \subseteq {"JOIN", "CANCEL"}
    /\ look \in 0..3 /\ pop_count \in 0..EventFreq
    /\ pc \in Inside \cup {"root", "terminate", "ctx", "ctxwait", "gone"}
    /\ pc = "pop" => pop_count < EventFreq

SchedTypes ==
    /\ p_main_sched \in Scheds
    /\ used \in [Scheds -> {"NOT_USED", "MAIN", "FREED"}]
    /\ request \in [Scheds -> SUBSET {"FINISH", "EXIT", "REPLACE"}]
    /\ p_replace_sched \in [Scheds -> Scheds \cup {NoSched}]
    /\ p_replace_waiter \in [Scheds -> Ults \cup {NoUlt}]

UltTypes ==
    /\ queue \in [Scheds -> Seq(Ults)] /\ num_blocked \in [Scheds -> Int]
    /\ ult_state \in [Ults -> Xst!States] /\ p_pool \in [Ults -> Scheds]
    /\ ops \in [Ults -> Nat] /\ resuming \subseteq Ults \X Nat \X Scheds

StreamTypes == ThreadTypes /\ SchedTypes /\ UltTypes

\* How far the native thread, the main scheduler's ULT and the context have come, and how
\* far the joiner that follows them.
Phases ==
    /\ pc = "root" => main_state = "READY" /\ state = "RUNNING" /\ ctx_state = "RUNNING"
    /\ pc \in Inside => main_state = "RUNNING" /\ state = "RUNNING" /\ ctx_state = "RUNNING"
    /\ pc \in {"terminate", "ctx"} =>
         /\ main_state = "TERMINATED" /\ ctx_state \in {"RUNNING", "REQ_JOIN"}
         /\ state = IF pc = "ctx" THEN "TERMINATED" ELSE "RUNNING"
    /\ pc = "ctxwait" =>
         IF ctx_state = "RUNNING"
           THEN main_state = "READY" /\ state = "RUNNING"
           ELSE main_state = "TERMINATED" /\ state = "TERMINATED" /\ ctx_state # "REQ_JOIN"
    /\ pc = "gone" => ctx_state = "REQ_TERMINATE" /\ main_state = "TERMINATED"
Following ==
    /\ ctl \in {"idle", "join", "await", "ctxjoin", "ctxsleep", "joined", "pjoin", "done"}
    /\ ctl \in {"idle", "join", "await", "ctxjoin"} => ctx_state \in {"RUNNING", "WAITING"}
    /\ ctl \in {"ctxjoin", "ctxsleep"} => main_state = "TERMINATED"
    /\ ctl = "ctxsleep" => ctx_state \in {"REQ_JOIN", "WAITING"}
    /\ ctl = "joined" => ctx_state = "WAITING"
    /\ ctl \in {"pjoin", "done"} => ctx_state = "REQ_TERMINATE"

\* A pool holds its ULTs that are READY, once each; the one that is RUNNING is the one whose
\* context the stream is on.
Held(s, u) == ult_state[u] = "READY" /\ p_pool[u] = s
Holds(s) == Distinct(queue[s]) /\ \A u \in Ults : Listed(queue[s], u) <=> Held(s, u)
OnStream ==
    /\ \A u \in Ults : ult_state[u] = "RUNNING" <=> pc = "ult" /\ cur = u
    /\ IF pc = "ult" THEN cur \in Ults /\ p_pool[cur] = p_main_sched ELSE cur = NoUlt
UltsPlaced == (\A s \in Scheds : Holds(s)) /\ OnStream

\* num_blocked counts the BLOCKED ULTs and the resumes that are not complete.
BlockedIn(s) == {u \in Ults : p_pool[u] = s /\ ult_state[u] = "BLOCKED"}
ResumedIn(s) == {r \in resuming : r[3] = s}
Counted(s) == num_blocked[s] = Cardinality(BlockedIn(s)) + Cardinality(ResumedIn(s))
ResumesPast ==
    \A r \in resuming : /\ ops[r[1]] <= r[2]
                        /\ ult_state[r[1]] = "BLOCKED" => ops[r[1]] < r[2]
UltsCounted == IsFiniteSet(resuming) /\ ResumesPast /\ \A s \in Scheds : Counted(s)

\* A replacement: the new scheduler is not in use, the waiter is blocked, and the scheduler
\* that it replaces goes on until it has stopped.
Gone == ctl \in {"pjoin", "done"}
MainUsed == ~Gone => used[p_main_sched] = "MAIN"
Asked == \A s \in Scheds : "REPLACE" \in request[s] <=> p_replace_sched[s] # NoSched
HalfWay ==
    LET new == p_replace_sched[p_main_sched]
        waiter == p_replace_waiter[p_main_sched]
    IN  /\ used[new] = "NOT_USED" /\ request[new] = {}
        /\ waiter \in Ults /\ ult_state[waiter] = "BLOCKED"
GoesOn ==
    /\ pc \in Inside \ {"cancel", "exit"} /\ (pc \in {"empty", "blocked"} => look # 3)
    /\ "CANCEL" \notin main_request
Excused ==
    /\ "EXIT" \in request[p_main_sched] => "CANCEL" \in main_request
    /\ "FINISH" \in request[p_main_sched] \/ "JOIN" \in main_request => ctl # "idle"
    /\ pc \in {"empty", "blocked"} => look # 0
Replacing == MainUsed /\ Asked /\ (Xst!Pending => HalfWay /\ GoesOn) /\ Excused

StreamInv == StreamTypes /\ Phases /\ Following /\ UltsPlaced /\ UltsCounted /\ Replacing

\* The programs whose schedulers stop with nothing left: replacements do not overlap, and
\* the scheduler is not one that returns after a unit its waiting pop found.
Orderly == ~Overlap /\ ~BasicWait

\* Nobody is left in a pool, and nobody of it is blocked.
Live == {"READY", "RUNNING", "BLOCKED"}
Empty(s) == \A u \in Ults : p_pool[u] = s => ult_state[u] \notin Live
NoneBlocked(s) == \A u \in Ults : p_pool[u] = s => ult_state[u] # "BLOCKED"

\* No ULT is created from outside any more.
Closed == "FINISH" \in request[p_main_sched] \/ Xst!Pending

\* Where the main scheduler has stopped, or is a new one that has its waiter in the pool.
Finished == "FINISH" \in request[p_main_sched] /\ Empty(p_main_sched)
Checked == pc = "cancel" \/ (pc = "empty" /\ look = 3)
Over == pc \in {"exit", "terminate", "ctx"} \/ (pc = "blocked" /\ look = 3)

\* After the first look nobody is blocked who could come back, so that the second look at the
\* queue is exact.
Looked ==
    /\ pc = "ult" => look = 0
    /\ pc \in {"empty", "blocked"} /\ look = 2 => Closed /\ NoneBlocked(p_main_sched)
    /\ pc = "blocked" /\ look = 2 => Empty(p_main_sched)
    /\ pc = "ran" /\ "CANCEL" \notin main_request => Closed /\ Empty(p_main_sched)
    /\ Checked => queue[p_main_sched] # <<>> \/ Finished \/ "CANCEL" \in main_request
    /\ Over => Finished \/ "CANCEL" \in main_request
Moved == Xst!Pending => p_pool[p_replace_waiter[p_main_sched]] = p_replace_sched[p_main_sched]
NotFreed == \A u \in Ults : ult_state[u] \in Live => used[p_pool[u]] # "FREED" \/ Gone
Stopping == Looked /\ Moved /\ NotFreed
------------------------------------------------------------------------------
(* One execution stream: what its steps keep *)

\* The constants, and those of the fields' types that are not obvious.
LEMMA StreamConstants ==
  /\ IsFiniteSet(Ults) /\ NoUlt \notin Ults /\ NoSched \notin Scheds
  /\ First \in Scheds /\ Automatic \subseteq Scheds /\ Ready \subseteq Ults
  /\ BasicWait \in BOOLEAN /\ Overlap \in BOOLEAN
  /\ EventFreq \in Nat \ {0} /\ UltOps \in [Ults -> Nat]
BY StreamsAssumption DEF Xst!XstreamConstants, Xst!IsFiniteSet, IsFiniteSet

\* A stream starts with its first scheduler, whose pool holds the ULTs that are ready.
LEMMA StreamInit == Xst!Init => StreamInv /\ Stopping
<1> SUFFICES ASSUME Xst!Init PROVE StreamInv /\ Stopping
  OBVIOUS
<1> USE StreamConstants DEF Xst!Init
<1>1. PICK q \in [1..Xst!Cardinality(Ready) -> Ready] :
        /\ \A i, j \in DOMAIN q : q[i] = q[j] => i = j
        /\ \A u \in Ready : \E i \in DOMAIN q : q[i] = u
        /\ queue = [s \in Scheds |-> IF s = First THEN q ELSE <<>>]
  OBVIOUS
<1>2. /\ q \in Seq(Ults) /\ Distinct(q)
      /\ \A u \in Ults : Listed(q, u) <=> u \in Ready
  <2>1. IsFiniteSet(Ready) /\ Cardinality(Ready) \in Nat
    BY FS_Subset, FS_CardinalityType
  <2>2. Xst!Cardinality(Ready) = Cardinality(Ready)
    BY DEF Xst!Cardinality, Cardinality
  <2> DEFINE n == Cardinality(Ready)
  <2>3. q \in [1..n -> Ults] /\ DOMAIN q = 1..n /\ n \in Nat
    BY <2>1, <2>2
  <2> HIDE DEF n
  <2>4. q \in Seq(Ults) /\ Len(q) = n
    BY <2>3
  <2>5. \A i \in 1..n : q[i] \in Ready
    BY <2>2 DEF n
  <2> QED BY <1>1, <2>3, <2>4, <2>5 DEF Distinct, Listed
<1>3. <<>> \in Seq(Ults) /\ Distinct(<<>>) /\ \A u : ~Listed(<<>>, u)
  BY EmptyList
<1>4. StreamTypes
  BY <1>1, <1>2, <1>3
     DEF StreamTypes, ThreadTypes, SchedTypes, UltTypes, Inside, Xst!States
<1>5. Phases /\ Following
  BY DEF Phases, Following, Inside
<1>6. UltsPlaced
  BY <1>1, <1>2, <1>3 DEF UltsPlaced, OnStream, Holds, Held
<1>7. UltsCounted
  <2>1. \A s \in Scheds : BlockedIn(s) = {} /\ ResumedIn(s) = {}
    BY DEF BlockedIn, ResumedIn
  <2>2. \A s \in Scheds : Cardinality(BlockedIn(s)) = 0 /\ Cardinality(ResumedIn(s)) = 0
    BY <2>1, FS_EmptySet
  <2>3. IsFiniteSet(resuming)
    BY FS_EmptySet
  <2> QED BY <2>2, <2>3 DEF UltsCounted, Counted, ResumesPast
<1>8. Replacing
  BY DEF Replacing, Xst!Pending, MainUsed, Asked, Excused, Gone
<1>9. Stopping
  BY DEF Stopping, Looked, Moved, NotFreed, Checked, Over, Xst!Pending, Live
<1> QED BY <1>4, <1>5, <1>6, <1>7, <1>8, <1>9 DEF StreamInv

\* The native thread, the main scheduler's ULT and the joiner follow each other.
LEMMA PhasesStep ==
  ASSUME Phases, Following, Xst!Next
  PROVE  Phases' /\ Following'
<1> USE DEF Phases, Following, Inside, Xst!ctx, Xst!main, Xst!native, Xst!control
<1>1. CASE Xst!RootFunc \/ Xst!Run \/ Xst!Replace \/ Xst!CheckRequests \/ Xst!ExitMain \/ Xst!Terminate
  BY <1>1 DEF Xst!RootFunc, Xst!Run, Xst!Replace, Xst!CheckRequests, Xst!ExitMain, Xst!Terminate
<1>2. CASE Xst!Pop \/ Xst!Count \/ Xst!CheckEvents \/ Xst!HasToStop
  BY <1>2 DEF Xst!Pop, Xst!Count, Xst!CheckEvents, Xst!HasToStop
<1>3. CASE Xst!LookEmpty \/ Xst!LookBlocked
  BY <1>3 DEF Xst!LookEmpty, Xst!LookBlocked, Xst!AnswerUnit, Xst!AnswerNoUnit
<1>4. CASE Xst!CtxFinish \/ Xst!CtxWoken \/ Xst!Spurious
  BY <1>4 DEF Xst!CtxFinish, Xst!CtxWoken, Xst!Spurious
<1>5. ASSUME NEW u \in Ults, Xst!Yield(u) \/ Xst!Suspend(u) \/ Xst!Return(u) \/ Xst!XstreamExit(u)
      PROVE  Phases' /\ Following'
  BY <1>5 DEF Xst!Yield, Xst!Suspend, Xst!Return, Xst!XstreamExit, Xst!Call, Xst!Back
<1>6. ASSUME NEW u \in Ults, NEW v \in Ults, Xst!Create(u, v) PROVE Phases' /\ Following'
  BY <1>6 DEF Xst!Create
<1>7. ASSUME NEW u \in Ults, NEW new \in Scheds, Xst!SetMainSched(u, new)
      PROVE  Phases' /\ Following'
  BY <1>7 DEF Xst!SetMainSched, Xst!Call, Xst!Back
<1>8. ASSUME NEW u \in Ults, Xst!Resume(u) \/ Xst!CreateOutside(u) PROVE Phases' /\ Following'
  BY <1>8 DEF Xst!Resume, Xst!CreateOutside
<1>9. CASE Xst!ResumeDone \/ Xst!Join \/ Xst!JoinMain \/ Xst!Await \/ Xst!CtxJoin \/ Xst!CtxJoinWoken
  BY <1>9 DEF Xst!ResumeDone, Xst!Join, Xst!JoinMain, Xst!Await, Xst!CtxJoin, Xst!CtxJoinWoken
<1>10. CASE Xst!Cancel \/ Xst!Revive \/ Xst!Free \/ Xst!PthreadJoin
  BY <1>10 DEF Xst!Cancel, Xst!Revive, Xst!CtxRevive, Xst!Free, Xst!FreeMainSched, Xst!PthreadJoin
<1>11. ASSUME NEW new \in Scheds, Xst!SetMainSchedTerminated(new) PROVE Phases' /\ Following'
  BY <1>11 DEF Xst!SetMainSchedTerminated
<1>12. CASE UNCHANGED Xst!vars
  BY <1>12 DEF Xst!vars
<1> QED BY <1>1, <1>2, <1>3, <1>4, <1>5, <1>6, <1>7, <1>8, <1>9, <1>10, <1>11, <1>12
        DEF Xst!Next, Xst!Native, Xst!Control, Xst!Others

\* The locals of the native thread keep their types.
LEMMA ThreadTypesStep ==
  ASSUME ThreadTypes, Xst!Next
  PROVE  ThreadTypes'
<1>f. EventFreq \in Nat /\ 0 < EventFreq
  BY StreamConstants
<1> USE <1>f DEF ThreadTypes, Inside, Xst!ctx, Xst!main, Xst!native, Xst!control
<1> DEFINE Counter == pop_count \in 0..EventFreq /\ (pc = "pop" => pop_count < EventFreq)
           Others == /\ state \in {"RUNNING", "TERMINATED"} /\ sleeping \subseteq {"native", "joiner"}
                     /\ main_request \subseteq {"JOIN", "CANCEL"}
           Look == look \in 0..3
           Place == pc \in Inside \cup {"root", "terminate", "ctx", "ctxwait", "gone"}
<1>1. CASE Xst!RootFunc
  BY <1>1 DEF Xst!RootFunc
<1>2. CASE Xst!Run \/ Xst!ExitMain \/ Xst!Terminate
  <2>1. Counter'
    BY <1>2 DEF Xst!Run, Xst!ExitMain, Xst!Terminate
  <2>2. Others'
    BY <1>2 DEF Xst!Run, Xst!ExitMain, Xst!Terminate
  <2>3. Look'
    BY <1>2 DEF Xst!Run, Xst!ExitMain, Xst!Terminate
  <2>4. Place'
    BY <1>2 DEF Xst!Run, Xst!ExitMain, Xst!Terminate
  <2> QED BY <2>1, <2>2, <2>3, <2>4
<1>3. CASE Xst!Replace \/ Xst!CheckRequests
  <2>1. Counter'
    BY <1>3 DEF Xst!Replace, Xst!CheckRequests
  <2>2. Others'
    BY <1>3 DEF Xst!Replace, Xst!CheckRequests
  <2>3. Look'
    BY <1>3 DEF Xst!Replace, Xst!CheckRequests
  <2>4. Place'
    BY <1>3 DEF Xst!Replace, Xst!CheckRequests
  <2> QED BY <2>1, <2>2, <2>3, <2>4
<1>4. CASE Xst!Pop
  <2>1. Counter'
    <3>1. pc = "pop" /\ pc' \in {"ult", "count"} /\ pop_count' \in {EventFreq, pop_count + 1}
      BY <1>4 DEF Xst!Pop
    <3> QED BY <3>1
  <2>2. Others'
    BY <1>4 DEF Xst!Pop
  <2>3. Look'
    <3>1. look' \in {0, 1, look}
      BY <1>4 DEF Xst!Pop
    <3> QED BY <3>1
  <2>4. Place'
    BY <1>4 DEF Xst!Pop
  <2> QED BY <2>1, <2>2, <2>3, <2>4
<1>5. CASE Xst!Count \/ Xst!CheckEvents \/ Xst!HasToStop
  <2>1. Counter'
    BY <1>5 DEF Xst!Count, Xst!CheckEvents, Xst!HasToStop
  <2>2. Others'
    BY <1>5 DEF Xst!Count, Xst!CheckEvents, Xst!HasToStop
  <2>3. Look'
    BY <1>5 DEF Xst!Count, Xst!CheckEvents, Xst!HasToStop
  <2>4. Place'
    BY <1>5 DEF Xst!Count, Xst!CheckEvents, Xst!HasToStop
  <2> QED BY <2>1, <2>2, <2>3, <2>4
<1>6. CASE Xst!LookEmpty \/ Xst!LookBlocked
  <2>1. Counter'
    BY <1>6 DEF Xst!LookEmpty, Xst!LookBlocked, Xst!AnswerUnit, Xst!AnswerNoUnit
  <2>2. Others'
    BY <1>6 DEF Xst!LookEmpty, Xst!LookBlocked, Xst!AnswerUnit, Xst!AnswerNoUnit
  <2>3. Look'
    BY <1>6 DEF Xst!LookEmpty, Xst!LookBlocked, Xst!AnswerUnit, Xst!AnswerNoUnit
  <2>4. Place'
    BY <1>6 DEF Xst!LookEmpty, Xst!LookBlocked, Xst!AnswerUnit, Xst!AnswerNoUnit
  <2> QED BY <2>1, <2>2, <2>3, <2>4
<1>7. ASSUME NEW u \in Ults, Xst!Yield(u) \/ Xst!Suspend(u) \/ Xst!Return(u) \/ Xst!XstreamExit(u)
      PROVE  ThreadTypes'
  <2>1. Counter'
    BY <1>7 DEF Xst!Yield, Xst!Suspend, Xst!Return, Xst!XstreamExit, Xst!Call, Xst!Back
  <2>2. Others'
    BY <1>7 DEF Xst!Yield, Xst!Suspend, Xst!Return, Xst!XstreamExit, Xst!Call, Xst!Back
  <2>3. Look'
    BY <1>7 DEF Xst!Yield, Xst!Suspend, Xst!Return, Xst!XstreamExit, Xst!Call, Xst!Back
  <2>4. Place'
    BY <1>7 DEF Xst!Yield, Xst!Suspend, Xst!Return, Xst!XstreamExit, Xst!Call, Xst!Back
  <2> QED BY <2>1, <2>2, <2>3, <2>4
<1>8. CASE Xst!CtxFinish \/ Xst!CtxWoken \/ Xst!Spurious
  BY <1>8 DEF Xst!CtxFinish, Xst!Signal, Xst!CtxWoken, Xst!Spurious
<1>9. ASSUME NEW u \in Ults, NEW v \in Ults, Xst!Create(u, v) PROVE ThreadTypes'
  BY <1>9 DEF Xst!Create
<1>10. ASSUME NEW u \in Ults, NEW new \in Scheds, Xst!SetMainSched(u, new)
      PROVE  ThreadTypes'
  BY <1>10 DEF Xst!SetMainSched, Xst!Call, Xst!Back
<1>11. ASSUME NEW u \in Ults, Xst!Resume(u) \/ Xst!CreateOutside(u) PROVE ThreadTypes'
  BY <1>11 DEF Xst!Resume, Xst!CreateOutside
<1>12. CASE Xst!ResumeDone \/ Xst!Join \/ Xst!JoinMain \/ Xst!Await \/ Xst!CtxJoin \/ Xst!CtxJoinWoken
  BY <1>12 DEF Xst!ResumeDone, Xst!Join, Xst!JoinMain, Xst!Await, Xst!CtxJoin, Xst!CtxJoinWoken
<1>13. CASE Xst!Cancel \/ Xst!Revive \/ Xst!Free \/ Xst!PthreadJoin
  BY <1>13
     DEF Xst!Cancel, Xst!Revive, Xst!CtxRevive, Xst!Free, Xst!FreeMainSched, Xst!PthreadJoin,
         Xst!Signal
<1>14. ASSUME NEW new \in Scheds, Xst!SetMainSchedTerminated(new) PROVE ThreadTypes'
  BY <1>14 DEF Xst!SetMainSchedTerminated
<1>15. CASE UNCHANGED Xst!vars
  BY <1>15 DEF Xst!vars
<1> QED BY <1>1, <1>2, <1>3, <1>4, <1>5, <1>6, <1>7, <1>8, <1>9, <1>10, <1>11, <1>12, <1>13, <1>14, <1>15
        DEF Xst!Next, Xst!Native, Xst!Control, Xst!Others

\* A replacement that is pending has a scheduler and a waiter.
LEMMA PendingTypes ==
  ASSUME SchedTypes, Replacing
  PROVE  /\ "REPLACE" \in request[p_main_sched] <=> Xst!Pending
         /\ Xst!Pending => /\ p_replace_sched[p_main_sched] \in Scheds
                           /\ p_replace_waiter[p_main_sched] \in Ults
BY StreamConstants DEF SchedTypes, Replacing, Asked, HalfWay, Xst!Pending

\* The actions that change what schedulers keep.
LEMMA SchedsChange ==
  ASSUME Xst!Next
  PROVE  \/ UNCHANGED <<p_main_sched, Xst!sched>>
         \/ Xst!Replace \/ Xst!CheckEvents \/ Xst!Join \/ Xst!Revive \/ Xst!Free
         \/ \E u \in Ults, new \in Scheds : Xst!SetMainSched(u, new)
         \/ \E new \in Scheds : Xst!SetMainSchedTerminated(new)
<1> DEFINE Kept == UNCHANGED <<p_main_sched, Xst!sched>>
<1>1. ASSUME \/ Xst!RootFunc \/ Xst!Run \/ Xst!CheckRequests \/ Xst!ExitMain \/ Xst!Terminate
             \/ Xst!Pop \/ Xst!Count \/ Xst!HasToStop \/ Xst!LookEmpty \/ Xst!LookBlocked
             \/ Xst!CtxFinish \/ Xst!CtxWoken \/ Xst!Spurious
      PROVE  Kept
  BY <1>1 DEF Xst!RootFunc, Xst!Run, Xst!CheckRequests, Xst!ExitMain, Xst!Terminate,
              Xst!Pop, Xst!Count, Xst!HasToStop, Xst!LookEmpty, Xst!LookBlocked,
              Xst!CtxFinish, Xst!CtxWoken, Xst!Spurious
<1>2. ASSUME NEW u \in Ults,
             \/ Xst!Yield(u) \/ Xst!Suspend(u) \/ Xst!Return(u) \/ Xst!XstreamExit(u)
             \/ Xst!Resume(u) \/ Xst!CreateOutside(u) \/ \E v \in Ults : Xst!Create(u, v)
      PROVE  Kept
  BY <1>2 DEF Xst!Yield, Xst!Suspend, Xst!Return, Xst!XstreamExit, Xst!Resume,
              Xst!CreateOutside, Xst!Create
<1>3. ASSUME \/ Xst!ResumeDone \/ Xst!JoinMain \/ Xst!Await \/ Xst!CtxJoin \/ Xst!CtxJoinWoken
             \/ Xst!Cancel \/ Xst!PthreadJoin \/ UNCHANGED Xst!vars
      PROVE  Kept
  BY <1>3 DEF Xst!ResumeDone, Xst!JoinMain, Xst!Await, Xst!CtxJoin, Xst!CtxJoinWoken,
              Xst!Cancel, Xst!PthreadJoin, Xst!vars
<1> HIDE DEF Kept
<1> SUFFICES ASSUME ~Kept
             PROVE  \/ Xst!Replace \/ Xst!CheckEvents \/ Xst!Join \/ Xst!Revive \/ Xst!Free
                    \/ \E u \in Ults, new \in Scheds : Xst!SetMainSched(u, new)
                    \/ \E new \in Scheds : Xst!SetMainSchedTerminated(new)
  BY DEF Kept
<1> QED BY <1>1, <1>2, <1>3 DEF Xst!Next, Xst!Native, Xst!Control, Xst!Others

\* The actions that change ULTs or pools.
LEMMA UltsChange ==
  ASSUME Xst!Next
  PROVE  \/ UNCHANGED <<Xst!pools, Xst!ults>>
         \/ Xst!Replace \/ Xst!Pop \/ Xst!ResumeDone
         \/ \E u \in Ults : \/ Xst!Yield(u) \/ Xst!Suspend(u) \/ Xst!Return(u) \/ Xst!XstreamExit(u)
                            \/ Xst!Resume(u) \/ Xst!CreateOutside(u)
                            \/ \E v \in Ults : Xst!Create(u, v)
                            \/ \E new \in Scheds : Xst!SetMainSched(u, new)
<1> DEFINE Kept == UNCHANGED <<Xst!pools, Xst!ults>>
<1>1. ASSUME \/ Xst!RootFunc \/ Xst!Run \/ Xst!CheckRequests \/ Xst!ExitMain \/ Xst!Terminate
             \/ Xst!Count \/ Xst!CheckEvents \/ Xst!HasToStop \/ Xst!LookEmpty \/ Xst!LookBlocked
             \/ Xst!CtxFinish \/ Xst!CtxWoken \/ Xst!Spurious
      PROVE  Kept
  BY <1>1 DEF Xst!RootFunc, Xst!Run, Xst!CheckRequests, Xst!ExitMain, Xst!Terminate, Xst!Count,
              Xst!CheckEvents, Xst!HasToStop, Xst!LookEmpty, Xst!LookBlocked,
              Xst!CtxFinish, Xst!CtxWoken, Xst!Spurious
<1>2. ASSUME \/ Xst!Join \/ Xst!JoinMain \/ Xst!Await \/ Xst!CtxJoin \/ Xst!CtxJoinWoken
             \/ Xst!Cancel \/ Xst!Revive \/ Xst!Free \/ Xst!PthreadJoin \/ UNCHANGED Xst!vars
             \/ \E new \in Scheds : Xst!SetMainSchedTerminated(new)
      PROVE  Kept
  BY <1>2 DEF Xst!Join, Xst!JoinMain, Xst!Await, Xst!CtxJoin, Xst!CtxJoinWoken, Xst!Cancel,
              Xst!Revive, Xst!Free, Xst!PthreadJoin, Xst!vars, Xst!SetMainSchedTerminated
<1> HIDE DEF Kept
<1> SUFFICES ASSUME ~Kept
             PROVE  \/ Xst!Replace \/ Xst!Pop \/ Xst!ResumeDone
                    \/ \E u \in Ults :
                         \/ Xst!Yield(u) \/ Xst!Suspend(u) \/ Xst!Return(u) \/ Xst!XstreamExit(u)
                         \/ Xst!Resume(u) \/ Xst!CreateOutside(u)
                         \/ \E v \in Ults : Xst!Create(u, v)
                         \/ \E new \in Scheds : Xst!SetMainSched(u, new)
  BY DEF Kept
<1> QED BY <1>1, <1>2 DEF Xst!Next, Xst!Native, Xst!Control, Xst!Others

\* The fields of the schedulers keep their types.
LEMMA SchedTypesStep ==
  ASSUME SchedTypes, Replacing, Xst!Next
  PROVE  SchedTypes'
<1> USE DEF SchedTypes, Xst!sched
<1>a. \A s \in Scheds : Xst!Discarded(s) \in {"FREED", "NOT_USED"}
  BY DEF Xst!Discarded
<1>1. CASE UNCHANGED <<p_main_sched, Xst!sched>>
  BY <1>1
<1>2. CASE Xst!Replace
  BY <1>2, <1>a, PendingTypes DEF Xst!Replace
<1>3. CASE Xst!CheckEvents \/ Xst!Join \/ Xst!Revive
  BY <1>3 DEF Xst!CheckEvents, Xst!Join, Xst!Revive
<1>4. ASSUME NEW u \in Ults, NEW new \in Scheds, Xst!SetMainSched(u, new)
      PROVE  SchedTypes'
  BY <1>4, <1>a, PendingTypes DEF Xst!SetMainSched
<1>5. CASE Xst!Free
  BY <1>5, <1>a DEF Xst!Free, Xst!FreeMainSched
<1>6. ASSUME NEW new \in Scheds, Xst!SetMainSchedTerminated(new) PROVE SchedTypes'
  BY <1>6, <1>a DEF Xst!SetMainSchedTerminated, Xst!TakeOver
<1> QED BY <1>1, <1>2, <1>3, <1>4, <1>5, <1>6, SchedsChange

\* A pool in which a ULT is put, or from which one is taken.
LEMMA PoolTypes ==
  ASSUME UltTypes
  PROVE  /\ \A u \in Ults, s \in Scheds : Xst!Push(u, s) => queue' \in [Scheds -> Seq(Ults)]
         /\ \A s \in Scheds :
              /\ queue[s] # <<>> => Head(queue[s]) \in Ults
              /\ queue[s] # <<>> /\ queue' = [queue EXCEPT ![s] = Tail(@)] =>
                     queue' \in [Scheds -> Seq(Ults)]
<1>1. queue \in [Scheds -> Seq(Ults)]
  BY DEF UltTypes
<1>2. ASSUME NEW u \in Ults, NEW s \in Scheds, Xst!Push(u, s) PROVE queue' \in [Scheds -> Seq(Ults)]
  <2>1. Append(queue[s], u) \in Seq(Ults)
    BY <1>1
  <2> QED BY <1>1, <1>2, <2>1 DEF Xst!Push
<1>3. ASSUME NEW s \in Scheds, queue[s] # <<>>
      PROVE  Head(queue[s]) \in Ults /\ Tail(queue[s]) \in Seq(Ults)
  BY <1>1, <1>3
<1> QED BY <1>1, <1>2, <1>3

\* The ULTs and pools keep their types.
LEMMA UltTypesStep ==
  ASSUME SchedTypes, UltTypes, Replacing, Xst!Next
  PROVE  UltTypes'
<1> DEFINE Queues == queue \in [Scheds -> Seq(Ults)]
           Counts == num_blocked \in [Scheds -> Int] /\ resuming \subseteq Ults \X Nat \X Scheds
           States == ult_state \in [Ults -> Xst!States]
           Places == p_pool \in [Ults -> Scheds] /\ ops \in [Ults -> Nat]
<1>a. /\ Queues /\ Counts /\ States /\ Places
      /\ (Queues /\ Counts /\ States /\ Places)' => UltTypes'
  BY DEF UltTypes
<1>b. p_main_sched \in Scheds
  BY DEF SchedTypes
<1>c. ASSUME NEW u \in Ults, Xst!Call(u) PROVE ops' \in [Ults -> Nat]
  <2>1. ops \in [Ults -> Nat] /\ ops[u] - 1 \in Nat /\ ops' = [ops EXCEPT ![u] = ops[u] - 1]
    BY <1>a, <1>c DEF Xst!Call
  <2> QED BY ONLY <2>1, u \in Ults
<1>1. CASE UNCHANGED <<Xst!pools, Xst!ults>>
  BY <1>1 DEF UltTypes, Xst!pools, Xst!ults
<1>2. CASE Xst!Replace
  <2>1. Queues'
    BY <1>2, <1>a, PendingTypes, PoolTypes DEF Xst!Replace, Xst!pools
  <2>2. Counts'
    BY <1>2, <1>a, PendingTypes DEF Xst!Replace, Xst!pools
  <2>3. States'
    BY <1>2, <1>a, PendingTypes DEF Xst!Replace, Xst!SetState, Xst!States
  <2>4. Places'
    BY <1>2, <1>a DEF Xst!Replace
  <2> QED BY <1>a, <2>1, <2>2, <2>3, <2>4
<1>3. CASE Xst!Pop
  <2>1. Queues'
    BY <1>3, <1>a, <1>b, PoolTypes DEF Xst!Pop
  <2>2. Counts'
    BY <1>3, <1>a DEF Xst!Pop
  <2>3. States'
    BY <1>3, <1>a, <1>b, PoolTypes DEF Xst!Pop, Xst!SetState, Xst!States
  <2>4. Places'
    BY <1>3, <1>a DEF Xst!Pop
  <2> QED BY <1>a, <2>1, <2>2, <2>3, <2>4
<1>4. CASE Xst!ResumeDone
  <2>1. Queues'
    BY <1>4, <1>a DEF Xst!ResumeDone
  <2>2. Counts'
    BY <1>4, <1>a DEF Xst!ResumeDone
  <2>3. States'
    BY <1>4, <1>a DEF Xst!ResumeDone
  <2>4. Places'
    BY <1>4, <1>a DEF Xst!ResumeDone
  <2> QED BY <1>a, <2>1, <2>2, <2>3, <2>4
<1>5. ASSUME NEW u \in Ults, Xst!Yield(u) \/ Xst!Suspend(u) \/ Xst!Return(u) \/ Xst!XstreamExit(u)
      PROVE  UltTypes'
  <2>1. Queues'
    BY <1>5, <1>a, PoolTypes DEF Xst!Yield, Xst!Suspend, Xst!Return, Xst!XstreamExit, Xst!pools
  <2>2. Counts'
    BY <1>5, <1>a DEF Xst!Yield, Xst!Suspend, Xst!Return, Xst!XstreamExit, Xst!pools
  <2>3. States'
    BY <1>5, <1>a DEF Xst!Yield, Xst!Suspend, Xst!Return, Xst!XstreamExit,
                      Xst!SetState, Xst!States
  <2>4. Places'
    <3>1. ops' = ops \/ Xst!Call(u)
      BY <1>5 DEF Xst!Yield, Xst!Suspend, Xst!Return, Xst!XstreamExit
    <3>2. p_pool' = p_pool
      BY <1>5 DEF Xst!Yield, Xst!Suspend, Xst!Return, Xst!XstreamExit
    <3> QED BY <1>a, <1>c, <3>1, <3>2
  <2> QED BY <1>a, <2>1, <2>2, <2>3, <2>4
<1>6. ASSUME NEW u \in Ults, Xst!Resume(u) \/ Xst!CreateOutside(u) PROVE UltTypes'
  <2>1. Queues'
    BY <1>6, <1>a, <1>b, PoolTypes DEF Xst!Resume, Xst!CreateOutside
  <2>2. Counts'
    BY <1>6, <1>a DEF Xst!Resume, Xst!CreateOutside
  <2>3. States'
    BY <1>6, <1>a DEF Xst!Resume, Xst!CreateOutside, Xst!SetState, Xst!States
  <2>4. Places'
    BY <1>6, <1>a, <1>b DEF Xst!Resume, Xst!CreateOutside
  <2> QED BY <1>a, <2>1, <2>2, <2>3, <2>4
<1>7. ASSUME NEW u \in Ults, NEW v \in Ults, Xst!Create(u, v) PROVE UltTypes'
  <2>1. Queues'
    BY <1>7, <1>a, PoolTypes DEF Xst!Create
  <2>2. Counts'
    BY <1>7, <1>a DEF Xst!Create
  <2>3. States'
    BY <1>7, <1>a DEF Xst!Create, Xst!SetState, Xst!States
  <2>4. Places'
    <3>1. ops' \in [Ults -> Nat]
      BY <1>7, <1>c DEF Xst!Create
    <3>2. p_pool' \in [Ults -> Scheds]
      BY <1>7, <1>a DEF Xst!Create
    <3> QED BY <3>1, <3>2
  <2> QED BY <1>a, <2>1, <2>2, <2>3, <2>4
<1>8. ASSUME NEW u \in Ults, NEW new \in Scheds, Xst!SetMainSched(u, new) PROVE UltTypes'
  <2>0. Xst!NewPool(u, new) \in Scheds
    BY <1>a DEF Xst!NewPool
  <2>1. Queues'
    BY <1>8, <1>a, <2>0, PendingTypes, PoolTypes DEF Xst!SetMainSched
  <2>2. Counts'
    BY <1>8, <1>a, <2>0, PendingTypes DEF Xst!SetMainSched
  <2>3. States'
    BY <1>8, <1>a, PendingTypes DEF Xst!SetMainSched, Xst!SetState, Xst!States
  <2>4. Places'
    <3>1. ops' \in [Ults -> Nat]
      BY <1>8, <1>c DEF Xst!SetMainSched
    <3>2. p_pool' \in [Ults -> Scheds]
      BY <1>8, <1>a, <2>0 DEF Xst!SetMainSched
    <3> QED BY <3>1, <3>2
  <2> QED BY <1>a, <2>1, <2>2, <2>3, <2>4
<1> QED BY <1>1, <1>2, <1>3, <1>4, <1>5, <1>6, <1>7, <1>8, UltsChange

\* The actions after which the stream is on the context of a ULT or leaves it.
LEMMA ContextChange ==
  ASSUME Xst!Next
  PROVE  \/ cur' = cur /\ (pc' = pc \/ (pc # "ult" /\ pc' # "ult"))
         \/ Xst!Pop
         \/ \E u \in Ults :
              \/ Xst!Yield(u) \/ Xst!Suspend(u) \/ Xst!Return(u) \/ Xst!XstreamExit(u)
              \/ \E new \in Scheds : Xst!SetMainSched(u, new)
<1> DEFINE Kept == cur' = cur /\ (pc' = pc \/ (pc # "ult" /\ pc' # "ult"))
<1>1. ASSUME \/ Xst!RootFunc \/ Xst!Run \/ Xst!Replace \/ Xst!CheckRequests \/ Xst!ExitMain
             \/ Xst!Terminate \/ Xst!Count \/ Xst!CheckEvents \/ Xst!HasToStop
      PROVE  Kept
  BY <1>1 DEF Xst!RootFunc, Xst!Run, Xst!Replace, Xst!CheckRequests, Xst!ExitMain,
              Xst!Terminate, Xst!Count, Xst!CheckEvents, Xst!HasToStop
<1>2. ASSUME Xst!LookEmpty \/ Xst!LookBlocked \/ Xst!CtxFinish \/ Xst!CtxWoken \/ Xst!Spurious
      PROVE  Kept
  BY <1>2 DEF Xst!LookEmpty, Xst!LookBlocked, Xst!AnswerUnit, Xst!AnswerNoUnit,
              Xst!CtxFinish, Xst!CtxWoken, Xst!Spurious, Xst!native
<1>3. ASSUME NEW u \in Ults,
             Xst!Resume(u) \/ Xst!CreateOutside(u) \/ \E v \in Ults : Xst!Create(u, v)
      PROVE  Kept
  BY <1>3 DEF Xst!Resume, Xst!CreateOutside, Xst!Create, Xst!native
<1>4. ASSUME \/ Xst!ResumeDone \/ Xst!JoinMain \/ Xst!Await \/ Xst!CtxJoin \/ Xst!CtxJoinWoken
             \/ Xst!Cancel \/ Xst!PthreadJoin \/ UNCHANGED Xst!vars
             \/ Xst!Join \/ Xst!Revive \/ Xst!Free
             \/ \E new \in Scheds : Xst!SetMainSchedTerminated(new)
      PROVE  Kept
  BY <1>4 DEF Xst!ResumeDone, Xst!JoinMain, Xst!Await, Xst!CtxJoin, Xst!CtxJoinWoken,
              Xst!Cancel, Xst!PthreadJoin, Xst!vars, Xst!Join, Xst!Revive, Xst!Free,
              Xst!SetMainSchedTerminated, Xst!native
<1> HIDE DEF Kept
<1> SUFFICES ASSUME ~Kept
             PROVE  \/ Xst!Pop
                    \/ \E u \in Ults :
                         \/ Xst!Yield(u) \/ Xst!Suspend(u) \/ Xst!Return(u) \/ Xst!XstreamExit(u)
                         \/ \E new \in Scheds : Xst!SetMainSched(u, new)
  BY DEF Kept
<1> QED BY <1>1, <1>2, <1>3, <1>4 DEF Xst!Next, Xst!Native, Xst!Control, Xst!Others

\* Nobody's place in a pool changes.
LEMMA KeepPlaces ==
  ASSUME \A s \in Scheds : Holds(s), queue' = queue,
         \A s \in Scheds, w \in Ults : Held(s, w)' <=> Held(s, w)
  PROVE  \A s \in Scheds : Holds(s)'
BY DEF Holds

\* A ULT is put in its pool.
LEMMA PushPlaces ==
  ASSUME UltTypes, \A s \in Scheds : Holds(s),
         NEW v \in Ults, NEW pool \in Scheds, Xst!Push(v, pool),
         \A s \in Scheds : ~Held(s, v), \A s \in Scheds : Held(s, v)' <=> s = pool,
         \A s \in Scheds, w \in Ults \ {v} : Held(s, w)' <=> Held(s, w)
  PROVE  \A s \in Scheds : Holds(s)'
<1> SUFFICES ASSUME NEW s \in Scheds PROVE Holds(s)'
  OBVIOUS
<1>1. queue[s] \in Seq(Ults) /\ Holds(s)
  BY DEF UltTypes
<1>2. queue'[s] = IF s = pool THEN Append(queue[s], v) ELSE queue[s]
  BY DEF Xst!Push, UltTypes
<1>3. /\ Distinct(queue'[s])
      /\ \A w \in Ults : Listed(queue'[s], w) <=> (w = v /\ s = pool) \/ Listed(queue[s], w)
  <2>1. Distinct(queue[s]) /\ ~Listed(queue[s], v)
    BY <1>1 DEF Holds
  <2>2. /\ Distinct(Append(queue[s], v))
        /\ \A x : Listed(Append(queue[s], v), x) <=> x = v \/ Listed(queue[s], x)
    BY <1>1, <2>1, AppendLists
  <2> QED BY <1>2, <2>1, <2>2
<1>4. \A w \in Ults : Listed(queue'[s], w) <=> Held(s, w)'
  BY <1>1, <1>3 DEF Holds
<1> QED BY <1>3, <1>4 DEF Holds

\* The first of a pool is taken from it.
LEMMA PopPlaces ==
  ASSUME UltTypes, \A s \in Scheds : Holds(s),
         NEW pool \in Scheds, queue[pool] # <<>>, NEW h, h = Head(queue[pool]),
         queue' = [queue EXCEPT ![pool] = Tail(@)],
         \A s \in Scheds : ~(Held(s, h)'),
         \A s \in Scheds, w \in Ults \ {h} : Held(s, w)' <=> Held(s, w)
  PROVE  \A s \in Scheds : Holds(s)'
<1>1. queue[pool] \in Seq(Ults) /\ Holds(pool)
  BY DEF UltTypes
<1>2. /\ Distinct(Tail(queue[pool])) /\ h \in Ults /\ Listed(queue[pool], h)
      /\ \A x : Listed(Tail(queue[pool]), x) <=> x # h /\ Listed(queue[pool], x)
  BY <1>1, TailLists DEF Holds
<1>3. Held(pool, h)
  BY <1>1, <1>2 DEF Holds
<1>4. ASSUME NEW s \in Scheds PROVE Holds(s)'
  <2>1. queue'[s] = IF s = pool THEN Tail(queue[s]) ELSE queue[s]
    BY DEF UltTypes
  <2>2. Holds(s)
    OBVIOUS
  <2>3. ASSUME NEW w \in Ults, w # h PROVE Listed(queue'[s], w) <=> Held(s, w)'
    BY <1>2, <2>1, <2>2, <2>3 DEF Holds
  <2>4. Distinct(queue'[s]) /\ ~Listed(queue'[s], h)
    <3>1. s # pool => ~Held(s, h)
      BY <1>3 DEF Held
    <3> QED BY <1>2, <2>1, <2>2, <3>1 DEF Holds
  <2>5. \A w \in Ults : Listed(queue'[s], w) <=> Held(s, w)'
    BY <2>3, <2>4
  <2> QED BY <2>4, <2>5 DEF Holds
<1> QED BY <1>4

\* The first of a pool is in it.
LEMMA HeadPlaced ==
  ASSUME UltTypes, NEW pool \in Scheds, Holds(pool), queue[pool] # <<>>
  PROVE  Head(queue[pool]) \in Ults /\ Held(pool, Head(queue[pool]))
<1>1. queue[pool] \in Seq(Ults)
  BY DEF UltTypes
<1> QED BY <1>1, TailLists DEF Holds

\* The pools hold those that are READY.
LEMMA HoldsStep ==
  ASSUME SchedTypes, UltTypes, Replacing, UltsPlaced, Xst!Next
  PROVE  \A s \in Scheds : Holds(s)'
<1>a. /\ \A s \in Scheds : Holds(s)
      /\ \A u \in Ults : p_pool[u] \in Scheds /\ (ult_state[u] = "RUNNING" <=> pc = "ult" /\ cur = u)
      /\ p_main_sched \in Scheds
      /\ ult_state \in [Ults -> Xst!States] /\ p_pool \in [Ults -> Scheds]
  BY DEF UltsPlaced, OnStream, UltTypes, SchedTypes
<1> USE DEF Held, Xst!SetState
<1>1. CASE UNCHANGED <<Xst!pools, Xst!ults>>
  BY <1>1, <1>a, KeepPlaces DEF Xst!pools, Xst!ults
<1>2. CASE Xst!Replace
  <2>1. CASE "REPLACE" \notin request[p_main_sched]
    BY <1>2, <2>1, <1>a, KeepPlaces DEF Xst!Replace, Xst!pools
  <2>2. CASE "REPLACE" \in request[p_main_sched]
    <3>1. PICK w \in Ults : /\ w = p_replace_waiter[p_main_sched]
                            /\ ult_state[w] = "BLOCKED"
      BY <2>2, PendingTypes DEF Replacing, HalfWay
    <3>2. /\ Xst!Push(w, p_pool[w]) /\ UNCHANGED p_pool
          /\ ult_state' = [ult_state EXCEPT ![w] = "READY"]
      BY <1>2, <2>2, <3>1 DEF Xst!Replace
    <3> QED BY <3>1, <3>2, <1>a, PushPlaces
  <2> QED BY <2>1, <2>2
<1>3. CASE Xst!Pop
  <2>1. CASE queue[p_main_sched] = <<>>
    BY <1>3, <2>1, <1>a, KeepPlaces DEF Xst!Pop
  <2>2. CASE queue[p_main_sched] # <<>>
    <3>1. PICK h \in Ults : h = Head(queue[p_main_sched])
      BY <2>2, <1>a, PoolTypes
    <3>2. /\ ult_state' = [ult_state EXCEPT ![h] = "RUNNING"] /\ UNCHANGED p_pool
          /\ queue' = [queue EXCEPT ![p_main_sched] = Tail(@)]
      BY <1>3, <2>2, <3>1 DEF Xst!Pop
    <3> QED BY <2>2, <3>1, <3>2, <1>a, PopPlaces
  <2> QED BY <2>1, <2>2
<1>4. CASE Xst!ResumeDone
  BY <1>4, <1>a, KeepPlaces DEF Xst!ResumeDone
<1>5. ASSUME NEW u \in Ults, Xst!Suspend(u) \/ Xst!Return(u) \/ Xst!XstreamExit(u)
      PROVE  \A s \in Scheds : Holds(s)'
  BY <1>5, <1>a, KeepPlaces DEF Xst!Suspend, Xst!Return, Xst!XstreamExit, Xst!Call, Xst!pools
<1>6. ASSUME NEW u \in Ults, Xst!Yield(u) PROVE \A s \in Scheds : Holds(s)'
  BY <1>6, <1>a, PushPlaces DEF Xst!Yield, Xst!Call
<1>7. ASSUME NEW u \in Ults, Xst!Resume(u) PROVE \A s \in Scheds : Holds(s)'
  BY <1>7, <1>a, PushPlaces DEF Xst!Resume
<1>8. ASSUME NEW u \in Ults, Xst!CreateOutside(u) PROVE \A s \in Scheds : Holds(s)'
  BY <1>8, <1>a, PushPlaces DEF Xst!CreateOutside
<1>9. ASSUME NEW u \in Ults, NEW v \in Ults, Xst!Create(u, v) PROVE \A s \in Scheds : Holds(s)'
  BY <1>9, <1>a, PushPlaces DEF Xst!Create
<1>10. ASSUME NEW u \in Ults, NEW new \in Scheds, Xst!SetMainSched(u, new)
      PROVE  \A s \in Scheds : Holds(s)'
  <2>1. ult_state[u] = "RUNNING" /\ p_pool' = [p_pool EXCEPT ![u] = Xst!NewPool(u, new)]
    BY <1>10, <1>a DEF Xst!SetMainSched, Xst!Call
  <2>2. CASE Xst!Pending
    <3>1. PICK w \in Ults : /\ w = p_replace_waiter[p_main_sched]
                            /\ ult_state[w] = "BLOCKED"
      BY <2>2, PendingTypes DEF Replacing, HalfWay
    <3>2. /\ Xst!Push(w, p_pool[w])
          /\ ult_state' = [ult_state EXCEPT ![u] = "BLOCKED", ![w] = "READY"]
      BY <1>10, <2>2, <3>1 DEF Xst!SetMainSched
    <3> QED BY <2>1, <3>1, <3>2, <1>a, PushPlaces
  <2>3. CASE ~Xst!Pending
    BY <1>10, <1>a, <2>1, <2>3, KeepPlaces DEF Xst!SetMainSched
  <2> QED BY <2>2, <2>3
<1> QED BY <1>1, <1>2, <1>3, <1>4, <1>5, <1>6, <1>7, <1>8, <1>9, <1>10, UltsChange

\* The stream is on the context of the ULT that is RUNNING.
LEMMA OnStreamStep ==
  ASSUME SchedTypes, UltTypes, Phases, Following, Replacing, UltsPlaced, Xst!Next
  PROVE  OnStream'
<1> DEFINE Main == UNCHANGED p_main_sched \/ (pc # "ult" /\ pc' # "ult")
           States == \A u \in Ults : /\ ult_state[u]' = "RUNNING" <=> ult_state[u] = "RUNNING"
                                     /\ ult_state[u] = "RUNNING" => p_pool'[u] = p_pool[u]
           Kept == cur' = cur /\ (pc' = pc \/ (pc # "ult" /\ pc' # "ult"))
<1>a. /\ \A u \in Ults : p_pool[u] \in Scheds /\ (ult_state[u] = "RUNNING" <=> pc = "ult" /\ cur = u)
      /\ IF pc = "ult" THEN cur \in Ults /\ p_pool[cur] = p_main_sched ELSE cur = NoUlt
      /\ ult_state \in [Ults -> Xst!States] /\ p_pool \in [Ults -> Scheds] /\ p_main_sched \in Scheds
  BY DEF UltsPlaced, OnStream, UltTypes, SchedTypes
<1>1. ASSUME Kept PROVE Main
  BY <1>1, SchedsChange
     DEF Xst!Replace, Xst!CheckEvents, Xst!Join, Xst!Revive, Xst!Free, Xst!FreeMainSched,
         Xst!SetMainSched, Xst!Call, Xst!SetMainSchedTerminated, Phases, Following, Inside,
         Xst!native, Xst!Back
<1>2. ASSUME Kept PROVE States
  <2> USE <1>a DEF Xst!SetState
  <2>1. CASE UNCHANGED <<Xst!pools, Xst!ults>>
    BY <2>1 DEF Xst!ults
  <2>2. CASE Xst!Replace
    BY <2>2, PendingTypes DEF Xst!Replace, Replacing, HalfWay
  <2>3. CASE Xst!Pop
    BY <2>3, <1>2 DEF Xst!Pop
  <2>4. CASE Xst!ResumeDone
    BY <2>4 DEF Xst!ResumeDone
  <2>5. ASSUME NEW u \in Ults,
               \/ Xst!Yield(u) \/ Xst!Suspend(u) \/ Xst!Return(u) \/ Xst!XstreamExit(u)
               \/ \E new \in Scheds : Xst!SetMainSched(u, new)
        PROVE  FALSE
    BY <2>5, <1>2 DEF Xst!Yield, Xst!Suspend, Xst!Return, Xst!XstreamExit, Xst!SetMainSched,
                      Xst!Call, Xst!Back
  <2>6. ASSUME NEW u \in Ults, Xst!Resume(u) \/ Xst!CreateOutside(u) PROVE States
    BY <2>6 DEF Xst!Resume, Xst!CreateOutside
  <2>7. ASSUME NEW u \in Ults, NEW v \in Ults, Xst!Create(u, v) PROVE States
    BY <2>7 DEF Xst!Create
  <2> HIDE DEF States
  <2> QED BY <2>1, <2>2, <2>3, <2>4, <2>5, <2>6, <2>7, UltsChange
<1>3. CASE Kept
  <2>1. Main /\ States
    BY <1>1, <1>2, <1>3
  <2> QED BY <1>3, <2>1, <1>a DEF OnStream
<1>4. CASE Xst!Pop
  <2>1. CASE queue[p_main_sched] = <<>>
    BY <1>4, <2>1, <1>a DEF Xst!Pop, OnStream
  <2>2. CASE queue[p_main_sched] # <<>>
    <3>1. PICK h \in Ults : h = Head(queue[p_main_sched])
      BY <2>2, <1>a, PoolTypes
    <3>2. /\ ult_state' = [ult_state EXCEPT ![h] = "RUNNING"] /\ UNCHANGED <<p_pool, p_main_sched>>
          /\ pc = "pop" /\ pc' = "ult" /\ cur' = h
          /\ queue' = [queue EXCEPT ![p_main_sched] = Tail(@)]
      BY <1>4, <2>2, <3>1 DEF Xst!Pop, Xst!SetState
    <3>3. Held(p_main_sched, h)
      BY <2>2, <3>1, <1>a, HeadPlaced DEF UltsPlaced
    <3> QED BY <3>2, <3>3, <1>a DEF OnStream, Held
  <2> QED BY <2>1, <2>2
<1>5. ASSUME NEW u \in Ults, Xst!Yield(u) \/ Xst!Suspend(u) \/ Xst!Return(u) \/ Xst!XstreamExit(u)
      PROVE  OnStream'
  BY <1>5, <1>a DEF Xst!Yield, Xst!Suspend, Xst!Return, Xst!XstreamExit, Xst!Call, Xst!Back,
                    Xst!SetState, OnStream
<1>6. ASSUME NEW u \in Ults, NEW new \in Scheds, Xst!SetMainSched(u, new) PROVE OnStream'
  BY <1>6, <1>a, PendingTypes
     DEF Xst!SetMainSched, Xst!Call, Xst!Back, Xst!SetState, OnStream, Replacing, HalfWay
<1> QED BY <1>3, <1>4, <1>5, <1>6, ContextChange

\* What one ULT that blocks or is resumed does to the number of those that are blocked.
LEMMA BlockedChange ==
  ASSUME NEW u \in Ults, \A s \in Scheds, w \in Ults \ {u} : w \in BlockedIn(s)' <=> w \in BlockedIn(s)
  PROVE  \A s \in Scheds :
           /\ Cardinality(BlockedIn(s)) \in Nat
           /\ Cardinality(BlockedIn(s)') =
                Cardinality(BlockedIn(s)) + One(u \in BlockedIn(s)') - One(u \in BlockedIn(s))
<1> SUFFICES ASSUME NEW s \in Scheds
             PROVE  /\ Cardinality(BlockedIn(s)) \in Nat
                    /\ Cardinality(BlockedIn(s)') =
                         Cardinality(BlockedIn(s)) + One(u \in BlockedIn(s)') - One(u \in BlockedIn(s))
  OBVIOUS
<1>1. IsFiniteSet(BlockedIn(s))
  <2>1. BlockedIn(s) \subseteq Ults
    BY DEF BlockedIn
  <2> QED BY <2>1, StreamConstants, FS_Subset
<1>2. \A y : y # u => (y \in BlockedIn(s)' <=> y \in BlockedIn(s))
  BY DEF BlockedIn
<1> QED BY <1>1, <1>2, CountChange

\* What a resume that begins or ends does to the number of those that are not complete.
LEMMA ResumedChange ==
  ASSUME IsFiniteSet(resuming), NEW r, \A y : y # r => (y \in resuming' <=> y \in resuming)
  PROVE  /\ IsFiniteSet(resuming')
         /\ \A s \in Scheds :
              /\ Cardinality(ResumedIn(s)) \in Nat
              /\ Cardinality(ResumedIn(s)') =
                   Cardinality(ResumedIn(s)) + One(r \in ResumedIn(s)') - One(r \in ResumedIn(s))
<1>1. IsFiniteSet(resuming')
  BY CountChange
<1>2. ASSUME NEW s \in Scheds
      PROVE  /\ Cardinality(ResumedIn(s)) \in Nat
             /\ Cardinality(ResumedIn(s)') =
                  Cardinality(ResumedIn(s)) + One(r \in ResumedIn(s)') - One(r \in ResumedIn(s))
  <2>1. IsFiniteSet(ResumedIn(s))
    <3>1. ResumedIn(s) \subseteq resuming
      BY DEF ResumedIn
    <3> QED BY <3>1, FS_Subset
  <2>2. \A y : y # r => (y \in ResumedIn(s)' <=> y \in ResumedIn(s))
    BY DEF ResumedIn
  <2> QED BY <2>1, <2>2, CountChange
<1> QED BY <1>1, <1>2

\* The resumes that are not complete stay unlike any other.
LEMMA ResumesPastStep ==
  ASSUME SchedTypes, UltTypes, Replacing, UltsPlaced, ResumesPast, Xst!Next
  PROVE  ResumesPast'
<1>a. /\ \A u \in Ults : ops[u] \in Nat /\ (ult_state[u] = "RUNNING" <=> pc = "ult" /\ cur = u)
      /\ \A r \in resuming : r[1] \in Ults /\ r[2] \in Nat
      /\ ult_state \in [Ults -> Xst!States] /\ ops \in [Ults -> Nat]
  BY DEF UltsPlaced, OnStream, UltTypes
<1> USE DEF ResumesPast, Xst!SetState
<1>1. CASE UNCHANGED <<Xst!pools, Xst!ults>>
  BY <1>1 DEF Xst!ults
<1>2. CASE Xst!Replace
  <2>1. /\ resuming' = resuming /\ ops' = ops
        /\ \A u \in Ults : ult_state'[u] = "BLOCKED" => ult_state[u] = "BLOCKED"
    BY <1>2, <1>a, PendingTypes DEF Xst!Replace
  <2> QED BY <2>1, <1>a
<1>3. CASE Xst!Pop
  <2>1. /\ resuming' = resuming /\ ops' = ops
        /\ \A u \in Ults : ult_state'[u] = "BLOCKED" => ult_state[u] = "BLOCKED"
    BY <1>3, <1>a DEF Xst!Pop
  <2> QED BY <2>1, <1>a
<1>4. CASE Xst!ResumeDone
  BY <1>4, <1>a DEF Xst!ResumeDone
<1>5. ASSUME NEW u \in Ults, Xst!Yield(u) \/ Xst!Suspend(u) \/ Xst!Return(u) \/ Xst!XstreamExit(u)
      PROVE  ResumesPast'
  BY <1>5, <1>a DEF Xst!Suspend, Xst!Yield, Xst!Return, Xst!XstreamExit, Xst!Call
<1>6. ASSUME NEW u \in Ults, Xst!CreateOutside(u) PROVE ResumesPast'
  BY <1>6, <1>a DEF Xst!CreateOutside
<1>7. ASSUME NEW u \in Ults, NEW v \in Ults, Xst!Create(u, v) PROVE ResumesPast'
  BY <1>7, <1>a DEF Xst!Create, Xst!Call
<1>8. ASSUME NEW u \in Ults, NEW new \in Scheds, Xst!SetMainSched(u, new)
      PROVE  ResumesPast'
  <2>1. /\ resuming' = resuming /\ ops' = [ops EXCEPT ![u] = @ - 1] /\ ops[u] > 0
        /\ \A w \in Ults \ {u} : ult_state'[w] = "BLOCKED" => ult_state[w] = "BLOCKED"
    BY <1>8, <1>a, PendingTypes DEF Xst!SetMainSched, Xst!Call
  <2> QED BY <2>1, <1>a
<1>9. ASSUME NEW u \in Ults, Xst!Resume(u) PROVE ResumesPast'
  <2>1. /\ ult_state' = [ult_state EXCEPT ![u] = "READY"] /\ ops' = ops
        /\ resuming' = resuming \cup {<<u, ops[u], p_pool[u]>>}
    BY <1>9 DEF Xst!Resume
  <2> QED BY <2>1, <1>a
<1> QED BY <1>1, <1>2, <1>3, <1>4, <1>5, <1>6, <1>7, <1>8, <1>9, UltsChange

\* Neither the number of those that are blocked nor the count changes.
LEMMA KeepCounts ==
  ASSUME \A s \in Scheds : Counted(s), UNCHANGED <<num_blocked, resuming>>,
         \A s \in Scheds, w \in Ults : w \in BlockedIn(s)' <=> w \in BlockedIn(s)
  PROVE  \A s \in Scheds : Counted(s)'
<1> SUFFICES ASSUME NEW s \in Scheds PROVE Counted(s)'
  OBVIOUS
<1>1. BlockedIn(s)' = BlockedIn(s)
  BY DEF BlockedIn
<1>2. ResumedIn(s)' = ResumedIn(s)
  BY DEF ResumedIn
<1> QED BY <1>1, <1>2 DEF Counted

\* One ULT blocks or is resumed, and the count follows.
LEMMA CountFollows ==
  ASSUME UltTypes, IsFiniteSet(resuming), \A s \in Scheds : Counted(s), resuming' = resuming,
         NEW u \in Ults,
         \A s \in Scheds, w \in Ults \ {u} : w \in BlockedIn(s)' <=> w \in BlockedIn(s),
         \A s \in Scheds : num_blocked'[s] = num_blocked[s] + One(u \in BlockedIn(s)')
                                                           - One(u \in BlockedIn(s))
  PROVE  \A s \in Scheds : Counted(s)'
<1> SUFFICES ASSUME NEW s \in Scheds PROVE Counted(s)'
  OBVIOUS
<1>1. /\ Cardinality(BlockedIn(s)) \in Nat
      /\ Cardinality(BlockedIn(s)') =
           Cardinality(BlockedIn(s)) + One(u \in BlockedIn(s)') - One(u \in BlockedIn(s))
  BY BlockedChange
<1>2. ResumedIn(s)' = ResumedIn(s) /\ Cardinality(ResumedIn(s)) \in Nat
  <2>1. ResumedIn(s) \subseteq resuming
    BY DEF ResumedIn
  <2>2. ResumedIn(s)' = ResumedIn(s)
    BY DEF ResumedIn
  <2> QED BY <2>1, <2>2, FS_Subset, FS_CardinalityType
<1>3. One(u \in BlockedIn(s)') \in Int /\ One(u \in BlockedIn(s)) \in Int
  BY DEF One
<1>4. /\ num_blocked[s] = Cardinality(BlockedIn(s)) + Cardinality(ResumedIn(s))
      /\ num_blocked'[s] = num_blocked[s] + One(u \in BlockedIn(s)') - One(u \in BlockedIn(s))
  BY DEF Counted
<1>5. num_blocked'[s] = Cardinality(BlockedIn(s)') + Cardinality(ResumedIn(s)')
  BY <1>1, <1>2, <1>3, <1>4
<1> QED BY <1>5 DEF Counted

\* num_blocked is the number of those that are blocked or whose resume is not complete.
LEMMA CountedStep ==
  ASSUME SchedTypes, UltTypes, Replacing, UltsPlaced, UltsCounted, Xst!Next
  PROVE  \A s \in Scheds : Counted(s)'
<1>a. /\ \A u \in Ults : p_pool[u] \in Scheds /\ (ult_state[u] = "RUNNING" <=> pc = "ult" /\ cur = u)
      /\ num_blocked \in [Scheds -> Int] /\ \A s \in Scheds : num_blocked[s] \in Int
      /\ ult_state \in [Ults -> Xst!States] /\ p_pool \in [Ults -> Scheds]
      /\ IsFiniteSet(resuming) /\ \A s \in Scheds : Counted(s)
  BY DEF UltsPlaced, OnStream, UltTypes, UltsCounted
<1>b. \A s \in Scheds, w \in Ults : w \in BlockedIn(s) <=> p_pool[w] = s /\ ult_state[w] = "BLOCKED"
  BY DEF BlockedIn
<1>c. \A s \in Scheds, w \in Ults :
        w \in BlockedIn(s)' <=> p_pool'[w] = s /\ ult_state'[w] = "BLOCKED"
  BY DEF BlockedIn
<1> USE DEF Xst!SetState
<1>1. CASE UNCHANGED <<Xst!pools, Xst!ults>>
  BY <1>1, <1>a, <1>b, <1>c, KeepCounts DEF Xst!pools, Xst!ults
<1>2. CASE Xst!Replace
  <2>1. CASE "REPLACE" \notin request[p_main_sched]
    BY <1>2, <2>1, <1>a, <1>b, <1>c, KeepCounts DEF Xst!Replace, Xst!pools
  <2>2. CASE "REPLACE" \in request[p_main_sched]
    <3>1. PICK w \in Ults : /\ w = p_replace_waiter[p_main_sched]
                            /\ ult_state[w] = "BLOCKED"
      BY <2>2, PendingTypes DEF Replacing, HalfWay
    <3>2. /\ num_blocked' = [num_blocked EXCEPT ![p_pool[w]] = @ - 1]
          /\ UNCHANGED <<p_pool, resuming>>
          /\ ult_state' = [ult_state EXCEPT ![w] = "READY"]
      BY <1>2, <2>2, <3>1 DEF Xst!Replace
    <3>3. \A s \in Scheds, v \in Ults \ {w} : v \in BlockedIn(s)' <=> v \in BlockedIn(s)
      BY <3>2, <1>a, <1>b, <1>c
    <3>4. \A s \in Scheds : num_blocked'[s] = num_blocked[s] + One(w \in BlockedIn(s)')
                                                             - One(w \in BlockedIn(s))
      BY <3>1, <3>2, <1>a, <1>b, <1>c DEF One
    <3> QED BY <3>2, <3>3, <3>4, <1>a, CountFollows
  <2> QED BY <2>1, <2>2
<1>3. CASE Xst!Pop
  <2>1. CASE queue[p_main_sched] = <<>>
    BY <1>3, <2>1, <1>a, <1>b, <1>c, KeepCounts DEF Xst!Pop
  <2>2. CASE queue[p_main_sched] # <<>>
    <3>1. PICK h \in Ults : h = Head(queue[p_main_sched]) /\ Held(p_main_sched, h)
      BY <2>2, HeadPlaced DEF UltsPlaced, SchedTypes
    <3>2. /\ ult_state' = [ult_state EXCEPT ![h] = "RUNNING"]
          /\ UNCHANGED <<p_pool, num_blocked, resuming>>
      BY <1>3, <2>2, <3>1 DEF Xst!Pop
    <3> QED BY <3>1, <3>2, <1>a, <1>b, <1>c, KeepCounts DEF Held
  <2> QED BY <2>1, <2>2
<1>4. CASE Xst!ResumeDone
  <2>1. PICK r \in resuming : /\ num_blocked' = [num_blocked EXCEPT ![r[3]] = @ - 1]
                              /\ resuming' = resuming \ {r}
    BY <1>4 DEF Xst!ResumeDone
  <2>2. \A s \in Scheds :
          /\ Cardinality(ResumedIn(s)) \in Nat
          /\ Cardinality(ResumedIn(s)') =
               Cardinality(ResumedIn(s)) + One(r \in ResumedIn(s)') - One(r \in ResumedIn(s))
    BY <2>1, <1>a, ResumedChange
  <2>3. ASSUME NEW s \in Scheds PROVE Counted(s)'
    <3>1. BlockedIn(s)' = BlockedIn(s)
      BY <1>4 DEF Xst!ResumeDone, BlockedIn
    <3>2. /\ Cardinality(BlockedIn(s)) \in Nat
          /\ num_blocked[s] = Cardinality(BlockedIn(s)) + Cardinality(ResumedIn(s))
      <4>1. BlockedIn(s) \subseteq Ults
        BY DEF BlockedIn
      <4> QED BY <4>1, <1>a, StreamConstants, FS_Subset, FS_CardinalityType DEF Counted
    <3>3. r[3] \in Scheds /\ One(r \in ResumedIn(s)') = 0 /\ One(r \in ResumedIn(s)) = One(r[3] = s)
      BY <2>1 DEF ResumedIn, One, UltTypes
    <3>4. num_blocked'[s] = num_blocked[s] - One(r[3] = s)
      BY <2>1, <3>3, <1>a DEF One
    <3>5. One(r[3] = s) \in Int
      BY DEF One
    <3> QED BY <2>2, <3>1, <3>2, <3>3, <3>4, <3>5 DEF Counted
  <2> QED BY <2>3
<1>5. ASSUME NEW u \in Ults, Xst!Yield(u) \/ Xst!Return(u) \/ Xst!XstreamExit(u)
      PROVE  \A s \in Scheds : Counted(s)'
  BY <1>5, <1>a, <1>b, <1>c, KeepCounts
     DEF Xst!Yield, Xst!Return, Xst!XstreamExit, Xst!Call, Xst!pools
<1>6. ASSUME NEW u \in Ults, Xst!Suspend(u) PROVE \A s \in Scheds : Counted(s)'
  <2>1. /\ num_blocked' = [num_blocked EXCEPT ![p_pool[u]] = @ + 1]
        /\ UNCHANGED <<p_pool, resuming>> /\ ult_state[u] # "BLOCKED"
        /\ ult_state' = [ult_state EXCEPT ![u] = "BLOCKED"]
    BY <1>6, <1>a DEF Xst!Suspend, Xst!Call
  <2>2. \A s \in Scheds, v \in Ults \ {u} : v \in BlockedIn(s)' <=> v \in BlockedIn(s)
    BY <2>1, <1>a, <1>b, <1>c
  <2>3. \A s \in Scheds : num_blocked'[s] = num_blocked[s] + One(u \in BlockedIn(s)')
                                                           - One(u \in BlockedIn(s))
    BY <2>1, <1>a, <1>b, <1>c DEF One
  <2> QED BY <2>1, <2>2, <2>3, <1>a, CountFollows
<1>7. ASSUME NEW u \in Ults, Xst!Resume(u) PROVE \A s \in Scheds : Counted(s)'
  <2> DEFINE r == <<u, ops[u], p_pool[u]>>
  <2>1. /\ num_blocked' = num_blocked /\ p_pool' = p_pool
        /\ resuming' = resuming \cup {r} /\ ult_state[u] = "BLOCKED"
        /\ ult_state' = [ult_state EXCEPT ![u] = "READY"]
    BY <1>7 DEF Xst!Resume
  <2>2. r \notin resuming
    <3>1. ops[u] \in Nat /\ ~(ops[u] < ops[u])
      BY DEF UltTypes
    <3> QED BY <2>1, <3>1 DEF UltsCounted, ResumesPast
  <2>3. r[3] = p_pool[u] /\ \A y : y # r => (y \in resuming' <=> y \in resuming)
    BY <2>1
  <2> HIDE DEF r
  <2>4. ASSUME NEW s \in Scheds PROVE Counted(s)'
    <3>1. /\ Cardinality(ResumedIn(s)) \in Nat
          /\ Cardinality(ResumedIn(s)') =
               Cardinality(ResumedIn(s)) + One(r \in ResumedIn(s)') - One(r \in ResumedIn(s))
      BY <2>3, <1>a, ResumedChange
    <3>2. /\ Cardinality(BlockedIn(s)) \in Nat
          /\ Cardinality(BlockedIn(s)') =
               Cardinality(BlockedIn(s)) + One(u \in BlockedIn(s)') - One(u \in BlockedIn(s))
      BY <2>1, <1>a, <1>b, <1>c, BlockedChange
    <3>3. /\ One(r \in ResumedIn(s)') = One(p_pool[u] = s) /\ One(r \in ResumedIn(s)) = 0
          /\ One(u \in BlockedIn(s)') = 0 /\ One(u \in BlockedIn(s)) = One(p_pool[u] = s)
      BY <2>1, <2>2, <2>3, <1>a, <1>b, <1>c DEF ResumedIn, One
    <3>4. One(p_pool[u] = s) \in Int
      BY DEF One
    <3> QED BY <2>1, <3>1, <3>2, <3>3, <3>4, <1>a DEF Counted
  <2> QED BY <2>4
<1>8. ASSUME NEW u \in Ults, Xst!CreateOutside(u) PROVE \A s \in Scheds : Counted(s)'
  BY <1>8, <1>a, <1>b, <1>c, KeepCounts DEF Xst!CreateOutside
<1>9. ASSUME NEW u \in Ults, NEW v \in Ults, Xst!Create(u, v) PROVE \A s \in Scheds : Counted(s)'
  BY <1>9, <1>a, <1>b, <1>c, KeepCounts DEF Xst!Create
<1>10. ASSUME NEW u \in Ults, NEW new \in Scheds, Xst!SetMainSched(u, new)
       PROVE  \A s \in Scheds : Counted(s)'
  <2>0. PICK pool \in Scheds : pool = Xst!NewPool(u, new)
    BY <1>a DEF Xst!NewPool
  <2>1. /\ ult_state[u] = "RUNNING" /\ p_pool' = [p_pool EXCEPT ![u] = pool]
        /\ resuming' = resuming
    BY <1>10, <1>a, <2>0 DEF Xst!SetMainSched, Xst!Call
  <2>2. CASE ~Xst!Pending
    <3>1. /\ ult_state' = [ult_state EXCEPT ![u] = "BLOCKED"]
          /\ num_blocked' = [num_blocked EXCEPT ![pool] = @ + 1]
      BY <1>10, <2>0, <2>2 DEF Xst!SetMainSched
    <3>2. \A s \in Scheds, v \in Ults \ {u} : v \in BlockedIn(s)' <=> v \in BlockedIn(s)
      BY <2>1, <3>1, <1>a, <1>b, <1>c
    <3>3. \A s \in Scheds : num_blocked'[s] = num_blocked[s] + One(u \in BlockedIn(s)')
                                                             - One(u \in BlockedIn(s))
      BY <2>1, <3>1, <1>a, <1>b, <1>c DEF One
    <3> QED BY <2>1, <3>2, <3>3, <1>a, CountFollows
  <2>3. CASE Xst!Pending
    <3>1. PICK w \in Ults : w = p_replace_waiter[p_main_sched] /\ ult_state[w] = "BLOCKED"
      BY <2>3, PendingTypes DEF Replacing, HalfWay
    <3>2. /\ ult_state' = [ult_state EXCEPT ![u] = "BLOCKED", ![w] = "READY"]
          /\ num_blocked' = [s \in Scheds |-> num_blocked[s] + (IF s = pool THEN 1 ELSE 0)
                                               - (IF s = p_pool[w] THEN 1 ELSE 0)]
      BY <1>10, <2>0, <2>3, <3>1 DEF Xst!SetMainSched
    <3>3. ASSUME NEW s \in Scheds PROVE Counted(s)'
      <4> DEFINE B == BlockedIn(s)
                 C == BlockedIn(s) \ {w}
                 D == BlockedIn(s)'
      <4>1. IsFiniteSet(B) /\ Cardinality(B) \in Nat
        <5>1. B \subseteq Ults
          BY DEF BlockedIn
        <5> QED BY <5>1, StreamConstants, FS_Subset, FS_CardinalityType
      <4>2. /\ IsFiniteSet(C) /\ Cardinality(C) \in Nat
            /\ Cardinality(C) = Cardinality(B) - One(p_pool[w] = s)
        <5>1. \A y : y # w => (y \in C <=> y \in B)
          OBVIOUS
        <5>2. One(w \in C) = 0 /\ One(w \in B) = One(p_pool[w] = s) /\ One(p_pool[w] = s) \in Int
          BY <3>1, <1>b DEF One
        <5> HIDE DEF B, C
        <5>3. IsFiniteSet(C) /\ Cardinality(C) = Cardinality(B) + One(w \in C) - One(w \in B)
          BY <4>1, <5>1, CountChange
        <5> QED BY <4>1, <5>2, <5>3, FS_CardinalityType
      <4>3. Cardinality(D) = Cardinality(C) + One(s = pool)
        <5>1. \A y \in Ults : y # u => (y \in D <=> y \in C)
          BY <2>1, <3>1, <3>2, <1>a, <1>b, <1>c
        <5>2. \A y : y \in D \/ y \in C => y \in Ults
          BY DEF BlockedIn
        <5>3. One(u \in D) = One(s = pool) /\ One(u \in C) = 0 /\ One(s = pool) \in Int
          BY <2>1, <3>1, <3>2, <1>a, <1>b, <1>c DEF One
        <5> HIDE DEF C, D
        <5>4. \A y : y # u => (y \in D <=> y \in C)
          BY <5>1, <5>2
        <5>5. Cardinality(D) = Cardinality(C) + One(u \in D) - One(u \in C)
          BY <4>2, <5>4, CountChange
        <5> QED BY <4>2, <5>3, <5>5
      <4>4. ResumedIn(s)' = ResumedIn(s) /\ Cardinality(ResumedIn(s)) \in Nat
        <5>1. ResumedIn(s) \subseteq resuming
          BY DEF ResumedIn
        <5> QED BY <2>1, <5>1, <1>a, FS_Subset, FS_CardinalityType DEF ResumedIn
      <4>5. num_blocked'[s] = num_blocked[s] + One(s = pool) - One(p_pool[w] = s)
        BY <3>2, <1>a DEF One
      <4>6. One(s = pool) \in Int /\ One(p_pool[w] = s) \in Int
        BY DEF One
      <4>7. num_blocked[s] = Cardinality(B) + Cardinality(ResumedIn(s))
        BY <1>a DEF Counted
      <4> HIDE DEF B, C, D
      <4>8. num_blocked'[s] = Cardinality(D) + Cardinality(ResumedIn(s))
        BY <4>1, <4>2, <4>3, <4>4, <4>5, <4>6, <4>7
      <4> QED BY <4>4, <4>8 DEF Counted, D
    <3> QED BY <3>3
  <2> QED BY <2>2, <2>3
<1> QED BY <1>1, <1>2, <1>3, <1>4, <1>5, <1>6, <1>7, <1>8, <1>9, <1>10, UltsChange

\* Replacements stay in order, and requests have their reasons.
LEMMA ReplacingStep ==
  ASSUME ThreadTypes, SchedTypes, UltTypes, Phases, Following, UltsPlaced, Replacing, Xst!Next
  PROVE  Replacing'
<1> DEFINE Before == /\ MainUsed /\ Asked /\ Excused /\ (Xst!Pending => HalfWay /\ GoesOn)
                     /\ p_main_sched \in Scheds /\ request \in [Scheds -> SUBSET {"FINISH", "EXIT", "REPLACE"}]
                     /\ look \in 0..3
           Sound == MainUsed' /\ Asked' /\ Excused'
           Halted == (Xst!Pending)' => GoesOn'
           Waits == (Xst!Pending)' => HalfWay'
<1>a. Before
  BY DEF Replacing, SchedTypes, ThreadTypes
<1>b. /\ \A u \in Ults : ult_state[u] = "RUNNING" <=> pc = "ult" /\ cur = u
      /\ ult_state \in [Ults -> Xst!States]
  BY DEF UltsPlaced, OnStream, UltTypes
<1>c. Sound /\ Halted /\ Waits => Replacing'
  BY DEF Replacing
<1> USE DEF Xst!ctx, Xst!main, Xst!native, Xst!control, Xst!sched, Xst!ults, Xst!SetState
<1>1. CASE Xst!RootFunc \/ Xst!Run \/ Xst!CheckRequests \/ Xst!ExitMain \/ Xst!Terminate
  <2>1. Sound
    BY <1>1, <1>a DEF Xst!RootFunc, Xst!Run, Xst!CheckRequests, Xst!ExitMain, Xst!Terminate, MainUsed, Asked, Excused, Gone
  <2>2. Halted
    BY <1>1, <1>a DEF Xst!RootFunc, Xst!Run, Xst!CheckRequests, Xst!ExitMain, Xst!Terminate, Xst!Pending, GoesOn, Inside
  <2>3. Waits
    BY <1>1, <1>a, <1>b DEF Xst!RootFunc, Xst!Run, Xst!CheckRequests, Xst!ExitMain, Xst!Terminate, Xst!Pending, HalfWay
  <2> QED BY <1>c, <2>1, <2>2, <2>3
<1>2. CASE Xst!Count \/ Xst!HasToStop
  <2>1. Sound
    BY <1>2, <1>a DEF Xst!Count, Xst!HasToStop, MainUsed, Asked, Excused, Gone
  <2>2. Halted
    BY <1>2, <1>a DEF Xst!Count, Xst!HasToStop, Xst!Pending, GoesOn, Inside
  <2>3. Waits
    BY <1>2, <1>a, <1>b DEF Xst!Count, Xst!HasToStop, Xst!Pending, HalfWay
  <2> QED BY <1>c, <2>1, <2>2, <2>3
<1>3. CASE Xst!Pop
  <2>1. Sound
    BY <1>3, <1>a DEF Xst!Pop, MainUsed, Asked, Excused, Gone
  <2>2. Halted
    BY <1>3, <1>a DEF Xst!Pop, Xst!Pending, GoesOn, Inside
  <2>3. Waits
    <3>1. queue[p_main_sched] # <<>> => ult_state[Head(queue[p_main_sched])] = "READY"
      BY <1>a, HeadPlaced DEF UltsPlaced, Held
    <3> QED BY <1>3, <3>1, <1>a, <1>b DEF Xst!Pop, Xst!Pending, HalfWay
  <2> QED BY <1>c, <2>1, <2>2, <2>3
<1>4. CASE Xst!LookEmpty \/ Xst!LookBlocked
  <2>1. Sound
    BY <1>4, <1>a DEF Xst!LookEmpty, Xst!LookBlocked, Xst!AnswerUnit, Xst!AnswerNoUnit, MainUsed, Asked, Excused, Gone
  <2>2. Halted
    <3>1. CASE Xst!Pending
      <4>1. look \in {1, 2} /\ "CANCEL" \notin main_request
        BY <1>4, <3>1, <1>a DEF Xst!LookEmpty, Xst!LookBlocked, GoesOn, Excused
      <4> QED BY <1>4, <4>1 DEF Xst!LookEmpty, Xst!LookBlocked, Xst!AnswerUnit,
                               Xst!AnswerNoUnit, GoesOn, Inside
    <3>2. (Xst!Pending)' => Xst!Pending
      BY <1>4 DEF Xst!LookEmpty, Xst!LookBlocked, Xst!Pending
    <3> QED BY <3>1, <3>2
  <2>3. Waits
    BY <1>4, <1>a, <1>b DEF Xst!LookEmpty, Xst!LookBlocked, Xst!AnswerUnit, Xst!AnswerNoUnit, Xst!Pending, HalfWay
  <2> QED BY <1>c, <2>1, <2>2, <2>3
<1>5. CASE Xst!CtxFinish \/ Xst!CtxWoken \/ Xst!Spurious
  <2>1. Sound
    BY <1>5, <1>a DEF Xst!CtxFinish, Xst!CtxWoken, Xst!Spurious, MainUsed, Asked, Excused, Gone
  <2>2. Halted
    BY <1>5, <1>a DEF Xst!CtxFinish, Xst!CtxWoken, Xst!Spurious, Xst!Pending, GoesOn, Inside
  <2>3. Waits
    BY <1>5, <1>a, <1>b DEF Xst!CtxFinish, Xst!CtxWoken, Xst!Spurious, Xst!Pending, HalfWay
  <2> QED BY <1>c, <2>1, <2>2, <2>3
<1>6. ASSUME NEW u \in Ults, Xst!Yield(u) \/ Xst!Suspend(u) \/ Xst!Return(u) \/ Xst!XstreamExit(u)
      PROVE  Replacing'
  <2>1. Sound
    BY <1>6, <1>a DEF Xst!Yield, Xst!Suspend, Xst!Return, Xst!XstreamExit, Xst!Call, Xst!Back, MainUsed, Asked, Excused, Gone
  <2>2. Halted
    BY <1>6, <1>a DEF Xst!Yield, Xst!Suspend, Xst!Return, Xst!XstreamExit, Xst!Call, Xst!Back, Xst!Pending, GoesOn, Inside
  <2>3. Waits
    BY <1>6, <1>a, <1>b DEF Xst!Yield, Xst!Suspend, Xst!Return, Xst!XstreamExit, Xst!Call, Xst!Back, Xst!Pending, HalfWay
  <2> QED BY <1>c, <2>1, <2>2, <2>3
<1>7. ASSUME NEW u \in Ults, Xst!Resume(u) \/ Xst!CreateOutside(u)
      PROVE  Replacing'
  <2>1. Sound
    BY <1>7, <1>a DEF Xst!Resume, Xst!CreateOutside, MainUsed, Asked, Excused, Gone
  <2>2. Halted
    BY <1>7, <1>a DEF Xst!Resume, Xst!CreateOutside, Xst!Pending, GoesOn, Inside
  <2>3. Waits
    BY <1>7, <1>a, <1>b DEF Xst!Resume, Xst!CreateOutside, Xst!Pending, HalfWay
  <2> QED BY <1>c, <2>1, <2>2, <2>3
<1>8. ASSUME NEW u \in Ults, NEW v \in Ults, Xst!Create(u, v)
      PROVE  Replacing'
  <2>1. Sound
    BY <1>8, <1>a DEF Xst!Create, MainUsed, Asked, Excused, Gone
  <2>2. Halted
    BY <1>8, <1>a DEF Xst!Create, Xst!Pending, GoesOn, Inside
  <2>3. Waits
    BY <1>8, <1>a, <1>b DEF Xst!Create, Xst!Pending, HalfWay
  <2> QED BY <1>c, <2>1, <2>2, <2>3
<1>9. CASE Xst!ResumeDone \/ Xst!JoinMain \/ Xst!Await \/ Xst!CtxJoin \/ Xst!CtxJoinWoken
  <2>1. Sound
    BY <1>9, <1>a DEF Xst!ResumeDone, Xst!JoinMain, Xst!Await, Xst!CtxJoin, Xst!CtxJoinWoken, MainUsed, Asked, Excused, Gone
  <2>2. Halted
    BY <1>9, <1>a DEF Xst!ResumeDone, Xst!JoinMain, Xst!Await, Xst!CtxJoin, Xst!CtxJoinWoken, Xst!Pending, GoesOn, Inside
  <2>3. Waits
    BY <1>9, <1>a, <1>b DEF Xst!ResumeDone, Xst!JoinMain, Xst!Await, Xst!CtxJoin, Xst!CtxJoinWoken, Xst!Pending, HalfWay
  <2> QED BY <1>c, <2>1, <2>2, <2>3
<1>10. CASE Xst!Cancel \/ Xst!PthreadJoin
  <2>1. Sound
    BY <1>10, <1>a DEF Xst!Cancel, Xst!PthreadJoin, MainUsed, Asked, Excused, Gone
  <2>2. Halted
    BY <1>10, <1>a DEF Xst!Cancel, Xst!PthreadJoin, Xst!Pending, GoesOn, Inside
  <2>3. Waits
    BY <1>10, <1>a, <1>b DEF Xst!Cancel, Xst!PthreadJoin, Xst!Pending, HalfWay
  <2> QED BY <1>c, <2>1, <2>2, <2>3
<1>11. CASE Xst!CheckEvents \/ Xst!Join
  <2>1. Sound
    BY <1>11, <1>a DEF Xst!CheckEvents, Xst!Join, MainUsed, Asked, Excused, Gone
  <2>2. Halted
    BY <1>11, <1>a DEF Xst!CheckEvents, Xst!Join, Xst!Pending, GoesOn, Inside
  <2>3. Waits
    <3>1. /\ \A t \in Scheds : t # p_main_sched => request'[t] = request[t]
          /\ UNCHANGED <<p_main_sched, p_replace_sched, p_replace_waiter, used, ult_state>>
      BY <1>11, <1>a DEF Xst!CheckEvents, Xst!Join
    <3>2. Xst!Pending => /\ p_replace_sched[p_main_sched] # p_main_sched
                         /\ p_replace_sched[p_main_sched] \in Scheds
      <4>1. ~Gone
        BY <1>11 DEF Xst!CheckEvents, Xst!Join, Phases, Following, Inside, Gone
      <4> QED BY <4>1, <1>a, PendingTypes DEF MainUsed, HalfWay
    <3> QED BY <3>1, <3>2, <1>a DEF Xst!Pending, HalfWay
  <2> QED BY <1>c, <2>1, <2>2, <2>3
<1>12. CASE UNCHANGED Xst!vars
  <2>1. Sound
    BY <1>12, <1>a DEF Xst!vars, MainUsed, Asked, Excused, Gone
  <2>2. Halted
    BY <1>12, <1>a DEF Xst!vars, Xst!Pending, GoesOn, Inside
  <2>3. Waits
    BY <1>12, <1>a, <1>b DEF Xst!vars, Xst!Pending, HalfWay
  <2> QED BY <1>c, <2>1, <2>2, <2>3
<1>13. CASE Xst!Replace
  <2>1. CASE "REPLACE" \notin request[p_main_sched]
    <3>1. ~Xst!Pending
      BY <2>1, <1>a DEF Asked, Xst!Pending
    <3>2. UNCHANGED <<p_main_sched, Xst!sched, ctl, main_request, look>> /\ pc = "ran" /\ pc' = "cancel"
      BY <1>13, <2>1 DEF Xst!Replace
    <3> QED BY <3>1, <3>2, <1>a DEF Replacing, MainUsed, Asked, Excused, Gone, Xst!Pending
  <2>2. CASE "REPLACE" \in request[p_main_sched]
    <3>1. PICK new \in Scheds : new = p_replace_sched[p_main_sched]
      BY <2>2, PendingTypes
    <3>2. Xst!Pending /\ HalfWay
      BY <2>2, <1>a, PendingTypes
    <3>3. /\ p_main_sched' = new /\ pc = "ran" /\ pc' = "cancel"
          /\ used' = [used EXCEPT ![new] = "MAIN", ![p_main_sched] = Xst!Discarded(p_main_sched)]
          /\ UNCHANGED <<request, p_replace_sched, ctl, main_request, look>>
      BY <1>13, <2>2, <3>1 DEF Xst!Replace
    <3>4. ctl \notin {"pjoin", "done"}
      BY <3>3 DEF Phases, Following, Inside
    <3>5. used[new] = "NOT_USED" /\ request[new] = {} /\ new # p_main_sched
      BY <3>1, <3>2, <3>4, <1>a DEF HalfWay, MainUsed, Gone
    <3>6. used'[new] = "MAIN"
      BY <3>3, <3>5 DEF SchedTypes
    <3>7. ~(Xst!Pending)' /\ Asked'
      BY <3>3, <3>5, <1>a DEF Asked, Xst!Pending
    <3>8. Excused'
      <4>1. "JOIN" \in main_request => ctl # "idle"
        BY <1>a DEF Excused
      <4> QED BY <3>3, <3>5, <4>1 DEF Excused
    <3>9. MainUsed'
      BY <3>3, <3>6 DEF MainUsed
    <3> QED BY <3>7, <3>8, <3>9, <1>c
  <2> QED BY <2>1, <2>2
<1>14. ASSUME NEW u \in Ults, NEW new \in Scheds, Xst!SetMainSched(u, new)
      PROVE  Replacing'
  <2>1. ctl \notin {"pjoin", "done"} /\ used[p_main_sched] = "MAIN" /\ ult_state[u] = "RUNNING"
    BY <1>14, <1>a, <1>b DEF Xst!SetMainSched, Xst!Call, Phases, Following, Inside, MainUsed, Gone
  <2>2. /\ used[new] = "NOT_USED" /\ request[new] = {} /\ p_replace_sched[p_main_sched] # new
        /\ "CANCEL" \notin main_request /\ pc' \in {"ran", "count"}
        /\ p_replace_sched' = [p_replace_sched EXCEPT ![p_main_sched] = new]
        /\ p_replace_waiter' = [p_replace_waiter EXCEPT ![p_main_sched] = u]
        /\ request' = [request EXCEPT ![p_main_sched] = @ \cup {"REPLACE"}]
        /\ UNCHANGED <<p_main_sched, main_request, ctl>>
    BY <1>14 DEF Xst!SetMainSched, Xst!Back
  <2>3. new # p_main_sched
    BY <2>1, <2>2
  <2>4. /\ used'[new] = "NOT_USED" /\ used'[p_main_sched] = "MAIN"
        /\ ult_state'[u] = "BLOCKED"
    <3>1. CASE Xst!Pending
      <4>1. PICK old \in Scheds, w \in Ults :
              /\ old = p_replace_sched[p_main_sched] /\ w = p_replace_waiter[p_main_sched]
              /\ used[old] = "NOT_USED" /\ ult_state[w] = "BLOCKED"
        BY <3>1, <1>a, PendingTypes DEF HalfWay
      <4>2. /\ used' = [used EXCEPT ![old] = Xst!Discarded(old)]
            /\ ult_state' = [ult_state EXCEPT ![u] = "BLOCKED", ![w] = "READY"]
        BY <1>14, <3>1, <4>1 DEF Xst!SetMainSched
      <4> QED BY <2>1, <2>2, <4>1, <4>2, <1>b DEF SchedTypes
    <3>2. CASE ~Xst!Pending
      BY <1>14, <2>1, <2>2, <3>2, <1>b DEF Xst!SetMainSched
    <3> QED BY <3>1, <3>2
  <2>5. /\ p_replace_sched'[p_main_sched] = new /\ p_replace_waiter'[p_main_sched] = u
        /\ request'[new] = {}
        /\ request'[p_main_sched] = request[p_main_sched] \cup {"REPLACE"}
    BY <2>2, <2>3 DEF SchedTypes
  <2>6. Asked'
    BY <2>2, <1>a, StreamConstants DEF Asked, SchedTypes
  <2>7. Halted /\ Waits
    BY <2>2, <2>4, <2>5 DEF GoesOn, HalfWay, Inside
  <2>8. MainUsed' /\ Excused'
    BY <2>2, <2>4, <2>5, <1>a DEF MainUsed, Excused
  <2> QED BY <2>6, <2>7, <2>8, <1>c
<1>15. ASSUME ctl = "joined" PROVE ~Xst!Pending /\ pc = "ctxwait"
  BY <1>15, <1>a DEF Phases, Following, GoesOn, Inside, ThreadTypes
<1>16. CASE Xst!Revive
  <2>1. /\ ctl = "joined" /\ request' = [request EXCEPT ![p_main_sched] = {}] /\ main_request' = {}
        /\ UNCHANGED <<p_main_sched, used, p_replace_sched, p_replace_waiter, pc, look>>
    BY <1>16 DEF Xst!Revive
  <2>2. Asked' /\ ~(Xst!Pending)' /\ MainUsed' /\ Excused'
    BY <2>1, <1>15, <1>a DEF Asked, MainUsed, Gone, Excused, Xst!Pending
  <2> QED BY <2>2, <1>c
<1>17. CASE Xst!Free
  <2>1. /\ ctl = "joined" /\ ctl' = "pjoin"
        /\ UNCHANGED <<p_main_sched, request, p_replace_sched, p_replace_waiter, main_request, pc, look>>
    BY <1>17 DEF Xst!Free, Xst!FreeMainSched
  <2>2. Asked' /\ ~(Xst!Pending)' /\ MainUsed' /\ Excused'
    BY <2>1, <1>15, <1>a DEF Asked, MainUsed, Gone, Excused, Xst!Pending
  <2> QED BY <2>2, <1>c
<1>18. ASSUME NEW new \in Scheds, Xst!SetMainSchedTerminated(new) PROVE Replacing'
  <2>1. /\ ctl = "joined" /\ ctl' = ctl /\ p_main_sched' = new /\ request[new] = {}
        /\ used[new] = "NOT_USED"
        /\ used' = [used EXCEPT ![new] = "MAIN", ![p_main_sched] = Xst!Discarded(p_main_sched)]
        /\ UNCHANGED <<request, p_replace_sched, p_replace_waiter, main_request, pc, look>>
    BY <1>18 DEF Xst!SetMainSchedTerminated, Xst!TakeOver
  <2>2. new # p_main_sched
    BY <2>1, <1>a DEF MainUsed, Gone
  <2>3. Asked' /\ ~(Xst!Pending)' /\ Excused'
    BY <2>1, <1>15, <1>a DEF Asked, Excused, Xst!Pending
  <2>4. MainUsed'
    BY <2>1, <2>2 DEF MainUsed, SchedTypes
  <2> QED BY <2>3, <2>4, <1>c
<1> QED BY <1>1, <1>2, <1>3, <1>4, <1>5, <1>6, <1>7, <1>8, <1>9, <1>10, <1>11, <1>12, <1>13, <1>14, <1>16, <1>17, <1>18
        DEF Xst!Next, Xst!Native, Xst!Control, Xst!Others

\* Every step of the stream keeps its invariant.
LEMMA StreamStep ==
  ASSUME StreamInv, Xst!Next
  PROVE  StreamInv'
<1>1. StreamTypes'
  BY ThreadTypesStep, SchedTypesStep, UltTypesStep DEF StreamInv, StreamTypes
<1>2. Phases' /\ Following'
  BY PhasesStep DEF StreamInv
<1>3. UltsPlaced'
  BY HoldsStep, OnStreamStep DEF StreamInv, StreamTypes, UltsPlaced
<1>4. UltsCounted'
  <2>1. IsFiniteSet(resuming)'
    <3>1. IsFiniteSet(resuming)
      BY DEF StreamInv, UltsCounted
    <3>2. CASE UNCHANGED resuming
      BY <3>1, <3>2
    <3>3. CASE \E r : resuming' = resuming \cup {r} \/ resuming' = resuming \ {r}
      BY <3>1, <3>3, FS_AddElement, FS_RemoveElement
    <3>4. (UNCHANGED resuming) \/ (\E r : resuming' = resuming \cup {r} \/ resuming' = resuming \ {r})
      <4>1. ASSUME Xst!ResumeDone
            PROVE  \E r : resuming' = resuming \cup {r} \/ resuming' = resuming \ {r}
        BY <4>1 DEF Xst!ResumeDone
      <4>2. ASSUME NEW u \in Ults, Xst!Resume(u)
            PROVE  \E r : resuming' = resuming \cup {r} \/ resuming' = resuming \ {r}
        BY <4>2 DEF Xst!Resume
      <4>3. ASSUME NEW u \in Ults,
                   \/ Xst!Yield(u) \/ Xst!Suspend(u) \/ Xst!Return(u) \/ Xst!XstreamExit(u)
                   \/ Xst!CreateOutside(u) \/ \E v \in Ults : Xst!Create(u, v)
                   \/ \E new \in Scheds : Xst!SetMainSched(u, new)
            PROVE  UNCHANGED resuming
        BY <4>3 DEF Xst!Yield, Xst!Suspend, Xst!Return, Xst!XstreamExit, Xst!CreateOutside,
                    Xst!Create, Xst!SetMainSched
      <4>4. ASSUME (UNCHANGED <<Xst!pools, Xst!ults>>) \/ Xst!Replace \/ Xst!Pop
            PROVE  UNCHANGED resuming
        BY <4>4 DEF Xst!ults, Xst!Replace, Xst!Pop
      <4> QED BY <4>1, <4>2, <4>3, <4>4, UltsChange
    <3> QED BY <3>2, <3>3, <3>4
  <2>2. ResumesPast' /\ \A s \in Scheds : Counted(s)'
    BY ResumesPastStep, CountedStep DEF StreamInv, StreamTypes, UltsCounted
  <2> QED BY <2>1, <2>2 DEF UltsCounted
<1>5. Replacing'
  BY ReplacingStep DEF StreamInv, StreamTypes
<1> QED BY <1>1, <1>2, <1>3, <1>4, <1>5 DEF StreamInv

\* Steps of the schedulers of the other part do not concern the stream.
LEMMA StreamRests ==
  ASSUME UNCHANGED streamVars
  PROVE  (StreamInv => StreamInv') /\ (Stopping => Stopping')
<1> USE DEF streamVars
<1>1. StreamTypes => StreamTypes'
  BY DEF StreamTypes, ThreadTypes, SchedTypes, UltTypes
<1>2. (Phases => Phases') /\ (Following => Following')
  BY DEF Phases, Following
<1>3. UltsPlaced => UltsPlaced'
  BY DEF UltsPlaced, Holds, Held, OnStream
<1>4. UltsCounted => UltsCounted'
  BY DEF UltsCounted, ResumesPast, Counted, BlockedIn, ResumedIn
<1>5. Replacing => Replacing'
  BY DEF Replacing, MainUsed, Asked, HalfWay, GoesOn, Excused, Xst!Pending, Gone
<1>6. Stopping => Stopping'
  BY DEF Stopping, Looked, Moved, NotFreed, Closed, NoneBlocked, Empty, Checked, Over, Finished, Live, Gone, Xst!Pending
<1> QED BY <1>1, <1>2, <1>3, <1>4, <1>5, <1>6 DEF StreamInv

\* The invariant says where a joined stream is.
LEMMA StreamSafe == StreamInv => JoinedIsDown
<1> SUFFICES ASSUME StreamInv PROVE JoinedIsDown
  OBVIOUS
<1>1. /\ ctx_state \in {"RUNNING", "WAITING", "REQ_JOIN", "REQ_TERMINATE"}
      /\ main_state \in Xst!States
  BY DEF StreamInv, StreamTypes, ThreadTypes, Phases, Following, Xst!States
<1>2. num_blocked \in [Scheds -> Nat]
  <2>1. ASSUME NEW s \in Scheds PROVE num_blocked[s] \in Nat
    <3>1. BlockedIn(s) \subseteq Ults /\ ResumedIn(s) \subseteq resuming
      BY DEF BlockedIn, ResumedIn
    <3>2. IsFiniteSet(resuming) /\ Counted(s)
      BY DEF StreamInv, UltsCounted
    <3>3. Cardinality(BlockedIn(s)) \in Nat /\ Cardinality(ResumedIn(s)) \in Nat
      BY <3>1, <3>2, StreamConstants, FS_Subset, FS_CardinalityType
    <3> QED BY <3>2, <3>3 DEF Counted
  <2> QED BY <2>1 DEF StreamInv, StreamTypes, UltTypes
<1>3. cur \in Ults \cup {NoUlt}
  BY DEF StreamInv, UltsPlaced, OnStream
<1>4. Xst!TypeOK
  BY <1>1, <1>2, <1>3 DEF StreamInv, StreamTypes, ThreadTypes, SchedTypes, UltTypes, Xst!TypeOK
<1>5. Xst!JoinedIsDown
  BY DEF StreamInv, StreamTypes, ThreadTypes, Phases, Following, Inside, Xst!JoinedIsDown
<1> QED BY <1>4, <1>5 DEF JoinedIsDown

\* Joins, revivals and frees find the stream as they expect it, whatever its ULTs do to its
\* main scheduler and whoever cancels it, with any schedulers and any overlap of replacements.
THEOREM StreamsJoinedIsDown == StreamsSpec => []JoinedIsDown
<1>1. StreamsInit => StreamInv
  BY StreamInit DEF StreamsInit
<1>2. StreamInv /\ [StreamsNext]_streamsVars => StreamInv'
  BY StreamStep, StreamRests DEF StreamsNext, OnlyStream, OnlySched, MayRest, streamsVars
<1> QED BY <1>1, <1>2, StreamSafe, PTL DEF StreamsSpec

\* While nobody runs and nobody is created from outside, a pool that is empty stays so.
LEMMA EmptyStays ==
  ASSUME StreamInv, Xst!Next, UNCHANGED p_main_sched, pc \notin {"ult", "ctxwait"}, Closed
  PROVE  /\ Empty(p_main_sched) => Empty(p_main_sched)'
         /\ NoneBlocked(p_main_sched) => NoneBlocked(p_main_sched)'
<1> DEFINE Goal == /\ Empty(p_main_sched) => Empty(p_main_sched)'
                   /\ NoneBlocked(p_main_sched) => NoneBlocked(p_main_sched)'
<1> SUFFICES Goal
  OBVIOUS
<1>a. /\ ult_state \in [Ults -> Xst!States] /\ p_pool \in [Ults -> Scheds]
      /\ p_main_sched \in Scheds /\ \A s \in Scheds : Holds(s)
      /\ Replacing /\ SchedTypes /\ UltTypes
  BY DEF StreamInv, StreamTypes, UltTypes, SchedTypes, UltsPlaced
<1> USE DEF Empty, NoneBlocked, Live, Xst!SetState
<1>1. CASE UNCHANGED <<Xst!pools, Xst!ults>>
  BY <1>1 DEF Xst!ults
<1>2. CASE Xst!Replace
  <2>1. CASE "REPLACE" \notin request[p_main_sched]
    BY <1>2, <2>1 DEF Xst!Replace
  <2>2. CASE "REPLACE" \in request[p_main_sched]
    <3>1. p_replace_sched[p_main_sched] = p_main_sched /\ Xst!Pending /\ ~Gone
      BY <1>2, <2>2, <1>a, PendingTypes
         DEF Xst!Replace, Gone, StreamInv, Phases, Following, Inside
    <3> QED BY <3>1, <1>a DEF Replacing, HalfWay, MainUsed
  <2> QED BY <2>1, <2>2
<1>3. CASE Xst!Pop
  <2>1. CASE queue[p_main_sched] = <<>>
    BY <1>3, <2>1 DEF Xst!Pop
  <2>2. CASE queue[p_main_sched] # <<>>
    <3>1. PICK h \in Ults : h = Head(queue[p_main_sched]) /\ Held(p_main_sched, h)
      BY <2>2, <1>a, HeadPlaced
    <3>2. ult_state' = [ult_state EXCEPT ![h] = "RUNNING"] /\ UNCHANGED p_pool
      BY <1>3, <2>2, <3>1 DEF Xst!Pop
    <3> QED BY <3>1, <3>2, <1>a DEF Held
  <2> QED BY <2>1, <2>2
<1>4. CASE Xst!ResumeDone
  BY <1>4 DEF Xst!ResumeDone
<1>5. ASSUME NEW u \in Ults,
             \/ Xst!Yield(u) \/ Xst!Suspend(u) \/ Xst!Return(u) \/ Xst!XstreamExit(u)
             \/ \E v \in Ults : Xst!Create(u, v)
             \/ \E new \in Scheds : Xst!SetMainSched(u, new)
      PROVE  FALSE
  BY <1>5 DEF Xst!Yield, Xst!Suspend, Xst!Return, Xst!XstreamExit, Xst!Create, Xst!SetMainSched,
              Xst!Call
<1>6. ASSUME NEW u \in Ults, Xst!Resume(u) PROVE Goal
  BY <1>6, <1>a DEF Xst!Resume
<1>7. ASSUME NEW u \in Ults, Xst!CreateOutside(u) PROVE FALSE
  <2>1. ctl \in {"idle", "joined"} /\ ~Xst!Pending
    BY <1>7 DEF Xst!CreateOutside
  <2>2. ctl # "idle"
    BY <2>1 DEF Closed, StreamInv, Replacing, Excused
  <2>3. ctl # "joined"
    BY DEF StreamInv, StreamTypes, ThreadTypes, Phases, Following, Inside
  <2> QED BY <2>1, <2>2, <2>3
<1> HIDE DEF Goal
<1> QED BY <1>1, <1>2, <1>3, <1>4, <1>5, <1>6, <1>7, UltsChange

\* A pool whose counts are zero has nobody blocked, and one that is empty has nobody ready.
LEMMA CountsTell ==
  ASSUME StreamInv, NEW s \in Scheds
  PROVE  /\ num_blocked[s] = 0 => NoneBlocked(s)
         /\ queue[s] = <<>> => \A u \in Ults : p_pool[u] = s => ult_state[u] # "READY"
<1>1. ASSUME num_blocked[s] = 0 PROVE NoneBlocked(s)
  <2>1. BlockedIn(s) \subseteq Ults /\ ResumedIn(s) \subseteq resuming
    BY DEF BlockedIn, ResumedIn
  <2>2. IsFiniteSet(resuming) /\ Counted(s)
    BY DEF StreamInv, UltsCounted
  <2>3. /\ IsFiniteSet(BlockedIn(s)) /\ Cardinality(BlockedIn(s)) \in Nat
        /\ Cardinality(ResumedIn(s)) \in Nat
    BY <2>1, <2>2, StreamConstants, FS_Subset, FS_CardinalityType
  <2>4. Cardinality(BlockedIn(s)) = 0
    BY <1>1, <2>2, <2>3 DEF Counted
  <2>5. BlockedIn(s) = {}
    BY <2>3, <2>4, FS_EmptySet
  <2> QED BY <2>5 DEF BlockedIn, NoneBlocked
<1>2. ASSUME queue[s] = <<>>, NEW u \in Ults, p_pool[u] = s PROVE ult_state[u] # "READY"
  <2>1. Holds(s)
    BY DEF StreamInv, UltsPlaced
  <2>2. ~Listed(queue[s], u)
    BY <1>2, EmptyList
  <2> QED BY <1>2, <2>1, <2>2 DEF Holds, Held
<1> QED BY <1>1, <1>2

\* Whoever is put in a pool, it is not empty then.
LEMMA PushFills ==
  ASSUME UltTypes, NEW u \in Ults, NEW s \in Scheds, Xst!Push(u, s)
  PROVE  queue'[s] # <<>> /\ \A t \in Scheds : queue[t] # <<>> => queue'[t] # <<>>
<1>1. queue[s] \in Seq(Ults)
  BY DEF UltTypes
<1>2. Append(queue[s], u) # <<>>
  BY <1>1
<1> QED BY <1>2 DEF Xst!Push, UltTypes

\* What the stop test has found holds until the native thread goes on.
LEMMA LookedKept ==
  ASSUME StreamInv, Looked, Xst!Next, UNCHANGED <<pc, look, p_main_sched, p_replace_sched>>,
         main_request \subseteq main_request', request[p_main_sched] \subseteq request'[p_main_sched],
         queue[p_main_sched] # <<>> => queue'[p_main_sched] # <<>>
  PROVE  Looked'
<1>1. Closed => Closed'
  BY DEF Closed, Xst!Pending
<1>2. CASE pc \in {"ult", "ctxwait"}
  BY <1>2 DEF Looked, Checked, Over
<1>3. CASE pc \notin {"ult", "ctxwait"}
  <2>1. Closed => /\ Empty(p_main_sched) => Empty(p_main_sched)'
                  /\ NoneBlocked(p_main_sched) => NoneBlocked(p_main_sched)'
    BY <1>3, EmptyStays
  <2>2. Finished => Finished'
    BY <2>1 DEF Finished, Closed
  <2> QED BY <1>1, <1>3, <2>1, <2>2 DEF Looked, Checked, Over
<1> QED BY <1>2, <1>3

\* The native thread goes on when it has looked, or has been cancelled.
LEMMA LookedStep ==
  ASSUME Orderly, StreamInv, Looked, Moved, Xst!Next
  PROVE  Looked'
<1>a. /\ ThreadTypes /\ SchedTypes /\ UltTypes /\ Replacing /\ Excused
      /\ p_main_sched \in Scheds
  BY DEF StreamInv, StreamTypes, SchedTypes, Replacing
<1>b. ASSUME UNCHANGED <<p_main_sched, request, p_replace_sched>>, pc \notin {"ult", "ctxwait"}
      PROVE  /\ Closed => Closed'
             /\ Closed /\ Empty(p_main_sched) => Empty(p_main_sched)'
             /\ Closed /\ NoneBlocked(p_main_sched) => NoneBlocked(p_main_sched)'
             /\ Finished => Finished'
  <2>1. Closed => Closed'
    BY <1>b DEF Closed, Xst!Pending
  <2> QED BY <2>1, <1>b, EmptyStays DEF Finished, Closed
<1> USE DEF Xst!native, Xst!sched, Xst!main
<1>1. CASE Xst!RootFunc \/ Xst!Run \/ Xst!Count \/ Xst!CheckEvents \/ Xst!CtxFinish \/ Xst!CtxWoken
  BY <1>1 DEF Xst!RootFunc, Xst!Run, Xst!Count, Xst!CheckEvents, Xst!CtxFinish, Xst!CtxWoken,
              Looked, Checked, Over
<1>2. CASE Xst!ExitMain \/ Xst!Terminate
  <2>1. /\ pc \in {"exit", "terminate"} /\ pc' \in {"terminate", "ctx"}
        /\ UNCHANGED <<p_main_sched, request, p_replace_sched, main_request>>
    BY <1>2 DEF Xst!ExitMain, Xst!Terminate
  <2> QED BY <2>1, <1>b DEF Looked, Checked, Over
<1>3. CASE Xst!Pop
  <2>1. pc' = "count" \/ (pc' = "ult" /\ look' = 0)
    BY <1>3 DEF Xst!Pop, Orderly
  <2> QED BY <2>1 DEF Looked, Checked, Over
<1>4. CASE Xst!HasToStop
  <2>1. \/ pc' = "empty" /\ look' = 1
        \/ pc' = "ran" /\ "CANCEL" \in main_request'
    BY <1>4, <1>a DEF Xst!HasToStop, Excused
  <2> QED BY <2>1 DEF Looked, Checked, Over
<1>5. CASE Xst!CheckRequests
  <2>1. /\ pc = "cancel" /\ UNCHANGED <<p_main_sched, request, p_replace_sched, main_request, queue>>
        /\ \/ pc' = "main" \/ (pc' = "exit" /\ "CANCEL" \in main_request)
           \/ pc' = "empty" /\ look' = 3
    BY <1>5 DEF Xst!CheckRequests, Xst!pools
  <2> QED BY <2>1, <1>b DEF Looked, Checked, Over
<1>6. CASE Xst!LookEmpty
  <2>1. /\ pc = "empty" /\ UNCHANGED <<p_main_sched, request, p_replace_sched, main_request>>
        /\ \/ pc' \in {"main", "pop"}
           \/ pc' = "blocked" /\ look' = look /\ queue[p_main_sched] = <<>>
    BY <1>6 DEF Xst!LookEmpty, Xst!AnswerUnit
  <2>2. queue[p_main_sched] = <<>> /\ NoneBlocked(p_main_sched) => Empty(p_main_sched)
    <3>1. \A u \in Ults : ult_state[u] # "RUNNING"
      BY <2>1 DEF StreamInv, UltsPlaced, OnStream
    <3> QED BY <3>1, <1>a, CountsTell DEF Empty, NoneBlocked, Live
  <2> QED BY <2>1, <2>2, <1>b DEF Looked, Checked, Over
<1>7. CASE Xst!LookBlocked
  <2>1. /\ pc = "blocked" /\ UNCHANGED <<p_main_sched, request, p_replace_sched, main_request>>
        /\ \/ pc' \in {"main", "pop"}
           \/ /\ look = 1 /\ pc' = "empty" /\ look' = 2 /\ num_blocked[p_main_sched] = 0
              /\ {"FINISH", "REPLACE"} \cap request[p_main_sched] # {}
           \/ look = 2 /\ pc' = "ran"
           \/ look = 3 /\ pc' = "exit"
    BY <1>7, <1>a DEF Xst!LookBlocked, Xst!AnswerUnit, Xst!AnswerNoUnit, ThreadTypes, Excused
  <2>2. {"FINISH", "REPLACE"} \cap request[p_main_sched] # {} => Closed
    BY <1>a, PendingTypes DEF Closed
  <2>3. num_blocked[p_main_sched] = 0 => NoneBlocked(p_main_sched)
    BY <1>a, CountsTell
  <2> QED BY <2>1, <2>2, <2>3, <1>b DEF Looked, Checked, Over
<1>8. CASE Xst!Replace
  <2>1. CASE "REPLACE" \notin request[p_main_sched]
    <3>1. /\ pc = "ran" /\ pc' = "cancel"
          /\ UNCHANGED <<p_main_sched, request, p_replace_sched, main_request>>
      BY <1>8, <2>1 DEF Xst!Replace
    <3>2. ~Xst!Pending
      BY <2>1, <1>a, PendingTypes
    <3> QED BY <3>1, <3>2, <1>b DEF Looked, Checked, Over, Closed, Finished
  <2>2. CASE "REPLACE" \in request[p_main_sched]
    <3>1. PICK new \in Scheds, w \in Ults :
            /\ new = p_replace_sched[p_main_sched] /\ w = p_replace_waiter[p_main_sched]
            /\ p_pool[w] = new
      BY <2>2, <1>a, PendingTypes DEF Moved
    <3>2. p_main_sched' = new /\ Xst!Push(w, new) /\ pc' = "cancel"
      BY <1>8, <2>2, <3>1 DEF Xst!Replace
    <3>3. queue'[p_main_sched'] # <<>>
      BY <3>2, <1>a, PushFills
    <3> QED BY <3>2, <3>3 DEF Looked, Checked, Over
  <2> QED BY <2>1, <2>2
<1>9. ASSUME NEW u \in Ults,
             \/ Xst!Yield(u) \/ Xst!Suspend(u) \/ Xst!Return(u) \/ Xst!XstreamExit(u)
             \/ \E new \in Scheds : Xst!SetMainSched(u, new)
      PROVE  Looked'
  <2>1. pc = "ult" /\ pc' = IF look = 1 THEN "ran" ELSE "count"
    BY <1>9 DEF Xst!Yield, Xst!Suspend, Xst!Return, Xst!XstreamExit, Xst!SetMainSched, Xst!Call,
                Xst!Back
  <2> QED BY <2>1 DEF Looked, Checked, Over
<1>10. CASE Xst!Revive \/ Xst!Free \/ \E new \in Scheds : Xst!SetMainSchedTerminated(new)
  <2>1. ctl = "joined" /\ pc' = pc
    BY <1>10 DEF Xst!Revive, Xst!Free, Xst!FreeMainSched, Xst!SetMainSchedTerminated
  <2>2. pc = "ctxwait"
    BY <2>1 DEF StreamInv, StreamTypes, ThreadTypes, Phases, Following, Inside
  <2> QED BY <2>1, <2>2 DEF Looked, Checked, Over
<1>11. ASSUME NEW u \in Ults,
              Xst!Resume(u) \/ Xst!CreateOutside(u) \/ \E v \in Ults : Xst!Create(u, v)
       PROVE  Looked'
  <2>1. UNCHANGED <<pc, look, p_main_sched, p_replace_sched, main_request, request>>
    BY <1>11 DEF Xst!Resume, Xst!CreateOutside, Xst!Create
  <2>2. \E v \in Ults, s \in Scheds : Xst!Push(v, s)
    BY <1>11, <1>a DEF Xst!Resume, Xst!CreateOutside, Xst!Create, UltTypes
  <2> QED BY <2>1, <2>2, <1>a, PushFills, LookedKept
<1>12. CASE \/ Xst!ResumeDone \/ Xst!JoinMain \/ Xst!Await \/ Xst!CtxJoin \/ Xst!CtxJoinWoken
            \/ Xst!PthreadJoin \/ Xst!Spurious \/ Xst!Cancel \/ UNCHANGED Xst!vars
  <2>1. /\ UNCHANGED <<pc, look, p_main_sched, p_replace_sched, request, queue>>
        /\ main_request \subseteq main_request'
    BY <1>12 DEF Xst!ResumeDone, Xst!JoinMain, Xst!Await, Xst!CtxJoin, Xst!CtxJoinWoken,
                 Xst!PthreadJoin, Xst!Spurious, Xst!Cancel, Xst!vars, Xst!pools
  <2> QED BY <2>1, LookedKept
<1>13. CASE Xst!Join
  <2>1. /\ UNCHANGED <<pc, look, p_main_sched, p_replace_sched, main_request, queue>>
        /\ request[p_main_sched] \subseteq request'[p_main_sched]
    BY <1>13, <1>a DEF Xst!Join, Xst!pools, SchedTypes
  <2> QED BY <2>1, LookedKept
<1> QED BY <1>1, <1>2, <1>3, <1>4, <1>5, <1>6, <1>7, <1>8, <1>9, <1>10, <1>11, <1>12, <1>13
        DEF Xst!Next, Xst!Native, Xst!Control, Xst!Others

\* Whoever waits for a new scheduler is in its pool.
LEMMA MovedStep ==
  ASSUME Orderly, StreamInv, Moved, Xst!Next
  PROVE  Moved'
<1>a. /\ SchedTypes /\ UltTypes /\ Replacing /\ Asked /\ p_main_sched \in Scheds
      /\ p_pool \in [Ults -> Scheds]
      /\ pc = "ult" => cur \in Ults /\ p_pool[cur] = p_main_sched
  BY DEF StreamInv, StreamTypes, SchedTypes, Replacing, UltsPlaced, OnStream, UltTypes
<1> DEFINE Same == \A w \in Ults : ult_state[w] = "BLOCKED" => p_pool'[w] = p_pool[w]
<1>b. ASSUME NEW new \in Scheds, request[new] = {}, p_main_sched' = new, UNCHANGED p_replace_sched
      PROVE  Moved'
  BY <1>b, <1>a DEF Moved, Asked, Xst!Pending
<1>1. ASSUME UNCHANGED <<p_main_sched, p_replace_sched, p_replace_waiter>>, Same PROVE Moved'
  BY <1>1, <1>a DEF Moved, Xst!Pending, Replacing, HalfWay
<1>2. ASSUME NEW u \in Ults, NEW new \in Scheds, Xst!SetMainSched(u, new) PROVE Moved'
  <2>1. /\ p_pool' = [p_pool EXCEPT ![u] = Xst!NewPool(u, new)] /\ p_main_sched' = p_main_sched
        /\ p_replace_sched' = [p_replace_sched EXCEPT ![p_main_sched] = new]
        /\ p_replace_waiter' = [p_replace_waiter EXCEPT ![p_main_sched] = u]
        /\ pc = "ult" /\ cur = u
    BY <1>2 DEF Xst!SetMainSched, Xst!Call
  <2>2. Xst!NewPool(u, new) = new
    BY <2>1, <1>a DEF Xst!NewPool
  <2> QED BY <2>1, <2>2, <1>a DEF Moved, SchedTypes
<1>3. CASE Xst!Replace
  <2>1. CASE "REPLACE" \notin request[p_main_sched]
    <3>1. ~Xst!Pending
      BY <2>1, <1>a, PendingTypes
    <3> QED BY <1>3, <2>1, <3>1 DEF Xst!Replace, Moved, Xst!Pending
  <2>2. CASE "REPLACE" \in request[p_main_sched]
    <3>1. PICK new \in Scheds : new = p_replace_sched[p_main_sched] /\ request[new] = {}
      BY <2>2, <1>a, PendingTypes DEF Replacing, HalfWay
    <3> QED BY <1>3, <2>2, <3>1, <1>b DEF Xst!Replace
  <2> QED BY <2>1, <2>2
<1>4. ASSUME NEW new \in Scheds, Xst!SetMainSchedTerminated(new) PROVE Moved'
  BY <1>4, <1>b DEF Xst!SetMainSchedTerminated, Xst!TakeOver
<1>5. CASE (UNCHANGED <<p_main_sched, Xst!sched>>) \/ Xst!CheckEvents \/ Xst!Join \/ Xst!Revive \/ Xst!Free
  <2>1. UNCHANGED <<p_main_sched, p_replace_sched, p_replace_waiter>>
    BY <1>5 DEF Xst!CheckEvents, Xst!Join, Xst!Revive, Xst!Free, Xst!FreeMainSched, Xst!sched
  <2>2. CASE \E u \in Ults, new \in Scheds : Xst!SetMainSched(u, new)
    BY <2>2, <1>2
  <2>3. CASE ~\E u \in Ults, new \in Scheds : Xst!SetMainSched(u, new)
    <3>1. ASSUME (UNCHANGED <<Xst!pools, Xst!ults>>) \/ Xst!Replace \/ Xst!Pop \/ Xst!ResumeDone
          PROVE  Same
      BY <3>1 DEF Xst!ults, Xst!Replace, Xst!Pop, Xst!ResumeDone
    <3>2. ASSUME NEW u \in Ults,
                 \/ Xst!Yield(u) \/ Xst!Suspend(u) \/ Xst!Return(u) \/ Xst!XstreamExit(u)
                 \/ Xst!Resume(u) \/ Xst!CreateOutside(u) \/ \E v \in Ults : Xst!Create(u, v)
          PROVE  Same
      BY <3>2, <1>a DEF Xst!Yield, Xst!Suspend, Xst!Return, Xst!XstreamExit, Xst!Resume,
                        Xst!CreateOutside, Xst!Create
    <3> HIDE DEF Same
    <3>3. Same
      BY <2>3, <3>1, <3>2, UltsChange
    <3> QED BY <2>1, <3>3, <1>1
  <2> QED BY <2>2, <2>3
<1> QED BY <1>2, <1>3, <1>4, <1>5, SchedsChange

\* A stream that is being freed stays so.
LEMMA GoneStays ==
  ASSUME Xst!Next, Gone
  PROVE  Gone'
<1> USE DEF Gone, Xst!control
<1>1. CASE \/ Xst!RootFunc \/ Xst!Run \/ Xst!Replace \/ Xst!CheckRequests \/ Xst!ExitMain
           \/ Xst!Terminate \/ Xst!Pop \/ Xst!Count \/ Xst!CheckEvents \/ Xst!HasToStop
           \/ Xst!LookEmpty \/ Xst!LookBlocked \/ Xst!CtxFinish \/ Xst!CtxWoken \/ Xst!Spurious
  BY <1>1 DEF Xst!RootFunc, Xst!Run, Xst!Replace, Xst!CheckRequests, Xst!ExitMain,
              Xst!Terminate, Xst!Pop, Xst!Count, Xst!CheckEvents, Xst!HasToStop,
              Xst!LookEmpty, Xst!LookBlocked, Xst!CtxFinish, Xst!CtxWoken, Xst!Spurious
<1>2. ASSUME NEW u \in Ults,
             \/ Xst!Yield(u) \/ Xst!Suspend(u) \/ Xst!Return(u) \/ Xst!XstreamExit(u)
             \/ Xst!Resume(u) \/ Xst!CreateOutside(u)
             \/ \E v \in Ults : Xst!Create(u, v)
             \/ \E new \in Scheds : Xst!SetMainSched(u, new)
      PROVE  Gone'
  BY <1>2 DEF Xst!Yield, Xst!Suspend, Xst!Return, Xst!XstreamExit, Xst!Resume,
              Xst!CreateOutside, Xst!Create, Xst!SetMainSched, Xst!Back
<1>3. CASE \/ Xst!ResumeDone \/ Xst!Join \/ Xst!JoinMain \/ Xst!Await \/ Xst!CtxJoin
           \/ Xst!CtxJoinWoken \/ Xst!PthreadJoin \/ Xst!Cancel \/ Xst!Revive \/ Xst!Free
           \/ UNCHANGED Xst!vars \/ \E new \in Scheds : Xst!SetMainSchedTerminated(new)
  BY <1>3 DEF Xst!ResumeDone, Xst!Join, Xst!JoinMain, Xst!Await, Xst!CtxJoin,
              Xst!CtxJoinWoken, Xst!PthreadJoin, Xst!Cancel, Xst!Revive, Xst!Free, Xst!vars,
              Xst!SetMainSchedTerminated
<1> QED BY <1>1, <1>2, <1>3 DEF Xst!Next, Xst!Native, Xst!Control, Xst!Others

\* No pool is freed that somebody is in.
LEMMA NotFreedStep ==
  ASSUME Orderly, StreamInv, Looked, Moved, NotFreed, Xst!Next
  PROVE  NotFreed'
<1>a. /\ SchedTypes /\ UltTypes /\ Replacing /\ MainUsed /\ p_main_sched \in Scheds
      /\ p_pool \in [Ults -> Scheds] /\ ult_state \in [Ults -> Xst!States]
      /\ \A u \in Ults : ult_state[u] = "RUNNING" <=> pc = "ult" /\ cur = u
  BY DEF StreamInv, StreamTypes, SchedTypes, Replacing, UltsPlaced, OnStream, UltTypes
<1>b. Gone => Gone'
  BY GoneStays
<1> USE DEF Live, Xst!SetState
<1> DEFINE Lives(u) == ult_state[u] \in Live
<1>1. ASSUME UNCHANGED used,
             \A v \in Ults : ult_state'[v] \in Live => ult_state[v] \in Live /\ p_pool'[v] = p_pool[v]
      PROVE  NotFreed'
  BY <1>1, <1>b DEF NotFreed
<1>2. CASE Xst!Free
  BY <1>2 DEF Xst!Free, NotFreed, Gone
<1>3. ASSUME NEW new \in Scheds, Xst!SetMainSchedTerminated(new) PROVE NotFreed'
  <2>1. /\ used' = [used EXCEPT ![new] = "MAIN", ![p_main_sched] = Xst!Discarded(p_main_sched)]
        /\ UNCHANGED <<ult_state, p_pool>>
        /\ \A u \in Ults : p_pool[u] = p_main_sched => ult_state[u] \in {"UNBORN", "TERMINATED"}
    BY <1>3 DEF Xst!SetMainSchedTerminated, Xst!TakeOver, Xst!ults
  <2> QED BY <2>1, <1>a, <1>b DEF NotFreed, SchedTypes
<1>4. CASE Xst!Replace
  <2>1. CASE "REPLACE" \notin request[p_main_sched]
    BY <1>4, <2>1, <1>1 DEF Xst!Replace
  <2>2. CASE "REPLACE" \in request[p_main_sched]
    <3>1. PICK new \in Scheds, w \in Ults :
            /\ new = p_replace_sched[p_main_sched] /\ w = p_replace_waiter[p_main_sched]
            /\ p_pool[w] = new
      BY <2>2, <1>a, PendingTypes DEF Moved
    <3>2. /\ used' = [used EXCEPT ![new] = "MAIN", ![p_main_sched] = Xst!Discarded(p_main_sched)]
          /\ UNCHANGED p_pool /\ pc = "ran"
          /\ ult_state' = [ult_state EXCEPT ![w] = "READY"]
      BY <1>4, <2>2, <3>1 DEF Xst!Replace
    <3>3. Empty(p_main_sched) /\ used[p_main_sched] = "MAIN" /\ used[new] = "NOT_USED"
      <4>1. Xst!Pending /\ HalfWay /\ GoesOn
        BY <2>2, <1>a, PendingTypes DEF Replacing
      <4>2. ~Gone
        BY <3>2 DEF StreamInv, Phases, Following, Inside, Gone
      <4> QED BY <3>1, <3>2, <4>1, <4>2, <1>a DEF GoesOn, HalfWay, MainUsed, Looked
    <3>4. used'[new] = "MAIN"
      BY <3>2, <3>3, <1>a DEF SchedTypes
    <3>5. ASSUME NEW v \in Ults, v # w, ult_state'[v] \in Live
          PROVE  used'[p_pool'[v]] # "FREED" \/ Gone'
      <4>1. ult_state[v] \in Live /\ p_pool[v] # p_main_sched /\ p_pool'[v] = p_pool[v]
        BY <3>2, <3>3, <3>5, <1>a DEF Empty
      <4> QED BY <4>1, <3>2, <1>a, <1>b DEF NotFreed, SchedTypes
    <3> QED BY <3>1, <3>2, <3>4, <3>5 DEF NotFreed
  <2> QED BY <2>1, <2>2
<1>5. ASSUME NEW u \in Ults, NEW new \in Scheds, Xst!SetMainSched(u, new) PROVE NotFreed'
  <2>1. /\ p_pool' = [p_pool EXCEPT ![u] = Xst!NewPool(u, new)] /\ used[new] = "NOT_USED"
        /\ UNCHANGED used /\ ult_state' = [ult_state EXCEPT ![u] = "BLOCKED"]
        /\ ult_state[u] = "RUNNING"
    BY <1>5, <1>a DEF Xst!SetMainSched, Xst!Call, Orderly
  <2>2. Xst!NewPool(u, new) \in {new, p_pool[u]}
    BY DEF Xst!NewPool
  <2> QED BY <2>1, <2>2, <1>a, <1>b DEF NotFreed
<1>6. ASSUME NEW u \in Ults, Xst!CreateOutside(u) PROVE NotFreed'
  <2>1. /\ p_pool' = [p_pool EXCEPT ![u] = p_main_sched] /\ UNCHANGED used
        /\ ult_state' = [ult_state EXCEPT ![u] = "READY"]
    BY <1>6 DEF Xst!CreateOutside, Xst!sched
  <2> QED BY <2>1, <1>a, <1>b DEF NotFreed, MainUsed
<1>7. ASSUME NEW u \in Ults, NEW v \in Ults, Xst!Create(u, v) PROVE NotFreed'
  <2>1. /\ p_pool' = [p_pool EXCEPT ![v] = p_pool[u]] /\ UNCHANGED used
        /\ ult_state' = [ult_state EXCEPT ![v] = "READY"] /\ ult_state[u] = "RUNNING"
    BY <1>7, <1>a DEF Xst!Create, Xst!Call, Xst!sched
  <2> QED BY <2>1, <1>a, <1>b DEF NotFreed
<1>8. CASE Xst!Pop
  <2>1. CASE queue[p_main_sched] = <<>>
    BY <1>8, <2>1, <1>1 DEF Xst!Pop, Xst!sched
  <2>2. CASE queue[p_main_sched] # <<>>
    <3>1. PICK h \in Ults : h = Head(queue[p_main_sched]) /\ Held(p_main_sched, h)
      BY <2>2, <1>a, HeadPlaced DEF StreamInv, UltsPlaced
    <3>2. /\ ult_state' = [ult_state EXCEPT ![h] = "RUNNING"] /\ UNCHANGED <<p_pool, used>>
      BY <1>8, <2>2, <3>1 DEF Xst!Pop, Xst!sched
    <3> QED BY <3>1, <3>2, <1>1, <1>a DEF Held
  <2> QED BY <2>1, <2>2
<1>9. ASSUME NEW u \in Ults,
             \/ Xst!Yield(u) \/ Xst!Suspend(u) \/ Xst!Return(u) \/ Xst!XstreamExit(u)
             \/ Xst!Resume(u)
      PROVE  NotFreed'
  BY <1>9, <1>a, <1>1 DEF Xst!Yield, Xst!Suspend, Xst!Return, Xst!XstreamExit, Xst!Resume,
                          Xst!Call, Xst!sched
<1>10. CASE Xst!ResumeDone
  BY <1>10, <1>1 DEF Xst!ResumeDone, Xst!sched
<1>11. CASE UNCHANGED <<Xst!pools, Xst!ults>>
  <2>1. CASE UNCHANGED used
    BY <1>11, <2>1, <1>1 DEF Xst!ults
  <2>2. \/ UNCHANGED used \/ Xst!Replace \/ Xst!Free
        \/ \E u \in Ults, new \in Scheds : Xst!SetMainSched(u, new)
        \/ \E new \in Scheds : Xst!SetMainSchedTerminated(new)
    BY SchedsChange DEF Xst!sched, Xst!CheckEvents, Xst!Join, Xst!Revive
  <2> QED BY <2>1, <2>2, <1>2, <1>3, <1>4, <1>5
<1> QED BY <1>4, <1>5, <1>6, <1>7, <1>8, <1>9, <1>10, <1>11, UltsChange

\* No ULT is in a pool that was freed with its scheduler, or will return to one: when
\* replacements do not overlap, and no waiting pop ends the run function, for any number of
\* ULTs, schedulers and replacements.
THEOREM StreamsPoolsAlive == Orderly => (StreamsSpec => []PoolsAlive)
<1> SUFFICES ASSUME Orderly PROVE StreamsSpec => []PoolsAlive
  OBVIOUS
<1> DEFINE Inv == StreamInv /\ Stopping
<1>1. StreamsInit => Inv
  BY StreamInit DEF StreamsInit
<1>2. Inv /\ [StreamsNext]_streamsVars => Inv'
  BY StreamStep, StreamRests, LookedStep, MovedStep, NotFreedStep
     DEF StreamsNext, OnlyStream, OnlySched, MayRest, streamsVars, Stopping
<1>3. Inv => PoolsAlive
  BY DEF StreamInv, Replacing, MainUsed, Stopping, NotFreed, Live, Gone, PoolsAlive, Xst!PoolsAlive
<1> QED BY <1>1, <1>2, <1>3, PTL DEF StreamsSpec

------------------------------------------------------------------------------
(* The predefined schedulers on pools they share: their invariant *)

\* Where a run function and its tests are.
Tests == {"empty?", "shared?", "blocked?"}
Runs == Tests \cup {"scan", "steal", "wait", "count", "exit?", "asked?", "run"}

UnitTypes ==
    /\ s_queue \in [Pools -> SUBSET Units] /\ s_blocked \in [Pools -> Int]
    /\ ustate \in [Units -> {"READY", "RUNNING", "BLOCKED", "TERMINATED"}]
    /\ upool \in [Units -> Pools] /\ uops \in [Units -> Nat]
    /\ s_resuming \subseteq Units \X Nat
RunTypes ==
    /\ spc \in [Scheds -> Runs \cup {"none", "stopped", "freed"}]
    /\ idx \in [Scheds -> Nat] /\ looks \in [Scheds -> 0..3]
    /\ s_cur \in [Scheds -> Units \cup {NoUnit}]
    /\ stopped \in [Scheds -> {"no", "exit", "finish", "idle", "returned"}]
    /\ data \in [Scheds -> [event_freq : Nat, pools : Seq(Pools)]]

\* A scheduler visits the pools it was created with, and starts over where it should.
Visiting(s) ==
    spc[s] \in Runs =>
      /\ Len(PoolsOf[s]) # 0 /\ Len(data[s].pools) = Len(PoolsOf[s])
      /\ \A i \in 1..Len(PoolsOf[s]) : data[s].pools[i] \in Sch!PoolSet(s)
      /\ idx[s] \in 1..Len(PoolsOf[s])
      /\ spc[s] \in {"steal", "wait", "count", "exit?", "asked?", "run"} \/ kind[s] = "randws" =>
             spc[s] \in Tests \/ idx[s] = 1
      /\ spc[s] \in {"exit?", "asked?"} => looks[s] = 1
      /\ spc[s] \in Tests => looks[s] \in {1, 2}

\* The units that are RUNNING are those the schedulers are on, each in one of its pools.
On(s, u) == spc[s] = "run" /\ s_cur[s] = u
Carrying ==
    /\ \A s \in Scheds : spc[s] = "run" => s_cur[s] \in Units
    /\ \A s \in Scheds, u \in Units :
         On(s, u) => ustate[u] = "RUNNING" /\ upool[u] \in Sch!PoolSet(s)
    /\ \A s, t \in Scheds, u \in Units : On(s, u) /\ On(t, u) => s = t
    /\ \A u \in Units : ustate[u] = "RUNNING" => \E s \in Scheds : On(s, u)

\* The pools hold what is READY, and count what is blocked or not completely resumed.
InQueue(p) == \A u \in Units : u \in s_queue[p] <=> upool[u] = p /\ ustate[u] = "READY"
Sized(p) == s_blocked[p] = Cardinality(Sch!Blocked(p)) + Cardinality(Sch!ResumedTo(p))
UnitsPast ==
    \A r \in s_resuming : /\ uops[r[1]] <= r[2]
                          /\ ustate[r[1]] = "BLOCKED" => uops[r[1]] < r[2]
Sizes == /\ IsFiniteSet(s_resuming) /\ UnitsPast
         /\ \A p \in Pools : InQueue(p) /\ Sized(p)

\* Of each pool, how many schedulers that use it are not freed.
Using(p) == {s \in Sch!Users(p) : spc[s] # "freed"}
Shares == \A p \in Pools : num_scheds[p] = Cardinality(Using(p))

\* What the tests have found out about the pools that no other scheduler uses: after the first
\* look nobody is blocked, and after the second nobody is left.
Own(s, i, u) == upool[u] = PoolsOf[s][i] /\ Sch!Users(upool[u]) = {s}
Calm(s, i) == \A u \in Units : Own(s, i, u) => ustate[u] # "BLOCKED"
Done(s, i) == \A u \in Units : Own(s, i, u) => ustate[u] = "TERMINATED"
Tested(s) ==
    /\ looks[s] = 1 /\ spc[s] \in Tests => \A i \in 1..(idx[s] - 1) : Calm(s, i)
    /\ spc[s] = "asked?" => \A i \in 1..Len(PoolsOf[s]) : Calm(s, i)
    /\ looks[s] = 2 /\ spc[s] \in Tests =>
         /\ \A i \in 1..Len(PoolsOf[s]) : Calm(s, i)
         /\ \A i \in 1..(idx[s] - 1) : Done(s, i)
         /\ spc[s] # "empty?" => Done(s, idx[s])
    /\ stopped[s] = "finish" =>
         spc[s] \in {"stopped", "freed"} /\ \A i \in 1..Len(PoolsOf[s]) : Done(s, i)

SchedInv ==
    /\ UnitTypes /\ RunTypes /\ Carrying /\ Sizes /\ Shares
    /\ \A s \in Scheds : Visiting(s) /\ Tested(s)
------------------------------------------------------------------------------
(* The predefined schedulers: what their steps keep *)

\* The constants, and what is among the pools of a scheduler.
LEMMA SchedulerConstants ==
  /\ IsFiniteSet(Scheds) /\ IsFiniteSet(Units) /\ NoUnit \notin Units
  /\ EventFreqs \subseteq Nat /\ MaxOps \in Nat
  /\ \A s \in Scheds :
       /\ PoolsOf[s] \in Seq(Pools) /\ Len(PoolsOf[s]) \in Nat
       /\ DOMAIN PoolsOf[s] = 1..Len(PoolsOf[s]) /\ Sch!PoolSet(s) \subseteq Pools
       /\ \A i \in 1..Len(PoolsOf[s]) : PoolsOf[s][i] \in Sch!PoolSet(s)
       /\ \A p \in Sch!PoolSet(s) : \E i \in 1..Len(PoolsOf[s]) : p = PoolsOf[s][i]
<1>1. /\ IsFiniteSet(Scheds) /\ IsFiniteSet(Units) /\ NoUnit \notin Units
      /\ EventFreqs \subseteq Nat /\ MaxOps \in Nat /\ PoolsOf \in [Scheds -> Seq(Pools)]
  BY StreamsAssumption DEF Sch!SchedConstants, Sch!IsFiniteSet, IsFiniteSet
<1>2. ASSUME NEW s \in Scheds
      PROVE  /\ PoolsOf[s] \in Seq(Pools) /\ Len(PoolsOf[s]) \in Nat
             /\ DOMAIN PoolsOf[s] = 1..Len(PoolsOf[s]) /\ Sch!PoolSet(s) \subseteq Pools
             /\ \A i \in 1..Len(PoolsOf[s]) : PoolsOf[s][i] \in Sch!PoolSet(s)
             /\ \A p \in Sch!PoolSet(s) : \E i \in 1..Len(PoolsOf[s]) : p = PoolsOf[s][i]
  <2>1. PoolsOf[s] \in Seq(Pools)
    BY <1>1
  <2>2. Len(PoolsOf[s]) \in Nat /\ DOMAIN PoolsOf[s] = 1..Len(PoolsOf[s])
    BY <2>1
  <2>3. \A i \in 1..Len(PoolsOf[s]) : PoolsOf[s][i] \in Pools
    BY <2>1
  <2> QED BY <2>1, <2>2, <2>3 DEF Sch!PoolSet
<1> QED BY <1>1, <1>2

\* Sorting its pools, a scheduler neither loses nor invents one.
LEMMA SortedPools ==
  ASSUME NEW s \in Scheds, NEW ps \in Sch!Sorted(PoolsOf[s])
  PROVE  /\ ps \in Seq(Pools) /\ Len(ps) = Len(PoolsOf[s])
         /\ \A i \in 1..Len(PoolsOf[s]) : ps[i] \in Sch!PoolSet(s)
<1> DEFINE n == Len(PoolsOf[s])
<1>1. n \in Nat /\ DOMAIN PoolsOf[s] = 1..n
  BY SchedulerConstants
<1>2. \A i \in 1..n : PoolsOf[s][i] \in Sch!PoolSet(s) /\ PoolsOf[s][i] \in Pools
  BY SchedulerConstants
<1>3. PICK f \in [1..n -> 1..n] : ps = [i \in 1..n |-> PoolsOf[s][f[i]]]
  BY <1>1 DEF Sch!Sorted
<1> HIDE DEF n
<1>4. \A i \in 1..n : ps[i] \in Sch!PoolSet(s) /\ ps[i] \in Pools
  BY <1>2, <1>3
<1>5. ps \in [1..n -> Pools]
  BY <1>3, <1>4
<1>6. ps \in Seq(Pools) /\ Len(ps) = n
  BY <1>1, <1>3, <1>5
<1> QED BY <1>4, <1>6 DEF n

\* A look for a unit finds one in a pool of the scheduler, or goes on.
TakesFrom(s) == \E p \in Sch!PoolSet(s) : \E u \in s_queue[p] : Sch!Take(s, p, u)
Scanned(s) ==
    /\ spc[s] \in {"scan", "steal", "wait"} /\ Sch!RunFrame
    /\ \E i \in 1..Len(PoolsOf[s]), k \in 0..3 :
         /\ idx' = [idx EXCEPT ![s] = i] /\ looks' = [looks EXCEPT ![s] = k]
         /\ \/ TakesFrom(s) /\ i = 1
            \/ \E l \in {"scan", "steal", "count", "wait", "exit?"} :
                 /\ Sch!SGoto(s, l) /\ UNCHANGED <<s_queue, s_cur, ustate>>
                 /\ i = 1 \/ (l = "scan" /\ kind[s] # "randws")
                 /\ l = "exit?" => k = 1

\* All the run functions look for a unit in that way.
LEMMA ScansAlike ==
  ASSUME NEW s \in Scheds, RunTypes, Visiting(s),
         \/ Sch!ScanBasic(s) \/ Sch!ScanPrio(s) \/ Sch!ScanBasicWait(s) \/ Sch!WaitBasicWait(s)
         \/ Sch!ScanRandws(s) \/ \E target \in 2..Len(PoolsOf[s]) : Sch!Steal(s, target)
  PROVE  Scanned(s)
<1> DEFINE n == Len(PoolsOf[s])
<1>1. spc[s] \in {"scan", "steal", "wait"} /\ Sch!RunFrame
  BY DEF Sch!ScanBasic, Sch!ScanPrio, Sch!ScanBasicWait, Sch!WaitBasicWait, Sch!ScanRandws, Sch!Steal
<1>2. /\ n \in Nat /\ n # 0 /\ Len(data[s].pools) = n /\ idx[s] \in 1..n
      /\ \A i \in 1..n : data[s].pools[i] \in Sch!PoolSet(s)
      /\ spc[s] \in {"steal", "wait"} \/ kind[s] = "randws" => idx[s] = 1
  BY <1>1, SchedulerConstants DEF Visiting, Runs, Tests
<1>3. /\ idx = [idx EXCEPT ![s] = idx[s]] /\ looks = [looks EXCEPT ![s] = looks[s]]
      /\ looks[s] \in 0..3
  BY DEF RunTypes
<1> HIDE DEF n
<1>4. 1 \in 1..n
  BY <1>2
<1>5. ASSUME NEW p \in Sch!PoolSet(s), NEW l, Sch!PopFrom(s, p, l)
      PROVE  \/ TakesFrom(s) /\ s_queue[p] # {}
             \/ Sch!SGoto(s, l) /\ (UNCHANGED <<s_queue, s_cur, ustate>>) /\ s_queue[p] = {}
  BY <1>5 DEF Sch!PopFrom, TakesFrom, Sch!Miss
<1>6. ASSUME Sch!ScanBasic(s) \/ Sch!ScanPrio(s) \/ Sch!ScanBasicWait(s)
      PROVE  Scanned(s)
  <2>1. PICK p \in Sch!PoolSet(s), last \in {"count", "wait"} :
          /\ p = data[s].pools[idx[s]]
          /\ Sch!PopFrom(s, p, IF idx[s] < n THEN "scan" ELSE last)
          /\ idx' = [idx EXCEPT ![s] = IF s_queue[p] = {} /\ idx[s] < n THEN idx[s] + 1 ELSE 1]
          /\ UNCHANGED looks /\ kind[s] # "randws"
    BY <1>2, <1>6 DEF Sch!ScanBasic, Sch!ScanPrio, Sch!ScanBasicWait, Sch!NumPools
  <2>2. PICK i \in 1..n : /\ i = IF s_queue[p] = {} /\ idx[s] < n THEN idx[s] + 1 ELSE 1
                          /\ idx' = [idx EXCEPT ![s] = i]
    <3> DEFINE j == IF s_queue[p] = {} /\ idx[s] < n THEN idx[s] + 1 ELSE 1
    <3>1. j \in 1..n
      BY <1>2, <1>4
    <3> QED BY <2>1, <3>1
  <2>3. CASE TakesFrom(s) /\ s_queue[p] # {}
    BY <1>1, <1>3, <2>1, <2>2, <2>3 DEF Scanned, n
  <2>4. CASE /\ Sch!SGoto(s, IF idx[s] < n THEN "scan" ELSE last)
             /\ UNCHANGED <<s_queue, s_cur, ustate>> /\ s_queue[p] = {}
    <3>1. PICK l \in {"scan", "count", "wait"} : l = IF idx[s] < n THEN "scan" ELSE last
      OBVIOUS
    <3>2. Sch!SGoto(s, l) /\ (i = 1 \/ l = "scan") /\ l # "exit?"
      BY <2>2, <2>4, <3>1
    <3> QED BY <1>1, <1>3, <2>1, <2>2, <2>4, <3>2 DEF Scanned, n
  <2> QED BY <1>5, <2>1, <2>3, <2>4
<1>7. ASSUME Sch!ScanRandws(s) \/ \E target \in 2..Len(PoolsOf[s]) : Sch!Steal(s, target)
      PROVE  Scanned(s)
  <2>1. PICK p \in Sch!PoolSet(s), l \in {"steal", "count"} :
          Sch!PopFrom(s, p, l) /\ UNCHANGED <<idx, looks>> /\ kind[s] = "randws"
    <3>1. CASE Sch!ScanRandws(s)
      BY <1>2, <1>4, <3>1 DEF Sch!ScanRandws
    <3>2. ASSUME NEW target \in 2..n, Sch!Steal(s, target)
          PROVE  \E p \in Sch!PoolSet(s), l \in {"steal", "count"} :
                   Sch!PopFrom(s, p, l) /\ UNCHANGED <<idx, looks>> /\ kind[s] = "randws"
      <4>1. target \in 1..n
        BY <1>2
      <4> QED BY <1>2, <3>2, <4>1 DEF Sch!Steal
    <3> QED BY <1>7, <3>1, <3>2 DEF n
  <2>2. idx' = [idx EXCEPT ![s] = 1]
    BY <1>2, <1>3, <2>1
  <2> QED BY <1>1, <1>3, <1>4, <1>5, <2>1, <2>2 DEF Scanned, n
<1>8. ASSUME Sch!WaitBasicWait(s) PROVE Scanned(s)
  <2>1. idx' = [idx EXCEPT ![s] = 1] /\ data[s].pools[1] \in Sch!PoolSet(s)
    BY <1>2, <1>3, <1>4, <1>8 DEF Sch!WaitBasicWait
  <2>2. \/ TakesFrom(s) /\ looks' = [looks EXCEPT ![s] = 3]
        \/ /\ Sch!SGoto(s, "exit?") /\ looks' = [looks EXCEPT ![s] = 1]
           /\ UNCHANGED <<s_queue, s_cur, ustate>>
    BY <1>8, <2>1 DEF Sch!WaitBasicWait, TakesFrom, Sch!Miss
  <2>3. 1 \in 1..Len(PoolsOf[s]) /\ 1 \in 0..3 /\ 3 \in 0..3
    BY <1>4 DEF n
  <2>4. CASE TakesFrom(s) /\ looks' = [looks EXCEPT ![s] = 3]
    BY <1>1, <2>1, <2>3, <2>4 DEF Scanned
  <2>5. CASE /\ Sch!SGoto(s, "exit?") /\ looks' = [looks EXCEPT ![s] = 1]
             /\ UNCHANGED <<s_queue, s_cur, ustate>>
    BY <1>1, <2>1, <2>3, <2>5 DEF Scanned
  <2> QED BY <2>2, <2>4, <2>5
<1> QED BY <1>6, <1>7, <1>8

\* The schedulers start with every unit in its pool.
LEMMA SchedInit == Sch!SchedInit => SchedInv
<1> SUFFICES ASSUME Sch!SchedInit PROVE SchedInv
  OBVIOUS
<1> USE SchedulerConstants DEF Sch!SchedInit
<1>1. UnitTypes
  BY DEF UnitTypes
<1>2. RunTypes
  BY DEF RunTypes, Runs, Sch!NoData
<1>3. Carrying
  BY DEF Carrying, On
<1>4. Sizes
  <2>1. \A p \in Pools : Sch!Blocked(p) = {} /\ Sch!ResumedTo(p) = {}
    BY DEF Sch!Blocked, Sch!ResumedTo
  <2>2. \A p \in Pools : Cardinality(Sch!Blocked(p)) = 0 /\ Cardinality(Sch!ResumedTo(p)) = 0
    BY <2>1, FS_EmptySet
  <2>3. IsFiniteSet(s_resuming)
    BY FS_EmptySet
  <2> QED BY <2>2, <2>3 DEF Sizes, UnitsPast, InQueue, Sized
<1>5. Shares
  <2>1. \A p \in Pools : Using(p) = {s \in Scheds : p \in Sch!PoolSet(s)}
    BY DEF Using, Sch!Users
  <2>2. \A S : Sch!Cardinality(S) = Cardinality(S)
    BY DEF Sch!Cardinality, Cardinality
  <2> QED BY <2>1, <2>2 DEF Shares
<1>6. \A s \in Scheds : Visiting(s) /\ Tested(s)
  BY DEF Visiting, Tested, Runs, Tests
<1> QED BY <1>1, <1>2, <1>3, <1>4, <1>5, <1>6 DEF SchedInv

\* The actions, the looks for a unit taken together.
LEMMA SchedActions ==
  ASSUME RunTypes, \A s \in Scheds : Visiting(s), Sch!SchedNext
  PROVE  \/ \E s \in Scheds :
              \/ Scanned(s) \/ Sch!Terminate(s) \/ Sch!Yield(s) \/ Sch!Suspend(s)
              \/ Sch!InitSched(s) \/ Sch!FreeSched(s) \/ Sch!CountTurn(s) \/ Sch!ExitRequested(s)
              \/ Sch!PoolIsEmpty(s) \/ Sch!PoolIsShared(s) \/ Sch!PoolHasBlocked(s)
              \/ Sch!FinishRequested(s) \/ Sch!Finish(s) \/ Sch!Exit(s)
         \/ \E u \in Units : Sch!Resume(u)
BY ScansAlike DEF Sch!SchedNext, Sch!StreamNext

\* What the units see of a step: nothing, one that is taken, one that comes back, or a resume.
Undisturbed ==
    /\ UNCHANGED <<s_queue, s_blocked, ustate, upool, uops, s_resuming, s_cur>>
    /\ \A t \in Scheds : spc'[t] = "run" <=> spc[t] = "run"
Taken(s) ==
    /\ spc[s] # "run" /\ TakesFrom(s)
    /\ UNCHANGED <<s_blocked, upool, uops, s_resuming>>
Left(s) == Sch!Terminate(s) \/ Sch!Yield(s) \/ Sch!Suspend(s)

LEMMA UnitsSee ==
  ASSUME RunTypes, \A s \in Scheds : Visiting(s), Sch!SchedNext
  PROVE  \/ Undisturbed
         \/ \E s \in Scheds : Taken(s) \/ Left(s)
         \/ \E u \in Units : Sch!Resume(u)
<1>a. spc \in [Scheds -> Runs \cup {"none", "stopped", "freed"}]
  BY DEF RunTypes
<1>b. ASSUME NEW s \in Scheds, spc[s] # "run",
             \E l : l # "run" /\ spc' = [spc EXCEPT ![s] = l]
      PROVE  \A t \in Scheds : spc'[t] = "run" <=> spc[t] = "run"
  BY <1>a, <1>b
<1> USE DEF Sch!SGoto, Sch!poolVars, Sch!unitVars
<1>1. ASSUME NEW s \in Scheds, Scanned(s) PROVE Undisturbed \/ Taken(s)
  <2>1. spc[s] # "run" /\ UNCHANGED <<s_blocked, upool, uops, s_resuming>>
    BY <1>1 DEF Scanned, Sch!RunFrame
  <2>2. \/ TakesFrom(s)
        \/ /\ \E l : l # "run" /\ spc' = [spc EXCEPT ![s] = l]
           /\ UNCHANGED <<s_queue, s_cur, ustate>>
    BY <1>1 DEF Scanned
  <2> QED BY <2>1, <2>2, <1>b DEF Undisturbed, Taken
<1>2. ASSUME NEW s \in Scheds,
             \/ Sch!InitSched(s) \/ Sch!FreeSched(s) \/ Sch!CountTurn(s) \/ Sch!ExitRequested(s)
             \/ Sch!PoolIsEmpty(s) \/ Sch!PoolIsShared(s) \/ Sch!PoolHasBlocked(s)
             \/ Sch!FinishRequested(s)
      PROVE  Undisturbed
  <2>1. spc[s] # "run" /\ UNCHANGED <<s_queue, s_blocked, ustate, upool, uops, s_resuming, s_cur>>
    BY <1>2 DEF Sch!InitSched, Sch!FreeSched, Sch!CountTurn, Sch!ExitRequested,
                Sch!PoolIsEmpty, Sch!PoolIsShared, Sch!PoolHasBlocked, Sch!FinishRequested,
                Sch!LookFrame, Sch!RunFrame
  <2>2. \E l : l # "run" /\ spc' = [spc EXCEPT ![s] = l]
    <3>1. CASE Sch!InitSched(s) \/ Sch!FreeSched(s) \/ Sch!CountTurn(s) \/ Sch!ExitRequested(s)
      BY <3>1 DEF Sch!InitSched, Sch!FreeSched, Sch!CountTurn, Sch!ExitRequested, Sch!Stop
    <3>2. CASE \/ Sch!PoolIsEmpty(s) \/ Sch!PoolIsShared(s) \/ Sch!PoolHasBlocked(s)
               \/ Sch!FinishRequested(s)
      BY <3>2 DEF Sch!PoolIsEmpty, Sch!PoolIsShared, Sch!PoolHasBlocked, Sch!FinishRequested,
                  Sch!HasUnit, Sch!NextPool, Sch!Stop
    <3> QED BY <1>2, <3>1, <3>2
  <2> QED BY <2>1, <2>2, <1>b DEF Undisturbed
<1>3. ASSUME NEW s \in Scheds, Sch!Finish(s) \/ Sch!Exit(s) PROVE Undisturbed
  BY <1>3 DEF Sch!Finish, Sch!Exit, Sch!Request, Undisturbed
<1> QED BY <1>1, <1>2, <1>3, SchedActions DEF Left

\* How the scheduler is left by a unit that terminates, yields or blocks.
LEMMA LeftBack ==
  ASSUME NEW s \in Scheds, Left(s)
  PROVE  /\ spc[s] = "run" /\ s_cur' = [s_cur EXCEPT ![s] = NoUnit] /\ upool' = upool
         /\ \E l : l # "run" /\ spc' = [spc EXCEPT ![s] = l]
         /\ s_resuming' = s_resuming
<1>1. Sch!Back(s) /\ spc[s] = "run"
  BY DEF Left, Sch!Terminate, Sch!Yield, Sch!Suspend, Sch!Op
<1>2. \E l : l # "run" /\ spc' = [spc EXCEPT ![s] = l]
  BY <1>1 DEF Sch!Back, Sch!SGoto, Sch!Stop
<1> QED BY <1>1, <1>2 DEF Sch!Back

\* The states of the units and of their pools stay what they may be.
LEMMA UnitTypesStep ==
  ASSUME UnitTypes, RunTypes, Carrying, \A s \in Scheds : Visiting(s), Sch!SchedNext
  PROVE  UnitTypes'
<1> USE DEF UnitTypes
<1>1. CASE Undisturbed
  BY <1>1 DEF Undisturbed
<1>2. ASSUME NEW s \in Scheds, Taken(s) PROVE UnitTypes'
  <2>1. PICK p \in Sch!PoolSet(s), u \in Units : Sch!Take(s, p, u)
    BY <1>2, SchedulerConstants DEF Taken, TakesFrom
  <2>2. p \in Pools
    BY SchedulerConstants
  <2>3. /\ s_queue' = [s_queue EXCEPT ![p] = @ \ {u}] /\ ustate' = [ustate EXCEPT ![u] = "RUNNING"]
        /\ UNCHANGED <<s_blocked, upool, uops, s_resuming>>
    BY <1>2, <2>1 DEF Taken, Sch!Take
  <2> QED BY <2>2, <2>3
<1>3. ASSUME NEW s \in Scheds, Left(s) PROVE UnitTypes'
  <2>1. /\ s_cur[s] \in Units /\ upool[s_cur[s]] \in Pools
        /\ UNCHANGED <<upool, s_resuming>>
    BY <1>3, LeftBack DEF Carrying
  <2>2. CASE Sch!Terminate(s)
    BY <2>1, <2>2 DEF Sch!Terminate
  <2>3. ASSUME Sch!Op(s) PROVE uops' \in [Units -> Nat]
    <3>1. uops' = [uops EXCEPT ![s_cur[s]] = @ - 1] /\ uops[s_cur[s]] > 0
      BY <2>3 DEF Sch!Op
    <3>2. uops[s_cur[s]] - 1 \in Nat
      BY <2>1, <3>1
    <3> QED BY <2>1, <3>1, <3>2
  <2>4. CASE Sch!Yield(s)
    <3>1. /\ s_queue' = [s_queue EXCEPT ![upool[s_cur[s]]] = @ \cup {s_cur[s]}]
          /\ ustate' = [ustate EXCEPT ![s_cur[s]] = "READY"] /\ s_blocked' = s_blocked /\ Sch!Op(s)
      BY <2>4 DEF Sch!Yield
    <3> QED BY <2>1, <2>3, <3>1
  <2>5. CASE Sch!Suspend(s)
    <3>1. /\ s_blocked' = [s_blocked EXCEPT ![upool[s_cur[s]]] = @ + 1]
          /\ ustate' = [ustate EXCEPT ![s_cur[s]] = "BLOCKED"] /\ s_queue' = s_queue /\ Sch!Op(s)
      BY <2>5 DEF Sch!Suspend
    <3> QED BY <2>1, <2>3, <3>1
  <2> QED BY <1>3, <2>2, <2>4, <2>5 DEF Left
<1>4. ASSUME NEW u \in Units, Sch!Resume(u) PROVE UnitTypes'
  <2>1. CASE /\ ustate' = [ustate EXCEPT ![u] = "READY"]
             /\ s_resuming' = s_resuming \cup {<<u, uops[u]>>}
             /\ s_queue' = [s_queue EXCEPT ![upool[u]] = @ \cup {u}]
             /\ UNCHANGED <<s_blocked, num_scheds, upool, uops, Sch!schedVars>>
    BY <2>1
  <2>2. CASE /\ \E r \in s_resuming : r[1] = u /\ s_resuming' = s_resuming \ {r}
             /\ s_blocked' = [s_blocked EXCEPT ![upool[u]] = @ - 1]
             /\ UNCHANGED <<s_queue, num_scheds, ustate, upool, uops, Sch!schedVars>>
    BY <2>2
  <2> QED BY <1>4, <2>1, <2>2 DEF Sch!Resume
<1> QED BY <1>1, <1>2, <1>3, <1>4, UnitsSee

\* Who is on a unit, and in which state it is, agree.
LEMMA CarryingStep ==
  ASSUME UnitTypes, RunTypes, Carrying, Sizes, \A s \in Scheds : Visiting(s), Sch!SchedNext
  PROVE  Carrying'
<1>a. /\ spc \in [Scheds -> Runs \cup {"none", "stopped", "freed"}]
      /\ s_cur \in [Scheds -> Units \cup {NoUnit}]
  BY DEF RunTypes
<1>b. \A s \in Scheds : Sch!PoolSet(s)' = Sch!PoolSet(s)
  BY DEF Sch!PoolSet
<1>c. /\ \A s \in Scheds : spc[s] = "run" => s_cur[s] \in Units
      /\ \A s \in Scheds, u \in Units :
           On(s, u) => ustate[u] = "RUNNING" /\ upool[u] \in Sch!PoolSet(s)
      /\ \A s, t \in Scheds, u \in Units : On(s, u) /\ On(t, u) => s = t
      /\ \A u \in Units : ustate[u] = "RUNNING" => \E s \in Scheds : On(s, u)
  BY DEF Carrying
<1>1. CASE Undisturbed
  <2>1. /\ \A s \in Scheds : spc'[s] = "run" <=> spc[s] = "run"
        /\ UNCHANGED <<s_cur, ustate, upool>>
    BY <1>1 DEF Undisturbed
  <2> QED BY <1>b, <1>c, <2>1 DEF Carrying, On
<1>2. ASSUME NEW s \in Scheds, Taken(s) PROVE Carrying'
  <2>1. PICK p \in Sch!PoolSet(s) : \E u \in s_queue[p] : Sch!Take(s, p, u)
    BY <1>2 DEF Taken, TakesFrom
  <2>2. PICK u \in s_queue[p] : Sch!Take(s, p, u)
    BY <2>1
  <2>3. p \in Pools /\ u \in Units
    BY SchedulerConstants DEF UnitTypes
  <2>4. upool[u] = p /\ ustate[u] = "READY" /\ spc[s] # "run" /\ upool' = upool
    BY <1>2, <2>3 DEF Sizes, InQueue, Taken
  <2>5. /\ s_cur' = [s_cur EXCEPT ![s] = u] /\ ustate' = [ustate EXCEPT ![u] = "RUNNING"]
        /\ spc' = [spc EXCEPT ![s] = "run"]
    BY <2>2 DEF Sch!Take, Sch!SGoto
  <2>6. /\ spc'[s] = "run" /\ s_cur'[s] = u /\ ustate'[u] = "RUNNING"
        /\ \A t \in Scheds : t # s => spc'[t] = spc[t] /\ s_cur'[t] = s_cur[t]
        /\ \A v \in Units : v # u => ustate'[v] = ustate[v]
    BY <1>a, <2>3, <2>5 DEF UnitTypes
  <2>7. \A t \in Scheds : ~On(t, u)
    BY <1>c, <2>3, <2>4
  <2> QED BY <1>b, <1>c, <2>3, <2>4, <2>6, <2>7 DEF Carrying, On
<1>3. ASSUME NEW s \in Scheds, Left(s) PROVE Carrying'
  <2>1. PICK l : l # "run" /\ spc' = [spc EXCEPT ![s] = l]
    BY <1>3, LeftBack
  <2>2. PICK k : k # "RUNNING" /\ ustate' = [ustate EXCEPT ![s_cur[s]] = k]
    BY <1>3 DEF Left, Sch!Terminate, Sch!Yield, Sch!Suspend
  <2>3. /\ spc[s] = "run" /\ upool' = upool /\ s_cur' = [s_cur EXCEPT ![s] = NoUnit]
        /\ s_cur[s] \in Units
    BY <1>3, <1>c, LeftBack
  <2>4. /\ spc'[s] # "run" /\ ustate'[s_cur[s]] # "RUNNING"
        /\ \A t \in Scheds : t # s => spc'[t] = spc[t] /\ s_cur'[t] = s_cur[t]
        /\ \A v \in Units : v # s_cur[s] => ustate'[v] = ustate[v]
    BY <1>a, <2>1, <2>2, <2>3 DEF UnitTypes
  <2> QED BY <1>b, <1>c, <2>3, <2>4 DEF Carrying, On
<1>4. ASSUME NEW u \in Units, Sch!Resume(u) PROVE Carrying'
  <2>1. UNCHANGED <<spc, s_cur, upool>>
    BY <1>4 DEF Sch!Resume, Sch!schedVars
  <2>2. \/ ustate' = ustate
        \/ ustate[u] = "BLOCKED" /\ ustate' = [ustate EXCEPT ![u] = "READY"]
    BY <1>4 DEF Sch!Resume
  <2>3. \A v \in Units : ustate'[v] = "RUNNING" <=> ustate[v] = "RUNNING"
    BY <2>2 DEF UnitTypes
  <2> QED BY <1>b, <1>c, <2>1, <2>3 DEF Carrying, On
<1> QED BY <1>1, <1>2, <1>3, <1>4, UnitsSee

\* A scheduler that runs goes on to a place in its run function, or stops.
RunsOn(s) ==
    /\ spc[s] \in Runs /\ UNCHANGED <<kind, data>>
    /\ stopped' = stopped \/ \E why \in {"exit", "finish", "idle", "returned"} :
                               Sch!Stop(s, why)
    /\ \E l \in Runs \cup {"stopped"}, i \in 1..Len(PoolsOf[s]), k \in 0..3 :
         /\ Sch!SGoto(s, l) /\ idx' = [idx EXCEPT ![s] = i] /\ looks' = [looks EXCEPT ![s] = k]
         /\ l \in {"steal", "wait", "count", "exit?", "asked?", "run"} \/ kind[s] = "randws" =>
              l \in Tests \/ l = "stopped" \/ i = 1
         /\ l \in {"exit?", "asked?"} => k = 1
         /\ l \in Tests => k \in {1, 2}

LEMMA SchedGoes ==
  ASSUME NEW s \in Scheds, RunTypes, Visiting(s),
         \/ Scanned(s) \/ Left(s) \/ Sch!CountTurn(s) \/ Sch!ExitRequested(s)
         \/ Sch!PoolIsEmpty(s) \/ Sch!PoolIsShared(s) \/ Sch!PoolHasBlocked(s)
         \/ Sch!FinishRequested(s)
  PROVE  RunsOn(s)
<1> DEFINE n == Len(PoolsOf[s])
<1>a. /\ idx = [idx EXCEPT ![s] = idx[s]] /\ looks = [looks EXCEPT ![s] = looks[s]]
      /\ looks[s] \in 0..3 /\ n \in Nat
  BY SchedulerConstants DEF RunTypes
<1>b. ASSUME spc[s] \in Runs
      PROVE  /\ idx[s] \in 1..n /\ 1 \in 1..n
             /\ spc[s] \in {"steal", "wait", "count", "exit?", "asked?", "run"} => idx[s] = 1
             /\ kind[s] = "randws" => spc[s] \in Tests \/ idx[s] = 1
             /\ spc[s] \in {"exit?", "asked?"} => looks[s] = 1
             /\ spc[s] \in Tests => looks[s] \in {1, 2}
  BY <1>a, <1>b DEF Visiting, Tests
<1> HIDE DEF n
<1>c. \A k \in {0, 1, 2, 3} : k \in 0..3
  OBVIOUS
<1>1. CASE Scanned(s)
  <2>1. /\ spc[s] \in {"scan", "steal", "wait"} /\ UNCHANGED <<kind, data, stopped>>
    BY <1>1 DEF Scanned, Sch!RunFrame
  <2>2. PICK i \in 1..n, k \in 0..3 :
         /\ idx' = [idx EXCEPT ![s] = i] /\ looks' = [looks EXCEPT ![s] = k]
         /\ \/ TakesFrom(s) /\ i = 1
            \/ \E l \in {"scan", "steal", "count", "wait", "exit?"} :
                 /\ Sch!SGoto(s, l) /\ UNCHANGED <<s_queue, s_cur, ustate>>
                 /\ i = 1 \/ (l = "scan" /\ kind[s] # "randws")
                 /\ l = "exit?" => k = 1
    BY <1>1 DEF Scanned, n
  <2>3. \/ Sch!SGoto(s, "run") /\ i = 1
        \/ \E l \in {"scan", "steal", "count", "wait", "exit?"} :
             /\ Sch!SGoto(s, l) /\ (i = 1 \/ (l = "scan" /\ kind[s] # "randws"))
             /\ l = "exit?" => k = 1
    BY <2>2 DEF TakesFrom, Sch!Take
  <2>4. PICK l \in {"run", "scan", "steal", "count", "wait", "exit?"} :
          /\ Sch!SGoto(s, l) /\ (i = 1 \/ (l = "scan" /\ kind[s] # "randws"))
          /\ l = "exit?" => k = 1
    BY <2>3
  <2>5. l \in Runs /\ l \notin Tests /\ l # "asked?" /\ spc[s] \in Runs
    BY <2>1, <2>4 DEF Runs, Tests
  <2>6. l \in Runs \cup {"stopped"} /\ l # "stopped"
    BY <2>5 DEF Runs, Tests
  <2>7. /\ l \in {"steal", "wait", "count", "exit?", "asked?", "run"} \/ kind[s] = "randws" => i = 1
        /\ l \in {"exit?", "asked?"} => k = 1
    BY <2>4, <2>5
  <2> QED BY <2>1, <2>2, <2>4, <2>5, <2>6, <2>7 DEF RunsOn, n
<1>2. CASE Left(s)
  <2>1. Sch!Back(s) /\ spc[s] = "run"
    BY <1>2 DEF Left, Sch!Terminate, Sch!Yield, Sch!Suspend, Sch!Op
  <2>2. spc[s] \in Runs
    BY <2>1 DEF Runs
  <2>3. /\ idx' = [idx EXCEPT ![s] = 1] /\ looks' = [looks EXCEPT ![s] = 0]
        /\ UNCHANGED <<kind, data>>
        /\ \/ Sch!SGoto(s, "count") /\ UNCHANGED stopped
           \/ Sch!Stop(s, "returned")
           \/ Sch!SGoto(s, "scan") /\ UNCHANGED stopped
    BY <2>1 DEF Sch!Back
  <2>4. /\ stopped' = stopped \/ Sch!Stop(s, "returned")
        /\ \E l \in {"count", "scan", "stopped"} : Sch!SGoto(s, l)
    BY <2>3 DEF Sch!Stop
  <2> QED BY <2>2, <2>3, <2>4, <1>b, <1>c DEF RunsOn, n, Runs, Tests
<1>3. CASE Sch!CountTurn(s)
  <2>1. /\ spc[s] = "count" /\ UNCHANGED <<idx, kind, data, stopped>>
        /\ \/ Sch!SGoto(s, "exit?") /\ looks' = [looks EXCEPT ![s] = 1]
           \/ Sch!SGoto(s, "scan") /\ UNCHANGED looks
    BY <1>3 DEF Sch!CountTurn, Sch!RunFrame
  <2>2. spc[s] \in Runs /\ idx[s] = 1
    BY <2>1, <1>b DEF Runs
  <2>3. /\ idx' = [idx EXCEPT ![s] = 1] /\ 1 \in 1..n
    BY <1>a, <1>b, <2>1, <2>2
  <2>4. CASE Sch!SGoto(s, "exit?") /\ looks' = [looks EXCEPT ![s] = 1]
    BY <2>1, <2>2, <2>3, <2>4, <1>c DEF RunsOn, n, Runs, Tests
  <2>5. CASE Sch!SGoto(s, "scan") /\ UNCHANGED looks
    <3>1. looks' = [looks EXCEPT ![s] = looks[s]] /\ looks[s] \in 0..3
      BY <1>a, <2>5
    <3> QED BY <2>1, <2>2, <2>3, <2>5, <3>1 DEF RunsOn, n, Runs, Tests
  <2> QED BY <2>1, <2>4, <2>5
<1>4. CASE Sch!ExitRequested(s)
  <2>1. /\ spc[s] = "exit?" /\ UNCHANGED <<idx, looks, kind, data>>
        /\ Sch!Stop(s, "exit") \/ (Sch!SGoto(s, "empty?") /\ UNCHANGED stopped)
    BY <1>4 DEF Sch!ExitRequested, Sch!LookFrame
  <2>2. spc[s] \in Runs /\ idx[s] = 1 /\ looks[s] = 1
    BY <2>1, <1>b DEF Runs
  <2>3. /\ idx' = [idx EXCEPT ![s] = 1] /\ 1 \in 1..n /\ looks' = [looks EXCEPT ![s] = 1]
    BY <1>a, <1>b, <2>1, <2>2
  <2>4. /\ stopped' = stopped \/ Sch!Stop(s, "exit")
        /\ \E l \in {"empty?", "stopped"} : Sch!SGoto(s, l)
    BY <2>1 DEF Sch!Stop
  <2> QED BY <2>1, <2>2, <2>3, <2>4, <1>c DEF RunsOn, n, Runs, Tests
<1>5. ASSUME spc[s] \in Tests, UNCHANGED <<kind, data>>,
             \/ Sch!HasUnit(s) \/ Sch!NextPool(s)
             \/ /\ Sch!SGoto(s, "blocked?") \/ Sch!SGoto(s, "shared?")
                /\ UNCHANGED <<idx, looks, stopped>>
      PROVE  RunsOn(s)
  <2>1. /\ spc[s] \in Runs /\ idx[s] \in 1..n /\ 1 \in 1..n /\ looks[s] \in {1, 2}
        /\ looks[s] \in 0..3
    BY <1>5, <1>a, <1>b DEF Runs
  <2>2. CASE Sch!HasUnit(s)
    <3>1. /\ Sch!SGoto(s, "scan") /\ idx' = [idx EXCEPT ![s] = 1]
          /\ looks' = [looks EXCEPT ![s] = looks[s]] /\ UNCHANGED stopped
      BY <2>2, <1>a DEF Sch!HasUnit
    <3> QED BY <1>5, <2>1, <3>1 DEF RunsOn, n, Runs, Tests
  <2>3. CASE Sch!NextPool(s)
    <3>1. CASE idx[s] < n
      <4>1. /\ Sch!SGoto(s, "empty?") /\ idx' = [idx EXCEPT ![s] = idx[s] + 1]
            /\ looks' = [looks EXCEPT ![s] = looks[s]] /\ UNCHANGED stopped
        BY <2>3, <3>1, <1>a DEF Sch!NextPool, n
      <4>2. idx[s] + 1 \in 1..n
        BY <1>a, <2>1, <3>1
      <4> QED BY <1>5, <2>1, <4>1, <4>2 DEF RunsOn, n, Runs, Tests
    <3>2. CASE ~(idx[s] < n)
      <4>1. /\ idx' = [idx EXCEPT ![s] = 1] /\ looks' = [looks EXCEPT ![s] = looks[s]]
            /\ \/ Sch!Stop(s, "finish")
               \/ Sch!SGoto(s, "asked?") /\ UNCHANGED stopped /\ looks[s] # 2
        BY <2>3, <3>2, <1>a DEF Sch!NextPool, n
      <4>2. CASE Sch!Stop(s, "finish")
        <5>1. Sch!SGoto(s, "stopped")
          BY <4>2 DEF Sch!Stop
        <5> QED BY <1>5, <2>1, <4>1, <4>2, <5>1 DEF RunsOn, n, Runs, Tests
      <4>3. CASE Sch!SGoto(s, "asked?") /\ UNCHANGED stopped /\ looks[s] # 2
        BY <1>5, <2>1, <4>1, <4>3 DEF RunsOn, n, Runs, Tests
      <4> QED BY <4>1, <4>2, <4>3
    <3> QED BY <3>1, <3>2
  <2>4. CASE /\ Sch!SGoto(s, "blocked?") \/ Sch!SGoto(s, "shared?")
             /\ UNCHANGED <<idx, looks, stopped>>
    <3>1. /\ idx' = [idx EXCEPT ![s] = idx[s]] /\ looks' = [looks EXCEPT ![s] = looks[s]]
      BY <2>4, <1>a
    <3>2. \E l \in {"blocked?", "shared?"} : Sch!SGoto(s, l)
      BY <2>4
    <3> QED BY <1>5, <2>1, <2>4, <3>1, <3>2 DEF RunsOn, n, Runs, Tests
  <2> QED BY <1>5, <2>2, <2>3, <2>4
<1>6. CASE Sch!PoolIsEmpty(s) \/ Sch!PoolIsShared(s) \/ Sch!PoolHasBlocked(s)
  <2>1. spc[s] \in Tests /\ UNCHANGED <<kind, data>>
    BY <1>6 DEF Sch!PoolIsEmpty, Sch!PoolIsShared, Sch!PoolHasBlocked, Sch!LookFrame, Tests
  <2>2. \/ Sch!HasUnit(s) \/ Sch!NextPool(s)
        \/ /\ Sch!SGoto(s, "blocked?") \/ Sch!SGoto(s, "shared?")
           /\ UNCHANGED <<idx, looks, stopped>>
    BY <1>6 DEF Sch!PoolIsEmpty, Sch!PoolIsShared, Sch!PoolHasBlocked
  <2> QED BY <2>1, <2>2, <1>5
<1>7. CASE Sch!FinishRequested(s)
  <2>1. /\ spc[s] = "asked?" /\ UNCHANGED <<idx, kind, data>>
        /\ \/ Sch!SGoto(s, "empty?") /\ looks' = [looks EXCEPT ![s] = 2] /\ UNCHANGED stopped
           \/ Sch!Stop(s, "idle") /\ UNCHANGED looks
           \/ Sch!SGoto(s, "scan") /\ UNCHANGED <<looks, stopped>>
    BY <1>7 DEF Sch!FinishRequested, Sch!LookFrame
  <2>2. spc[s] \in Runs /\ idx[s] = 1 /\ looks[s] = 1
    BY <2>1, <1>b DEF Runs
  <2>3. idx' = [idx EXCEPT ![s] = 1] /\ 1 \in 1..n
    BY <1>a, <1>b, <2>1, <2>2
  <2>4. CASE Sch!SGoto(s, "empty?") /\ looks' = [looks EXCEPT ![s] = 2] /\ UNCHANGED stopped
    BY <2>1, <2>2, <2>3, <2>4, <1>c DEF RunsOn, n, Runs, Tests
  <2>5. CASE \/ Sch!Stop(s, "idle") /\ UNCHANGED looks
             \/ Sch!SGoto(s, "scan") /\ UNCHANGED <<looks, stopped>>
    <3>1. looks' = [looks EXCEPT ![s] = 1]
      BY <1>a, <2>2, <2>5
    <3>2. /\ stopped' = stopped \/ Sch!Stop(s, "idle")
          /\ \E l \in {"scan", "stopped"} : Sch!SGoto(s, l)
      BY <2>5 DEF Sch!Stop
    <3> QED BY <2>1, <2>2, <2>3, <3>1, <3>2, <1>c DEF RunsOn, n, Runs, Tests
  <2> QED BY <2>1, <2>4, <2>5
<1> QED BY <1>1, <1>2, <1>3, <1>4, <1>6, <1>7

\* The other actions of a scheduler: it starts, is freed, or gets a request.
LEMMA SchedStarts ==
  ASSUME NEW s \in Scheds, Sch!InitSched(s)
  PROVE  /\ spc[s] = "none" /\ (UNCHANGED <<looks, stopped, s_cur>>) /\ idx' = [idx EXCEPT ![s] = 1]
         /\ Sch!SGoto(s, IF PoolsOf[s] = <<>> THEN "stopped" ELSE "scan")
         /\ \E freq \in Nat, ps \in Seq(Pools) :
              /\ data' = [data EXCEPT ![s] = [event_freq |-> freq, pools |-> ps]]
              /\ Len(ps) = Len(PoolsOf[s])
              /\ \A i \in 1..Len(PoolsOf[s]) : ps[i] \in Sch!PoolSet(s)
<1>1. \A freq \in EventFreqs : freq \in Nat
  BY SchedulerConstants
<1>2. \A i \in 1..Len(PoolsOf[s]) : PoolsOf[s][i] \in Sch!PoolSet(s)
  BY SchedulerConstants
<1>3. PoolsOf[s] \in Seq(Pools)
  BY SchedulerConstants
<1>4. PICK freq \in Nat : \/ Sch!InitBasic(s, freq) \/ Sch!InitBasicWait(s, freq)
                          \/ Sch!InitPrio(s, freq) \/ Sch!InitRandws(s, freq)
  BY <1>1 DEF Sch!InitSched
<1>5. \E ps \in Seq(Pools) :
         /\ data' = [data EXCEPT ![s] = [event_freq |-> freq, pools |-> ps]]
         /\ Len(ps) = Len(PoolsOf[s])
         /\ \A i \in 1..Len(PoolsOf[s]) : ps[i] \in Sch!PoolSet(s)
  <2>1. CASE Sch!InitBasic(s, freq) \/ Sch!InitBasicWait(s, freq)
    BY <2>1, SortedPools DEF Sch!InitBasic, Sch!InitBasicWait
  <2>2. CASE Sch!InitPrio(s, freq) \/ Sch!InitRandws(s, freq)
    BY <1>2, <1>3, <2>2 DEF Sch!InitPrio, Sch!InitRandws
  <2> QED BY <1>4, <2>1, <2>2
<1> QED BY <1>5 DEF Sch!InitSched

LEMMA SchedEnds ==
  ASSUME NEW s \in Scheds, Sch!FreeSched(s)
  PROVE  /\ spc[s] = "stopped" /\ Sch!SGoto(s, "freed") /\ data' = [data EXCEPT ![s] = Sch!NoData]
         /\ UNCHANGED <<idx, looks, stopped, s_cur>>
BY DEF Sch!FreeSched

\* Where the run functions are, and what the schedulers hold, stays what it may be.
LEMMA RunTypesStep ==
  ASSUME UnitTypes, RunTypes, \A s \in Scheds : Visiting(s), Sch!SchedNext
  PROVE  RunTypes'
<1> DEFINE Places == Runs \cup {"none", "stopped", "freed"}
           Whys == {"no", "exit", "finish", "idle", "returned"}
           Datas == [event_freq : Nat, pools : Seq(Pools)]
<1>a. /\ spc \in [Scheds -> Places] /\ idx \in [Scheds -> Nat] /\ looks \in [Scheds -> 0..3]
      /\ stopped \in [Scheds -> Whys] /\ data \in [Scheds -> Datas]
  BY DEF RunTypes
<1>b. "stopped" \in Places /\ "scan" \in Places /\ "freed" \in Places
      /\ \A l \in Runs \cup {"stopped"} : l \in Places
  BY DEF Runs
<1>c. \A s \in Scheds : \A i \in 1..Len(PoolsOf[s]) : i \in Nat
  BY SchedulerConstants
<1> HIDE DEF Places, Whys, Datas
<1>1. s_cur' \in [Scheds -> Units \cup {NoUnit}]
  <2>0. s_cur \in [Scheds -> Units \cup {NoUnit}]
    BY DEF RunTypes
  <2>1. ASSUME NEW s \in Scheds, Taken(s) PROVE s_cur' \in [Scheds -> Units \cup {NoUnit}]
    <3>1. PICK p \in Sch!PoolSet(s), u \in Units : s_cur' = [s_cur EXCEPT ![s] = u]
      BY <2>1, SchedulerConstants DEF Taken, TakesFrom, Sch!Take, UnitTypes
    <3> QED BY <2>0, <3>1
  <2>2. ASSUME NEW s \in Scheds, Left(s) PROVE s_cur' \in [Scheds -> Units \cup {NoUnit}]
    BY <2>0, <2>2, LeftBack
  <2>3. ASSUME NEW u \in Units, Sch!Resume(u) PROVE s_cur' = s_cur
    BY <2>3 DEF Sch!Resume, Sch!schedVars
  <2> QED BY <2>0, <2>1, <2>2, <2>3, UnitsSee DEF Undisturbed
<1>2. ASSUME NEW s \in Scheds, RunsOn(s)
      PROVE  /\ spc' \in [Scheds -> Places] /\ idx' \in [Scheds -> Nat] /\ looks' \in [Scheds -> 0..3]
             /\ stopped' \in [Scheds -> Whys] /\ data' \in [Scheds -> Datas]
  <2>1. PICK l \in Runs \cup {"stopped"}, i \in 1..Len(PoolsOf[s]), k \in 0..3 :
          /\ spc' = [spc EXCEPT ![s] = l] /\ idx' = [idx EXCEPT ![s] = i]
          /\ looks' = [looks EXCEPT ![s] = k]
    BY <1>2 DEF RunsOn, Sch!SGoto
  <2>2. l \in Places /\ i \in Nat
    BY <1>b, <1>c
  <2>3. /\ spc' \in [Scheds -> Places] /\ idx' \in [Scheds -> Nat] /\ looks' \in [Scheds -> 0..3]
    BY <1>a, <2>1, <2>2
  <2>4. stopped' \in [Scheds -> Whys]
    <3>1. \/ stopped' = stopped
          \/ \E why \in {"exit", "finish", "idle", "returned"} :
               stopped' = [stopped EXCEPT ![s] = why]
      BY <1>2 DEF RunsOn, Sch!Stop
    <3>2. \A why \in {"exit", "finish", "idle", "returned"} : why \in Whys
      BY DEF Whys
    <3> QED BY <1>a, <3>1, <3>2
  <2>5. data' = data
    BY <1>2 DEF RunsOn
  <2> QED BY <1>a, <2>3, <2>4, <2>5
<1>3. ASSUME NEW s \in Scheds, Sch!InitSched(s)
      PROVE  /\ spc' \in [Scheds -> Places] /\ idx' \in [Scheds -> Nat] /\ looks' \in [Scheds -> 0..3]
             /\ stopped' \in [Scheds -> Whys] /\ data' \in [Scheds -> Datas]
  <2>1. PICK d \in Datas : data' = [data EXCEPT ![s] = d]
    BY <1>3, SchedStarts DEF Datas
  <2>2. /\ \E l \in {"stopped", "scan"} : spc' = [spc EXCEPT ![s] = l]
        /\ idx' = [idx EXCEPT ![s] = 1] /\ UNCHANGED <<looks, stopped>>
    BY <1>3, SchedStarts DEF Sch!SGoto
  <2> QED BY <1>a, <1>b, <2>1, <2>2
<1>4. ASSUME NEW s \in Scheds, Sch!FreeSched(s)
      PROVE  /\ spc' \in [Scheds -> Places] /\ idx' \in [Scheds -> Nat] /\ looks' \in [Scheds -> 0..3]
             /\ stopped' \in [Scheds -> Whys] /\ data' \in [Scheds -> Datas]
  <2>1. Sch!NoData \in Datas
    <3>1. <<>> \in Seq(Pools)
      OBVIOUS
    <3> QED BY <3>1 DEF Sch!NoData, Datas
  <2>2. /\ spc' = [spc EXCEPT ![s] = "freed"] /\ data' = [data EXCEPT ![s] = Sch!NoData]
        /\ UNCHANGED <<idx, looks, stopped>>
    BY <1>4, SchedEnds DEF Sch!SGoto
  <2> QED BY <1>a, <1>b, <2>1, <2>2
<1>5. ASSUME \/ \E s \in Scheds : Sch!Finish(s) \/ Sch!Exit(s)
             \/ \E u \in Units : Sch!Resume(u)
      PROVE  UNCHANGED <<spc, idx, looks, stopped, data>>
  BY <1>5 DEF Sch!Finish, Sch!Exit, Sch!Request, Sch!Resume, Sch!schedVars
<1>6. /\ spc' \in [Scheds -> Places] /\ idx' \in [Scheds -> Nat] /\ looks' \in [Scheds -> 0..3]
      /\ stopped' \in [Scheds -> Whys] /\ data' \in [Scheds -> Datas]
  BY <1>a, <1>2, <1>3, <1>4, <1>5, SchedActions, SchedGoes DEF Left
<1> QED BY <1>1, <1>6 DEF RunTypes, Places, Whys, Datas

\* A scheduler keeps visiting the pools it was created with.
LEMMA VisitingStep ==
  ASSUME RunTypes, \A s \in Scheds : Visiting(s), Sch!SchedNext, NEW t \in Scheds
  PROVE  Visiting(t)'
<1>a. /\ spc \in [Scheds -> Runs \cup {"none", "stopped", "freed"}] /\ idx \in [Scheds -> Nat]
      /\ looks \in [Scheds -> 0..3] /\ data \in [Scheds -> [event_freq : Nat, pools : Seq(Pools)]]
  BY DEF RunTypes
<1>b. /\ \A s \in Scheds : Sch!PoolSet(s)' = Sch!PoolSet(s)
      /\ kind' = kind
  <2>1. \A s \in Scheds : Sch!PoolSet(s)' = Sch!PoolSet(s)
    BY DEF Sch!PoolSet
  <2>2. ASSUME NEW s \in Scheds, RunsOn(s) PROVE kind' = kind
    BY <2>2 DEF RunsOn
  <2>3. ASSUME \/ \E s \in Scheds : \/ Sch!InitSched(s) \/ Sch!FreeSched(s)
                                    \/ Sch!Finish(s) \/ Sch!Exit(s)
               \/ \E u \in Units : Sch!Resume(u)
        PROVE  kind' = kind
    BY <2>3 DEF Sch!InitSched, Sch!FreeSched, Sch!Finish, Sch!Exit, Sch!Request, Sch!Resume,
                Sch!schedVars
  <2> QED BY <2>1, <2>2, <2>3, SchedActions, SchedGoes DEF Left
<1>1. ASSUME spc'[t] = spc[t], idx'[t] = idx[t], looks'[t] = looks[t], data'[t] = data[t]
      PROVE  Visiting(t)'
  <2>1. Visiting(t)
    OBVIOUS
  <2> QED BY <1>1, <1>b, <2>1 DEF Visiting
<1>2. ASSUME NEW s \in Scheds, RunsOn(s) PROVE Visiting(t)'
  <2>1. PICK l \in Runs \cup {"stopped"}, i \in 1..Len(PoolsOf[s]), k \in 0..3 :
         /\ Sch!SGoto(s, l) /\ idx' = [idx EXCEPT ![s] = i] /\ looks' = [looks EXCEPT ![s] = k]
         /\ l \in {"steal", "wait", "count", "exit?", "asked?", "run"} \/ kind[s] = "randws" =>
              l \in Tests \/ l = "stopped" \/ i = 1
         /\ l \in {"exit?", "asked?"} => k = 1
         /\ l \in Tests => k \in {1, 2}
    BY <1>2 DEF RunsOn
  <2>2. data' = data /\ spc[s] \in Runs /\ spc' = [spc EXCEPT ![s] = l]
    BY <1>2, <2>1 DEF RunsOn, Sch!SGoto
  <2>3. CASE t # s
    BY <1>1, <1>a, <2>1, <2>2, <2>3
  <2>4. CASE t = s
    <3>1. spc'[s] = l /\ idx'[s] = i /\ looks'[s] = k
      BY <1>a, <2>1, <2>2
    <3>2. /\ Len(PoolsOf[s]) # 0 /\ Len(data[s].pools) = Len(PoolsOf[s])
          /\ \A j \in 1..Len(PoolsOf[s]) : data[s].pools[j] \in Sch!PoolSet(s)
      BY <2>2 DEF Visiting
    <3>3. "stopped" \notin Runs
      BY DEF Runs, Tests
    <3> QED BY <1>b, <2>1, <2>2, <2>4, <3>1, <3>2, <3>3 DEF Visiting
  <2> QED BY <2>3, <2>4
<1>3. ASSUME NEW s \in Scheds, Sch!InitSched(s) PROVE Visiting(t)'
  <2>1. PICK freq \in Nat, ps \in Seq(Pools) :
              /\ data' = [data EXCEPT ![s] = [event_freq |-> freq, pools |-> ps]]
              /\ Len(ps) = Len(PoolsOf[s])
              /\ \A i \in 1..Len(PoolsOf[s]) : ps[i] \in Sch!PoolSet(s)
    BY <1>3, SchedStarts
  <2>2. /\ UNCHANGED looks /\ idx' = [idx EXCEPT ![s] = 1]
        /\ spc' = [spc EXCEPT ![s] = IF PoolsOf[s] = <<>> THEN "stopped" ELSE "scan"]
    BY <1>3, SchedStarts DEF Sch!SGoto
  <2>3. CASE t # s
    BY <1>1, <1>a, <2>1, <2>2, <2>3
  <2>4. CASE t = s
    <3>1. /\ spc'[s] = (IF PoolsOf[s] = <<>> THEN "stopped" ELSE "scan") /\ idx'[s] = 1
          /\ data'[s].pools = ps
      BY <1>a, <2>1, <2>2
    <3>2. "stopped" \notin Runs /\ "scan" \notin Tests
      BY DEF Runs, Tests
    <3>3. CASE PoolsOf[s] = <<>>
      BY <2>4, <3>1, <3>2, <3>3 DEF Visiting
    <3>4. CASE PoolsOf[s] # <<>>
      <4>1. Len(PoolsOf[s]) # 0 /\ 1 \in 1..Len(PoolsOf[s])
        BY <3>4, SchedulerConstants
      <4> QED BY <1>b, <2>1, <2>4, <3>1, <3>2, <3>4, <4>1 DEF Visiting
    <3> QED BY <3>3, <3>4
  <2> QED BY <2>3, <2>4
<1>4. ASSUME NEW s \in Scheds, Sch!FreeSched(s) PROVE Visiting(t)'
  <2>1. /\ spc' = [spc EXCEPT ![s] = "freed"] /\ data' = [data EXCEPT ![s] = Sch!NoData]
        /\ UNCHANGED <<idx, looks>>
    BY <1>4, SchedEnds DEF Sch!SGoto
  <2>2. CASE t # s
    BY <1>1, <1>a, <2>1, <2>2
  <2>3. CASE t = s
    BY <1>a, <2>1, <2>3 DEF Visiting, Runs, Tests
  <2> QED BY <2>2, <2>3
<1>5. ASSUME \/ \E s \in Scheds : Sch!Finish(s) \/ Sch!Exit(s)
             \/ \E u \in Units : Sch!Resume(u)
      PROVE  UNCHANGED <<spc, idx, looks, data>>
  BY <1>5 DEF Sch!Finish, Sch!Exit, Sch!Request, Sch!Resume, Sch!schedVars
<1> QED BY <1>1, <1>2, <1>3, <1>4, <1>5, SchedActions, SchedGoes DEF Left

\* What a step does to what a pool counts.
LEMMA BlockedUnits ==
  ASSUME NEW p \in Pools, NEW u \in Units, UNCHANGED upool, upool[u] \in Pools,
         \A v \in Units : v # u => ustate'[v] = ustate[v]
  PROVE  /\ Cardinality(Sch!Blocked(p)) \in Nat
         /\ Cardinality(Sch!Blocked(p))' = Cardinality(Sch!Blocked(p))
              + (IF upool[u] = p THEN One(ustate'[u] = "BLOCKED") - One(ustate[u] = "BLOCKED")
                 ELSE 0)
<1> DEFINE S == Sch!Blocked(p)
           R == Sch!Blocked(p)'
<1>1. IsFiniteSet(Units)
  BY SchedulerConstants
<1>2. IsFiniteSet(S)
  <2>1. S \subseteq Units
    BY DEF Sch!Blocked
  <2> QED BY <1>1, <2>1, FS_Subset
<1>3. \A v : v # u => (v \in R <=> v \in S)
  BY DEF Sch!Blocked
<1>4. /\ u \in R <=> upool[u] = p /\ ustate'[u] = "BLOCKED"
      /\ u \in S <=> upool[u] = p /\ ustate[u] = "BLOCKED"
  BY DEF Sch!Blocked
<1> HIDE DEF S, R
<1>5. Cardinality(S) \in Nat /\ Cardinality(R) = Cardinality(S) + One(u \in R) - One(u \in S)
  BY <1>2, <1>3, CountChange
<1>6. Cardinality(R) = Cardinality(S)
              + (IF upool[u] = p THEN One(ustate'[u] = "BLOCKED") - One(ustate[u] = "BLOCKED")
                 ELSE 0)
  BY <1>4, <1>5 DEF One
<1> QED BY <1>5, <1>6 DEF S, R

LEMMA ResumedUnits ==
  ASSUME NEW p \in Pools, IsFiniteSet(s_resuming), UNCHANGED upool, NEW r,
         \A q : q # r => (q \in s_resuming' <=> q \in s_resuming)
  PROVE  /\ Cardinality(Sch!ResumedTo(p)) \in Nat /\ IsFiniteSet(s_resuming')
         /\ Cardinality(Sch!ResumedTo(p))' = Cardinality(Sch!ResumedTo(p))
              + (IF upool[r[1]] = p THEN One(r \in s_resuming') - One(r \in s_resuming) ELSE 0)
<1> DEFINE S == Sch!ResumedTo(p)
           R == Sch!ResumedTo(p)'
<1>2. IsFiniteSet(S)
  <2>1. S \subseteq s_resuming
    BY DEF Sch!ResumedTo
  <2> QED BY <2>1, FS_Subset
<1>3. \A q : q # r => (q \in R <=> q \in S)
  BY DEF Sch!ResumedTo
<1>4. /\ r \in R <=> r \in s_resuming' /\ upool[r[1]] = p
      /\ r \in S <=> r \in s_resuming /\ upool[r[1]] = p
  BY DEF Sch!ResumedTo
<1> HIDE DEF S, R
<1>5. Cardinality(S) \in Nat /\ Cardinality(R) = Cardinality(S) + One(r \in R) - One(r \in S)
  BY <1>2, <1>3, CountChange
<1>6. Cardinality(R) = Cardinality(S)
              + (IF upool[r[1]] = p THEN One(r \in s_resuming') - One(r \in s_resuming) ELSE 0)
  BY <1>4, <1>5 DEF One
<1>7. IsFiniteSet(s_resuming')
  BY CountChange
<1> QED BY <1>5, <1>6, <1>7 DEF S, R

\* The pools go on holding what is READY and counting what is blocked.
LEMMA SizesStep ==
  ASSUME UnitTypes, RunTypes, Carrying, Sizes, \A s \in Scheds : Visiting(s), Sch!SchedNext
  PROVE  Sizes'
<1>a. /\ IsFiniteSet(s_resuming) /\ UnitsPast
      /\ \A p \in Pools : InQueue(p) /\ s_blocked[p] = Cardinality(Sch!Blocked(p))
                                                         + Cardinality(Sch!ResumedTo(p))
  BY DEF Sizes, Sized
<1>b. /\ s_queue \in [Pools -> SUBSET Units] /\ s_blocked \in [Pools -> Int]
      /\ ustate \in [Units -> {"READY", "RUNNING", "BLOCKED", "TERMINATED"}]
      /\ upool \in [Units -> Pools] /\ uops \in [Units -> Nat]
      /\ s_resuming \subseteq Units \X Nat
  BY DEF UnitTypes
<1>c. ASSUME UNCHANGED <<upool, s_resuming>>, NEW p \in Pools
      PROVE  Cardinality(Sch!ResumedTo(p))' = Cardinality(Sch!ResumedTo(p))
  <2>1. Sch!ResumedTo(p)' = Sch!ResumedTo(p)
    BY <1>c DEF Sch!ResumedTo
  <2> QED BY <2>1
<1>d. ASSUME UNCHANGED <<upool, ustate>>, NEW p \in Pools
      PROVE  Cardinality(Sch!Blocked(p))' = Cardinality(Sch!Blocked(p))
  <2>1. Sch!Blocked(p)' = Sch!Blocked(p)
    BY <1>d DEF Sch!Blocked
  <2> QED BY <2>1
<1>1. CASE Undisturbed
  <2>1. UNCHANGED <<s_queue, s_blocked, ustate, upool, uops, s_resuming>>
    BY <1>1 DEF Undisturbed
  <2>2. \A p \in Pools : InQueue(p)' /\ Sized(p)'
    BY <1>a, <1>c, <1>d, <2>1 DEF InQueue, Sized
  <2>3. UnitsPast'
    BY <1>a, <2>1 DEF UnitsPast
  <2> QED BY <1>a, <2>1, <2>2, <2>3 DEF Sizes
<1>2. ASSUME NEW s \in Scheds, Taken(s) PROVE Sizes'
  <2>1. PICK p \in Sch!PoolSet(s) : \E u \in s_queue[p] : Sch!Take(s, p, u)
    BY <1>2 DEF Taken, TakesFrom
  <2>2. PICK u \in s_queue[p] : Sch!Take(s, p, u)
    BY <2>1
  <2>3. p \in Pools /\ u \in Units
    BY <1>b, SchedulerConstants
  <2>4. /\ s_queue' = [s_queue EXCEPT ![p] = @ \ {u}] /\ ustate' = [ustate EXCEPT ![u] = "RUNNING"]
        /\ UNCHANGED <<s_blocked, upool, uops, s_resuming>>
        /\ upool[u] = p /\ ustate[u] = "READY"
    BY <1>2, <1>a, <2>2, <2>3 DEF Taken, Sch!Take, InQueue
  <2>5. /\ ustate'[u] = "RUNNING" /\ \A v \in Units : v # u => ustate'[v] = ustate[v]
    BY <1>b, <2>3, <2>4
  <2>6. ASSUME NEW q \in Pools PROVE InQueue(q)'
    <3>1. \A v : v \in s_queue'[q] <=> v \in s_queue[q] /\ ~(q = p /\ v = u)
      BY <1>b, <2>3, <2>4
    <3>2. InQueue(q)
      BY <1>a
    <3> QED BY <2>3, <2>4, <2>5, <3>1, <3>2 DEF InQueue
  <2>7. ASSUME NEW q \in Pools PROVE Sized(q)'
    <3>1. /\ Cardinality(Sch!Blocked(q)) \in Nat
          /\ Cardinality(Sch!Blocked(q))' = Cardinality(Sch!Blocked(q))
                + (IF upool[u] = q THEN One(ustate'[u] = "BLOCKED") - One(ustate[u] = "BLOCKED")
                   ELSE 0)
      BY <1>b, <2>3, <2>4, <2>5, BlockedUnits
    <3>2. Cardinality(Sch!Blocked(q))' = Cardinality(Sch!Blocked(q))
      BY <2>4, <2>5, <3>1 DEF One
    <3> QED BY <1>a, <1>c, <2>4, <3>2 DEF Sized
  <2>8. UnitsPast'
    <3>1. \A v \in Units : ustate'[v] = "BLOCKED" => ustate[v] = "BLOCKED"
      BY <2>5
    <3>2. \A r \in s_resuming : r[1] \in Units
      BY <1>b
    <3> QED BY <1>a, <2>4, <3>1, <3>2 DEF UnitsPast
  <2> QED BY <1>a, <2>4, <2>6, <2>7, <2>8 DEF Sizes
<1>3. ASSUME NEW s \in Scheds, Left(s) PROVE Sizes'
  <2>1. PICK u \in Units : u = s_cur[s] /\ spc[s] = "run" /\ On(s, u)
    BY <1>3, LeftBack DEF Carrying, On
  <2>2. ustate[u] = "RUNNING" /\ upool[u] \in Pools /\ UNCHANGED <<upool, s_resuming>>
    BY <1>3, <1>b, <2>1, LeftBack DEF Carrying
  <2>3. PICK k \in {"READY", "BLOCKED", "TERMINATED"} :
          /\ ustate' = [ustate EXCEPT ![u] = k]
          /\ s_queue' = (IF k = "READY" THEN [s_queue EXCEPT ![upool[u]] = @ \cup {u}] ELSE s_queue)
          /\ s_blocked' = (IF k = "BLOCKED" THEN [s_blocked EXCEPT ![upool[u]] = @ + 1] ELSE s_blocked)
          /\ \/ uops' = uops /\ k # "BLOCKED"
             \/ uops' = [uops EXCEPT ![u] = @ - 1]
    <3>1. CASE Sch!Terminate(s)
      BY <2>1, <3>1 DEF Sch!Terminate
    <3>2. CASE Sch!Yield(s)
      BY <2>1, <3>2 DEF Sch!Yield, Sch!Op
    <3>3. CASE Sch!Suspend(s)
      BY <2>1, <3>3 DEF Sch!Suspend, Sch!Op
    <3> QED BY <1>3, <3>1, <3>2, <3>3 DEF Left
  <2>4. /\ ustate'[u] = k /\ \A v \in Units : v # u => ustate'[v] = ustate[v]
    BY <1>b, <2>1, <2>3
  <2>5. ASSUME NEW q \in Pools PROVE InQueue(q)'
    <3>1. \A v : v \in s_queue'[q] <=> v \in s_queue[q] \/ (k = "READY" /\ q = upool[u] /\ v = u)
      BY <1>b, <2>2, <2>3
    <3>2. InQueue(q)
      BY <1>a
    <3> QED BY <2>1, <2>2, <2>4, <3>1, <3>2 DEF InQueue
  <2>6. ASSUME NEW q \in Pools PROVE Sized(q)'
    <3>1. /\ Cardinality(Sch!Blocked(q)) \in Nat
          /\ Cardinality(Sch!Blocked(q))' = Cardinality(Sch!Blocked(q))
                + (IF upool[u] = q THEN One(ustate'[u] = "BLOCKED") - One(ustate[u] = "BLOCKED")
                   ELSE 0)
      BY <2>2, <2>4, BlockedUnits
    <3>2. Cardinality(Sch!ResumedTo(q)) \in Nat
      <4>1. Sch!ResumedTo(q) \subseteq s_resuming
        BY DEF Sch!ResumedTo
      <4> QED BY <1>a, <4>1, FS_Subset, FS_CardinalityType
    <3>3. Cardinality(Sch!Blocked(q))' = Cardinality(Sch!Blocked(q))
                                           + (IF upool[u] = q /\ k = "BLOCKED" THEN 1 ELSE 0)
      BY <2>2, <2>4, <3>1 DEF One
    <3>4. s_blocked'[q] = s_blocked[q] + (IF upool[u] = q /\ k = "BLOCKED" THEN 1 ELSE 0)
      BY <1>b, <2>2, <2>3
    <3> QED BY <1>a, <1>c, <2>2, <3>1, <3>2, <3>3, <3>4 DEF Sized
  <2>7. UnitsPast'
    <3> SUFFICES ASSUME NEW r \in s_resuming
                 PROVE  /\ uops'[r[1]] <= r[2]
                        /\ ustate'[r[1]] = "BLOCKED" => uops'[r[1]] < r[2]
      BY <2>2 DEF UnitsPast
    <3>1. /\ r[1] \in Units /\ r[2] \in Nat /\ uops[r[1]] \in Nat /\ uops[r[1]] <= r[2]
          /\ ustate[r[1]] = "BLOCKED" => uops[r[1]] < r[2]
      BY <1>a, <1>b DEF UnitsPast
    <3>2. CASE r[1] # u
      <4>1. uops'[r[1]] = uops[r[1]] /\ ustate'[r[1]] = ustate[r[1]]
        BY <1>b, <2>3, <2>4, <3>1, <3>2
      <4> QED BY <3>1, <4>1
    <3>3. CASE r[1] = u
      <4>1. \/ uops'[u] = uops[u] /\ k # "BLOCKED"
            \/ uops'[u] = uops[u] - 1
        BY <1>b, <2>3
      <4> QED BY <2>4, <3>1, <3>3, <4>1
    <3> QED BY <3>2, <3>3
  <2> QED BY <1>a, <2>2, <2>5, <2>6, <2>7 DEF Sizes
<1>4. ASSUME NEW u \in Units, ustate[u] = "BLOCKED", UNCHANGED <<s_blocked, upool, uops>>,
             ustate' = [ustate EXCEPT ![u] = "READY"],
             s_resuming' = s_resuming \cup {<<u, uops[u]>>},
             s_queue' = [s_queue EXCEPT ![upool[u]] = @ \cup {u}]
      PROVE  Sizes'
  <2>1. PICK r : r = <<u, uops[u]>>
    OBVIOUS
  <2>2. r[1] = u /\ r[2] = uops[u] /\ r \notin s_resuming /\ uops[u] \in Nat /\ upool[u] \in Pools
    BY <1>4, <1>a, <1>b, <2>1 DEF UnitsPast
  <2>3. /\ ustate'[u] = "READY" /\ \A v \in Units : v # u => ustate'[v] = ustate[v]
        /\ \A v \in Units : ustate'[v] = "BLOCKED" => ustate[v] = "BLOCKED"
    BY <1>4, <1>b
  <2>4. ASSUME NEW q \in Pools PROVE InQueue(q)'
    <3>1. \A v : v \in s_queue'[q] <=> v \in s_queue[q] \/ (q = upool[u] /\ v = u)
      BY <1>4, <1>b, <2>2
    <3>2. InQueue(q)
      BY <1>a
    <3> QED BY <1>4, <2>3, <3>1, <3>2 DEF InQueue
  <2>5. \A x : x # r => (x \in s_resuming' <=> x \in s_resuming)
    BY <1>4, <2>1
  <2>6. r \in s_resuming'
    BY <1>4, <2>1
  <2>7. ASSUME NEW q \in Pools PROVE Sized(q)' /\ IsFiniteSet(s_resuming')
    <3>1. /\ Cardinality(Sch!Blocked(q)) \in Nat
          /\ Cardinality(Sch!Blocked(q))' = Cardinality(Sch!Blocked(q))
                + (IF upool[u] = q THEN One(ustate'[u] = "BLOCKED") - One(ustate[u] = "BLOCKED")
                   ELSE 0)
      BY <1>4, <2>2, <2>3, BlockedUnits
    <3>2. /\ Cardinality(Sch!ResumedTo(q)) \in Nat /\ IsFiniteSet(s_resuming')
          /\ Cardinality(Sch!ResumedTo(q))' = Cardinality(Sch!ResumedTo(q))
               + (IF upool[r[1]] = q THEN One(r \in s_resuming') - One(r \in s_resuming) ELSE 0)
      BY <1>4, <1>a, <2>5, ResumedUnits
    <3>3. /\ Cardinality(Sch!Blocked(q))' = Cardinality(Sch!Blocked(q)) - (IF upool[u] = q THEN 1 ELSE 0)
          /\ Cardinality(Sch!ResumedTo(q))' = Cardinality(Sch!ResumedTo(q)) + (IF upool[u] = q THEN 1 ELSE 0)
      BY <1>4, <2>2, <2>3, <2>6, <3>1, <3>2 DEF One
    <3> QED BY <1>4, <1>a, <3>1, <3>2, <3>3 DEF Sized
  <2>8. UnitsPast'
    <3>1. \A x \in s_resuming : x[1] \in Units
      BY <1>b
    <3>2. \A x \in s_resuming' : x \in s_resuming \/ x = r
      BY <1>4, <2>1
    <3> QED BY <1>4, <1>a, <2>2, <2>3, <3>1, <3>2 DEF UnitsPast
  <2> QED BY <1>b, <2>2, <2>4, <2>7, <2>8 DEF Sizes
<1>5. ASSUME NEW u \in Units, UNCHANGED <<s_queue, ustate, upool, uops>>, NEW r \in s_resuming,
             r[1] = u, s_resuming' = s_resuming \ {r},
             s_blocked' = [s_blocked EXCEPT ![upool[u]] = @ - 1]
      PROVE  Sizes'
  <2>1. upool[u] \in Pools
    BY <1>b
  <2>2. ASSUME NEW q \in Pools PROVE InQueue(q)'
    BY <1>5, <1>a DEF InQueue
  <2>3. /\ \A x : x # r => (x \in s_resuming' <=> x \in s_resuming)
        /\ r \notin s_resuming'
    BY <1>5
  <2>4. ASSUME NEW q \in Pools PROVE Sized(q)' /\ IsFiniteSet(s_resuming')
    <3>1. Cardinality(Sch!Blocked(q)) \in Nat
      <4>1. Sch!Blocked(q) \subseteq Units /\ IsFiniteSet(Units)
        BY SchedulerConstants DEF Sch!Blocked
      <4> QED BY <4>1, FS_Subset, FS_CardinalityType
    <3>2. /\ Cardinality(Sch!ResumedTo(q)) \in Nat /\ IsFiniteSet(s_resuming')
          /\ Cardinality(Sch!ResumedTo(q))' = Cardinality(Sch!ResumedTo(q))
               + (IF upool[r[1]] = q THEN One(r \in s_resuming') - One(r \in s_resuming) ELSE 0)
      BY <1>5, <1>a, <2>3, ResumedUnits
    <3>3. Cardinality(Sch!ResumedTo(q))' = Cardinality(Sch!ResumedTo(q)) - (IF upool[u] = q THEN 1 ELSE 0)
      BY <1>5, <2>3, <3>2 DEF One
    <3>4. s_blocked'[q] = s_blocked[q] - (IF upool[u] = q THEN 1 ELSE 0)
      BY <1>5, <1>b, <2>1
    <3> QED BY <1>5, <1>a, <1>d, <3>1, <3>2, <3>3, <3>4 DEF Sized
  <2>5. UnitsPast'
    BY <1>5, <1>a DEF UnitsPast
  <2> QED BY <2>1, <2>2, <2>4, <2>5 DEF Sizes
<1>6. ASSUME NEW u \in Units, Sch!Resume(u) PROVE Sizes'
  <2>1. CASE /\ ustate[u] = "BLOCKED"
             /\ ustate' = [ustate EXCEPT ![u] = "READY"]
             /\ s_resuming' = s_resuming \cup {<<u, uops[u]>>}
             /\ s_queue' = [s_queue EXCEPT ![upool[u]] = @ \cup {u}]
             /\ UNCHANGED <<s_blocked, num_scheds, upool, uops, Sch!schedVars>>
    BY <2>1, <1>4
  <2>2. CASE /\ \E r \in s_resuming : r[1] = u /\ s_resuming' = s_resuming \ {r}
             /\ s_blocked' = [s_blocked EXCEPT ![upool[u]] = @ - 1]
             /\ UNCHANGED <<s_queue, num_scheds, ustate, upool, uops, Sch!schedVars>>
    BY <2>2, <1>5
  <2> QED BY <1>6, <2>1, <2>2 DEF Sch!Resume
<1> QED BY <1>1, <1>2, <1>3, <1>6, UnitsSee

\* Of each pool, the count of its schedulers follows those that are freed.
LEMMA SharesStep ==
  ASSUME RunTypes, Shares, \A s \in Scheds : Visiting(s), Sch!SchedNext
  PROVE  Shares'
<1>a. spc \in [Scheds -> Runs \cup {"none", "stopped", "freed"}]
  BY DEF RunTypes
<1>b. "freed" \notin Runs /\ "stopped" # "freed" /\ "none" # "freed" /\ "scan" # "freed"
  BY DEF Runs, Tests
<1>c. \A p \in Pools : num_scheds[p] = Cardinality(Using(p))
  BY DEF Shares
<1>d. \A s \in Scheds : Sch!PoolSet(s)' = Sch!PoolSet(s) /\ Sch!PoolSet(s) \subseteq Pools
  BY SchedulerConstants DEF Sch!PoolSet
<1>1. ASSUME num_scheds' = num_scheds,
             \A s \in Scheds : spc'[s] = "freed" <=> spc[s] = "freed"
      PROVE  Shares'
  <2>1. \A p \in Pools : Using(p)' = Using(p)
    BY <1>1, <1>d DEF Using, Sch!Users
  <2> QED BY <1>1, <1>c, <2>1 DEF Shares
<1>2. ASSUME NEW s \in Scheds, RunsOn(s), num_scheds' = num_scheds PROVE Shares'
  <2>1. PICK l \in Runs \cup {"stopped"} : spc' = [spc EXCEPT ![s] = l]
    BY <1>2 DEF RunsOn, Sch!SGoto
  <2>2. spc[s] \in Runs
    BY <1>2 DEF RunsOn
  <2> QED BY <1>1, <1>2, <1>a, <1>b, <2>1, <2>2
<1>3. ASSUME NEW s \in Scheds,
             \/ Scanned(s) \/ Left(s) \/ Sch!CountTurn(s) \/ Sch!ExitRequested(s)
             \/ Sch!PoolIsEmpty(s) \/ Sch!PoolIsShared(s) \/ Sch!PoolHasBlocked(s)
             \/ Sch!FinishRequested(s)
      PROVE  num_scheds' = num_scheds
  <2>1. CASE Scanned(s) \/ Left(s) \/ Sch!CountTurn(s)
    BY <2>1 DEF Scanned, Left, Sch!CountTurn, Sch!RunFrame, Sch!Terminate, Sch!Yield, Sch!Suspend,
                Sch!Back
  <2>2. CASE \/ Sch!ExitRequested(s) \/ Sch!FinishRequested(s)
             \/ Sch!PoolIsEmpty(s) \/ Sch!PoolIsShared(s) \/ Sch!PoolHasBlocked(s)
    BY <2>2 DEF Sch!ExitRequested, Sch!PoolIsEmpty, Sch!PoolIsShared, Sch!PoolHasBlocked,
                Sch!FinishRequested, Sch!LookFrame, Sch!poolVars
  <2> QED BY <1>3, <2>1, <2>2
<1>4. ASSUME NEW s \in Scheds, Sch!InitSched(s) PROVE Shares'
  <2>1. num_scheds' = num_scheds
    BY <1>4 DEF Sch!InitSched, Sch!poolVars
  <2>2. \E l \in {"stopped", "scan"} : spc' = [spc EXCEPT ![s] = l]
    BY <1>4 DEF Sch!InitSched, Sch!SGoto
  <2>3. spc[s] = "none"
    BY <1>4 DEF Sch!InitSched
  <2> QED BY <1>1, <1>a, <1>b, <2>1, <2>2, <2>3
<1>5. ASSUME NEW s \in Scheds, Sch!FreeSched(s) PROVE Shares'
  <2>1. /\ spc[s] = "stopped" /\ spc' = [spc EXCEPT ![s] = "freed"]
        /\ num_scheds' = [p \in Pools |-> IF p \in Sch!PoolSet(s) THEN num_scheds[p] - 1 ELSE num_scheds[p]]
    BY <1>5 DEF Sch!FreeSched, Sch!SGoto, Sch!Release
  <2>2. /\ spc'[s] = "freed" /\ \A t \in Scheds : t # s => spc'[t] = spc[t]
    BY <1>a, <2>1
  <2> SUFFICES ASSUME NEW p \in Pools PROVE num_scheds'[p] = Cardinality(Using(p)')
    BY DEF Shares
  <2> DEFINE S == Using(p)
             R == Using(p)'
  <2>3. IsFiniteSet(S)
    <3>1. S \subseteq Scheds
      BY DEF Using, Sch!Users
    <3> QED BY <3>1, SchedulerConstants, FS_Subset
  <2>4. /\ \A t : t # s => (t \in R <=> t \in S)
        /\ s \notin R /\ (s \in S <=> p \in Sch!PoolSet(s))
    BY <1>d, <2>1, <2>2, <1>b DEF Using, Sch!Users
  <2>5. num_scheds[p] = Cardinality(S)
    BY <1>c
  <2> HIDE DEF S, R
  <2>6. Cardinality(S) \in Nat /\ Cardinality(R) = Cardinality(S) + One(s \in R) - One(s \in S)
    BY <2>3, <2>4, CountChange
  <2>7. num_scheds'[p] = (IF p \in Sch!PoolSet(s) THEN num_scheds[p] - 1 ELSE num_scheds[p])
    BY <2>1
  <2>8. num_scheds'[p] = Cardinality(R)
    BY <2>4, <2>5, <2>6, <2>7 DEF One
  <2> QED BY <2>8 DEF R
<1>6. ASSUME \/ \E s \in Scheds : Sch!Finish(s) \/ Sch!Exit(s)
             \/ \E u \in Units : Sch!Resume(u)
      PROVE  UNCHANGED <<spc, num_scheds>>
  BY <1>6 DEF Sch!Finish, Sch!Exit, Sch!Request, Sch!Resume, Sch!schedVars, Sch!poolVars
<1> QED BY <1>1, <1>2, <1>3, <1>4, <1>5, <1>6, SchedActions, SchedGoes DEF Left

\* Nobody comes back from the end, and in a pool that only one scheduler uses nobody blocks
\* while that scheduler looks.
Lasting(s) ==
    \A u \in Units : Sch!Users(upool[u]) = {s} =>
      /\ ustate[u] = "TERMINATED" => ustate'[u] = "TERMINATED"
      /\ ustate[u] # "BLOCKED" /\ spc[s] # "run" => ustate'[u] # "BLOCKED"

LEMMA UnitsLast ==
  ASSUME UnitTypes, RunTypes, Carrying, Sizes, \A s \in Scheds : Visiting(s), Sch!SchedNext
  PROVE  upool' = upool /\ \A s \in Scheds : Lasting(s)
<1>a. ustate \in [Units -> {"READY", "RUNNING", "BLOCKED", "TERMINATED"}]
  BY DEF UnitTypes
<1>1. CASE Undisturbed
  BY <1>1 DEF Undisturbed, Lasting
<1>2. ASSUME NEW s \in Scheds, Taken(s) PROVE upool' = upool /\ \A t \in Scheds : Lasting(t)
  <2>1. PICK p \in Sch!PoolSet(s) : \E u \in s_queue[p] : Sch!Take(s, p, u)
    BY <1>2 DEF Taken, TakesFrom
  <2>2. PICK u \in s_queue[p] : Sch!Take(s, p, u)
    BY <2>1
  <2>3. p \in Pools /\ u \in Units
    BY SchedulerConstants DEF UnitTypes
  <2>4. /\ ustate[u] = "READY" /\ ustate' = [ustate EXCEPT ![u] = "RUNNING"] /\ upool' = upool
    BY <1>2, <2>2, <2>3 DEF Taken, Sch!Take, InQueue, Sizes
  <2> QED BY <1>a, <2>4 DEF Lasting
<1>3. ASSUME NEW s \in Scheds, Left(s) PROVE upool' = upool /\ \A t \in Scheds : Lasting(t)
  <2>1. PICK u \in Units : u = s_cur[s] /\ spc[s] = "run" /\ On(s, u) /\ upool' = upool
    BY <1>3, LeftBack DEF Carrying, On
  <2>2. ustate[u] = "RUNNING" /\ upool[u] \in Sch!PoolSet(s)
    BY <2>1 DEF Carrying
  <2>3. \A v \in Units : v # u => ustate'[v] = ustate[v]
    BY <1>3, <1>a, <2>1 DEF Left, Sch!Terminate, Sch!Yield, Sch!Suspend
  <2>4. s \in Sch!Users(upool[u])
    BY <2>2 DEF Sch!Users
  <2>5. ASSUME NEW t \in Scheds PROVE Lasting(t)
    BY <2>1, <2>2, <2>3, <2>4 DEF Lasting
  <2> QED BY <2>1, <2>5
<1>4. ASSUME NEW u \in Units, Sch!Resume(u) PROVE upool' = upool /\ \A t \in Scheds : Lasting(t)
  <2>1. /\ upool' = upool
        /\ \/ ustate' = ustate
           \/ ustate[u] = "BLOCKED" /\ ustate' = [ustate EXCEPT ![u] = "READY"]
    BY <1>4 DEF Sch!Resume
  <2> QED BY <1>a, <2>1 DEF Lasting
<1> QED BY <1>1, <1>2, <1>3, <1>4, UnitsSee

\* What the tests found out of a pool holds until the scheduler runs a unit.
LEMMA FoundLasts ==
  ASSUME NEW s \in Scheds, Lasting(s), upool' = upool, NEW i
  PROVE  (Done(s, i) => Done(s, i)') /\ (Calm(s, i) /\ spc[s] # "run" => Calm(s, i)')
<1>1. \A u \in Units : Own(s, i, u)' <=> Own(s, i, u)
  BY DEF Own, Sch!Users, Sch!PoolSet
<1> QED BY <1>1 DEF Done, Calm, Lasting, Own

\* A pool that the test finds without blocked units has nobody blocked.
LEMMA NobodyBlocked ==
  ASSUME UnitTypes, Sizes, NEW p \in Pools, s_blocked[p] = 0
  PROVE  \A u \in Units : upool[u] = p => ustate[u] # "BLOCKED"
<1>1. Sch!Blocked(p) \subseteq Units /\ Sch!ResumedTo(p) \subseteq s_resuming
  BY DEF Sch!Blocked, Sch!ResumedTo
<1>2. /\ IsFiniteSet(Sch!Blocked(p)) /\ Cardinality(Sch!Blocked(p)) \in Nat
      /\ Cardinality(Sch!ResumedTo(p)) \in Nat
  BY <1>1, SchedulerConstants, FS_Subset, FS_CardinalityType DEF Sizes
<1>3. Cardinality(Sch!Blocked(p)) = 0
  BY <1>2 DEF Sizes, Sized
<1>4. Sch!Blocked(p) = {}
  BY <1>2, <1>3, FS_EmptySet
<1> QED BY <1>4 DEF Sch!Blocked

\* A pool that only this scheduler uses is not shared.
LEMMA OwnNotShared ==
  ASSUME NEW s \in Scheds, Shares, spc[s] # "freed", NEW p \in Pools, Sch!Users(p) = {s}
  PROVE  num_scheds[p] = 1
<1>1. Using(p) = {s}
  BY DEF Using
<1>2. Cardinality({s}) = 1
  BY FS_Singleton
<1> QED BY <1>1, <1>2 DEF Shares

\* A pool that is empty at the second look has nobody left.
LEMMA NobodyLeft ==
  ASSUME UnitTypes, Carrying, Sizes, NEW s \in Scheds, spc[s] # "run",
         NEW i \in 1..Len(PoolsOf[s]), Calm(s, i), s_queue[PoolsOf[s][i]] = {}
  PROVE  Done(s, i)
<1> SUFFICES ASSUME NEW u \in Units, Own(s, i, u) PROVE ustate[u] = "TERMINATED"
  BY DEF Done
<1>1. upool[u] = PoolsOf[s][i] /\ Sch!Users(upool[u]) = {s} /\ upool[u] \in Pools
  BY DEF Own, UnitTypes
<1>2. ustate[u] # "BLOCKED"
  BY DEF Calm
<1>3. ustate[u] # "READY"
  BY <1>1 DEF Sizes, InQueue
<1>4. ustate[u] # "RUNNING"
  <2> SUFFICES ASSUME ustate[u] = "RUNNING" PROVE FALSE
    OBVIOUS
  <2>1. PICK t \in Scheds : On(t, u)
    BY DEF Carrying
  <2>2. t \in Sch!Users(upool[u])
    BY <2>1 DEF Carrying, Sch!Users
  <2> QED BY <1>1, <2>1, <2>2 DEF On
<1> QED BY <1>2, <1>3, <1>4 DEF UnitTypes

\* The test goes from pool to pool; what it concludes from the last is right.
LEMMA TestedStep ==
  ASSUME SchedInv, Sch!SchedNext, NEW t \in Scheds
  PROVE  Tested(t)'
<1>a. /\ UnitTypes /\ RunTypes /\ Carrying /\ Sizes /\ Shares
      /\ \A s \in Scheds : Visiting(s) /\ Tested(s)
  BY DEF SchedInv
<1>b. /\ spc \in [Scheds -> Runs \cup {"none", "stopped", "freed"}] /\ idx \in [Scheds -> Nat]
      /\ looks \in [Scheds -> 0..3]
      /\ stopped \in [Scheds -> {"no", "exit", "finish", "idle", "returned"}]
  BY <1>a DEF RunTypes
<1>c. upool' = upool /\ \A s \in Scheds : Lasting(s)
  BY <1>a, UnitsLast
<1>d. \A i : (Done(t, i) => Done(t, i)') /\ (Calm(t, i) /\ spc[t] # "run" => Calm(t, i)')
  BY <1>c, FoundLasts
<1>e. Tested(t) /\ Visiting(t) /\ Len(PoolsOf[t]) \in Nat
  BY <1>a, SchedulerConstants
<1>f. "run" \notin Tests /\ "scan" \notin Tests /\ "stopped" \notin Runs /\ "freed" \notin Runs
      /\ "asked?" \notin Tests /\ "stopped" \notin Tests /\ "freed" \notin Tests
      /\ \A x \in Tests : x \in Runs
  BY DEF Tests, Runs
<1>1. ASSUME spc'[t] = spc[t], idx'[t] = idx[t], looks'[t] = looks[t], stopped'[t] = stopped[t]
      PROVE  Tested(t)'
  BY <1>1, <1>d, <1>e, <1>f DEF Tested
<1>2. ASSUME spc[t] \in Runs PROVE stopped[t] # "finish"
  BY <1>2, <1>e, <1>f DEF Tested
<1>3. ASSUME spc'[t] \notin Tests, spc'[t] # "asked?", stopped'[t] # "finish" PROVE Tested(t)'
  BY <1>3 DEF Tested
<1>4. ASSUME spc[t] \in Tests
      PROVE  idx[t] \in 1..Len(PoolsOf[t]) /\ looks[t] \in {1, 2} /\ PoolsOf[t][idx[t]] \in Pools
  <2>1. idx[t] \in 1..Len(PoolsOf[t]) /\ looks[t] \in {1, 2}
    BY <1>4, <1>e, <1>f DEF Visiting
  <2> QED BY <2>1, SchedulerConstants
\* The pool under the index is passed: nobody of it is blocked, or, at the second look, left.
<1>5. ASSUME spc[t] \in {"shared?", "blocked?"}, Sch!NextPool(t), Calm(t, idx[t]) PROVE Tested(t)'
  <2>1. spc[t] \in Tests /\ spc[t] # "empty?" /\ spc[t] # "run"
    BY <1>5 DEF Tests
  <2>2. idx[t] \in 1..Len(PoolsOf[t]) /\ looks[t] \in {1, 2}
    BY <1>4, <2>1
  <2>3. stopped[t] # "finish"
    BY <1>2, <1>f, <2>1
  <2>4. looks[t] = 1 => \A i \in 1..idx[t] : Calm(t, i)'
    <3>1. looks[t] = 1 => \A i \in 1..(idx[t] - 1) : Calm(t, i)
      BY <1>e, <2>1 DEF Tested
    <3>2. looks[t] = 1 => \A i \in 1..idx[t] : Calm(t, i)
      BY <1>5, <2>2, <3>1
    <3> QED BY <1>d, <2>1, <3>2
  <2>5. looks[t] = 2 => /\ \A i \in 1..Len(PoolsOf[t]) : Calm(t, i)'
                        /\ \A i \in 1..idx[t] : Done(t, i)'
    <3>1. looks[t] = 2 => /\ \A i \in 1..Len(PoolsOf[t]) : Calm(t, i)
                          /\ \A i \in 1..(idx[t] - 1) : Done(t, i)
                          /\ Done(t, idx[t])
      BY <1>e, <2>1 DEF Tested
    <3>2. looks[t] = 2 => \A i \in 1..idx[t] : Done(t, i)
      BY <2>2, <3>1
    <3> QED BY <1>d, <2>1, <3>1, <3>2
  <2>6. CASE idx[t] < Len(PoolsOf[t])
    <3>1. /\ spc'[t] = "empty?" /\ idx'[t] = idx[t] + 1 /\ looks'[t] = looks[t]
          /\ stopped'[t] = stopped[t]
      BY <1>5, <1>b, <2>6 DEF Sch!NextPool, Sch!SGoto
    <3>2. (idx[t] + 1) - 1 = idx[t]
      BY <2>2
    <3> QED BY <1>f, <2>3, <2>4, <2>5, <3>1, <3>2 DEF Tested
  <2>7. CASE ~(idx[t] < Len(PoolsOf[t]))
    <3>1. idx[t] = Len(PoolsOf[t])
      BY <1>e, <2>2, <2>7
    <3>2. CASE looks[t] = 2
      <4>1. spc'[t] = "stopped" /\ stopped'[t] = "finish"
        BY <1>5, <1>b, <2>7, <3>2 DEF Sch!NextPool, Sch!SGoto, Sch!Stop
      <4> QED BY <1>f, <2>5, <3>1, <3>2, <4>1 DEF Tested
    <3>3. CASE looks[t] # 2
      <4>1. spc'[t] = "asked?" /\ stopped'[t] = stopped[t]
        BY <1>5, <1>b, <2>7, <3>3 DEF Sch!NextPool, Sch!SGoto
      <4> QED BY <1>f, <2>2, <2>3, <2>4, <3>1, <3>3, <4>1 DEF Tested
    <3> QED BY <3>2, <3>3
  <2> QED BY <2>6, <2>7
<1>6. ASSUME spc[t] \in Tests, Sch!HasUnit(t) PROVE Tested(t)'
  <2>1. spc'[t] = "scan" /\ stopped'[t] = stopped[t]
    BY <1>6, <1>b DEF Sch!HasUnit, Sch!SGoto
  <2> QED BY <1>2, <1>3, <1>6, <1>f, <2>1
<1>7. CASE Sch!PoolIsEmpty(t)
  <2>1. spc[t] = "empty?" /\ spc[t] \in Tests
    BY <1>7 DEF Sch!PoolIsEmpty, Tests
  <2>2. CASE s_queue[PoolsOf[t][idx[t]]] # {}
    BY <1>6, <1>7, <2>1, <2>2 DEF Sch!PoolIsEmpty
  <2>3. CASE s_queue[PoolsOf[t][idx[t]]] = {}
    <3>1. /\ spc'[t] \in {"blocked?", "shared?"} /\ idx'[t] = idx[t] /\ looks'[t] = looks[t]
          /\ stopped'[t] = stopped[t]
      BY <1>7, <1>b, <2>3 DEF Sch!PoolIsEmpty, Sch!SGoto
    <3>2. looks[t] = 1 => \A i \in 1..(idx[t] - 1) : Calm(t, i)'
      BY <1>d, <1>e, <2>1 DEF Tested
    <3>3. looks[t] = 2 => /\ \A i \in 1..Len(PoolsOf[t]) : Calm(t, i)'
                          /\ \A i \in 1..(idx[t] - 1) : Done(t, i)'
      BY <1>d, <1>e, <2>1 DEF Tested
    <3>4. looks[t] = 2 => Done(t, idx[t])'
      <4>1. looks[t] = 2 => Calm(t, idx[t])
        BY <1>e, <1>4, <2>1 DEF Tested
      <4>2. spc[t] # "run" /\ idx[t] \in 1..Len(PoolsOf[t])
        BY <1>4, <1>f, <2>1
      <4>3. looks[t] = 2 => Done(t, idx[t])
        BY <1>a, <2>3, <4>1, <4>2, NobodyLeft
      <4> QED BY <1>d, <3>1, <4>3
    <3>5. stopped[t] # "finish"
      BY <1>2, <1>f, <2>1
    <3> QED BY <1>f, <3>1, <3>2, <3>3, <3>4, <3>5 DEF Tested
  <2> QED BY <2>2, <2>3
<1>8. CASE Sch!PoolIsShared(t)
  <2>1. spc[t] = "shared?" /\ spc[t] \in Tests /\ PoolsOf[t][idx[t]] \in Pools
    BY <1>4, <1>8 DEF Sch!PoolIsShared, Tests
  <2>2. CASE num_scheds[PoolsOf[t][idx[t]]] = 1
    <3>1. /\ spc'[t] = "blocked?" /\ idx'[t] = idx[t] /\ looks'[t] = looks[t]
          /\ stopped'[t] = stopped[t]
      BY <1>8, <1>b, <2>2 DEF Sch!PoolIsShared, Sch!SGoto
    <3>2. "blocked?" \in Tests
      BY DEF Tests
    <3>3. stopped[t] # "finish"
      BY <1>2, <1>f, <2>1
    <3>4. looks[t] = 1 => \A i \in 1..(idx[t] - 1) : Calm(t, i)'
      BY <1>d, <1>e, <2>1 DEF Tested
    <3>5. looks[t] = 2 => /\ \A i \in 1..Len(PoolsOf[t]) : Calm(t, i)'
                          /\ \A i \in 1..(idx[t] - 1) : Done(t, i)'
                          /\ Done(t, idx[t])'
      BY <1>d, <1>e, <2>1, <3>1 DEF Tested
    <3> QED BY <1>f, <3>1, <3>2, <3>3, <3>4, <3>5 DEF Tested
  <2>3. CASE num_scheds[PoolsOf[t][idx[t]]] # 1
    <3>1. Sch!NextPool(t)
      BY <1>8, <2>3 DEF Sch!PoolIsShared
    <3>2. Calm(t, idx[t])
      <4> SUFFICES ASSUME NEW u \in Units, Own(t, idx[t], u) PROVE FALSE
        BY DEF Calm
      <4>1. Sch!Users(PoolsOf[t][idx[t]]) = {t}
        BY DEF Own
      <4> QED BY <1>a, <2>1, <2>3, <4>1, OwnNotShared
    <3> QED BY <1>5, <2>1, <3>1, <3>2
  <2> QED BY <2>2, <2>3
<1>9. CASE Sch!PoolHasBlocked(t)
  <2>1. spc[t] = "blocked?" /\ spc[t] \in Tests /\ PoolsOf[t][idx[t]] \in Pools
    BY <1>4, <1>9 DEF Sch!PoolHasBlocked, Tests
  <2>2. CASE s_blocked[PoolsOf[t][idx[t]]] # 0
    BY <1>6, <1>9, <2>1, <2>2 DEF Sch!PoolHasBlocked
  <2>3. CASE s_blocked[PoolsOf[t][idx[t]]] = 0
    <3>1. Sch!NextPool(t)
      BY <1>9, <2>3 DEF Sch!PoolHasBlocked
    <3>2. Calm(t, idx[t])
      BY <1>a, <2>1, <2>3, NobodyBlocked DEF Calm, Own
    <3> QED BY <1>5, <2>1, <3>1, <3>2
  <2> QED BY <2>2, <2>3
<1>10. CASE Sch!ExitRequested(t)
  <2>1. spc[t] = "exit?" /\ spc[t] \in Runs
    BY <1>10 DEF Sch!ExitRequested, Runs
  <2>2. idx[t] = 1 /\ looks[t] = 1 /\ stopped[t] # "finish"
    BY <1>2, <1>e, <2>1, <1>f DEF Visiting, Tests
  <2>3. \/ spc'[t] = "stopped" /\ stopped'[t] = "exit"
        \/ /\ spc'[t] = "empty?" /\ stopped'[t] = stopped[t]
           /\ idx'[t] = idx[t] /\ looks'[t] = looks[t]
    BY <1>10, <1>b DEF Sch!ExitRequested, Sch!Stop, Sch!SGoto
  <2>4. CASE spc'[t] = "stopped" /\ stopped'[t] = "exit"
    BY <1>3, <1>f, <2>4
  <2>5. CASE /\ spc'[t] = "empty?" /\ stopped'[t] = stopped[t]
             /\ idx'[t] = idx[t] /\ looks'[t] = looks[t]
    <3>1. \A i \in 1..(idx'[t] - 1) : FALSE
      BY <2>2, <2>5
    <3> QED BY <2>2, <2>5, <3>1 DEF Tested
  <2> QED BY <2>3, <2>4, <2>5
<1>11. CASE Sch!FinishRequested(t)
  <2>1. spc[t] = "asked?" /\ spc[t] \in Runs
    BY <1>11 DEF Sch!FinishRequested, Runs
  <2>2. idx[t] = 1 /\ looks[t] = 1 /\ stopped[t] # "finish"
    BY <1>2, <1>e, <2>1, <1>f DEF Visiting, Tests
  <2>3. \/ spc'[t] \in {"stopped", "scan"} /\ stopped'[t] \in {"idle", stopped[t]}
        \/ /\ spc'[t] = "empty?" /\ stopped'[t] = stopped[t]
           /\ idx'[t] = idx[t] /\ looks'[t] = 2
    BY <1>11, <1>b DEF Sch!FinishRequested, Sch!Stop, Sch!SGoto
  <2>4. CASE spc'[t] \in {"stopped", "scan"} /\ stopped'[t] \in {"idle", stopped[t]}
    BY <1>3, <1>f, <2>2, <2>4
  <2>5. CASE /\ spc'[t] = "empty?" /\ stopped'[t] = stopped[t]
             /\ idx'[t] = idx[t] /\ looks'[t] = 2
    <3>1. \A i \in 1..(idx'[t] - 1) : FALSE
      BY <2>2, <2>5
    <3>2. \A i \in 1..Len(PoolsOf[t]) : Calm(t, i)'
      BY <1>d, <1>e, <2>1 DEF Tested
    <3> QED BY <2>2, <2>5, <3>1, <3>2 DEF Tested
  <2> QED BY <2>3, <2>4, <2>5
<1>12. CASE Scanned(t) \/ Left(t) \/ Sch!CountTurn(t)
  <2>1. spc[t] \in Runs /\ stopped'[t] \in {"returned", stopped[t]}
    <3>1. CASE Scanned(t)
      BY <1>b, <3>1 DEF Scanned, Runs, Sch!RunFrame
    <3>2. CASE Left(t)
      BY <1>b, <3>2, LeftBack DEF Left, Sch!Terminate, Sch!Yield, Sch!Suspend, Sch!Back, Sch!Stop, Runs
    <3>3. CASE Sch!CountTurn(t)
      BY <1>b, <3>3 DEF Sch!CountTurn, Sch!RunFrame, Runs
    <3> QED BY <1>12, <3>1, <3>2, <3>3
  <2>2. spc'[t] \notin Tests /\ spc'[t] # "asked?"
    <3>1. CASE Scanned(t)
      <4>1. \E l \in {"run", "scan", "steal", "count", "wait", "exit?"} : Sch!SGoto(t, l)
        BY <3>1 DEF Scanned, TakesFrom, Sch!Take
      <4> QED BY <1>b, <4>1 DEF Sch!SGoto, Tests
    <3>2. CASE Left(t)
      <4>1. \E l \in {"count", "scan", "stopped"} : Sch!SGoto(t, l)
        BY <3>2 DEF Left, Sch!Terminate, Sch!Yield, Sch!Suspend, Sch!Back, Sch!Stop
      <4> QED BY <1>b, <4>1 DEF Sch!SGoto, Tests
    <3>3. CASE Sch!CountTurn(t)
      <4>1. \E l \in {"exit?", "scan"} : Sch!SGoto(t, l)
        BY <3>3 DEF Sch!CountTurn
      <4> QED BY <1>b, <4>1 DEF Sch!SGoto, Tests
    <3> QED BY <1>12, <3>1, <3>2, <3>3
  <2> QED BY <1>2, <1>3, <2>1, <2>2
<1>13. CASE Sch!InitSched(t)
  <2>1. /\ spc[t] = "none" /\ stopped' = stopped
        /\ \E l \in {"stopped", "scan"} : spc' = [spc EXCEPT ![t] = l]
    BY <1>13, SchedStarts DEF Sch!SGoto
  <2>2. spc'[t] \in {"stopped", "scan"} /\ stopped'[t] # "finish"
    BY <1>b, <1>e, <2>1 DEF Tested
  <2> QED BY <1>3, <1>f, <2>2
<1>14. CASE Sch!FreeSched(t)
  <2>1. spc[t] = "stopped" /\ spc'[t] = "freed" /\ stopped'[t] = stopped[t]
    BY <1>14, <1>b, SchedEnds DEF Sch!SGoto
  <2> QED BY <1>d, <1>e, <1>f, <2>1 DEF Tested
<1>15. ASSUME NEW s \in Scheds, s # t, RunsOn(s) \/ Sch!InitSched(s) \/ Sch!FreeSched(s)
       PROVE  Tested(t)'
  <2>1. CASE RunsOn(s)
    BY <1>1, <1>15, <1>b, <2>1 DEF RunsOn, Sch!SGoto, Sch!Stop
  <2>2. CASE Sch!InitSched(s)
    BY <1>1, <1>15, <1>b, <2>2, SchedStarts DEF Sch!SGoto
  <2>3. CASE Sch!FreeSched(s)
    BY <1>1, <1>15, <1>b, <2>3, SchedEnds DEF Sch!SGoto
  <2> QED BY <1>15, <2>1, <2>2, <2>3
<1>16. ASSUME \/ \E s \in Scheds : Sch!Finish(s) \/ Sch!Exit(s)
              \/ \E u \in Units : Sch!Resume(u)
       PROVE  Tested(t)'
  <2>1. UNCHANGED <<spc, idx, looks, stopped>>
    BY <1>16 DEF Sch!Finish, Sch!Exit, Sch!Request, Sch!Resume, Sch!schedVars
  <2> QED BY <1>1, <2>1
<1>17. ASSUME NEW s \in Scheds, s # t,
              \/ Scanned(s) \/ Left(s) \/ Sch!CountTurn(s) \/ Sch!ExitRequested(s)
              \/ Sch!PoolIsEmpty(s) \/ Sch!PoolIsShared(s) \/ Sch!PoolHasBlocked(s)
              \/ Sch!FinishRequested(s)
       PROVE  Tested(t)'
  BY <1>15, <1>17, <1>a, SchedGoes
<1> QED BY <1>a, <1>7, <1>8, <1>9, <1>10, <1>11, <1>12, <1>13, <1>14, <1>15, <1>16, <1>17, SchedActions
           DEF Left

\* Every step of the schedulers and their units keeps the invariant.
LEMMA SchedStep == SchedInv /\ Sch!SchedNext => SchedInv'
BY UnitTypesStep, RunTypesStep, CarryingStep, SizesStep, SharesStep, VisitingStep, TestedStep
   DEF SchedInv

\* Steps of the stream of the other part do not concern the schedulers.
LEMMA SchedRests == SchedInv /\ UNCHANGED schedVars => SchedInv'
<1> SUFFICES ASSUME SchedInv, UNCHANGED schedVars PROVE SchedInv'
  OBVIOUS
<1> USE DEF schedVars
<1>1. UnitTypes' /\ RunTypes'
  BY DEF SchedInv, UnitTypes, RunTypes
<1>2. Carrying'
  BY DEF SchedInv, Carrying, On, Sch!PoolSet
<1>3. Sizes'
  BY DEF SchedInv, Sizes, UnitsPast, InQueue, Sized, Sch!Blocked, Sch!ResumedTo
<1>4. Shares'
  BY DEF SchedInv, Shares, Using, Sch!Users, Sch!PoolSet
<1>5. ASSUME NEW s \in Scheds PROVE Visiting(s)' /\ Tested(s)'
  <2>1. Visiting(s) /\ Tested(s)
    BY DEF SchedInv
  <2>2. Visiting(s)'
    BY <2>1 DEF Visiting, Sch!PoolSet
  <2>3. upool' = upool /\ ustate' = ustate
    OBVIOUS
  <2>4. \A i : (Done(s, i)' <=> Done(s, i)) /\ (Calm(s, i)' <=> Calm(s, i))
    BY <2>3 DEF Done, Calm, Own, Sch!Users, Sch!PoolSet
  <2>5. UNCHANGED <<spc, idx, looks, stopped>>
    OBVIOUS
  <2>6. Done(s, idx[s])' <=> Done(s, idx[s])
    BY <2>4, <2>5
  <2>7. Tested(s)'
    BY ONLY <2>1, <2>4, <2>5, <2>6 DEF Tested
  <2> QED BY <2>2, <2>7
<1> QED BY <1>1, <1>2, <1>3, <1>4, <1>5 DEF SchedInv

\* The invariant says what a scheduler that was told to finish leaves.
LEMMA SchedSafe == SchedInv => Sch!NothingLeft /\ Sch!SizesExact
<1> SUFFICES ASSUME SchedInv PROVE Sch!NothingLeft /\ Sch!SizesExact
  OBVIOUS
<1>1. ASSUME NEW s \in Scheds, NEW u \in Units, stopped[s] = "finish", Sch!Users(upool[u]) = {s}
      PROVE  ustate[u] = "TERMINATED"
  <2>1. upool[u] \in Sch!PoolSet(s)
    BY <1>1 DEF Sch!Users
  <2>2. PICK i \in 1..Len(PoolsOf[s]) : upool[u] = PoolsOf[s][i]
    BY <2>1, SchedulerConstants
  <2>3. Done(s, i)
    BY <1>1 DEF SchedInv, Tested
  <2> QED BY <1>1, <2>2, <2>3 DEF Done, Own
<1>2. ASSUME NEW p \in Pools
      PROVE  /\ s_queue[p] = {u \in Units : upool[u] = p /\ ustate[u] = "READY"}
             /\ s_blocked[p] = Sch!Cardinality(Sch!Blocked(p)) + Sch!Cardinality(Sch!ResumedTo(p))
  <2>1. InQueue(p) /\ Sized(p) /\ s_queue[p] \subseteq Units
    BY DEF SchedInv, Sizes, UnitTypes
  <2>2. \A S : Sch!Cardinality(S) = Cardinality(S)
    BY DEF Sch!Cardinality, Cardinality
  <2> QED BY <2>1, <2>2 DEF InQueue, Sized
<1> QED BY <1>1, <1>2 DEF Sch!NothingLeft, Sch!SizesExact

\* A scheduler that stops because it was told to finish leaves nobody in a pool that only it
\* uses, although its test reads the counters one by one while others push, pop and resume:
\* for any number of schedulers of any kind, pools and units.
THEOREM SchedulersDrain == StreamsSpec => [](part = "sched" => Sch!NothingLeft /\ Sch!SizesExact)
<1>1. StreamsInit => SchedInv
  BY SchedInit DEF StreamsInit
<1>2. SchedInv /\ [StreamsNext]_streamsVars => SchedInv'
  BY SchedStep, SchedRests DEF StreamsNext, OnlyStream, OnlySched, MayRest, streamsVars
<1>3. SchedInv => (part = "sched" => Sch!NothingLeft /\ Sch!SizesExact)
  BY SchedSafe
<1> QED BY <1>1, <1>2, <1>3, PTL DEF StreamsSpec

\* Nor does the last scheduler of an execution stream, when replacements do not overlap and
\* no waiting pop ends the run function.
THEOREM StreamsDrained == Orderly => (StreamsSpec => []Drained)
<1> SUFFICES ASSUME Orderly PROVE StreamsSpec => []Drained
  OBVIOUS
<1> DEFINE Inv == StreamInv /\ Stopping
           Rest == part = "sched" => Sch!NothingLeft /\ Sch!SizesExact
<1>1. StreamsInit => Inv
  BY StreamInit DEF StreamsInit
<1>2. Inv /\ [StreamsNext]_streamsVars => Inv'
  BY StreamStep, StreamRests, LookedStep, MovedStep, NotFreedStep
     DEF StreamsNext, OnlyStream, OnlySched, MayRest, streamsVars, Stopping
<1>3. Inv => Xst!Drained
  <2> SUFFICES ASSUME Inv, pc = "ctx", "CANCEL" \notin main_request,
                      NEW u \in Ults, p_pool[u] = p_main_sched
               PROVE  ult_state[u] \in {"UNBORN", "TERMINATED"}
    BY DEF Xst!Drained
  <2>1. Empty(p_main_sched)
    BY DEF Stopping, Looked, Over, Finished
  <2>2. ult_state[u] \in Xst!States
    BY DEF StreamInv, StreamTypes, UltTypes
  <2> QED BY <2>1, <2>2 DEF Empty, Live, Xst!States
<1>4. Inv /\ Rest => Drained
  BY <1>3 DEF Drained
<1> HIDE DEF Inv
<1> QED BY <1>1, <1>2, <1>4, SchedulersDrain, PTL DEF StreamsSpec
==============================================================================
