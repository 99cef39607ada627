---------------------------- MODULE YthreadProofs -----------------------------
(***************************************************************************)
(* Why a ULT has one place, why nobody uses it after its joiner may have   *)
(* freed it, and what num_blocked of a pool counts: the inductive          *)
(* invariants of Ythread and their proofs.                                 *)
(***************************************************************************)
EXTENDS Ythread, ListLemmas, FiniteSetTheorems

(* Who works with a ULT *)

\* The ULT an actor stands on.
Ctx(a) == IF a \in Xstreams THEN p_thread[a] ELSE Null

Runs(a, t) == Ctx(a) = t

\* A callback that has not let go of the ULT it finishes a switch for.
Works(a, t) ==
    frame[a].p_prev = t /\ (pc[a] = "dec" => frame[a].callback = "resume_suspend_to")

\* Whoever is about to make a blocked ULT ready or to jump to it.
Wakes(a, t) == frame[a].p_joiner = t /\ pc[a] \in {"wake", "push", "jump"}

\* An exiting ULT that has named its successor.
Takes(a, t) ==
    /\ frame[a].p_next = t
    /\ frame[a].callback \in {"exit_to", "resume_exit_to"}
    /\ pc[a] \notin {"terminate", "dec"}

Owns(a, t) == Runs(a, t) \/ Works(a, t) \/ Wakes(a, t) \/ Takes(a, t)
Owned(t) == \E a \in Actors : Owns(a, t)
Queued(t) == \E p \in Pools : Listed(queue[p], t)

(* What an actor can be in the middle of *)

Waking == {"load_link", "join_flag", "spin", "wake", "futex_wake", "push", "push_dec"}

Locations ==
    {"run", "remove", "inc", "dec", "request", "add", "block", "link", "leave", "jump",
     "terminate", "join", "futex_link", "futex"} \cup Waking

Callbacks ==
    {"none", "yield", "schedule", "thread_yield_to", "resume_yield_to", "suspend",
     "resume_suspend_to", "suspend_join", "exit", "exit_to", "resume_exit_to", "resume"}

Frames ==
    [callback : Callbacks, p_prev : Threads \cup {Null}, p_next : Threads \cup {Null},
     p_pool : Pools \cup {Null}, p_joiner : Callers \cup {Null},
     p_joiner_pool : Pools \cup {Null}, cancel : BOOLEAN]

\* What an actor can be in the middle of: l is the location, f are the locals, th is the ULT
\* that an execution stream is on.
Shape(a) ==
    LET f == frame[a]
        l == pc[a]
        th == Ctx(a)
        cb == frame[a].callback
    IN
    /\ l = "wake" => f.p_joiner # Null
    /\ l = "futex_wake" => f.p_joiner \in Externals
    /\ l \in {"push", "jump"} => f.p_joiner \in Threads
    /\ l \in {"wake", "push", "jump"} => f.p_joiner # f.p_next
    /\ \/ f = NoFrame /\ l = "run"
       \/ f = NoFrame /\ l = "join" /\ (a \in Xstreams => th # Null)
       \/ f = NoFrame /\ l \in {"futex_link", "futex"} /\ a \in Externals
       \/ /\ cb = "resume" /\ l \in {"push", "push_dec"}
          /\ f.p_prev = Null /\ f.p_next = Null /\ ~f.cancel
       \/ /\ a \in Xstreams /\ f.p_prev # Null
          /\ \/ /\ cb \in {"yield", "schedule"} /\ f.p_next = Null /\ f.p_prev # th
                /\ cb = "schedule" => th = Null
                /\ l \in {"request", "add", "terminate"} \cup Waking
                /\ f.cancel = (l \notin {"request", "add"})
             \/ /\ cb \in {"thread_yield_to", "resume_yield_to"}
                /\ f.p_next = th /\ th # Null /\ f.p_prev # th
                /\ l \in {"request", "add", "dec", "terminate"} \cup Waking
                /\ IF f.cancel THEN l \notin {"request", "add"}
                               ELSE l \in {"request", "add", "dec"}
             \/ /\ cb = "thread_yield_to" /\ l = "remove" /\ ~f.cancel
                /\ f.p_prev = th /\ f.p_next \notin {Null, th}
             \/ /\ cb = "suspend" /\ l \in {"inc", "request", "block"} /\ ~f.cancel
                /\ f.p_next = Null /\ f.p_prev # th
             \/ /\ cb = "resume_suspend_to" /\ l \in {"inc", "dec", "request", "block"}
                /\ ~f.cancel /\ f.p_next = th /\ th # Null /\ f.p_prev # th
             \/ /\ cb = "suspend_join" /\ l \in {"inc", "request", "block", "link"}
                /\ ~f.cancel /\ f.p_next # Null /\ f.p_prev # th
             \/ /\ cb = "exit" /\ l \in Waking \cup {"leave", "jump", "terminate"}
                /\ ~f.cancel /\ f.p_next = Null
                /\ IF l = "terminate" THEN f.p_prev # th ELSE f.p_prev = th
             \/ /\ cb \in {"exit_to", "resume_exit_to"}
                /\ l \in Waking \cup {"leave", "terminate", "dec"}
                /\ l = "dec" => cb = "resume_exit_to"
                /\ ~f.cancel /\ f.p_next \notin {Null, f.p_prev}
                /\ IF l \in {"terminate", "dec"} THEN f.p_next = th ELSE f.p_prev = th

(* One place *)

ActorTypes ==
    /\ pc \in [Actors -> Locations]
    /\ frame \in [Actors -> Frames]
    /\ p_thread \in [Xstreams -> Threads \cup {Null}]

DataTypes ==
    /\ state \in [Threads -> {"READY", "RUNNING", "BLOCKED", "TERMINATED"}]
    /\ p_pool \in [Threads -> Pools]
    /\ request \in [Threads -> SUBSET {"JOIN", "CANCEL", "MIGRATE"}]
    /\ migration_pool \in [Threads -> Pools \cup {Null}]
    /\ p_link \in [Threads -> Callers \cup {Null}]
    /\ p_last_xstream \in [Threads -> Xstreams \cup {Null}]
    /\ queue \in [Pools -> Seq(Threads)]
    /\ num_blocked \in [Pools -> Int]
    /\ joining \in [Callers -> Threads \cup {Null}]
    /\ suspended \subseteq Threads /\ freed \subseteq Threads
    /\ \A t \in Threads : "MIGRATE" \in request[t] => migration_pool[t] \in Pools

Types == ActorTypes /\ DataTypes

Queues ==
    \A p \in Pools : /\ Distinct(queue[p])
                     /\ \A t \in Threads : Listed(queue[p], t) => p_pool[t] = p

Alone == \A t \in Threads : \A a, b \in Actors : Owns(a, t) /\ Owns(b, t) => a = b

\* What the state of a ULT is while somebody works with it.
Role(a, t) ==
    /\ Runs(a, t) \/ (Works(a, t) /\ pc[a] # "link") => state[t] \in {"READY", "RUNNING"}
    /\ (Works(a, t) /\ pc[a] = "link") \/ Wakes(a, t) => state[t] = "BLOCKED"
    /\ Takes(a, t) =>
         state[t] = IF frame[a].callback = "exit_to" THEN "READY" ELSE "BLOCKED"

\* A ULT that suspends itself.
Suspending(a, t) ==
    frame[a].p_prev = t /\ frame[a].callback \in {"suspend", "resume_suspend_to"}

Placed(t) ==
    /\ Queued(t) => state[t] = "READY" /\ ~Owned(t)
    /\ ~Queued(t) /\ ~Owned(t) => state[t] \in {"BLOCKED", "TERMINATED"}
    /\ t \in suspended =>
         /\ joining[t] = Null
         /\ (state[t] = "BLOCKED" /\ ~Owned(t)) \/ \E a \in Actors : Suspending(a, t)

(* Joins *)

\* The ULT has woken its joiner, or knows that it need not, or is past that.
Past(a, s) ==
    /\ frame[a].p_prev = s
    /\ pc[a] \in {"wake", "futex_wake", "push", "jump", "push_dec", "leave", "terminate"}
Gone(s) == state[s] = "TERMINATED" \/ \E a \in Actors : Past(a, s)

\* The joiner c has done all it does before it is woken.
Awaits(c, s) ==
    joining[c] = s /\ (c \in Threads => state[c] = "BLOCKED" /\ ~Owned(c))

LinkOK(s) ==
    /\ Gone(s) => "JOIN" \in request[s]
    /\ p_link[s] # Null =>
         /\ "JOIN" \in request[s]
         /\ JoinerOf[s] = p_link[s]
         /\ Gone(s) \/ Awaits(p_link[s], s)

\* Nobody joins s before its joiner has stored itself in p_link.
Unlinked(s) == "JOIN" \in request[s] /\ p_link[s] = Null /\ ~Gone(s)

JoinOK(a) ==
    /\ pc[a] = "join" => joining[Caller(a)] # Null
    /\ frame[a].callback = "suspend_join" =>
         joining[frame[a].p_prev] = frame[a].p_next /\ Unlinked(frame[a].p_next)
    /\ pc[a] = "futex_link" => joining[a] # Null /\ Unlinked(joining[a])
    /\ pc[a] \in {"wake", "push", "jump", "futex_wake"} /\ frame[a].p_prev # Null =>
         joining[frame[a].p_joiner] = frame[a].p_prev

OwnJoiner == \A c \in Callers : joining[c] # Null => JoinerOf[joining[c]] = c

\* Who works with ULTs, and how the ULTs stand to that.
PlaceInv ==
    /\ \A a \in Actors : Shape(a)
    /\ Alone
    /\ \A a \in Actors, t \in Threads : Role(a, t)
    /\ \A t \in Threads : Placed(t)

JoinInv ==
    /\ \A s \in Threads : LinkOK(s)
    /\ \A a \in Actors : JoinOK(a)
    /\ OwnJoiner

IInv == Types /\ Queues /\ PlaceInv /\ JoinInv
------------------------------------------------------------------------------
(* A step of one actor *)

\* Only a moves.
Moves(a) ==
    /\ ActorTypes'
    /\ \A b \in Actors \ {a} : pc'[b] = pc[b] /\ frame'[b] = frame[b] /\ Ctx(b)' = Ctx(b)

\* All others work with the ULTs they worked with.
LEMMA OthersStay ==
  ASSUME NEW a \in Actors, Moves(a), NEW b \in Actors, b # a, NEW t
  PROVE  /\ Runs(b, t)' <=> Runs(b, t)
         /\ Works(b, t)' <=> Works(b, t)
         /\ Wakes(b, t)' <=> Wakes(b, t)
         /\ Takes(b, t)' <=> Takes(b, t)
         /\ Owns(b, t)' <=> Owns(b, t)
         /\ Suspending(b, t)' <=> Suspending(b, t)
         /\ Past(b, t)' <=> Past(b, t)
<1>1. pc'[b] = pc[b] /\ frame'[b] = frame[b] /\ Ctx(b)' = Ctx(b)
  BY DEF Moves
<1> QED BY <1>1 DEF Runs, Works, Wakes, Takes, Owns, Suspending, Past

\* And are where they were.
LEMMA OthersShape ==
  ASSUME NEW a \in Actors, Moves(a), NEW b \in Actors, b # a, Shape(b)
  PROVE  Shape(b)'
<1>1. pc'[b] = pc[b] /\ frame'[b] = frame[b] /\ Ctx(b)' = Ctx(b)
  BY DEF Moves
<1> QED BY <1>1 DEF Shape

\* A ULT that suspends itself is still being worked with.
LEMMA SuspendingWorks ==
  ASSUME NEW a \in Actors, Shape(a), NEW t \in Threads, Suspending(a, t), Null \notin Threads
  PROVE  Works(a, t) /\ pc[a] # "link"
BY DEF Suspending, Shape, Works, NoFrame

\* a finds in the p_link of its ULT a joiner that nobody works with.
Fetches(a, t) ==
    /\ pc[a] \in {"load_link", "spin"} /\ p_link[frame[a].p_prev] = t
    /\ state[t] = "BLOCKED" /\ ~Owned(t)

\* What only a can have changed about t.
Free(a, t) ==
    \/ Owns(a, t) \/ Queued(t)
    \/ t \in suspended /\ state[t] = "BLOCKED"
    \/ state[t] = "TERMINATED"
    \/ Fetches(a, t)

\* t is as it has to be if nobody but a works with it.
Fine(a, t) ==
    /\ Role(a, t)
    /\ Queued(t) => state[t] = "READY" /\ ~Owns(a, t)
    /\ Queued(t) \/ Owns(a, t) \/ state[t] \in {"BLOCKED", "TERMINATED"}
    /\ t \in suspended =>
         /\ joining[t] = Null
         /\ (state[t] = "BLOCKED" /\ ~Owns(a, t)) \/ Suspending(a, t)

\* A step of a that is about the ULTs of T, all of them its own or nobody's.
Touches(a, T) ==
    /\ Moves(a)
    /\ \A t \in Threads \ T :
         /\ state'[t] = state[t] /\ joining'[t] = joining[t]
         /\ Queued(t)' <=> Queued(t)
         /\ t \in suspended' => t \in suspended
         /\ ~Owns(a, t) /\ ~Owns(a, t)'
    /\ \A t \in T : Free(a, t)

\* Nobody else works with what a may take.
LEMMA FreeIsFree ==
  ASSUME PlaceInv, Null \notin Threads, NEW a \in Actors, NEW t \in Threads, Free(a, t),
         NEW b \in Actors, b # a
  PROVE  ~Owns(b, t)
<1>1. CASE Owns(a, t)
  BY <1>1 DEF PlaceInv, Alone
<1>2. CASE Queued(t)
  BY <1>2 DEF PlaceInv, Placed, Owned
<1>3. CASE state[t] = "TERMINATED"
  BY <1>3 DEF PlaceInv, Role, Owns
<1>4. CASE t \in suspended /\ state[t] = "BLOCKED"
  <2>1. ASSUME NEW c \in Actors, Suspending(c, t) PROVE FALSE
    <3>1. Works(c, t) /\ pc[c] # "link"
      BY <2>1, SuspendingWorks DEF PlaceInv
    <3> QED BY <3>1, <1>4 DEF PlaceInv, Role
  <2> QED BY <2>1, <1>4 DEF PlaceInv, Placed, Owned
<1>5. CASE Fetches(a, t)
  BY <1>5 DEF Fetches, Owned
<1> QED BY <1>1, <1>2, <1>3, <1>4, <1>5 DEF Free

\* Such a step keeps everybody in one place.
LEMMA PlaceStep ==
  ASSUME PlaceInv, Null \notin Threads, NEW a \in Actors, NEW T \in SUBSET Threads, Touches(a, T),
         Shape(a)', \A t \in T : Fine(a, t)'
  PROVE  /\ PlaceInv'
         /\ \A c \in Threads \ T : state[c] = "BLOCKED" /\ ~Owned(c) =>
              state'[c] = "BLOCKED" /\ ~Owned(c)'
<1>1. ASSUME NEW b \in Actors, b # a, NEW t \in T PROVE ~Owns(b, t) /\ ~Owns(b, t)'
  BY <1>1, FreeIsFree, OthersStay DEF Touches
<1>2. ASSUME NEW b \in Actors, NEW t \in Threads \ T PROVE Owns(b, t)' <=> Owns(b, t)
  BY <1>2, OthersStay DEF Touches
<1>3. \A b \in Actors : Shape(b)'
  BY OthersShape DEF PlaceInv, Touches
<1>4. Alone'
  BY <1>1, <1>2 DEF PlaceInv, Alone
<1>5. ASSUME NEW b \in Actors, NEW t \in Threads PROVE Role(b, t)'
  <2>1. CASE t \in T
    BY <2>1, <1>1 DEF Fine, Role, Owns
  <2>2. CASE t \notin T /\ b = a
    BY <2>2 DEF Touches, Role, Owns
  <2>3. CASE t \notin T /\ b # a
    <3>1. pc'[b] = pc[b] /\ frame'[b] = frame[b] /\ state'[t] = state[t]
      BY <2>3 DEF Touches, Moves
    <3> QED BY <3>1, <2>3, OthersStay DEF PlaceInv, Role, Touches
  <2> QED BY <2>1, <2>2, <2>3
<1>6. ASSUME NEW t \in Threads PROVE Placed(t)'
  <2>1. CASE t \in T
    <3>1. Owned(t)' <=> Owns(a, t)'
      BY <2>1, <1>1 DEF Owned
    <3>2. Fine(a, t)'
      BY <2>1
    <3> QED BY <3>1, <3>2 DEF Fine, Placed
  <2>2. CASE t \notin T
    <3>1. Owned(t)' <=> Owned(t)
      BY <2>2, <1>2 DEF Owned
    <3>2. /\ state'[t] = state[t] /\ joining'[t] = joining[t] /\ (Queued(t)' <=> Queued(t))
          /\ t \in suspended' => t \in suspended
          /\ ~Owns(a, t) /\ Moves(a) /\ Placed(t)
      BY <2>2 DEF Touches, PlaceInv
    <3>3. ASSUME NEW b \in Actors, Suspending(b, t) PROVE Suspending(b, t)'
      <4>1. Works(b, t)
        BY <3>3, SuspendingWorks DEF PlaceInv
      <4>2. b # a
        BY <4>1, <3>2 DEF Owns
      <4> QED BY <4>2, <3>2, <3>3, OthersStay
    <3> QED BY <3>1, <3>2, <3>3 DEF Placed
  <2> QED BY <2>1, <2>2
<1>7. ASSUME NEW c \in Threads \ T, state[c] = "BLOCKED", ~Owned(c)
      PROVE  state'[c] = "BLOCKED" /\ ~Owned(c)'
  BY <1>2, <1>7 DEF Touches, Owned
<1> QED BY <1>3, <1>4, <1>5, <1>6, <1>7 DEF PlaceInv
------------------------------------------------------------------------------
(* Steps that leave the joins as they are *)

\* a does not come to a point where a join waits for it.
Carries(a) ==
    /\ pc'[a] \notin {"join", "futex_link"}
    /\ frame'[a].callback = "suspend_join" =>
         /\ frame[a].callback = "suspend_join"
         /\ frame'[a].p_prev = frame[a].p_prev /\ frame'[a].p_next = frame[a].p_next
    /\ pc'[a] \in {"wake", "push", "jump", "futex_wake"} /\ frame'[a].p_prev # Null =>
         joining[frame'[a].p_joiner] = frame'[a].p_prev

Quiet(a) ==
    /\ p_link' = p_link /\ joining' = joining
    /\ pc[a] \in {"load_link", "spin"} => p_link[frame[a].p_prev] = Null
    /\ \A s \in Threads : /\ "JOIN" \in request'[s] <=> "JOIN" \in request[s]
                          /\ Gone(s)' <=> Gone(s)
    /\ Carries(a)

\* What a ULT has behind it changes only by its own exit.
LEMMA GoneStays ==
  ASSUME NEW a \in Actors, Moves(a), NEW s, Past(a, s)' <=> Past(a, s),
         state'[s] = "TERMINATED" <=> state[s] = "TERMINATED"
  PROVE  Gone(s)' <=> Gone(s)
<1>1. ASSUME NEW b \in Actors PROVE Past(b, s)' <=> Past(b, s)
  BY OthersStay
<1> QED BY <1>1 DEF Gone

\* Such a step keeps every joiner waiting for the ULT it joins.
LEMMA JoinStep ==
  ASSUME Types, \A b \in Actors : Shape(b), JoinInv, YthreadConstants, NEW a \in Actors,
         Moves(a), Quiet(a),
         \A c \in Threads : state[c] = "BLOCKED" /\ ~Owned(c) /\ joining[c] # Null =>
              state'[c] = "BLOCKED" /\ ~Owned(c)'
  PROVE  JoinInv'
<1>1. ASSUME NEW c \in Callers, NEW s \in Threads, Awaits(c, s) PROVE Awaits(c, s)'
  BY <1>1 DEF Awaits, Quiet, YthreadConstants
<1>2. ASSUME NEW s \in Threads PROVE LinkOK(s)'
  <2>1. PICK c \in Callers \cup {Null} : p_link[s] = c /\ p_link'[s] = c
    BY DEF Quiet, Types, ActorTypes, DataTypes
  <2>2. c # Null => c \in Callers
    BY <2>1
  <2>3. LinkOK(s) /\ ("JOIN" \in request'[s] <=> "JOIN" \in request[s]) /\ (Gone(s)' <=> Gone(s))
    BY DEF JoinInv, Quiet
  <2> QED BY <1>1, <2>1, <2>2, <2>3 DEF LinkOK
<1>3. ASSUME NEW s \in Threads, Unlinked(s) PROVE Unlinked(s)'
  BY <1>3 DEF Unlinked, Quiet
<1>4. ASSUME NEW b \in Actors PROVE JoinOK(b)'
  <2>1. JoinOK(b) /\ Shape(b) /\ frame[b] \in Frames /\ joining' = joining
    BY DEF JoinInv, Types, ActorTypes, DataTypes, Quiet
  <2>2. CASE b = a
    <3>1. Carries(a)
      BY DEF Quiet
    <3>2. frame[a].callback = "suspend_join" => frame[a].p_next \in Threads
      BY <2>1, <2>2 DEF Shape, Frames, NoFrame
    <3> QED BY <2>1, <2>2, <3>1, <3>2, <1>3 DEF Carries, JoinOK
  <2>3. CASE b # a
    <3>1. pc'[b] = pc[b] /\ frame'[b] = frame[b] /\ Caller(b)' = Caller(b)
      BY <2>3 DEF Moves, Ctx, Caller
    <3>2. frame[b].callback = "suspend_join" => frame[b].p_next \in Threads
      BY <2>1 DEF Shape, Frames, NoFrame
    <3>3. pc[b] = "futex_link" => b \in Externals
      BY <2>1 DEF Shape, Waking
    <3>4. pc[b] = "futex_link" => joining[b] \in Threads \cup {Null}
      BY <3>3 DEF Types, ActorTypes, DataTypes, Callers
    <3> QED BY <2>1, <3>1, <3>2, <3>4, <1>3 DEF JoinOK
  <2> QED BY <2>2, <2>3
<1>5. OwnJoiner'
  BY DEF JoinInv, Quiet, OwnJoiner
<1> QED BY <1>2, <1>4, <1>5 DEF JoinInv

\* What most steps have to show.
LEMMA QuietStep ==
  ASSUME IInv, YthreadConstants, NEW a \in Actors, NEW T \in SUBSET Threads,
         Touches(a, T), Quiet(a), DataTypes', Queues', Shape(a)', \A t \in T : Fine(a, t)'
  PROVE  IInv'
<1>1. Null \notin Threads
  BY DEF YthreadConstants
<1>2. /\ PlaceInv'
      /\ \A c \in Threads \ T : state[c] = "BLOCKED" /\ ~Owned(c) =>
           state'[c] = "BLOCKED" /\ ~Owned(c)'
  BY <1>1, PlaceStep DEF IInv
<1>5. ASSUME NEW c \in Threads, state[c] = "BLOCKED", ~Owned(c), joining[c] # Null
      PROVE  state'[c] = "BLOCKED" /\ ~Owned(c)'
  <2>1. ~Free(a, c)
    BY <1>1, <1>5 DEF Free, Fetches, Owned, IInv, PlaceInv, Placed, Quiet
  <2> QED BY <1>2, <1>5, <2>1 DEF Touches
<1>3. JoinInv'
  BY <1>5, JoinStep DEF IInv, PlaceInv, Touches
<1>4. Types'
  BY DEF Types, Touches, Moves
<1> QED BY <1>2, <1>3, <1>4 DEF IInv
------------------------------------------------------------------------------
(* The pools *)

\* A ULT that changes its pool is in none.
LEMMA PoolsSame ==
  ASSUME Types, Queues, queue' = queue, \A t \in Threads : Queued(t) => p_pool'[t] = p_pool[t]
  PROVE  Queues' /\ queue' \in [Pools -> Seq(Threads)] /\ \A t : Queued(t)' <=> Queued(t)
BY DEF Types, ActorTypes, DataTypes, Queues, Queued

\* ABTI_pool_add_thread
LEMMA PoolAppend ==
  ASSUME Types, Queues, NEW t \in Threads, NEW p \in Pools, ~Queued(t), p_pool'[t] = p,
         queue' = [queue EXCEPT ![p] = Append(@, t)],
         \A x \in Threads \ {t} : p_pool'[x] = p_pool[x]
  PROVE  /\ Queues' /\ queue' \in [Pools -> Seq(Threads)]
         /\ \A x \in Threads : Queued(x)' <=> x = t \/ Queued(x)
<1>1. queue[p] \in Seq(Threads) /\ Distinct(queue[p]) /\ ~Listed(queue[p], t)
  BY DEF Types, ActorTypes, DataTypes, Queues, Queued
<1>2. /\ Append(queue[p], t) \in Seq(Threads) /\ Distinct(Append(queue[p], t))
      /\ \A x : Listed(Append(queue[p], t), x) <=> x = t \/ Listed(queue[p], x)
  BY <1>1, AppendLists
<1>3. queue'[p] = Append(queue[p], t) /\ \A r \in Pools \ {p} : queue'[r] = queue[r]
  BY DEF Types, ActorTypes, DataTypes
<1>4. queue' \in [Pools -> Seq(Threads)]
  BY <1>2 DEF Types, ActorTypes, DataTypes
<1>5. Queues'
  BY <1>2, <1>3 DEF Queues, Queued
<1>6. \A x \in Threads : Queued(x)' <=> x = t \/ Queued(x)
  BY <1>2, <1>3 DEF Queued
<1> QED BY <1>4, <1>5, <1>6

\* What is in a list of which s has been taken.
Shorter(r, q, s) ==
    r \in Seq(Threads) /\ Distinct(r) /\ \A x : Listed(r, x) <=> x # s /\ Listed(q, x)

\* Taking one ULT out of its pool leaves it in none.
LEMMA PoolTake ==
  ASSUME Types, Queues, NEW p \in Pools, NEW s \in Threads, Listed(queue[p], s), NEW r,
         Shorter(r, queue[p], s), queue' = [queue EXCEPT ![p] = r], p_pool' = p_pool
  PROVE  /\ Queues' /\ queue' \in [Pools -> Seq(Threads)] /\ Queued(s)
         /\ \A x \in Threads : Queued(x)' <=> x # s /\ Queued(x)
<1>1. queue'[p] = r /\ \A o \in Pools \ {p} : queue'[o] = queue[o]
  BY DEF Types, ActorTypes, DataTypes
<1>2. \A o \in Pools \ {p} : ~Listed(queue[o], s)
  BY DEF Queues
<1>3. queue' \in [Pools -> Seq(Threads)]
  BY DEF Types, ActorTypes, DataTypes, Shorter
<1>4. Queues'
  BY <1>1 DEF Queues, Shorter
<1>5. \A x \in Threads : Queued(x)' <=> x # s /\ Queued(x)
  BY <1>1, <1>2 DEF Queued, Shorter
<1> QED BY <1>3, <1>4, <1>5 DEF Queued

\* pool_remove
LEMMA PoolRemoves ==
  ASSUME Types, Queues, NEW s \in Threads, RemoveFromPool(s), p_pool' = p_pool
  PROVE  /\ Queues' /\ queue' \in [Pools -> Seq(Threads)] /\ Queued(s)
         /\ \A x \in Threads : Queued(x)' <=> x # s /\ Queued(x)
<1> DEFINE q == queue[p_pool[s]]
<1>1. PICK i \in 1..Len(q) : /\ q[i] = s
                             /\ queue' = [queue EXCEPT ![p_pool[s]] = RemoveAt(@, i)]
  BY DEF RemoveFromPool
<1>2. p_pool[s] \in Pools /\ q \in Seq(Threads) /\ Distinct(q)
  BY DEF Types, ActorTypes, DataTypes, Queues
<1>3. RemoveAt(q, i) = Without(q, i)
  BY DEF RemoveAt, Without
<1>4. Shorter(Without(q, i), q, s) /\ Listed(q, s)
  BY <1>1, <1>2, WithoutUnlists DEF Shorter
<1>5. queue' = [queue EXCEPT ![p_pool[s]] = Without(q, i)]
  BY <1>1, <1>3
<1> QED BY <1>2, <1>4, <1>5, PoolTake

\* ABTI_pool_pop
LEMMA PoolPops ==
  ASSUME Types, Queues, NEW p \in Pools, queue[p] # <<>>, p_pool' = p_pool,
         queue' = [queue EXCEPT ![p] = Tail(@)]
  PROVE  /\ Queues' /\ queue' \in [Pools -> Seq(Threads)]
         /\ Head(queue[p]) \in Threads /\ Queued(Head(queue[p]))
         /\ \A x \in Threads : Queued(x)' <=> x # Head(queue[p]) /\ Queued(x)
<1>1. queue[p] \in Seq(Threads) /\ Distinct(queue[p])
  BY DEF Types, ActorTypes, DataTypes, Queues
<1>2. /\ Head(queue[p]) \in Threads /\ Listed(queue[p], Head(queue[p]))
      /\ Shorter(Tail(queue[p]), queue[p], Head(queue[p]))
  BY <1>1, TailLists DEF Shorter
<1> QED BY <1>2, PoolTake
------------------------------------------------------------------------------
(* Where an actor goes *)

\* pc, frame and p_thread of one actor change.
LEMMA Goes ==
  ASSUME Types, NEW a \in Actors, NEW l \in Locations, NEW f \in Frames,
         pc' = [pc EXCEPT ![a] = l],
         frame' = [frame EXCEPT ![a] = f] \/ (frame' = frame /\ f = frame[a]),
         NEW th,
         \/ p_thread' = p_thread /\ th = Ctx(a)
         \/ /\ a \in Xstreams /\ th \in Threads \cup {Null}
            /\ p_thread' = [p_thread EXCEPT ![a] = th]
  PROVE  Moves(a) /\ pc'[a] = l /\ frame'[a] = f /\ Ctx(a)' = th
BY DEF Types, ActorTypes, Moves, Ctx
------------------------------------------------------------------------------
(* What a running ULT may do *)

\* A ULT in user code, or in the loop at the end of a join, is its execution stream's alone.
LEMMA Running ==
  ASSUME IInv, YthreadConstants, NEW e \in Xstreams, NEW t \in Threads,
         pc[e] = "run", p_thread[e] = t
  PROVE  /\ frame[e] = NoFrame /\ Ctx(e) = t /\ e \in Actors
         /\ state[t] \in {"READY", "RUNNING"} /\ ~Queued(t) /\ t \notin suspended
         /\ \A x \in Threads : Owns(e, x) <=> x = t
         /\ \A x \in Threads : ~Past(e, x)
<1>1. Shape(e) /\ Role(e, t) /\ Placed(t) /\ e \in Actors /\ Null \notin Threads
  BY DEF IInv, PlaceInv, Actors, YthreadConstants
<1>2. frame[e] = NoFrame
  BY <1>1 DEF Shape, Waking
<1>3. Ctx(e) = t
  BY DEF Ctx
<1>4. \A x \in Threads : Owns(e, x) <=> x = t
  BY <1>1, <1>2, <1>3 DEF Owns, Runs, Works, Wakes, Takes, NoFrame
<1>5. state[t] \in {"READY", "RUNNING"} /\ ~Queued(t)
  BY <1>1, <1>3, <1>4 DEF Role, Runs, Placed, Owned
<1>6. ASSUME NEW a \in Actors, Suspending(a, t) PROVE FALSE
  <2>1. Works(a, t) /\ Shape(a)
    BY <1>1, <1>6, SuspendingWorks DEF IInv, PlaceInv
  <2>2. a = e
    BY <1>1, <1>4, <2>1 DEF IInv, PlaceInv, Alone, Owns
  <2> QED BY <1>1, <1>2, <1>6, <2>2 DEF Suspending, NoFrame
<1>7. t \notin suspended
  BY <1>1, <1>5, <1>6 DEF Placed
<1>8. \A x \in Threads : ~Past(e, x)
  BY DEF Past
<1> QED BY <1>1, <1>2, <1>3, <1>4, <1>5, <1>7, <1>8

\* Where a ULT has entered the runtime.
Entered(e, cb, t, s, l) ==
    /\ pc'[e] = l
    /\ frame'[e].callback = cb /\ frame'[e].p_prev = t /\ frame'[e].p_next = s
    /\ frame'[e].p_joiner = Null /\ frame'[e].cancel = FALSE

\* An operation that switches away enters the runtime in one step.
LEMMA Enters ==
  ASSUME Types, YthreadConstants, NEW e \in Xstreams, NEW cb \in Callbacks, NEW t \in Threads,
         NEW s \in Threads \cup {Null}, NEW l \in {"request", "inc", "remove", "load_link"},
         Enter(e, cb, t, s, l), NEW th,
         \/ p_thread' = p_thread /\ th = Ctx(e)
         \/ th \in Threads \cup {Null} /\ p_thread' = [p_thread EXCEPT ![e] = th]
  PROVE  /\ Moves(e) /\ Ctx(e)' = th /\ Entered(e, cb, t, s, l)
         /\ \A x : ~Past(e, x)'
<1> DEFINE f == [NoFrame EXCEPT !.callback = cb, !.p_prev = t, !.p_next = s, !.p_pool = p_pool[t]]
<1>1. f \in Frames
  BY DEF Frames, NoFrame, Types, ActorTypes, DataTypes
<1>2. /\ f.callback = cb /\ f.p_prev = t /\ f.p_next = s
      /\ f.p_joiner = Null /\ f.cancel = FALSE
  BY DEF NoFrame
<1>3. pc' = [pc EXCEPT ![e] = l] /\ frame' = [frame EXCEPT ![e] = f]
  BY Zenon DEF Enter, Goto
<1>5. e \in Actors
  BY DEF Actors
<1>6. l \in Locations
  BY DEF Locations, Waking
<1> HIDE DEF f
<1>4. Moves(e) /\ pc'[e] = l /\ frame'[e] = f /\ Ctx(e)' = th
  BY <1>1, <1>3, <1>5, <1>6, Goes
<1> QED BY <1>2, <1>4 DEF Entered, Past

\* Entering the runtime leaves the joins as they are.
LEMMA EntersQuietly ==
  ASSUME IInv, NEW e \in Actors, pc[e] = "run", Moves(e), NEW cb, NEW t, NEW s, NEW l,
         Entered(e, cb, t, s, l),
         cb # "suspend_join", l \in {"request", "inc", "remove", "load_link"},
         \A x \in Threads : ~Past(e, x) /\ ~Past(e, x)',
         p_link' = p_link, joining' = joining, request' = request,
         \A x \in Threads : state'[x] = "TERMINATED" <=> state[x] = "TERMINATED"
  PROVE  Quiet(e)
<1>1. \A x \in Threads : Gone(x)' <=> Gone(x)
  BY GoneStays
<1> QED BY <1>1 DEF Quiet, Carries, Entered

\* The ways into the runtime: t finishes callback cb at l, e goes on on th, and n is the
\* ULT that only e knows from now on.
Entry(cb, t, s, l, th, n) ==
    \/ cb = "yield" /\ l = "request" /\ s = Null /\ th # t /\ n = th
    \/ cb = "suspend" /\ l = "inc" /\ s = Null /\ th # t /\ n = th
    \/ cb = "thread_yield_to" /\ l = "remove" /\ s \notin {Null, t} /\ th = t /\ n = Null
    \/ cb = "resume_yield_to" /\ l = "request" /\ s \notin {Null, t} /\ th = s /\ n = s
    \/ cb = "resume_suspend_to" /\ l \in {"inc", "request"} /\ s \notin {Null, t} /\ th = s /\ n = s
    \/ cb = "exit" /\ l = "load_link" /\ s = Null /\ th = t /\ n = Null
    \/ cb \in {"exit_to", "resume_exit_to"} /\ l = "load_link" /\ s \notin {Null, t} /\ th = t /\ n = s

EntersWith(e, t, cb, s, l, th, n) ==
    /\ pc[e] = "run" /\ p_thread[e] = t
    /\ Entry(cb, t, s, l, th, n)
    /\ Enter(e, cb, t, s, l)
    /\ p_thread' = IF th = t THEN p_thread ELSE [p_thread EXCEPT ![e] = th]
    /\ UNCHANGED <<p_pool, request, migration_pool, p_link, joining, freed>>
    /\ Queues' /\ DataTypes'
    /\ \A x \in Threads \ {n} :
         /\ state'[x] = state[x]
         /\ Queued(x)' <=> Queued(x)
         /\ x \in suspended' =>
              x \in suspended \/ (x = t /\ joining[t] = Null /\ cb \in {"suspend", "resume_suspend_to"})
    /\ n # Null =>
         /\ Queued(n) \/ Claims(n)
         /\ ~Queued(n)' /\ n \notin suspended'
         /\ state'[n] \in IF n = th THEN {"READY", "RUNNING"} ELSE {state[n]}
         /\ cb \in {"yield", "suspend", "exit_to"} => Queued(n)
         /\ cb = "resume_exit_to" => Claims(n)

\* Entering the runtime that way keeps the invariant.
LEMMA EnterStep ==
  ASSUME IInv, YthreadConstants, NEW e \in Xstreams, NEW t \in Threads,
         NEW cb, NEW s \in Threads \cup {Null}, NEW l, NEW th \in Threads \cup {Null},
         NEW n \in Threads \cup {Null},
         EntersWith(e, t, cb, s, l, th, n)
  PROVE  IInv'
<1>1. /\ Types /\ Queues /\ Null \notin Threads
      /\ pc[e] = "run" /\ p_thread[e] = t /\ Enter(e, cb, t, s, l)
      /\ (p_thread' = p_thread /\ th = t) \/ p_thread' = [p_thread EXCEPT ![e] = th]
      /\ UNCHANGED <<p_pool, request, migration_pool, p_link, joining, freed>>
      /\ Queues' /\ DataTypes'
      /\ Entry(cb, t, s, l, th, n)
  BY DEF IInv, YthreadConstants, EntersWith
<1>2. cb \in Callbacks /\ cb # "suspend_join" /\ l \in {"request", "inc", "remove", "load_link"}
  BY <1>1 DEF Entry, Callbacks
<1>3. /\ frame[e] = NoFrame /\ e \in Actors /\ Ctx(e) = t
      /\ state[t] \in {"READY", "RUNNING"} /\ ~Queued(t) /\ t \notin suspended
      /\ \A x \in Threads : (Owns(e, x) <=> x = t) /\ ~Past(e, x)
  BY <1>1, Running
<1>4. /\ Moves(e) /\ Ctx(e)' = th /\ Entered(e, cb, t, s, l)
      /\ \A x : ~Past(e, x)'
  BY <1>1, <1>2, <1>3, Enters
<1>5. n # Null =>
        /\ Free(e, n) /\ n # t /\ state[n] # "TERMINATED" /\ state'[n] # "TERMINATED"
        /\ cb = "exit_to" => state[n] = "READY"
        /\ cb = "resume_exit_to" => state[n] = "BLOCKED"
  BY <1>3 DEF EntersWith, Claims, Free, IInv, PlaceInv, Placed
<1>6. \A x \in Threads : state'[x] = "TERMINATED" <=> state[x] = "TERMINATED"
  BY <1>1, <1>5 DEF EntersWith
<1>7. Quiet(e)
  BY <1>1, <1>2, <1>3, <1>4, <1>6, EntersQuietly
<1>8. \A x \in Threads : Owns(e, x)' <=> x = t \/ x = n
  BY <1>1, <1>4 DEF Entered, Entry, Owns, Runs, Works, Wakes, Takes
<1> DEFINE T == Threads \cap {t, n}
<1>9. Touches(e, T)
  BY <1>1, <1>3, <1>4, <1>5, <1>8 DEF Touches, Free, EntersWith
<1>10. Shape(e)'
  BY <1>1, <1>4 DEF Entered, Entry, Shape, Ctx, Waking
<1>11. Fine(e, t)'
  BY <1>1, <1>3, <1>4, <1>5, <1>8
     DEF EntersWith, Entered, Entry, Fine, Role, Runs, Works, Wakes, Takes, Suspending
<1>12. n # Null => Fine(e, n)'
  BY <1>1, <1>3, <1>4, <1>5, <1>8
     DEF EntersWith, Entered, Entry, Fine, Role, Runs, Works, Wakes, Takes
<1>13. \A x \in T : Fine(e, x)'
  BY <1>1, <1>11, <1>12
<1> HIDE DEF T
<1>14. T \in SUBSET Threads
  BY DEF T
<1> QED BY <1>1, <1>3, <1>7, <1>9, <1>10, <1>13, <1>14, QuietStep

\* Those that name nobody: ABT_self_yield, ABT_self_suspend, ABT_self_exit, the loop at the
\* end of a join.
LEMMA LoneSteps ==
  ASSUME IInv, YthreadConstants, NEW e \in Xstreams, NEW t \in Threads,
         Yield(e, t) \/ Suspend(e, t) \/ Exit(e, t) \/ (JoinYields(e) /\ p_thread[e] = t)
  PROVE  IInv'
<1>1. /\ Types /\ Queues /\ Null \notin Threads /\ pc[e] = "run" /\ p_thread[e] = t
      /\ UNCHANGED <<state, p_pool, request, migration_pool, p_link, p_last_xstream, queue,
                     num_blocked, joining, freed>>
  BY DEF IInv, YthreadConstants, Yield, Suspend, Exit, JoinYields, Calls, InUserCode, descVars,
     poolVars, threadVars, userVars, SwitchToParent
<1>2. Queues' /\ \A x : Queued(x)' <=> Queued(x)
  BY <1>1, PoolsSame
<1>3. ASSUME Yield(e, t) \/ JoinYields(e) PROVE IInv'
  <2>1. Enter(e, "yield", t, Null, "request") /\ p_thread' = [p_thread EXCEPT ![e] = Null]
        /\ suspended' = suspended
    BY <1>1, <1>3 DEF Yield, JoinYields, SwitchToParent, userVars
  <2>2. DataTypes'
    BY <1>1, <2>1 DEF Types, DataTypes
  <2>3. EntersWith(e, t, "yield", Null, "request", Null, Null)
    BY <1>1, <1>2, <2>1, <2>2 DEF EntersWith, Entry
  <2> QED BY <2>3, EnterStep
<1>4. ASSUME Suspend(e, t) PROVE IInv'
  <2>1. Enter(e, "suspend", t, Null, "inc") /\ p_thread' = [p_thread EXCEPT ![e] = Null]
        /\ suspended' = suspended \cup {t} /\ joining[t] = Null
    BY <1>1, <1>4 DEF Suspend, SwitchToParent, Calls, InUserCode, Caller
  <2>2. DataTypes'
    BY <1>1, <2>1 DEF Types, DataTypes
  <2>3. EntersWith(e, t, "suspend", Null, "inc", Null, Null)
    BY <1>1, <1>2, <2>1, <2>2 DEF EntersWith, Entry
  <2> QED BY <2>3, EnterStep
<1>5. ASSUME Exit(e, t) PROVE IInv'
  <2>1. Enter(e, "exit", t, Null, "load_link") /\ p_thread' = p_thread /\ suspended' = suspended
    BY <1>5 DEF Exit, userVars
  <2>2. DataTypes'
    BY <1>1, <2>1 DEF Types, DataTypes
  <2>3. EntersWith(e, t, "exit", Null, "load_link", t, Null)
    BY <1>1, <1>2, <2>1, <2>2 DEF EntersWith, Entry
  <2> QED BY <2>3, EnterStep
<1> QED BY <1>3, <1>4, <1>5

\* Whom a caller may name: a ULT in a pool, or one that suspended itself.
LEMMA AtHand ==
  ASSUME IInv, YthreadConstants, NEW s \in Threads
  PROVE  /\ Queued(s) => state[s] = "READY" /\ ~Owned(s) /\ s \notin suspended
         /\ Claims(s) => ~Queued(s) /\ ~Owned(s)
<1>1. Placed(s) /\ Null \notin Threads
  BY DEF IInv, PlaceInv, YthreadConstants
<1>2. ASSUME NEW a \in Actors, Suspending(a, s)
      PROVE  Works(a, s) /\ pc[a] # "link" /\ state[s] \in {"READY", "RUNNING"} /\ Owned(s)
  <2>1. Works(a, s) /\ pc[a] # "link"
    BY <1>1, <1>2, SuspendingWorks DEF IInv, PlaceInv
  <2>2. Role(a, s)
    BY DEF IInv, PlaceInv
  <2> QED BY <2>1, <2>2 DEF Role, Owned, Owns
<1> QED BY <1>1, <1>2 DEF Placed, Claims

\* ABT_self_yield_to, ABT_self_suspend_to and ABT_self_exit_to, with a ULT from a pool.
LEMMA ToSteps ==
  ASSUME IInv, YthreadConstants, NEW e \in Xstreams, NEW t \in Threads, NEW s \in Threads,
         YieldTo(e, t, s) \/ SuspendTo(e, t, s) \/ ExitTo(e, t, s)
  PROVE  IInv'
<1>1. /\ Types /\ Queues /\ Null \notin Threads /\ pc[e] = "run" /\ p_thread[e] = t
      /\ joining[t] = Null /\ s # t /\ RemoveFromPool(s)
      /\ UNCHANGED <<p_pool, request, migration_pool, p_link, num_blocked, joining, freed>>
  BY DEF IInv, YthreadConstants, YieldTo, SuspendTo, ExitTo, Calls, InUserCode, Caller, descVars,
     threadVars
<1>2. /\ Queues' /\ queue' \in [Pools -> Seq(Threads)] /\ Queued(s)
      /\ \A x \in Threads : Queued(x)' <=> x # s /\ Queued(x)
  BY <1>1, PoolRemoves
<1>3. s \notin suspended /\ state[s] = "READY"
  BY <1>2, AtHand
<1>4. ASSUME YieldTo(e, t, s) PROVE IInv'
  <2>1. /\ Enter(e, "yield", t, Null, "request") /\ p_thread' = [p_thread EXCEPT ![e] = s]
        /\ state' = [state EXCEPT ![s] = "RUNNING"]
        /\ p_last_xstream' = [p_last_xstream EXCEPT ![s] = e] /\ suspended' = suspended
    BY <1>4 DEF YieldTo, SwitchToSibling, SetState
  <2>2. DataTypes'
    BY <1>1, <1>2, <2>1 DEF Types, DataTypes
  <2>3. EntersWith(e, t, "yield", Null, "request", s, s)
    BY <1>1, <1>2, <1>3, <2>1, <2>2 DEF EntersWith, Entry, Types, DataTypes
  <2> QED BY <2>3, EnterStep
<1>5. ASSUME SuspendTo(e, t, s) PROVE IInv'
  <2>1. /\ Enter(e, "suspend", t, Null, "inc") /\ p_thread' = [p_thread EXCEPT ![e] = s]
        /\ p_last_xstream' = [p_last_xstream EXCEPT ![s] = e] /\ suspended' = suspended \cup {t}
        /\ state' = state
    BY <1>5 DEF SuspendTo, SwitchToSibling
  <2>2. DataTypes'
    BY <1>1, <1>2, <2>1 DEF Types, DataTypes
  <2>3. EntersWith(e, t, "suspend", Null, "inc", s, s)
    BY <1>1, <1>2, <1>3, <2>1, <2>2 DEF EntersWith, Entry
  <2> QED BY <2>3, EnterStep
<1>6. ASSUME ExitTo(e, t, s) PROVE IInv'
  <2>1. /\ Enter(e, "exit_to", t, s, "load_link")
        /\ UNCHANGED <<p_thread, state, p_last_xstream, suspended>>
    BY <1>6 DEF ExitTo, threadVars
  <2>2. DataTypes'
    BY <1>1, <1>2, <2>1 DEF Types, DataTypes
  <2>3. EntersWith(e, t, "exit_to", s, "load_link", t, s)
    BY <1>1, <1>2, <1>3, <2>1, <2>2 DEF EntersWith, Entry
  <2> QED BY <2>3, EnterStep
<1> QED BY <1>4, <1>5, <1>6

\* ABT_self_resume_yield_to, ABT_self_resume_suspend_to and ABT_self_resume_exit_to.
LEMMA ResumeToSteps ==
  ASSUME IInv, YthreadConstants, NEW e \in Xstreams, NEW t \in Threads, NEW s \in Threads,
         ResumeYieldTo(e, t, s) \/ ResumeSuspendTo(e, t, s) \/ ResumeExitTo(e, t, s)
  PROVE  IInv'
<1>1. /\ Types /\ Queues /\ Null \notin Threads /\ pc[e] = "run" /\ p_thread[e] = t
      /\ joining[t] = Null /\ Claims(s)
      /\ UNCHANGED <<p_pool, request, migration_pool, p_link, queue, num_blocked, joining, freed>>
  BY DEF IInv, YthreadConstants, ResumeYieldTo, ResumeSuspendTo, ResumeExitTo, Calls, InUserCode,
     Caller, descVars, threadVars, poolVars
<1>2. Queues' /\ \A x : Queued(x)' <=> Queued(x)
  BY <1>1, PoolsSame
<1>3. ~Queued(s) /\ s # t /\ s \in suspended /\ state[s] = "BLOCKED"
  BY <1>1, AtHand, Running DEF Claims
<1>4. ASSUME ResumeYieldTo(e, t, s) PROVE IInv'
  <2>1. /\ Enter(e, "resume_yield_to", t, s, "request") /\ p_thread' = [p_thread EXCEPT ![e] = s]
        /\ state' = [state EXCEPT ![s] = "RUNNING"]
        /\ p_last_xstream' = [p_last_xstream EXCEPT ![s] = e] /\ suspended' = suspended \ {s}
    BY <1>4 DEF ResumeYieldTo, SwitchToSibling, SetState
  <2>2. DataTypes'
    BY <1>1, <2>1 DEF Types, DataTypes
  <2>3. EntersWith(e, t, "resume_yield_to", s, "request", s, s)
    BY <1>1, <1>2, <1>3, <2>1, <2>2 DEF EntersWith, Entry, Types, DataTypes
  <2> QED BY <2>3, EnterStep
<1>5. ASSUME ResumeSuspendTo(e, t, s) PROVE IInv'
  <2>1. /\ \E l \in {"inc", "request"} : Enter(e, "resume_suspend_to", t, s, l)
        /\ p_thread' = [p_thread EXCEPT ![e] = s]
        /\ p_last_xstream' = [p_last_xstream EXCEPT ![s] = e]
        /\ suspended' = (suspended \ {s}) \cup {t}
        /\ state' = [state EXCEPT ![s] = "RUNNING"]
    BY <1>5 DEF ResumeSuspendTo, SwitchToSibling, SetState
  <2>2. DataTypes'
    BY <1>1, <2>1 DEF Types, DataTypes
  <2>3. PICK l \in {"inc", "request"} : Enter(e, "resume_suspend_to", t, s, l)
    BY <2>1
  <2>4. EntersWith(e, t, "resume_suspend_to", s, l, s, s)
    BY <1>1, <1>2, <1>3, <2>1, <2>2, <2>3 DEF EntersWith, Entry, Types, DataTypes
  <2> QED BY <2>4, EnterStep
<1>6. ASSUME ResumeExitTo(e, t, s) PROVE IInv'
  <2>1. /\ Enter(e, "resume_exit_to", t, s, "load_link") /\ suspended' = suspended \ {s}
        /\ UNCHANGED <<p_thread, state, p_last_xstream>>
    BY <1>6 DEF ResumeExitTo, threadVars
  <2>2. DataTypes'
    BY <1>1, <2>1 DEF Types, DataTypes
  <2>3. EntersWith(e, t, "resume_exit_to", s, "load_link", t, s)
    BY <1>1, <1>2, <1>3, <2>1, <2>2 DEF EntersWith, Entry
  <2> QED BY <2>3, EnterStep
<1> QED BY <1>4, <1>5, <1>6

\* ABT_thread_yield_to, before it has taken its target out of its pool.
LEMMA ThreadYieldToStep ==
  ASSUME IInv, YthreadConstants, NEW e \in Xstreams, NEW t \in Threads, NEW s \in Threads,
         ThreadYieldTo(e, t, s)
  PROVE  IInv'
<1>1. /\ Types /\ Queues /\ Null \notin Threads /\ pc[e] = "run" /\ p_thread[e] = t /\ s # t
      /\ UNCHANGED <<p_pool, request, migration_pool, p_link, queue, joining, freed, p_thread,
                     state, p_last_xstream, suspended>>
      /\ Enter(e, "thread_yield_to", t, s, "remove")
      /\ num_blocked' = [num_blocked EXCEPT ![p_pool[t]] = @ + 1]
  BY DEF IInv, YthreadConstants, ThreadYieldTo, Calls, InUserCode, descVars, threadVars,
     AddNumBlocked
<1>2. Queues' /\ \A x : Queued(x)' <=> Queued(x)
  BY <1>1, PoolsSame
<1>3. DataTypes'
  BY <1>1 DEF Types, DataTypes
<1>4. EntersWith(e, t, "thread_yield_to", s, "remove", t, Null)
  BY <1>1, <1>2, <1>3 DEF EntersWith, Entry
<1> QED BY <1>4, EnterStep
------------------------------------------------------------------------------
(* The callbacks *)

\* What somebody works with is nowhere else.
LEMMA Held ==
  ASSUME IInv, YthreadConstants, NEW a \in Actors, NEW x \in Threads, Owns(a, x)
  PROVE  /\ ~Queued(x) /\ state[x] # "TERMINATED" /\ Role(a, x)
         /\ x \in suspended => Suspending(a, x) /\ joining[x] = Null
         /\ \A b \in Actors : Owns(b, x) => b = a
<1>1. Placed(x) /\ Role(a, x) /\ Null \notin Threads
  BY DEF IInv, PlaceInv, YthreadConstants
<1>2. \A b \in Actors : Owns(b, x) => b = a
  BY DEF IInv, PlaceInv, Alone
<1>3. ASSUME NEW b \in Actors, Suspending(b, x) PROVE b = a
  BY <1>1, <1>2, <1>3, SuspendingWorks DEF IInv, PlaceInv, Owns
<1> QED BY <1>1, <1>2, <1>3 DEF Placed, Owned, Role, Owns

\* A step of a callback, which keeps all that a works with but the ULTs of U.
Inside(a, U) ==
    /\ Moves(a)
    /\ DataTypes' /\ Queues'
    /\ \A x \in Threads \ U :
         /\ state'[x] = state[x] /\ joining'[x] = joining[x]
         /\ x \in suspended' => x \in suspended
         /\ Queued(x)' <=> Queued(x)
         /\ Owns(a, x)' <=> Owns(a, x)
         /\ Role(a, x) => Role(a, x)'
         /\ Suspending(a, x) => Suspending(a, x)'
    /\ \A x \in U : Free(a, x) /\ Fine(a, x)'

\* What such a step disturbs is what its actor works with.
LEMMA InsideTouches ==
  ASSUME IInv, YthreadConstants, NEW a \in Actors, NEW U \in SUBSET Threads, Inside(a, U)
  PROVE  \E T \in SUBSET Threads : /\ Touches(a, T) /\ \A t \in T : Fine(a, t)'
                                   /\ \A t \in T : t \in U \/ Owns(a, t)
<1> DEFINE T == {x \in Threads : Owns(a, x)} \cup U
<1>1. Touches(a, T)
  BY DEF Inside, Touches, Free
<1>2. ASSUME NEW x \in T PROVE Fine(a, x)'
  <2>1. CASE x \in U
    BY <2>1 DEF Inside
  <2>2. CASE x \notin U
    <3>1. /\ ~Queued(x) /\ Role(a, x) /\ Owns(a, x)' /\ x \in Threads
          /\ x \in suspended => Suspending(a, x) /\ joining[x] = Null
      BY <2>2, Held DEF Inside
    <3> QED BY <3>1, <2>2 DEF Fine, Inside
  <2> QED BY <2>1, <2>2
<1>3. T \in SUBSET Threads /\ \A t \in T : t \in U \/ Owns(a, t)
  OBVIOUS
<1> HIDE DEF T
<1> QED BY <1>1, <1>2, <1>3

\* If the joins stay as they are the invariant stays.
LEMMA InsideStep ==
  ASSUME IInv, YthreadConstants, NEW a \in Actors, NEW U \in SUBSET Threads, Inside(a, U),
         Quiet(a), Shape(a)'
  PROVE  IInv'
<1>1. PICK T \in SUBSET Threads : Touches(a, T) /\ \A t \in T : Fine(a, t)'
  BY InsideTouches
<1> QED BY <1>1, QuietStep DEF Inside

\* Everybody is in one place, and who is blocked stays so if the step is not about him.
LEMMA InsidePlaces ==
  ASSUME IInv, YthreadConstants, NEW a \in Actors, NEW U \in SUBSET Threads, Inside(a, U),
         Shape(a)'
  PROVE  /\ Types' /\ Queues' /\ PlaceInv'
         /\ \A c \in Threads \ U : state[c] = "BLOCKED" /\ ~Owned(c) =>
              state'[c] = "BLOCKED" /\ ~Owned(c)'
<1>1. PICK T \in SUBSET Threads : /\ Touches(a, T) /\ \A t \in T : Fine(a, t)'
                                  /\ \A t \in T : t \in U \/ Owns(a, t)
  BY InsideTouches
<1>2. /\ PlaceInv'
      /\ \A c \in Threads \ T : state[c] = "BLOCKED" /\ ~Owned(c) =>
           state'[c] = "BLOCKED" /\ ~Owned(c)'
  BY <1>1, PlaceStep DEF IInv, YthreadConstants
<1> QED BY <1>1, <1>2 DEF Inside, Types, Moves, Owned

\* num_blocked stays a count of integers.
LEMMA CountType ==
  ASSUME Types, NEW p, NEW n \in Int, AddNumBlocked(p, n)
  PROVE  num_blocked' \in [Pools -> Int]
<1>1. num_blocked' = [num_blocked EXCEPT ![p] = num_blocked[p] + n]
  BY DEF AddNumBlocked
<1>2. \A q \in Pools : num_blocked'[q] = IF q = p THEN num_blocked[q] + n ELSE num_blocked[q]
  BY <1>1 DEF Types, DataTypes
<1>3. num_blocked' = [q \in Pools |-> num_blocked'[q]]
  BY <1>1 DEF Types, DataTypes
<1>4. \A q \in Pools : num_blocked'[q] \in Int
  BY <1>2 DEF Types, DataTypes
<1> QED BY <1>3, <1>4

\* The callback counts the ULT that it is going to block.
LEMMA IncStep ==
  ASSUME IInv, YthreadConstants, NEW e \in Xstreams, IncNumBlocked(e)
  PROVE  IInv'
<1>1. /\ Types /\ Queues /\ Null \notin Threads /\ e \in Actors /\ Shape(e) /\ JoinOK(e)
      /\ pc[e] = "inc" /\ frame' = frame /\ p_thread' = p_thread
      /\ UNCHANGED <<state, p_pool, request, migration_pool, p_link, p_last_xstream, queue,
                     joining, suspended, freed>>
  BY DEF IInv, PlaceInv, JoinInv, YthreadConstants, Actors, IncNumBlocked, threadVars, descVars,
         userVars
<1>2. PICK l \in {"dec", "request"} :
        /\ pc' = [pc EXCEPT ![e] = l]
        /\ l = IF frame[e].callback = "resume_suspend_to" THEN "dec" ELSE "request"
  BY DEF IncNumBlocked, Goto
<1>3. l \in Locations /\ frame[e] \in Frames
  BY <1>1 DEF Locations, Types, ActorTypes
<1>4. Moves(e) /\ pc'[e] = l /\ frame'[e] = frame[e] /\ Ctx(e)' = Ctx(e)
  BY <1>1, <1>2, <1>3, Goes
<1>5. Queues' /\ \A x : Queued(x)' <=> Queued(x)
  BY <1>1, PoolsSame
<1>6. DataTypes'
  <2>1. num_blocked' \in [Pools -> Int]
    BY <1>1, CountType DEF IncNumBlocked
  <2> QED BY <1>1, <2>1 DEF Types, DataTypes
<1>7. Inside(e, {})
  BY <1>1, <1>2, <1>4, <1>5, <1>6 DEF Inside, Owns, Runs, Works, Wakes, Takes, Role, Suspending
<1>8. Shape(e)'
  BY <1>1, <1>2, <1>4 DEF Shape, NoFrame, Waking, Ctx
<1>9. Quiet(e)
  BY <1>1, <1>2, <1>4, GoneStays DEF Quiet, Carries, Past, JoinOK
<1> QED BY <1>1, <1>7, <1>8, <1>9, InsideStep

\* Every frame is one that the runtime can have.
LEMMA InCallback ==
  ASSUME IInv, YthreadConstants, NEW a \in Actors
  PROVE  /\ Types /\ Queues /\ Null \notin Threads /\ Null \notin Externals
         /\ Shape(a) /\ JoinOK(a) /\ frame[a] \in Frames /\ NoFrame \in Frames
BY DEF IInv, PlaceInv, JoinInv, YthreadConstants, Types, ActorTypes, NoFrame, Frames, Callbacks

\* The callback gives back the count of the ULT that goes on.
LEMMA DecStep ==
  ASSUME IInv, YthreadConstants, NEW e \in Xstreams, DecNumBlocked(e)
  PROVE  IInv'
<1>1. /\ e \in Actors /\ pc[e] = "dec" /\ p_thread' = p_thread
      /\ UNCHANGED <<state, p_pool, request, migration_pool, p_link, p_last_xstream, queue,
                     joining, suspended, freed>>
  BY DEF Actors, DecNumBlocked, threadVars, descVars, userVars
<1>2. /\ Types /\ Queues /\ Null \notin Threads /\ Shape(e) /\ JoinOK(e)
      /\ frame[e] \in Frames /\ NoFrame \in Frames
  BY <1>1, InCallback
<1>3. Queues' /\ \A x : Queued(x)' <=> Queued(x)
  BY <1>1, <1>2, PoolsSame
<1>4. DataTypes'
  <2>1. num_blocked' \in [Pools -> Int]
    BY <1>2, CountType DEF DecNumBlocked
  <2> QED BY <1>1, <1>2, <2>1 DEF Types, DataTypes
<1>5. CASE frame[e].callback = "resume_suspend_to"
  <2>1. pc' = [pc EXCEPT ![e] = "request"] /\ frame' = frame /\ "request" \in Locations
    BY <1>5 DEF DecNumBlocked, Goto, Locations
  <2>2. Moves(e) /\ pc'[e] = "request" /\ frame'[e] = frame[e] /\ Ctx(e)' = Ctx(e)
    BY <1>1, <1>2, <2>1, Goes
  <2>3. Inside(e, {})
    BY <1>1, <1>2, <1>3, <1>4, <1>5, <2>2
       DEF Inside, Owns, Runs, Works, Wakes, Takes, Role, Suspending
  <2>4. Shape(e)'
    BY <1>1, <1>2, <1>5, <2>2 DEF Shape, NoFrame, Waking, Ctx
  <2>5. Quiet(e)
    BY <1>1, <1>2, <1>5, <2>2, GoneStays DEF Quiet, Carries, Past
  <2> QED BY <1>1, <2>3, <2>4, <2>5, InsideStep
<1>6. CASE frame[e].callback # "resume_suspend_to"
  <2>1. /\ pc' = [pc EXCEPT ![e] = "run"] /\ frame' = [frame EXCEPT ![e] = NoFrame]
        /\ "run" \in Locations
    BY <1>6 DEF DecNumBlocked, Goto, Return, Locations
  <2>2. Moves(e) /\ pc'[e] = "run" /\ frame'[e] = NoFrame /\ Ctx(e)' = Ctx(e)
    BY <1>1, <1>2, <2>1, Goes
  <2>3. Inside(e, {})
    BY <1>1, <1>2, <1>3, <1>4, <1>6, <2>2
       DEF Inside, Owns, Runs, Works, Wakes, Takes, Role, Suspending, NoFrame, Shape, Waking
  <2>4. Shape(e)'
    BY <2>2 DEF Shape
  <2>5. Quiet(e)
    BY <1>1, <1>2, <1>6, <2>2, GoneStays DEF Quiet, Carries, Past, NoFrame
  <2> QED BY <1>1, <2>3, <2>4, <2>5, InsideStep
<1> QED BY <1>5, <1>6

\* The joiner is awake.
LEMMA FutexWakeStep ==
  ASSUME IInv, YthreadConstants, NEW e \in Xstreams, FutexWake(e)
  PROVE  IInv'
<1>1. /\ e \in Actors /\ pc[e] = "futex_wake" /\ p_thread' = p_thread /\ frame' = frame
      /\ UNCHANGED <<state, p_pool, request, migration_pool, p_link, p_last_xstream, queue,
                     num_blocked, joining, suspended, freed>>
  BY DEF Actors, FutexWake, threadVars, descVars, userVars, poolVars
<1>2. /\ Types /\ Queues /\ Null \notin Threads /\ Shape(e) /\ frame[e] \in Frames
  BY <1>1, InCallback
<1>3. PICK l \in {"terminate", "leave"} :
        /\ pc' = [pc EXCEPT ![e] = l]
        /\ l = IF frame[e].cancel THEN "terminate" ELSE "leave"
  BY <1>1, <1>2 DEF FutexWake, Goto, AfterWake, Shape, NoFrame
<1>4. l \in Locations
  BY DEF Locations
<1>5. Moves(e) /\ pc'[e] = l /\ frame'[e] = frame[e] /\ Ctx(e)' = Ctx(e)
  BY <1>1, <1>2, <1>3, <1>4, Goes
<1>6. Queues' /\ \A x : Queued(x)' <=> Queued(x)
  BY <1>1, <1>2, PoolsSame
<1>7. DataTypes'
  BY <1>1, <1>2 DEF Types, DataTypes
<1>8. Inside(e, {})
  BY <1>1, <1>2, <1>3, <1>5, <1>6, <1>7
     DEF Inside, Owns, Runs, Works, Wakes, Takes, Role, Suspending, Shape, NoFrame
<1>9. Shape(e)'
  BY <1>1, <1>2, <1>3, <1>5 DEF Shape, NoFrame, Waking
<1>10. Quiet(e)
  BY <1>1, <1>2, <1>3, <1>5, GoneStays DEF Quiet, Carries, Past, Shape, NoFrame
<1> QED BY <1>1, <1>8, <1>9, <1>10, InsideStep

\* How the joiner is woken is decided; whoever it is stays the one that waits.
LEMMA WakeStep ==
  ASSUME IInv, YthreadConstants, NEW e \in Xstreams, Wake(e)
  PROVE  IInv'
<1>1. /\ e \in Actors /\ pc[e] = "wake" /\ p_thread' = p_thread /\ frame' = frame
      /\ UNCHANGED <<state, p_pool, request, migration_pool, p_link, p_last_xstream, queue,
                     joining, suspended, freed>>
  BY DEF Actors, Wake, threadVars, descVars, userVars
<1>2. /\ Types /\ Queues /\ Null \notin Threads /\ Shape(e) /\ JoinOK(e) /\ frame[e] \in Frames
  BY <1>1, InCallback
<1>3. PICK l \in {"futex_wake", "jump", "push"} :
        /\ pc' = [pc EXCEPT ![e] = l]
        /\ l = "futex_wake" => frame[e].p_joiner \in Externals
        /\ l = "jump" => /\ frame[e].p_joiner \in Threads
                         /\ frame[e].callback = "exit" /\ ~frame[e].cancel
        /\ l = "push" => frame[e].p_joiner \in Threads
  BY DEF Wake, Goto
<1>4. l \in Locations
  BY DEF Locations, Waking
<1>5. Moves(e) /\ pc'[e] = l /\ frame'[e] = frame[e] /\ Ctx(e)' = Ctx(e)
  BY <1>1, <1>2, <1>3, <1>4, Goes
<1>6. Queues' /\ \A x : Queued(x)' <=> Queued(x)
  BY <1>1, <1>2, PoolsSame
<1>7. DataTypes'
  <2>1. num_blocked' = num_blocked \/ AddNumBlocked(p_pool[frame[e].p_joiner], -1)
    BY DEF Wake
  <2>2. num_blocked' \in [Pools -> Int]
    BY <1>2, <2>1, CountType DEF Types, DataTypes
  <2> QED BY <1>1, <1>2, <2>2 DEF Types, DataTypes
<1>8. Inside(e, {})
  <2>1. \A x \in Threads : Owns(e, x)' <=> Owns(e, x)
    BY <1>1, <1>2, <1>3, <1>5, YthreadConstants
       DEF YthreadConstants, Owns, Runs, Works, Wakes, Takes
  <2>2. \A x \in Threads : Role(e, x) => Role(e, x)'
    BY <1>1, <1>2, <1>3, <1>5 DEF Role, Runs, Works, Wakes, Takes
  <2> QED BY <1>1, <1>2, <1>5, <1>6, <1>7, <2>1, <2>2 DEF Inside, Suspending
<1>9. Shape(e)'
  BY <1>1, <1>2, <1>3, <1>5 DEF Shape, NoFrame, Waking
<1>10. Quiet(e)
  BY <1>1, <1>2, <1>3, <1>5, GoneStays DEF Quiet, Carries, Past, Shape, NoFrame, JoinOK
<1> QED BY <1>1, <1>8, <1>9, <1>10, InsideStep

\* ABT_thread_yield_to takes its target out of its pool, or finds that it has left.
LEMMA RemoveStep ==
  ASSUME IInv, YthreadConstants, NEW e \in Xstreams, PoolRemove(e)
  PROVE  IInv'
<1> DEFINE s == frame[e].p_next
           t == frame[e].p_prev
<1>1. /\ e \in Actors /\ pc[e] = "remove"
      /\ UNCHANGED <<p_pool, request, migration_pool, p_link, joining, suspended, freed>>
  BY DEF Actors, PoolRemove, descVars, userVars
<1>2. /\ Types /\ Queues /\ Null \notin Threads /\ Shape(e) /\ frame[e] \in Frames
      /\ NoFrame \in Frames
  BY <1>1, InCallback
<1>3. /\ s \in Threads /\ t \in Threads /\ s # t /\ Ctx(e) = t
      /\ frame[e].callback = "thread_yield_to" /\ ~frame[e].cancel
  BY <1>1, <1>2 DEF Shape, Frames, NoFrame, Waking
<1>4. CASE IsInPool(s)
  <2>1. /\ RemoveFromPool(s) /\ state' = [state EXCEPT ![s] = "RUNNING"]
        /\ p_thread' = [p_thread EXCEPT ![e] = s]
        /\ p_last_xstream' = [p_last_xstream EXCEPT ![s] = e]
        /\ pc' = [pc EXCEPT ![e] = "request"] /\ UNCHANGED <<num_blocked, frame>>
    BY <1>4 DEF PoolRemove, SetState, SwitchToSibling, Goto
  <2>2. /\ Queues' /\ queue' \in [Pools -> Seq(Threads)] /\ Queued(s)
        /\ \A x \in Threads : Queued(x)' <=> x # s /\ Queued(x)
    BY <1>1, <1>2, <1>3, <2>1, PoolRemoves
  <2>3. "request" \in Locations
    BY DEF Locations
  <2>4. Moves(e) /\ pc'[e] = "request" /\ frame'[e] = frame[e] /\ Ctx(e)' = s
    BY <1>1, <1>2, <1>3, <2>1, <2>3, Goes
  <2>5. DataTypes'
    BY <1>1, <1>2, <1>3, <2>1, <2>2 DEF Types, DataTypes
  <2>6. s \notin suspended /\ state[s] = "READY" /\ ~Owned(s)
    BY <1>3, <2>2, AtHand
  <2>7. Fine(e, s)'
    BY <1>1, <1>2, <1>3, <2>1, <2>2, <2>4, <2>6
       DEF Fine, Role, Runs, Works, Wakes, Takes, Owns, Types, DataTypes
  <2>8. Inside(e, {s})
    BY <1>1, <1>2, <1>3, <2>1, <2>2, <2>4, <2>5, <2>6, <2>7
       DEF Inside, Free, Owns, Runs, Works, Wakes, Takes, Role, Suspending, Types, DataTypes
  <2>9. Shape(e)'
    BY <1>1, <1>2, <1>3, <2>4 DEF Shape, Waking
  <2>10. \A x \in Threads : state'[x] = "TERMINATED" <=> state[x] = "TERMINATED"
    BY <1>2, <1>3, <2>1, <2>6 DEF Types, DataTypes
  <2>11. Quiet(e)
    BY <1>1, <1>2, <1>3, <2>4, <2>10, GoneStays DEF Quiet, Carries, Past
  <2> QED BY <1>1, <1>3, <2>8, <2>9, <2>11, InsideStep
<1>5. CASE ~IsInPool(s)
  <2>1. /\ AddNumBlocked(p_pool[frame[e].p_prev], -1)
        /\ pc' = [pc EXCEPT ![e] = "run"] /\ frame' = [frame EXCEPT ![e] = NoFrame]
        /\ UNCHANGED <<state, p_last_xstream, queue, p_thread>>
    BY <1>5 DEF PoolRemove, Return, Goto
  <2>2. Queues' /\ \A x : Queued(x)' <=> Queued(x)
    BY <1>1, <1>2, <2>1, PoolsSame
  <2>3. "run" \in Locations
    BY DEF Locations
  <2>4. Moves(e) /\ pc'[e] = "run" /\ frame'[e] = NoFrame /\ Ctx(e)' = Ctx(e)
    BY <1>1, <1>2, <2>1, <2>3, Goes
  <2>5. DataTypes'
    <3>1. num_blocked' \in [Pools -> Int]
      BY <1>2, <2>1, CountType
    <3> QED BY <1>1, <1>2, <2>1, <3>1 DEF Types, DataTypes
  <2>6. Inside(e, {})
    BY <1>1, <1>2, <1>3, <2>1, <2>2, <2>4, <2>5
       DEF Inside, Owns, Runs, Works, Wakes, Takes, Role, Suspending, NoFrame
  <2>7. Shape(e)'
    BY <2>4 DEF Shape
  <2>8. Quiet(e)
    BY <1>1, <1>2, <1>3, <2>1, <2>4, GoneStays DEF Quiet, Carries, Past, NoFrame
  <2> QED BY <1>1, <2>6, <2>7, <2>8, InsideStep
<1> QED BY <1>4, <1>5
\* The callback works with the ULT it finishes a switch for.
LEMMA Prev ==
  ASSUME IInv, YthreadConstants, NEW e \in Actors, pc[e] \notin {"run", "join", "dec"},
         frame[e].p_prev # Null
  PROVE  LET t == frame[e].p_prev IN
         /\ t \in Threads /\ Works(e, t) /\ Owns(e, t) /\ ~Queued(t) /\ Role(e, t)
         /\ state[t] # "TERMINATED" /\ (t \in suspended => Suspending(e, t) /\ joining[t] = Null)
<1>1. frame[e].p_prev \in Threads
  BY InCallback DEF Frames
<1>2. Works(e, frame[e].p_prev) /\ Owns(e, frame[e].p_prev)
  BY DEF Works, Owns
<1> QED BY <1>1, <1>2, Held

\* Requests of cancellation and migration are handled before the ULT goes on.
LEMMA HandleRequestStep ==
  ASSUME IInv, YthreadConstants, NEW e \in Xstreams, HandleRequest(e)
  PROVE  IInv'
<1>0. PICK t : t = frame[e].p_prev
  OBVIOUS
<1> DEFINE cb == frame[e].callback
<1>1. /\ e \in Actors /\ pc[e] = "request"
      /\ UNCHANGED <<migration_pool, p_link, queue, num_blocked, joining, suspended, freed>>
  BY DEF Actors, HandleRequest, userVars, poolVars
<1>2. /\ Types /\ Queues /\ Null \notin Threads /\ Shape(e) /\ JoinOK(e) /\ frame[e] \in Frames
      /\ NoFrame \in Frames
  BY <1>1, InCallback
<1>3. t # Null /\ cb # "resume" /\ Ctx(e) # t
  BY <1>0, <1>1, <1>2 DEF Shape, Waking
<1>4. /\ t \in Threads /\ Works(e, t) /\ Owns(e, t) /\ ~Queued(t) /\ Role(e, t)
      /\ state[t] # "TERMINATED" /\ (t \in suspended => Suspending(e, t))
  BY <1>0, <1>1, <1>3, Prev
<1>5. /\ request' \in [Threads -> SUBSET {"JOIN", "CANCEL", "MIGRATE"}]
      /\ \A x \in Threads : /\ "JOIN" \in request'[x] <=> "JOIN" \in request[x]
                            /\ "MIGRATE" \in request'[x] => "MIGRATE" \in request[x]
  <2>1. request' = request \/ request' = [request EXCEPT ![t] = @ \ {"MIGRATE"}]
    BY <1>0 DEF HandleRequest
  <2>2. ASSUME NEW x \in Threads
        PROVE  request'[x] = request[x] \/ request'[x] = request[x] \ {"MIGRATE"}
    BY <1>2, <1>4, <2>1 DEF Types, DataTypes
  <2>3. ASSUME NEW x \in Threads PROVE request'[x] \in SUBSET {"JOIN", "CANCEL", "MIGRATE"}
    <3>1. request[x] \in SUBSET {"JOIN", "CANCEL", "MIGRATE"}
      BY <1>2 DEF Types, DataTypes
    <3> QED BY <3>1, <2>2
  <2>4. request' = [x \in Threads |-> request'[x]]
    BY <1>2, <2>1 DEF Types, DataTypes
  <2> QED BY <2>2, <2>3, <2>4
<1>6. /\ p_pool' \in [Threads -> Pools]
      /\ \A x \in Threads \ {t} : p_pool'[x] = p_pool[x]
  <2>1. \/ p_pool' = p_pool
        \/ "MIGRATE" \in request[t] /\ p_pool' = [p_pool EXCEPT ![t] = migration_pool[t]]
    BY <1>0 DEF HandleRequest
  <2> QED BY <1>2, <1>4, <2>1 DEF Types, DataTypes
<1>7. Queues' /\ \A x : Queued(x)' <=> Queued(x)
  BY <1>1, <1>2, <1>4, <1>6, PoolsSame
<1> DEFINE runs == ~("MIGRATE" \in request[t]) /\ ~("CANCEL" \in request[t] /\ ~IsSuspension(e))
                   /\ cb = "schedule"
<1>8. CASE runs
  <2>1. /\ frame' = [frame EXCEPT ![e] = NoFrame] /\ pc' = [pc EXCEPT ![e] = "run"]
        /\ p_thread' = [p_thread EXCEPT ![e] = t] /\ state' = [state EXCEPT ![t] = "RUNNING"]
        /\ p_last_xstream' = [p_last_xstream EXCEPT ![t] = e] /\ cb = "schedule"
    BY <1>0, <1>8 DEF HandleRequest, SetState, SwitchToSibling, Goto
  <2>2. "run" \in Locations /\ "run" # "TERMINATED"
    BY DEF Locations
  <2>3. Moves(e) /\ pc'[e] = "run" /\ frame'[e] = NoFrame /\ Ctx(e)' = t
    BY <1>1, <1>2, <1>4, <2>1, <2>2, Goes
  <2>4. DataTypes'
    BY <1>1, <1>2, <1>4, <1>5, <1>6, <2>1 DEF Types, DataTypes
  <2>5. Ctx(e) = Null /\ t \notin suspended
    BY <1>1, <1>2, <1>4, <2>1 DEF Shape, Suspending
  <2>6. state'[t] = "RUNNING" /\ \A x \in Threads \ {t} : state'[x] = state[x]
    BY <1>2, <1>4, <2>1 DEF Types, DataTypes
  <2>7. Fine(e, t)'
    BY <1>1, <1>2, <1>4, <1>7, <2>3, <2>5, <2>6
       DEF Fine, Role, Runs, Works, Wakes, Takes, Owns, NoFrame
  <2>8. Inside(e, {t})
    BY <1>1, <1>2, <1>4, <1>7, <2>1, <2>3, <2>4, <2>5, <2>6, <2>7
       DEF Inside, Free, Owns, Runs, Works, Wakes, Takes, Role, Suspending, NoFrame
  <2>9. Shape(e)'
    BY <2>3 DEF Shape
  <2>10. \A x \in Threads : state'[x] = "TERMINATED" <=> state[x] = "TERMINATED"
    BY <1>4, <2>6
  <2>11. Quiet(e)
    BY <1>1, <1>5, <2>3, <2>10, GoneStays DEF Quiet, Carries, Past, NoFrame
  <2> QED BY <1>1, <1>4, <2>8, <2>9, <2>11, InsideStep
<1>9. CASE ~runs
  <2>1. PICK l \in {"load_link", "block", "add"}, c \in BOOLEAN :
          /\ pc' = [pc EXCEPT ![e] = l] /\ frame' = [frame EXCEPT ![e].cancel = c]
          /\ l = "load_link" <=> c
          /\ l = "block" <=> IsSuspension(e)
    BY <1>0, <1>9 DEF HandleRequest, Goto
  <2>2. UNCHANGED <<state, p_thread, p_last_xstream>>
    BY <1>0, <1>9 DEF HandleRequest
  <2>3. PICK f \in Frames :
          /\ frame' = [frame EXCEPT ![e] = f]
          /\ f.callback = cb /\ f.p_prev = t /\ f.p_next = frame[e].p_next
          /\ f.p_joiner = frame[e].p_joiner /\ f.cancel = c
    <3> DEFINE g == [frame[e] EXCEPT !.cancel = c]
    <3>1. /\ g \in Frames
          /\ g.callback = cb /\ g.p_prev = t /\ g.p_next = frame[e].p_next
          /\ g.p_joiner = frame[e].p_joiner /\ g.cancel = c
      BY <1>0, <1>2 DEF Frames
    <3>2. frame' = [frame EXCEPT ![e] = g]
      BY ONLY <2>1
    <3> QED BY <3>1, <3>2
  <2>4. l \in Locations /\ pc' = [pc EXCEPT ![e] = l]
    BY <2>1 DEF Locations, Waking
  <2>5. Moves(e) /\ pc'[e] = l /\ frame'[e] = f /\ Ctx(e)' = Ctx(e)
    BY <1>1, <1>2, <2>2, <2>3, <2>4, Goes
  <2>6. DataTypes'
    BY <1>1, <1>2, <1>5, <1>6, <2>2 DEF Types, DataTypes
  <2>7. Inside(e, {})
    BY <1>0, <1>1, <1>2, <1>7, <2>1, <2>2, <2>3, <2>5, <2>6
       DEF Inside, Owns, Runs, Works, Wakes, Takes, Role, Suspending
  <2>8. Shape(e)'
    BY <1>0, <1>1, <1>2, <1>3, <2>1, <2>3, <2>5 DEF Shape, NoFrame, Waking, IsSuspension
  <2>9. Quiet(e)
    BY <1>0, <1>1, <1>2, <1>5, <2>1, <2>2, <2>3, <2>5, GoneStays DEF Quiet, Carries, Past, JoinOK
  <2> QED BY <1>1, <2>7, <2>8, <2>9, InsideStep
<1> QED BY <1>8, <1>9
\* The callback of a yield puts the ULT back into its pool.
LEMMA AddStep ==
  ASSUME IInv, YthreadConstants, NEW e \in Xstreams, Add(e)
  PROVE  IInv'
<1>0. PICK t : t = frame[e].p_prev
  OBVIOUS
<1>1. /\ e \in Actors /\ pc[e] = "add" /\ p_thread' = p_thread /\ AddThread(t)
      /\ UNCHANGED <<p_pool, request, migration_pool, p_link, p_last_xstream, num_blocked,
                     joining, suspended, freed>>
  BY <1>0 DEF Actors, Add, descVars, userVars
<1>2. /\ Types /\ Queues /\ Null \notin Threads /\ Shape(e) /\ frame[e] \in Frames
      /\ NoFrame \in Frames
  BY <1>1, InCallback
<1>3. /\ t # Null /\ Ctx(e) # t /\ t # frame[e].p_next
      /\ frame[e].callback \in {"yield", "schedule", "thread_yield_to", "resume_yield_to"}
  BY <1>0, <1>1, <1>2 DEF Shape, Waking
<1>4. /\ t \in Threads /\ Works(e, t) /\ Owns(e, t) /\ ~Queued(t)
      /\ state[t] # "TERMINATED" /\ t \notin suspended
  BY <1>0, <1>1, <1>3, Prev DEF Suspending
<1>5. PICK l \in {"dec", "run"}, f \in Frames :
        /\ pc' = [pc EXCEPT ![e] = l]
        /\ frame' = [frame EXCEPT ![e] = f] \/ (frame' = frame /\ f = frame[e])
        /\ f = IF l = "dec" THEN frame[e] ELSE NoFrame
        /\ l = "dec" <=> frame[e].callback \in {"thread_yield_to", "resume_yield_to"}
  BY <1>2 DEF Add, Goto, Return
<1>6. l \in Locations
  BY DEF Locations
<1>7. Moves(e) /\ pc'[e] = l /\ frame'[e] = f /\ Ctx(e)' = Ctx(e)
  BY <1>1, <1>2, <1>5, <1>6, Goes
<1>8. state' = [state EXCEPT ![t] = "READY"] /\ queue' = [queue EXCEPT ![p_pool[t]] = Append(@, t)]
  BY <1>1 DEF AddThread, SetState
<1>9. /\ Queues' /\ queue' \in [Pools -> Seq(Threads)]
      /\ \A x \in Threads : Queued(x)' <=> x = t \/ Queued(x)
  <2>1. /\ p_pool[t] \in Pools /\ p_pool'[t] = p_pool[t]
        /\ \A x \in Threads \ {t} : p_pool'[x] = p_pool[x]
    BY <1>1, <1>2, <1>4 DEF Types, DataTypes
  <2> QED BY <1>2, <1>4, <1>8, <2>1, PoolAppend
<1>10. DataTypes'
  BY <1>1, <1>2, <1>4, <1>8, <1>9 DEF Types, DataTypes
<1>11. state'[t] = "READY" /\ \A x \in Threads \ {t} : state'[x] = state[x]
  BY <1>2, <1>4, <1>8 DEF Types, DataTypes
<1>12. Fine(e, t)'
  BY <1>0, <1>1, <1>2, <1>3, <1>4, <1>5, <1>7, <1>9, <1>11
     DEF Fine, Role, Runs, Works, Wakes, Takes, Owns, NoFrame
<1>13. Inside(e, {t})
  BY <1>0, <1>1, <1>2, <1>3, <1>4, <1>5, <1>7, <1>9, <1>10, <1>11, <1>12
     DEF Inside, Free, Owns, Runs, Works, Wakes, Takes, Role, Suspending, NoFrame
<1>14. Shape(e)'
  BY <1>0, <1>1, <1>2, <1>3, <1>5, <1>7 DEF Shape, Waking, NoFrame
<1>15. \A x \in Threads : state'[x] = "TERMINATED" <=> state[x] = "TERMINATED"
  BY <1>4, <1>11
<1>16. Quiet(e)
  BY <1>1, <1>3, <1>5, <1>7, <1>15, GoneStays DEF Quiet, Carries, Past, NoFrame
<1> QED BY <1>1, <1>4, <1>13, <1>14, <1>16, InsideStep

\* The callback of a suspension lets go of the ULT, that of a join not yet.
LEMMA BlockStep ==
  ASSUME IInv, YthreadConstants, NEW e \in Xstreams, Block(e)
  PROVE  IInv'
<1>0. PICK t : t = frame[e].p_prev
  OBVIOUS
<1>1. /\ e \in Actors /\ pc[e] = "block" /\ p_thread' = p_thread
      /\ state' = [state EXCEPT ![t] = "BLOCKED"]
      /\ UNCHANGED <<p_pool, request, migration_pool, p_link, p_last_xstream, num_blocked, queue,
                     joining, suspended, freed>>
  BY <1>0 DEF Actors, Block, descVars, userVars, poolVars, SetState
<1>2. /\ Types /\ Queues /\ Null \notin Threads /\ Shape(e) /\ frame[e] \in Frames
      /\ NoFrame \in Frames
  BY <1>1, InCallback
<1>3. /\ t # Null /\ Ctx(e) # t
      /\ frame[e].callback \in {"suspend", "resume_suspend_to", "suspend_join"}
  BY <1>0, <1>1, <1>2 DEF Shape, Waking
<1>4. /\ t \in Threads /\ Works(e, t) /\ Owns(e, t) /\ ~Queued(t) /\ state[t] # "TERMINATED"
      /\ t \in suspended => Suspending(e, t) /\ joining[t] = Null
  BY <1>0, <1>1, <1>3, Prev
<1>5. PICK l \in {"link", "run"}, f \in Frames :
        /\ pc' = [pc EXCEPT ![e] = l]
        /\ frame' = [frame EXCEPT ![e] = f] \/ (frame' = frame /\ f = frame[e])
        /\ f = IF l = "link" THEN frame[e] ELSE NoFrame
        /\ l = "link" <=> frame[e].callback = "suspend_join"
  BY <1>2 DEF Block, Goto, Return
<1>6. l \in Locations
  BY DEF Locations
<1>7. Moves(e) /\ pc'[e] = l /\ frame'[e] = f /\ Ctx(e)' = Ctx(e)
  BY <1>1, <1>2, <1>5, <1>6, Goes
<1>8. Queues' /\ \A x : Queued(x)' <=> Queued(x)
  BY <1>1, <1>2, PoolsSame
<1>9. state'[t] = "BLOCKED" /\ \A x \in Threads \ {t} : state'[x] = state[x]
  BY <1>1, <1>2, <1>4 DEF Types, DataTypes
<1>10. DataTypes'
  BY <1>1, <1>2, <1>4, <1>8 DEF Types, DataTypes
<1>11. Fine(e, t)'
  BY <1>0, <1>1, <1>2, <1>3, <1>4, <1>5, <1>7, <1>8, <1>9
     DEF Fine, Role, Runs, Works, Wakes, Takes, Owns, NoFrame, Suspending
<1>12. Inside(e, {t})
  BY <1>0, <1>1, <1>2, <1>3, <1>4, <1>5, <1>7, <1>8, <1>9, <1>10, <1>11
     DEF Inside, Free, Owns, Runs, Works, Wakes, Takes, Role, Suspending, NoFrame
<1>13. Shape(e)'
  BY <1>0, <1>1, <1>2, <1>3, <1>5, <1>7 DEF Shape, Waking, NoFrame
<1>14. \A x \in Threads : state'[x] = "TERMINATED" <=> state[x] = "TERMINATED"
  BY <1>4, <1>9
<1>15. Quiet(e)
  BY <1>1, <1>3, <1>5, <1>7, <1>14, GoneStays DEF Quiet, Carries, Past, NoFrame
<1> QED BY <1>1, <1>4, <1>12, <1>13, <1>15, InsideStep

\* TERMINATED is the callback's last word about the ULT.
LEMMA TerminateStep ==
  ASSUME IInv, YthreadConstants, NEW e \in Xstreams, Terminate(e)
  PROVE  IInv'
<1>0. PICK t : t = frame[e].p_prev
  OBVIOUS
<1>1. /\ e \in Actors /\ pc[e] = "terminate" /\ p_thread' = p_thread
      /\ state' = [state EXCEPT ![t] = "TERMINATED"]
      /\ UNCHANGED <<p_pool, request, migration_pool, p_link, p_last_xstream, num_blocked, queue,
                     joining, suspended, freed>>
  BY <1>0 DEF Actors, Terminate, descVars, userVars, poolVars, SetState
<1>2. /\ Types /\ Queues /\ Null \notin Threads /\ Shape(e) /\ frame[e] \in Frames
      /\ NoFrame \in Frames
  BY <1>1, InCallback
<1>3. /\ t # Null /\ Ctx(e) # t /\ t # frame[e].p_next
      /\ frame[e].callback \notin {"suspend", "resume_suspend_to", "suspend_join"}
      /\ frame[e].callback \in {"thread_yield_to", "resume_yield_to", "resume_exit_to"} =>
           frame[e].p_next = Ctx(e) /\ Ctx(e) # Null
  BY <1>0, <1>1, <1>2 DEF Shape, Waking
<1>4. /\ t \in Threads /\ Works(e, t) /\ Owns(e, t) /\ ~Queued(t) /\ t \notin suspended
  BY <1>0, <1>1, <1>3, Prev DEF Suspending
<1>5. PICK l \in {"dec", "run"}, f \in Frames :
        /\ pc' = [pc EXCEPT ![e] = l]
        /\ frame' = [frame EXCEPT ![e] = f] \/ (frame' = frame /\ f = frame[e])
        /\ f = IF l = "dec" THEN frame[e] ELSE NoFrame
        /\ l = "dec" <=> frame[e].callback \in {"thread_yield_to", "resume_yield_to",
                                                 "resume_exit_to"}
  BY <1>2 DEF Terminate, Goto, Return
<1>6. l \in Locations
  BY DEF Locations
<1>7. Moves(e) /\ pc'[e] = l /\ frame'[e] = f /\ Ctx(e)' = Ctx(e)
  BY <1>1, <1>2, <1>5, <1>6, Goes
<1>8. Queues' /\ \A x : Queued(x)' <=> Queued(x)
  BY <1>1, <1>2, PoolsSame
<1>9. state'[t] = "TERMINATED" /\ \A x \in Threads \ {t} : state'[x] = state[x]
  BY <1>1, <1>2, <1>4 DEF Types, DataTypes
<1>10. DataTypes'
  BY <1>1, <1>2, <1>4, <1>8 DEF Types, DataTypes
<1>11. Fine(e, t)'
  BY <1>0, <1>1, <1>2, <1>3, <1>4, <1>5, <1>7, <1>8, <1>9
     DEF Fine, Role, Runs, Works, Wakes, Takes, Owns, NoFrame
<1>12. Inside(e, {t})
  BY <1>0, <1>1, <1>2, <1>3, <1>4, <1>5, <1>7, <1>8, <1>9, <1>10, <1>11
     DEF Inside, Free, Owns, Runs, Works, Wakes, Takes, Role, Suspending, NoFrame
<1>13. Shape(e)'
  BY <1>0, <1>1, <1>2, <1>3, <1>5, <1>7 DEF Shape, Waking, NoFrame
<1>14. ASSUME NEW x \in Threads PROVE Gone(x)' <=> Gone(x)
  <2>1. CASE x = t
    BY <1>0, <1>1, <1>9, <2>1 DEF Gone, Past
  <2>2. CASE x # t
    BY <1>0, <1>1, <1>2, <1>5, <1>7, <1>9, <2>2, GoneStays DEF Past, NoFrame
  <2> QED BY <2>1, <2>2
<1>15. Quiet(e)
  BY <1>1, <1>3, <1>5, <1>7, <1>14 DEF Quiet, Carries, NoFrame
<1> QED BY <1>1, <1>4, <1>12, <1>13, <1>15, InsideStep
\* A joiner that is being woken belongs to whoever wakes it.
LEMMA Woken ==
  ASSUME IInv, YthreadConstants, NEW a \in Actors, pc[a] \in {"wake", "push", "jump"},
         frame[a].p_joiner \in Threads
  PROVE  LET j == frame[a].p_joiner IN
         /\ Owns(a, j) /\ state[j] = "BLOCKED" /\ ~Queued(j) /\ j \notin suspended
         /\ ~Runs(a, j) /\ ~Works(a, j) /\ ~Takes(a, j)
<1> DEFINE j == frame[a].p_joiner
<1>1. Wakes(a, j) /\ Owns(a, j)
  BY DEF Wakes, Owns
<1>2. ~Queued(j) /\ Role(a, j) /\ (j \in suspended => Suspending(a, j))
  BY <1>1, Held
<1>3. state[j] = "BLOCKED" /\ ~Runs(a, j) /\ ~Works(a, j)
  BY <1>1, <1>2 DEF Role
<1>4. Shape(a) /\ Null \notin Threads
  BY InCallback
<1>5. ~Suspending(a, j) /\ ~Takes(a, j)
  BY <1>3, <1>4, SuspendingWorks DEF Shape, Takes
<1> QED BY <1>1, <1>2, <1>3, <1>5

\* A plain exit goes to its joiner itself.
LEMMA JumpStep ==
  ASSUME IInv, YthreadConstants, NEW e \in Xstreams, Jump(e)
  PROVE  IInv'
<1>0. PICK j : j = frame[e].p_joiner
  OBVIOUS
<1>1. /\ e \in Actors /\ pc[e] = "jump" /\ frame' = frame
      /\ state' = [state EXCEPT ![j] = "RUNNING"]
      /\ p_thread' = [p_thread EXCEPT ![e] = j] /\ pc' = [pc EXCEPT ![e] = "terminate"]
      /\ p_last_xstream' = [p_last_xstream EXCEPT ![j] = e]
      /\ UNCHANGED <<p_pool, request, migration_pool, p_link, num_blocked, queue,
                     joining, suspended, freed>>
  BY <1>0 DEF Actors, Jump, descVars, userVars, poolVars, SetState, SwitchToSibling, Goto
<1>2. /\ Types /\ Queues /\ Null \notin Threads /\ Shape(e) /\ frame[e] \in Frames
  BY <1>1, InCallback
<1>3. /\ j \in Threads /\ frame[e].callback = "exit" /\ frame[e].p_prev = Ctx(e)
      /\ frame[e].p_next = Null /\ ~frame[e].cancel /\ frame[e].p_prev # Null
  BY <1>0, <1>1, <1>2 DEF Shape, Waking, NoFrame
<1>4. /\ Owns(e, j) /\ state[j] = "BLOCKED" /\ ~Queued(j) /\ j \notin suspended
      /\ ~Runs(e, j) /\ ~Works(e, j) /\ ~Takes(e, j)
  BY <1>0, <1>1, <1>3, Woken
<1>5. "terminate" \in Locations
  BY DEF Locations
<1>6. Moves(e) /\ pc'[e] = "terminate" /\ frame'[e] = frame[e] /\ Ctx(e)' = j
  BY <1>1, <1>2, <1>3, <1>5, Goes
<1>7. Queues' /\ \A x : Queued(x)' <=> Queued(x)
  BY <1>1, <1>2, PoolsSame
<1>8. state'[j] = "RUNNING" /\ \A x \in Threads \ {j} : state'[x] = state[x]
  BY <1>1, <1>2, <1>3 DEF Types, DataTypes
<1>9. DataTypes'
  BY <1>1, <1>2, <1>3, <1>7 DEF Types, DataTypes
<1>10. Fine(e, j)'
  BY <1>1, <1>2, <1>3, <1>4, <1>6, <1>7, <1>8
     DEF Fine, Role, Runs, Works, Wakes, Takes, Owns
<1>11. Inside(e, {j})
  BY <1>0, <1>1, <1>2, <1>3, <1>4, <1>6, <1>7, <1>8, <1>9, <1>10
     DEF Inside, Free, Owns, Runs, Works, Wakes, Takes, Role, Suspending
<1>12. Shape(e)'
  BY <1>1, <1>2, <1>3, <1>4, <1>6 DEF Shape, Waking, Runs
<1>13. \A x \in Threads : state'[x] = "TERMINATED" <=> state[x] = "TERMINATED"
  BY <1>4, <1>8
<1>14. Quiet(e)
  BY <1>1, <1>3, <1>6, <1>13, GoneStays DEF Quiet, Carries, Past
<1> QED BY <1>1, <1>3, <1>11, <1>12, <1>14, InsideStep

\* The exiting ULT leaves its stack.
LEMMA LeaveStep ==
  ASSUME IInv, YthreadConstants, NEW e \in Xstreams, Leave(e)
  PROVE  IInv'
<1>0. PICK s : s = frame[e].p_next
  OBVIOUS
<1>1. /\ e \in Actors /\ pc[e] = "leave" /\ frame' = frame /\ pc' = [pc EXCEPT ![e] = "terminate"]
      /\ UNCHANGED <<p_pool, request, migration_pool, p_link, num_blocked, queue,
                     joining, suspended, freed>>
  BY <1>0 DEF Actors, Leave, descVars, userVars, poolVars, Goto
<1>2. /\ Types /\ Queues /\ Null \notin Threads /\ Shape(e) /\ frame[e] \in Frames
      /\ "terminate" \in Locations
  BY <1>1, InCallback DEF Locations
<1>3. /\ frame[e].p_prev = Ctx(e) /\ Ctx(e) # Null /\ ~frame[e].cancel /\ Ctx(e) # s
      /\ \/ frame[e].callback = "exit" /\ s = Null
         \/ frame[e].callback \in {"exit_to", "resume_exit_to"} /\ s \in Threads
  BY <1>0, <1>1, <1>2 DEF Shape, Waking, NoFrame, Frames
<1>4. Queues' /\ \A x : Queued(x)' <=> Queued(x)
  BY <1>1, <1>2, PoolsSame
<1>5. CASE frame[e].callback = "exit"
  <2>1. p_thread' = [p_thread EXCEPT ![e] = Null] /\ state' = state
        /\ p_last_xstream' = p_last_xstream
    BY <1>5 DEF Leave, SwitchToParent
  <2>2. Moves(e) /\ pc'[e] = "terminate" /\ frame'[e] = frame[e] /\ Ctx(e)' = Null
    BY <1>1, <1>2, <2>1, Goes
  <2>3. DataTypes'
    BY <1>1, <1>2, <1>4, <2>1 DEF Types, DataTypes
  <2>4. Inside(e, {})
    BY <1>1, <1>2, <1>3, <1>4, <1>5, <2>1, <2>2, <2>3
       DEF Inside, Owns, Runs, Works, Wakes, Takes, Role, Suspending
  <2>5. Shape(e)'
    BY <1>1, <1>2, <1>3, <1>5, <2>2 DEF Shape, Waking
  <2>6. Quiet(e)
    BY <1>1, <1>5, <2>1, <2>2, GoneStays DEF Quiet, Carries, Past
  <2> QED BY <1>1, <2>4, <2>5, <2>6, InsideStep
<1>6. CASE frame[e].callback # "exit"
  <2>1. /\ p_thread' = [p_thread EXCEPT ![e] = s] /\ state' = [state EXCEPT ![s] = "RUNNING"]
        /\ p_last_xstream' = [p_last_xstream EXCEPT ![s] = e]
    BY <1>0, <1>6 DEF Leave, SwitchToSibling, SetState
  <2>2. /\ frame[e].callback \in {"exit_to", "resume_exit_to"} /\ s \in Threads
        /\ Takes(e, s) /\ Owns(e, s)
    BY <1>0, <1>1, <1>3, <1>6 DEF Takes, Owns
  <2>3. Moves(e) /\ pc'[e] = "terminate" /\ frame'[e] = frame[e] /\ Ctx(e)' = s
    BY <1>1, <1>2, <2>1, <2>2, Goes
  <2>4. DataTypes'
    BY <1>1, <1>2, <1>4, <2>1, <2>2 DEF Types, DataTypes
  <2>5. ~Queued(s) /\ state[s] # "TERMINATED" /\ s \notin suspended
    BY <1>1, <2>2, Held DEF Suspending
  <2>6. state'[s] = "RUNNING" /\ \A x \in Threads \ {s} : state'[x] = state[x]
    BY <1>2, <2>1, <2>2 DEF Types, DataTypes
  <2>7. Fine(e, s)'
    BY <1>0, <1>1, <1>2, <1>3, <1>4, <2>2, <2>3, <2>5, <2>6
       DEF Fine, Role, Runs, Works, Wakes, Takes, Owns
  <2>8. Inside(e, {s})
    BY <1>0, <1>1, <1>2, <1>3, <1>4, <2>2, <2>3, <2>4, <2>5, <2>6, <2>7
       DEF Inside, Free, Owns, Runs, Works, Wakes, Takes, Role, Suspending
  <2>9. Shape(e)'
    BY <1>0, <1>1, <1>2, <1>3, <2>2, <2>3 DEF Shape, Waking
  <2>10. \A x \in Threads : state'[x] = "TERMINATED" <=> state[x] = "TERMINATED"
    BY <2>5, <2>6
  <2>11. Quiet(e)
    BY <1>1, <2>2, <2>3, <2>10, GoneStays DEF Quiet, Carries, Past
  <2> QED BY <1>1, <2>2, <2>8, <2>9, <2>11, InsideStep
<1> QED BY <1>5, <1>6

\* ABTI_ythread_resume_and_push: from here on the joiner is in its pool.
LEMMA ResumeAndPushStep ==
  ASSUME IInv, YthreadConstants, NEW a \in Actors, ResumeAndPush(a)
  PROVE  IInv'
<1>0. PICK j : j = frame[a].p_joiner
  OBVIOUS
<1>1. /\ pc[a] = "push" /\ p_thread' = p_thread /\ pc' = [pc EXCEPT ![a] = "push_dec"]
      /\ AddThread(j) /\ frame' = [frame EXCEPT ![a].p_joiner_pool = p_pool[j]]
      /\ UNCHANGED <<p_pool, request, migration_pool, p_link, p_last_xstream, num_blocked,
                     joining, suspended, freed>>
  BY <1>0 DEF ResumeAndPush, descVars, userVars, Goto
<1>2. /\ Types /\ Queues /\ Null \notin Threads /\ Shape(a) /\ frame[a] \in Frames
      /\ "push_dec" \in Locations
  BY <1>1, InCallback DEF Locations, Waking
<1>3. /\ j \in Threads /\ frame[a].callback \notin {"suspend_join", "suspend", "resume_suspend_to"}
  BY <1>0, <1>1, <1>2 DEF Shape, Waking
<1>4. /\ Owns(a, j) /\ state[j] = "BLOCKED" /\ ~Queued(j) /\ j \notin suspended
      /\ ~Runs(a, j) /\ ~Works(a, j) /\ ~Takes(a, j)
  BY <1>0, <1>1, <1>3, Woken
<1>5. /\ p_pool[j] \in Pools /\ p_pool'[j] = p_pool[j]
      /\ \A x \in Threads \ {j} : p_pool'[x] = p_pool[x]
  BY <1>1, <1>2, <1>3 DEF Types, DataTypes
<1>6. PICK f \in Frames :
        /\ frame' = [frame EXCEPT ![a] = f]
        /\ f.callback = frame[a].callback /\ f.p_prev = frame[a].p_prev
        /\ f.p_next = frame[a].p_next /\ f.p_joiner = j /\ f.cancel = frame[a].cancel
  <2> DEFINE g == [frame[a] EXCEPT !.p_joiner_pool = p_pool[j]]
  <2>1. /\ g \in Frames
        /\ g.callback = frame[a].callback /\ g.p_prev = frame[a].p_prev
        /\ g.p_next = frame[a].p_next /\ g.p_joiner = j /\ g.cancel = frame[a].cancel
    BY <1>0, <1>2, <1>5 DEF Frames
  <2>2. frame' = [frame EXCEPT ![a] = g]
    BY ONLY <1>1
  <2> QED BY <2>1, <2>2
<1>7. pc' = [pc EXCEPT ![a] = "push_dec"] /\ p_thread' = p_thread
  BY <1>1
<1>8. Moves(a) /\ pc'[a] = "push_dec" /\ frame'[a] = f /\ Ctx(a)' = Ctx(a)
  BY <1>2, <1>6, <1>7, Goes
<1>9. state' = [state EXCEPT ![j] = "READY"] /\ queue' = [queue EXCEPT ![p_pool[j]] = Append(@, j)]
  BY <1>1 DEF AddThread, SetState
<1>10. /\ Queues' /\ queue' \in [Pools -> Seq(Threads)]
       /\ \A x \in Threads : Queued(x)' <=> x = j \/ Queued(x)
  BY <1>2, <1>3, <1>4, <1>5, <1>9, PoolAppend
<1>11. UNCHANGED <<p_pool, request, migration_pool, p_link, p_last_xstream, num_blocked,
                   joining, suspended, freed>>
  BY <1>1
<1>12. DataTypes'
  BY <1>2, <1>3, <1>9, <1>10, <1>11 DEF Types, DataTypes
<1>13. state'[j] = "READY" /\ \A x \in Threads \ {j} : state'[x] = state[x]
  BY <1>2, <1>3, <1>9 DEF Types, DataTypes
<1>14. pc[a] = "push"
  BY <1>1
<1>15. Fine(a, j)'
  BY <1>2, <1>3, <1>4, <1>6, <1>8, <1>10, <1>11, <1>13, <1>14
     DEF Fine, Role, Runs, Works, Wakes, Takes, Owns
<1>16. Inside(a, {j})
  BY <1>0, <1>2, <1>3, <1>4, <1>6, <1>8, <1>10, <1>11, <1>12, <1>13, <1>14, <1>15
     DEF Inside, Free, Owns, Runs, Works, Wakes, Takes, Role, Suspending
<1>17. Shape(a)'
  BY <1>2, <1>3, <1>6, <1>8, <1>14 DEF Shape, Waking, NoFrame
<1>18. \A x \in Threads : state'[x] = "TERMINATED" <=> state[x] = "TERMINATED"
  BY <1>4, <1>13
<1>19. Quiet(a)
  BY <1>3, <1>6, <1>8, <1>11, <1>14, <1>18, GoneStays DEF Quiet, Carries, Past
<1> QED BY <1>3, <1>16, <1>17, <1>19, InsideStep

\* The pool of the joiner counts it no more.
LEMMA PushDecStep ==
  ASSUME IInv, YthreadConstants, NEW a \in Actors, PushDec(a)
  PROVE  IInv'
<1>1. /\ pc[a] = "push_dec" /\ p_thread' = p_thread
      /\ AddNumBlocked(frame[a].p_joiner_pool, -1)
      /\ UNCHANGED <<state, p_pool, request, migration_pool, p_link, p_last_xstream, queue,
                     joining, suspended, freed>>
  BY DEF PushDec, threadVars, descVars, userVars
<1>2. /\ Types /\ Queues /\ Null \notin Threads /\ Shape(a) /\ frame[a] \in Frames
      /\ NoFrame \in Frames
  BY <1>1, InCallback
<1>3. /\ frame[a].callback \notin {"suspend_join", "suspend", "resume_suspend_to"}
      /\ frame[a] # NoFrame
      /\ frame[a].callback = "resume" => frame[a].p_prev = Null /\ frame[a].p_next = Null
                                         /\ ~frame[a].cancel
      /\ frame[a].callback # "resume" => frame[a].p_prev # Null
  BY <1>1, <1>2 DEF Shape, Waking, NoFrame
<1>4. PICK l \in {"terminate", "leave", "run"}, f \in Frames :
        /\ pc' = [pc EXCEPT ![a] = l]
        /\ frame' = [frame EXCEPT ![a] = f] \/ (frame' = frame /\ f = frame[a])
        /\ f = IF l = "run" THEN NoFrame ELSE frame[a]
        /\ l = "terminate" <=> frame[a].cancel
        /\ l = "run" <=> frame[a].callback = "resume"
  BY <1>2, <1>3 DEF PushDec, AfterWake, Goto
<1>5. l \in Locations
  BY DEF Locations
<1>6. Moves(a) /\ pc'[a] = l /\ frame'[a] = f /\ Ctx(a)' = Ctx(a)
  BY <1>1, <1>2, <1>4, <1>5, Goes
<1>7. Queues' /\ \A x : Queued(x)' <=> Queued(x)
  BY <1>1, <1>2, PoolsSame
<1>8. DataTypes'
  <2>1. num_blocked' \in [Pools -> Int]
    BY <1>1, <1>2, CountType
  <2> QED BY <1>1, <1>2, <2>1 DEF Types, DataTypes
<1>9. Inside(a, {})
  BY <1>1, <1>2, <1>3, <1>4, <1>6, <1>7, <1>8
     DEF Inside, Owns, Runs, Works, Wakes, Takes, Role, Suspending, NoFrame, Shape
<1>10. Shape(a)'
  BY <1>1, <1>2, <1>3, <1>4, <1>6 DEF Shape, Waking
<1>11. Quiet(a)
  BY <1>1, <1>2, <1>3, <1>4, <1>6, GoneStays DEF Quiet, Carries, Past, NoFrame
<1> QED BY <1>9, <1>10, <1>11, InsideStep

\* The scheduler has popped a ULT.
LEMMA ScheduleStep ==
  ASSUME IInv, YthreadConstants, NEW e \in Xstreams, NEW p \in Pools, Schedule(e, p)
  PROVE  IInv'
<1>0. PICK t : t = Head(queue[p])
  OBVIOUS
<1>1. /\ e \in Actors /\ pc[e] = "run" /\ p_thread[e] = Null /\ p_thread' = p_thread
      /\ queue[p] # <<>> /\ queue' = [queue EXCEPT ![p] = Tail(@)]
      /\ Enter(e, "schedule", t, Null, "request")
      /\ UNCHANGED <<state, p_pool, request, migration_pool, p_link, p_last_xstream, num_blocked,
                     joining, suspended, freed>>
  BY <1>0 DEF Actors, Schedule, threadVars, descVars, userVars
<1>2. /\ Types /\ Queues /\ Null \notin Threads /\ Shape(e) /\ frame[e] \in Frames
      /\ "schedule" \in Callbacks /\ "request" \in {"request", "inc", "remove", "load_link"}
  BY <1>1, InCallback DEF Callbacks
<1>3. Ctx(e) = Null /\ frame[e] = NoFrame
  BY <1>1, <1>2 DEF Ctx, Shape, Waking
<1>4. /\ Queues' /\ queue' \in [Pools -> Seq(Threads)] /\ t \in Threads /\ Queued(t)
      /\ \A x \in Threads : Queued(x)' <=> x # t /\ Queued(x)
  BY <1>0, <1>1, <1>2, PoolPops
<1>5. state[t] = "READY" /\ ~Owned(t) /\ t \notin suspended
  BY <1>4, AtHand
<1>6. /\ Moves(e) /\ Ctx(e)' = Null /\ Entered(e, "schedule", t, Null, "request")
      /\ \A x : ~Past(e, x)'
  BY <1>1, <1>2, <1>3, <1>4, Enters
<1>7. DataTypes'
  BY <1>1, <1>2, <1>4 DEF Types, DataTypes
<1>8. Fine(e, t)'
  BY <1>1, <1>2, <1>4, <1>5, <1>6
     DEF Fine, Role, Runs, Works, Wakes, Takes, Owns, Entered
<1>9. Inside(e, {t})
  BY <1>1, <1>2, <1>3, <1>4, <1>5, <1>6, <1>7, <1>8
     DEF Inside, Free, Owns, Runs, Works, Wakes, Takes, Role, Suspending, NoFrame, Entered
<1>10. Shape(e)'
  BY <1>1, <1>2, <1>4, <1>6 DEF Shape, Entered, Waking
<1>11. \A x \in Threads : ~Past(e, x)
  BY <1>1 DEF Past
<1>12. Quiet(e)
  BY <1>1, <1>2, <1>6, <1>11, EntersQuietly
<1> QED BY <1>1, <1>4, <1>9, <1>10, <1>12, InsideStep

\* ABT_thread_resume, of a ULT that suspended itself.
LEMMA ResumeStep ==
  ASSUME IInv, YthreadConstants, NEW a \in Actors, NEW s \in Threads, Resume(a, s)
  PROVE  IInv'
<1>1. /\ pc[a] = "run" /\ p_thread' = p_thread /\ pc' = [pc EXCEPT ![a] = "push"]
      /\ Claims(s) /\ suspended' = suspended \ {s}
      /\ UNCHANGED <<state, p_pool, request, migration_pool, p_link, p_last_xstream, num_blocked,
                     queue, joining, freed>>
  BY DEF Resume, Calls, InUserCode, threadVars, descVars, poolVars, Goto
<1>2. PICK f \in Frames :
        /\ frame' = [frame EXCEPT ![a] = f]
        /\ f.callback = "resume" /\ f.p_prev = Null /\ f.p_next = Null
        /\ f.p_joiner = s /\ ~f.cancel
  <2> DEFINE g == [NoFrame EXCEPT !.callback = "resume", !.p_joiner = s]
  <2>1. /\ g \in Frames
        /\ g.callback = "resume" /\ g.p_prev = Null /\ g.p_next = Null
        /\ g.p_joiner = s /\ ~g.cancel
    BY DEF Frames, NoFrame, Callbacks, Callers
  <2>2. frame' = [frame EXCEPT ![a] = g]
    BY DEF Resume
  <2> QED BY <2>1, <2>2
<1>3. /\ Types /\ Queues /\ Null \notin Threads /\ Shape(a) /\ "push" \in Locations
  BY <1>1, InCallback DEF Locations, Waking
<1>4. frame[a] = NoFrame /\ s \in suspended /\ state[s] = "BLOCKED" /\ ~Queued(s) /\ ~Owned(s)
  BY <1>1, <1>3, AtHand DEF Shape, Waking, Claims
<1>5. Moves(a) /\ pc'[a] = "push" /\ frame'[a] = f /\ Ctx(a)' = Ctx(a)
  BY <1>1, <1>2, <1>3, Goes
<1>6. Queues' /\ \A x : Queued(x)' <=> Queued(x)
  BY <1>1, <1>3, PoolsSame
<1>7. DataTypes'
  BY <1>1, <1>3, <1>6 DEF Types, DataTypes
<1>8. Fine(a, s)'
  BY <1>1, <1>2, <1>3, <1>4, <1>5, <1>6
     DEF Fine, Role, Runs, Works, Wakes, Takes, Owns, Owned
<1>9. Inside(a, {s})
  BY <1>1, <1>2, <1>3, <1>4, <1>5, <1>6, <1>7, <1>8
     DEF Inside, Free, Owns, Runs, Works, Wakes, Takes, Role, Suspending, NoFrame
<1>10. Shape(a)'
  BY <1>2, <1>3, <1>5 DEF Shape, NoFrame
<1>11. Quiet(a)
  BY <1>1, <1>2, <1>3, <1>4, <1>5, GoneStays DEF Quiet, Carries, Past, NoFrame
<1> QED BY <1>9, <1>10, <1>11, InsideStep
------------------------------------------------------------------------------
(* Joins *)

\* The ULT or external thread whose join b is in the middle of, or wakes the caller of.
Minds(b, c) ==
    \/ pc[b] = "join" /\ c = Caller(b)
    \/ frame[b].callback = "suspend_join" /\ c = frame[b].p_prev
    \/ pc[b] = "futex_link" /\ c = b
    \/ /\ pc[b] \in {"wake", "push", "jump", "futex_wake"} /\ frame[b].p_prev # Null
       /\ c = frame[b].p_joiner

\* b has announced the join of s and not yet stored the joiner.
Announced(b, s) ==
    \/ frame[b].callback = "suspend_join" /\ frame[b].p_next = s
    \/ pc[b] = "futex_link" /\ joining[b] = s

\* The joins of the other actors go on.
LEMMA OthersJoin ==
  ASSUME Types, YthreadConstants, NEW a \in Actors, Moves(a), NEW b \in Actors, b # a,
         Shape(b), JoinOK(b),
         \A c \in Callers : Minds(b, c) /\ joining[c] # Null => joining'[c] = joining[c],
         \A s \in Threads : Announced(b, s) /\ Unlinked(s) => Unlinked(s)'
  PROVE  JoinOK(b)'
<1>1. pc'[b] = pc[b] /\ frame'[b] = frame[b] /\ Caller(b)' = Caller(b)
  BY DEF Moves, Ctx, Caller
<1>2. frame[b] \in Frames /\ joining \in [Callers -> Threads \cup {Null}] /\ Null \notin Threads
  BY DEF Types, ActorTypes, DataTypes, YthreadConstants
<1>3. ASSUME pc[b] = "join" PROVE joining'[Caller(b)] # Null
  <2>1. Caller(b) \in Callers
    BY <1>3 DEF Shape, Caller, Ctx, Callers, Actors, Types, ActorTypes, Waking
  <2>2. joining[Caller(b)] # Null
    BY <1>3 DEF JoinOK
  <2> QED BY <1>3, <2>1, <2>2 DEF Minds
<1>4. ASSUME frame[b].callback = "suspend_join"
      PROVE  joining'[frame[b].p_prev] = frame[b].p_next /\ Unlinked(frame[b].p_next)'
  <2>1. frame[b].p_prev \in Callers /\ frame[b].p_next \in Threads
    BY <1>2, <1>4 DEF Shape, Frames, NoFrame, Callers
  <2>2. joining[frame[b].p_prev] = frame[b].p_next /\ Unlinked(frame[b].p_next)
    BY <1>4 DEF JoinOK
  <2>3. joining'[frame[b].p_prev] = frame[b].p_next
    BY <1>2, <1>4, <2>1, <2>2 DEF Minds
  <2>4. PICK s \in Threads : s = frame[b].p_next
    BY <2>1
  <2>5. Unlinked(s)'
    BY <1>4, <2>2, <2>4 DEF Announced
  <2> QED BY <1>1, <2>3, <2>4, <2>5 DEF Unlinked, Gone
<1>5. ASSUME pc[b] = "futex_link"
      PROVE  joining'[b] # Null /\ Unlinked(joining[b])' /\ joining'[b] = joining[b]
  <2>1. b \in Callers /\ joining[b] # Null /\ Unlinked(joining[b])
    BY <1>5 DEF Shape, JoinOK, Callers, Waking
  <2>2. joining'[b] = joining[b] /\ joining[b] \in Threads
    BY <1>2, <1>5, <2>1 DEF Minds
  <2>3. PICK s \in Threads : s = joining[b]
    BY <2>2
  <2>4. Unlinked(s)'
    BY <1>5, <2>1, <2>3 DEF Announced
  <2> QED BY <2>1, <2>2, <2>3, <2>4 DEF Unlinked, Gone
<1>6. ASSUME pc[b] \in {"wake", "push", "jump", "futex_wake"}, frame[b].p_prev # Null
      PROVE  joining'[frame[b].p_joiner] = frame[b].p_prev
  <2>1. frame[b].p_joiner \in Callers
    BY <1>2, <1>6 DEF Shape, Frames, Callers
  <2>2. joining[frame[b].p_joiner] = frame[b].p_prev
    BY <1>6 DEF JoinOK
  <2> QED BY <1>6, <2>1, <2>2 DEF Minds
<1> QED BY <1>1, <1>3, <1>4, <1>5, <1>6 DEF JoinOK
\* A joiner that waited still does, or need no more.
LEMMA LinkKept ==
  ASSUME NEW s \in Threads, NEW c, p_link[s] = c, p_link'[s] = c, LinkOK(s),
         "JOIN" \in request[s] => "JOIN" \in request'[s],
         Gone(s)' => Gone(s) \/ "JOIN" \in request'[s],
         Gone(s) => Gone(s)',
         c # Null /\ Awaits(c, s) => Awaits(c, s)' \/ Gone(s)'
  PROVE  LinkOK(s)'
BY DEF LinkOK

\* A step that changes no join, but what its ULT has behind it or what is announced to it.
LEMMA ExitingStep ==
  ASSUME IInv, YthreadConstants, NEW a \in Actors, NEW U \in SUBSET Threads, Inside(a, U),
         Shape(a)', p_link' = p_link, joining' = joining, JoinOK(a)',
         \A x \in Threads :
           /\ "JOIN" \in request[x] => "JOIN" \in request'[x]
           /\ Gone(x) => Gone(x)'
           /\ Gone(x)' => Gone(x) \/ "JOIN" \in request'[x]
           /\ Unlinked(x) => Unlinked(x)'
           /\ p_link[x] \in U /\ joining[p_link[x]] = x => Gone(x)'
  PROVE  IInv'
<1>1. /\ Types' /\ Queues' /\ PlaceInv'
      /\ \A c \in Threads \ U : state[c] = "BLOCKED" /\ ~Owned(c) =>
           state'[c] = "BLOCKED" /\ ~Owned(c)'
  BY InsidePlaces
<1>2. /\ Types /\ PlaceInv /\ JoinInv /\ Moves(a)
  BY DEF IInv, Inside
<1>3. ASSUME NEW s \in Threads PROVE LinkOK(s)'
  <2>1. PICK c : c = p_link[s]
    OBVIOUS
  <2>2. c # Null /\ Awaits(c, s) => Awaits(c, s)' \/ Gone(s)'
    BY <1>1, <2>1 DEF Awaits
  <2>3. LinkOK(s)
    BY <1>2 DEF JoinInv
  <2> QED BY <2>1, <2>2, <2>3, LinkKept
<1>4. ASSUME NEW b \in Actors, b # a PROVE JoinOK(b)'
  BY <1>2, <1>4, OthersJoin DEF PlaceInv, JoinInv
<1>5. OwnJoiner'
  BY <1>2 DEF JoinInv, OwnJoiner
<1> QED BY <1>1, <1>3, <1>4, <1>5 DEF IInv, JoinInv

\* A ULT that a callback works with has not woken its joiner unless that callback did.
LEMMA NotGone ==
  ASSUME IInv, YthreadConstants, NEW e \in Actors, NEW t \in Threads, Works(e, t), ~Past(e, t)
  PROVE  ~Gone(t)
<1>1. state[t] # "TERMINATED" /\ \A b \in Actors : Owns(b, t) => b = e
  BY Held DEF Owns
<1>2. ASSUME NEW b \in Actors, Past(b, t) PROVE b = e
  <2>1. Works(b, t)
    BY <1>2 DEF Past, Works
  <2> QED BY <1>1, <2>1 DEF Owns
<1> QED BY <1>1, <1>2 DEF Gone

\* Where an exiting or cancelled ULT looks for its joiner.
LEMMA Exiting ==
  ASSUME IInv, YthreadConstants, NEW e \in Xstreams, pc[e] \in {"load_link", "join_flag", "spin"}
  PROVE  LET t == frame[e].p_prev IN
         /\ t \in Threads /\ Works(e, t) /\ ~Gone(t) /\ LinkOK(t) /\ state[t] # "TERMINATED"
         /\ frame[e].callback \notin {"none", "resume", "suspend", "suspend_join",
                                      "resume_suspend_to"}
         /\ frame[e].p_next # Null => Owns(e, frame[e].p_next)
<1>1. /\ e \in Actors /\ Types /\ Null \notin Threads /\ Shape(e) /\ frame[e] \in Frames
  BY InCallback DEF Actors
<1>2. /\ frame[e].p_prev # Null
      /\ frame[e].callback \notin {"none", "resume", "suspend", "suspend_join", "resume_suspend_to"}
      /\ frame[e].p_next # Null => frame[e].p_next = Ctx(e) \/ Takes(e, frame[e].p_next)
  BY <1>1 DEF Shape, NoFrame, Takes
<1>3. /\ frame[e].p_prev \in Threads /\ Works(e, frame[e].p_prev)
      /\ state[frame[e].p_prev] # "TERMINATED"
  BY <1>1, <1>2, Prev
<1>4. ~Past(e, frame[e].p_prev)
  BY DEF Past
<1>5. ~Gone(frame[e].p_prev) /\ LinkOK(frame[e].p_prev)
  BY <1>1, <1>3, <1>4, NotGone DEF IInv, JoinInv
<1> QED BY <1>2, <1>3, <1>5 DEF Owns, Runs

\* The exiting ULT finds its joiner.
LEMMA FetchStep ==
  ASSUME IInv, YthreadConstants, NEW e \in Xstreams, LoadLink(e) \/ SpinOnLink(e),
         p_link[frame[e].p_prev] # Null
  PROVE  IInv'
<1>0. PICK t, j : t = frame[e].p_prev /\ j = p_link[t]
  OBVIOUS
<1>1. /\ pc[e] \in {"load_link", "spin"} /\ p_thread' = p_thread /\ pc' = [pc EXCEPT ![e] = "wake"]
      /\ UNCHANGED <<state, p_pool, request, migration_pool, p_link, p_last_xstream, queue,
                     num_blocked, joining, suspended, freed>>
  BY DEF LoadLink, SpinOnLink, threadVars, descVars, userVars, poolVars, Goto
<1>2. e \in Actors
  BY DEF Actors
<1>3. /\ Types /\ Queues /\ Null \notin Threads /\ Null \notin Externals /\ Shape(e)
      /\ frame[e] \in Frames /\ Threads \cap Externals = {}
      /\ "wake" \in Locations
  BY <1>2, InCallback DEF Locations, Waking, YthreadConstants
<1>4. /\ t \in Threads /\ Works(e, t) /\ ~Gone(t) /\ LinkOK(t) /\ state[t] # "TERMINATED"
      /\ frame[e].callback \notin {"none", "resume", "suspend", "suspend_join", "resume_suspend_to"}
      /\ frame[e].p_next # Null => Owns(e, frame[e].p_next)
  BY <1>0, <1>1, Exiting
<1>5. /\ "JOIN" \in request[t] /\ joining[j] = t /\ j \in Callers
      /\ j \in Threads => state[j] = "BLOCKED" /\ ~Owned(j)
  BY <1>0, <1>3, <1>4 DEF LinkOK, Awaits, Types, DataTypes
<1>6. PICK f \in Frames :
        /\ frame' = [frame EXCEPT ![e] = f]
        /\ f.callback = frame[e].callback /\ f.p_prev = t
        /\ f.p_next = frame[e].p_next /\ f.p_joiner = j /\ f.cancel = frame[e].cancel
  <2> DEFINE g == [frame[e] EXCEPT !.p_joiner = j]
  <2>1. /\ g \in Frames
        /\ g.callback = frame[e].callback /\ g.p_prev = t
        /\ g.p_next = frame[e].p_next /\ g.p_joiner = j /\ g.cancel = frame[e].cancel
    BY <1>0, <1>3, <1>5 DEF Frames
  <2>2. frame' = [frame EXCEPT ![e] = g]
    BY <1>0 DEF LoadLink, SpinOnLink
  <2> QED BY <2>1, <2>2
<1>7. Moves(e) /\ pc'[e] = "wake" /\ frame'[e] = f /\ Ctx(e)' = Ctx(e)
  BY <1>1, <1>2, <1>3, <1>6, Goes
<1>8. Queues' /\ \A x : Queued(x)' <=> Queued(x)
  BY <1>1, <1>3, PoolsSame
<1>9. DataTypes'
  BY <1>1, <1>3 DEF Types, DataTypes
<1>10. j # Null /\ j # f.p_next
  BY <1>0, <1>2, <1>3, <1>4, <1>5, <1>6 DEF Owned, Frames
<1>11. Shape(e)'
  BY <1>0, <1>1, <1>3, <1>4, <1>6, <1>7, <1>10 DEF Shape, Waking, NoFrame
<1>12. JoinOK(e)'
  BY <1>1, <1>4, <1>5, <1>6, <1>7 DEF JoinOK
<1>13. PICK U \in SUBSET Threads : U = Threads \cap {j}
  OBVIOUS
<1>14. ASSUME j \in Threads PROVE Free(e, j) /\ Fine(e, j)'
  <2>1. ~Owns(e, j) /\ ~Queued(j) /\ j \notin suspended
    BY <1>2, <1>3, <1>4, <1>5, <1>14 DEF Owned, IInv, PlaceInv, Placed
  <2>2. Free(e, j)
    BY <1>0, <1>1, <1>5, <1>14 DEF Free, Fetches
  <2> QED BY <1>1, <1>3, <1>4, <1>5, <1>6, <1>7, <1>8, <1>14, <2>1, <2>2
          DEF Fine, Role, Owns, Runs, Works, Wakes, Takes
<1>15. Inside(e, U)
  BY <1>0, <1>1, <1>3, <1>4, <1>6, <1>7, <1>8, <1>9, <1>13, <1>14
     DEF Inside, Owns, Runs, Works, Wakes, Takes, Role, Suspending
<1>16. ASSUME NEW x \in Threads, x # t PROVE Gone(x)' <=> Gone(x)
  BY <1>0, <1>1, <1>2, <1>6, <1>7, <1>16, GoneStays DEF Past
<1>17. Gone(t)'
  BY <1>2, <1>6, <1>7 DEF Gone, Past
<1>18. \A x \in Threads :
         /\ "JOIN" \in request[x] => "JOIN" \in request'[x]
         /\ Gone(x) => Gone(x)'
         /\ Gone(x)' => Gone(x) \/ "JOIN" \in request'[x]
         /\ Unlinked(x) => Unlinked(x)'
         /\ p_link[x] \in U /\ joining[p_link[x]] = x => Gone(x)'
  BY <1>0, <1>1, <1>5, <1>10, <1>13, <1>16, <1>17 DEF Unlinked
<1> QED BY <1>1, <1>2, <1>11, <1>12, <1>15, <1>18, ExitingStep

\* No joiner has stored itself yet.
LEMMA LoadLinkStep ==
  ASSUME IInv, YthreadConstants, NEW e \in Xstreams, LoadLink(e)
  PROVE  IInv'
<1>1. CASE p_link[frame[e].p_prev] # Null
  BY <1>1, FetchStep
<1>2. CASE p_link[frame[e].p_prev] = Null
  <2>1. /\ pc[e] = "load_link" /\ p_thread' = p_thread /\ pc' = [pc EXCEPT ![e] = "join_flag"]
        /\ UNCHANGED <<state, p_pool, request, migration_pool, p_link, p_last_xstream, queue,
                       num_blocked, joining, suspended, freed>>
    BY <1>2 DEF LoadLink, threadVars, descVars, userVars, poolVars, Goto
  <2>2. e \in Actors
    BY DEF Actors
  <2>3. /\ Types /\ Queues /\ Null \notin Threads /\ Shape(e) /\ frame[e] \in Frames
        /\ "join_flag" \in Locations
    BY <2>2, InCallback DEF Locations, Waking
  <2>4. PICK f \in Frames :
          /\ frame' = [frame EXCEPT ![e] = f]
          /\ f.callback = frame[e].callback /\ f.p_prev = frame[e].p_prev
          /\ f.p_next = frame[e].p_next /\ f.p_joiner = Null /\ f.cancel = frame[e].cancel
    <3> DEFINE g == [frame[e] EXCEPT !.p_joiner = Null]
    <3>1. /\ g \in Frames
          /\ g.callback = frame[e].callback /\ g.p_prev = frame[e].p_prev
          /\ g.p_next = frame[e].p_next /\ g.p_joiner = Null /\ g.cancel = frame[e].cancel
      BY <2>3 DEF Frames
    <3>2. frame' = [frame EXCEPT ![e] = g]
      BY <1>2 DEF LoadLink
    <3> QED BY <3>1, <3>2
  <2>5. Moves(e) /\ pc'[e] = "join_flag" /\ frame'[e] = f /\ Ctx(e)' = Ctx(e)
    BY <2>1, <2>2, <2>3, <2>4, Goes
  <2>6. Queues' /\ \A x : Queued(x)' <=> Queued(x)
    BY <2>1, <2>3, PoolsSame
  <2>7. DataTypes'
    BY <2>1, <2>3 DEF Types, DataTypes
  <2>8. frame[e].callback \notin {"none", "resume", "suspend", "suspend_join", "resume_suspend_to"}
    BY <2>1, Exiting
  <2>9. Inside(e, {})
    BY <2>1, <2>3, <2>4, <2>5, <2>6, <2>7
       DEF Inside, Owns, Runs, Works, Wakes, Takes, Role, Suspending
  <2>10. Shape(e)'
    BY <2>1, <2>3, <2>4, <2>5 DEF Shape, Waking, NoFrame
  <2>11. Quiet(e)
    BY <1>2, <2>1, <2>2, <2>4, <2>5, <2>8, GoneStays DEF Quiet, Carries, Past
  <2> QED BY <2>2, <2>9, <2>10, <2>11, InsideStep
<1> QED BY <1>1, <1>2

\* The joiner that announced itself has stored itself at last.
LEMMA SpinOnLinkStep ==
  ASSUME IInv, YthreadConstants, NEW e \in Xstreams, SpinOnLink(e)
  PROVE  IInv'
BY FetchStep DEF SpinOnLink
\* The fetch_or decides: either a joiner has announced itself, or none ever will.
LEMMA SetJoinFlagStep ==
  ASSUME IInv, YthreadConstants, NEW e \in Xstreams, SetJoinFlag(e)
  PROVE  IInv'
<1>0. PICK t : t = frame[e].p_prev
  OBVIOUS
<1>1. /\ pc[e] = "join_flag" /\ p_thread' = p_thread /\ frame' = frame
      /\ request' = [request EXCEPT ![t] = @ \cup {"JOIN"}]
      /\ UNCHANGED <<state, p_pool, migration_pool, p_link, p_last_xstream, queue,
                     num_blocked, joining, suspended, freed>>
  BY <1>0 DEF SetJoinFlag, userVars, poolVars
<1>2. e \in Actors
  BY DEF Actors
<1>3. Types /\ Queues /\ Null \notin Threads /\ Shape(e) /\ frame[e] \in Frames
  BY <1>2, InCallback
<1>4. /\ t \in Threads /\ Works(e, t) /\ ~Gone(t) /\ LinkOK(t) /\ state[t] # "TERMINATED"
      /\ frame[e].callback \notin {"none", "resume", "suspend", "suspend_join", "resume_suspend_to"}
  BY <1>0, <1>1, Exiting
<1>5. PICK l \in {"spin", "leave", "terminate"} :
        /\ pc' = [pc EXCEPT ![e] = l]
        /\ l = "spin" <=> "JOIN" \in request[t]
        /\ l # "spin" => (l = "terminate" <=> frame[e].cancel)
  BY <1>0, <1>4 DEF SetJoinFlag, Goto, AfterWake
<1>6. l \in Locations
  BY DEF Locations, Waking
<1>7. Moves(e) /\ pc'[e] = l /\ frame'[e] = frame[e] /\ Ctx(e)' = Ctx(e)
  BY <1>1, <1>2, <1>3, <1>5, <1>6, Goes
<1>8. Queues' /\ \A x : Queued(x)' <=> Queued(x)
  BY <1>1, <1>3, PoolsSame
<1>9. /\ \A x \in Threads : request'[x] = IF x = t THEN request[x] \cup {"JOIN"} ELSE request[x]
      /\ request' \in [Threads -> SUBSET {"JOIN", "CANCEL", "MIGRATE"}]
  <2>1. \A x \in Threads : request'[x] = IF x = t THEN request[x] \cup {"JOIN"} ELSE request[x]
    BY <1>1, <1>3 DEF Types, DataTypes
  <2>2. ASSUME NEW x \in Threads PROVE request'[x] \in SUBSET {"JOIN", "CANCEL", "MIGRATE"}
    <3>1. request[x] \in SUBSET {"JOIN", "CANCEL", "MIGRATE"}
      BY <1>3 DEF Types, DataTypes
    <3> QED BY <3>1, <2>1
  <2>3. request' = [x \in Threads |-> request'[x]]
    BY <1>1, <1>3 DEF Types, DataTypes
  <2> QED BY <2>1, <2>2, <2>3
<1>10. DataTypes'
  <2>1. \A x \in Threads : "MIGRATE" \in request'[x] => migration_pool'[x] \in Pools
    BY <1>1, <1>3, <1>9 DEF Types, DataTypes
  <2> QED BY <1>1, <1>3, <1>9, <2>1 DEF Types, DataTypes
<1>11. Inside(e, {})
  <2>1. frame[e].callback \in {"exit_to", "resume_exit_to"} => l # "terminate"
    BY <1>1, <1>3, <1>5 DEF Shape, NoFrame
  <2> QED BY <1>1, <1>3, <1>4, <1>5, <1>7, <1>8, <1>10, <2>1
          DEF Inside, Owns, Runs, Works, Wakes, Takes, Role, Suspending
<1>12. Shape(e)'
  BY <1>1, <1>3, <1>4, <1>5, <1>7 DEF Shape, Waking, NoFrame
<1>13. ASSUME NEW x \in Threads, x # t \/ l = "spin" PROVE Gone(x)' <=> Gone(x)
  BY <1>0, <1>1, <1>2, <1>5, <1>7, <1>13, GoneStays DEF Past
<1>14. CASE l = "spin"
  <2>1. Quiet(e)
    BY <1>1, <1>4, <1>5, <1>7, <1>9, <1>13, <1>14 DEF Quiet, Carries
  <2> QED BY <1>2, <1>11, <1>12, <2>1, InsideStep
<1>15. CASE l # "spin"
  <2>1. p_link[t] = Null /\ "JOIN" \notin request[t]
    BY <1>4, <1>5, <1>15 DEF LinkOK
  <2>2. JoinOK(e)'
    BY <1>4, <1>5, <1>7, <1>15 DEF JoinOK
  <2>3. \A x \in Threads :
           /\ "JOIN" \in request[x] => "JOIN" \in request'[x]
           /\ Gone(x) => Gone(x)'
           /\ Gone(x)' => Gone(x) \/ "JOIN" \in request'[x]
           /\ Unlinked(x) => Unlinked(x)'
    BY <1>1, <1>4, <1>9, <1>13, <2>1 DEF Unlinked
  <2> QED BY <1>1, <1>2, <1>11, <1>12, <2>2, <2>3, ExitingStep
<1> QED BY <1>14, <1>15

\* The joiner announces itself, unless the target is on its way out already.
LEMMA RequestJoinStep ==
  ASSUME IInv, YthreadConstants, NEW a \in Actors, RequestJoin(a)
  PROVE  IInv'
<1>0. PICK c, s : c = Caller(a) /\ s = joining[c]
  OBVIOUS
<1>1. /\ pc[a] = "join" /\ request' = [request EXCEPT ![s] = @ \cup {"JOIN"}]
      /\ UNCHANGED <<state, p_pool, migration_pool, p_link, queue, num_blocked, joining,
                     suspended, freed>>
  BY <1>0 DEF RequestJoin, userVars, poolVars
<1>2. /\ Types /\ Queues /\ Null \notin Threads /\ Shape(a) /\ JoinOK(a)
      /\ frame[a] \in Frames
  BY InCallback
<1>3. /\ frame[a] = NoFrame /\ s # Null /\ (a \in Xstreams => c = Ctx(a) /\ c # Null)
      /\ a \notin Xstreams => c = a
  BY <1>0, <1>1, <1>2 DEF Shape, Waking, JoinOK, Caller, Ctx
<1>4. /\ c \in Callers /\ s \in Threads /\ (a \in Xstreams => c \in Threads) /\ LinkOK(s)
  <2>1. c \in Callers /\ (a \in Xstreams => c \in Threads)
    BY <1>2, <1>3 DEF Types, ActorTypes, Callers, Ctx, Actors
  <2> QED BY <1>0, <1>2, <1>3, <2>1 DEF Types, DataTypes, IInv, JoinInv
<1>5. /\ \A x \in Threads : request'[x] = IF x = s THEN request[x] \cup {"JOIN"} ELSE request[x]
      /\ request' \in [Threads -> SUBSET {"JOIN", "CANCEL", "MIGRATE"}]
  <2>1. \A x \in Threads : request'[x] = IF x = s THEN request[x] \cup {"JOIN"} ELSE request[x]
    BY <1>1, <1>2 DEF Types, DataTypes
  <2>2. ASSUME NEW x \in Threads PROVE request'[x] \in SUBSET {"JOIN", "CANCEL", "MIGRATE"}
    <3>1. request[x] \in SUBSET {"JOIN", "CANCEL", "MIGRATE"}
      BY <1>2 DEF Types, DataTypes
    <3> QED BY <3>1, <2>1
  <2>3. request' = [x \in Threads |-> request'[x]]
    BY <1>1, <1>2 DEF Types, DataTypes
  <2> QED BY <2>1, <2>2, <2>3
<1>6. DataTypes'
  <2>1. \A x \in Threads : "MIGRATE" \in request'[x] => migration_pool'[x] \in Pools
    BY <1>1, <1>2, <1>5 DEF Types, DataTypes
  <2>2. p_last_xstream' = p_last_xstream
    BY DEF RequestJoin, SwitchToParent
  <2> QED BY <1>1, <1>2, <1>5, <2>1, <2>2 DEF Types, DataTypes
<1>7. Queues' /\ \A x : Queued(x)' <=> Queued(x)
  BY <1>1, <1>2, PoolsSame
<1>8. \A x : ~Past(a, x)
  BY <1>1 DEF Past
<1>9. CASE "JOIN" \in request[s]
  <2>1. /\ pc' = [pc EXCEPT ![a] = "run"] /\ UNCHANGED <<p_thread, frame>> /\ "run" \in Locations
    BY <1>0, <1>9 DEF RequestJoin, Goto, Locations
  <2>2. Moves(a) /\ pc'[a] = "run" /\ frame'[a] = frame[a] /\ Ctx(a)' = Ctx(a)
    BY <1>2, <2>1, Goes
  <2>3. Inside(a, {})
    BY <1>1, <1>2, <1>3, <1>6, <1>7, <2>2
       DEF Inside, Owns, Runs, Works, Wakes, Takes, Role, Suspending, NoFrame
  <2>4. Shape(a)'
    BY <1>3, <2>2 DEF Shape
  <2>5. Quiet(a)
    BY <1>1, <1>3, <1>5, <1>8, <1>9, <2>2, GoneStays DEF Quiet, Carries, Past, NoFrame
  <2> QED BY <2>3, <2>4, <2>5, InsideStep
<1>10. CASE "JOIN" \notin request[s]
  <2>1. p_link[s] = Null /\ ~Gone(s) /\ "JOIN" \in request'[s]
    BY <1>4, <1>5, <1>10 DEF LinkOK
  <2>2. CASE a \in Xstreams
    <3>1. /\ Enter(a, "suspend_join", c, s, "inc") /\ p_thread' = [p_thread EXCEPT ![a] = Null]
          /\ "suspend_join" \in Callbacks /\ "inc" \in {"request", "inc", "remove", "load_link"}
      <4>1. a \notin Externals
        BY <2>2 DEF YthreadConstants
      <4> QED BY <1>0, <1>10, <4>1 DEF RequestJoin, SwitchToParent, Callbacks
    <3>2. /\ Moves(a) /\ Ctx(a)' = Null /\ Entered(a, "suspend_join", c, s, "inc")
          /\ \A x : ~Past(a, x)'
      BY <1>2, <1>4, <2>2, <3>1, Enters
    <3>3. Inside(a, {})
      <4>1. \A x \in Threads : Owns(a, x)' <=> x = c
        BY <1>2, <1>3, <1>4, <2>2, <3>2 DEF Owns, Runs, Works, Wakes, Takes, Entered
      <4>2. \A x \in Threads : Owns(a, x) <=> x = c
        BY <1>1, <1>2, <1>3, <1>4, <2>2 DEF Owns, Runs, Works, Wakes, Takes, NoFrame
      <4>3. \A x \in Threads : Role(a, x) => Role(a, x)'
        BY <1>1, <1>2, <1>3, <1>4, <2>2, <3>2 DEF Role, Owns, Runs, Works, Wakes, Takes, Entered
      <4> QED BY <1>1, <1>2, <1>3, <1>6, <1>7, <3>2, <4>1, <4>2, <4>3
                DEF Inside, Suspending, NoFrame
    <3>4. Shape(a)'
      BY <1>2, <1>3, <1>4, <2>2, <3>2 DEF Shape, Entered, Waking
    <3>5. ASSUME NEW x \in Threads PROVE Gone(x)' <=> Gone(x)
      BY <1>1, <1>8, <3>2, GoneStays
    <3>6. JoinOK(a)'
      <4>1. Unlinked(s)'
        BY <1>1, <1>4, <2>1, <3>5 DEF Unlinked
      <4> QED BY <1>0, <1>1, <3>2, <4>1 DEF JoinOK, Entered, Unlinked, Gone
    <3> QED BY <1>1, <1>5, <3>3, <3>4, <3>5, <3>6, ExitingStep DEF Unlinked
  <2>3. CASE a \notin Xstreams
    <3>1. /\ pc' = [pc EXCEPT ![a] = "futex_link"] /\ UNCHANGED <<p_thread, frame>>
          /\ "futex_link" \in Locations
      BY <1>0, <1>10, <2>3 DEF RequestJoin, Goto, Locations
    <3>2. Moves(a) /\ pc'[a] = "futex_link" /\ frame'[a] = frame[a] /\ Ctx(a)' = Ctx(a)
      BY <1>2, <3>1, Goes
    <3>3. Inside(a, {})
      BY <1>1, <1>2, <1>3, <1>6, <1>7, <3>2
         DEF Inside, Owns, Runs, Works, Wakes, Takes, Role, Suspending, NoFrame
    <3>4. Shape(a)'
      BY <1>2, <1>3, <2>3, <3>2 DEF Shape, Actors, NoFrame
    <3>5. ASSUME NEW x \in Threads PROVE Gone(x)' <=> Gone(x)
      <4>1. ~Past(a, x)'
        BY <3>2 DEF Past
      <4> QED BY <1>1, <1>8, <3>2, <4>1, GoneStays
    <3>6. JoinOK(a)'
      <4>1. Unlinked(s)'
        BY <1>1, <1>4, <2>1, <3>5 DEF Unlinked
      <4> QED BY <1>0, <1>1, <1>3, <2>3, <3>2, <4>1 DEF JoinOK, NoFrame, Unlinked, Gone
    <3> QED BY <1>1, <1>5, <3>3, <3>4, <3>5, <3>6, ExitingStep DEF Unlinked
  <2> QED BY <2>2, <2>3
<1> QED BY <1>9, <1>10

\* a stores the joiner c, which has done all it does before it is woken, for s to find.
Stores(a, U, c, s) ==
    /\ p_link' = [p_link EXCEPT ![s] = c] /\ joining' = joining /\ request' = request
    /\ joining[c] = s /\ Unlinked(s) /\ Awaits(c, s)'
    /\ \A x \in U : Owns(a, x)
    /\ \A b \in Actors \ {a} : ~Works(b, c) /\ (b \in Externals => b # c)
    /\ \A x \in Threads : Gone(x)' <=> Gone(x)

\* Nobody else is about to store itself there.
LEMMA StoreLink ==
  ASSUME IInv, YthreadConstants, NEW a \in Actors, NEW U \in SUBSET Threads, Inside(a, U),
         Shape(a)', JoinOK(a)', NEW c \in Callers, NEW s \in Threads, Stores(a, U, c, s)
  PROVE  IInv'
<1>1. /\ Types' /\ Queues' /\ PlaceInv'
      /\ \A d \in Threads \ U : state[d] = "BLOCKED" /\ ~Owned(d) =>
           state'[d] = "BLOCKED" /\ ~Owned(d)'
  BY InsidePlaces
<1>2. /\ Types /\ PlaceInv /\ JoinInv /\ Moves(a)
      /\ p_link' = [p_link EXCEPT ![s] = c] /\ joining' = joining /\ request' = request
      /\ joining[c] = s /\ Unlinked(s) /\ Awaits(c, s)'
      /\ \A x \in U : Owns(a, x)
      /\ \A x \in Threads : Gone(x)' <=> Gone(x)
  BY DEF IInv, Inside, Stores
<1>7. \A b \in Actors \ {a} : ~Works(b, c) /\ (b \in Externals => b # c)
  BY DEF Stores
<1>3. /\ p_link'[s] = c /\ JoinerOf[s] = c /\ c # Null
      /\ \A x \in Threads \ {s} : p_link'[x] = p_link[x]
  <2>1. joining[c] # Null => JoinerOf[joining[c]] = c
    BY <1>2 DEF JoinInv, OwnJoiner
  <2>2. Null \notin Callers /\ Null \notin Threads
    BY DEF YthreadConstants, Callers
  <2> QED BY <1>2, <2>1, <2>2 DEF Types, DataTypes
<1>4. ASSUME NEW x \in Threads PROVE LinkOK(x)'
  <2>1. CASE x = s
    BY <1>2, <1>3, <2>1 DEF LinkOK, Unlinked, Awaits
  <2>2. CASE x # s
    <3>1. PICK d : d = p_link[x]
      OBVIOUS
    <3>2. d # Null /\ Awaits(d, x) => Awaits(d, x)' \/ Gone(x)'
      BY <1>1, <1>2 DEF Awaits, Owned
    <3>3. LinkOK(x)
      BY <1>2 DEF JoinInv
    <3> QED BY <1>2, <1>3, <2>2, <3>1, <3>2, <3>3, LinkKept
  <2> QED BY <2>1, <2>2
<1>5. ASSUME NEW b \in Actors, b # a PROVE JoinOK(b)'
  <2>1. JoinOK(b) /\ Shape(b) /\ frame[b] \in Frames /\ Null \notin Threads
    BY InCallback
  <2>2. ~Announced(b, s)
    <3>1. ASSUME frame[b].callback = "suspend_join", frame[b].p_next = s PROVE FALSE
      <4>1. joining[frame[b].p_prev] = s /\ frame[b].p_prev \in Threads /\ Works(b, frame[b].p_prev)
        BY <2>1, <3>1 DEF JoinOK, Shape, NoFrame, Frames, Works
      <4>2. frame[b].p_prev = c
        BY <1>2, <1>3, <2>1, <4>1 DEF JoinInv, OwnJoiner, Callers
      <4> QED BY <1>5, <1>7, <4>1, <4>2
    <3>2. ASSUME pc[b] = "futex_link", joining[b] = s PROVE FALSE
      <4>1. b \in Callers /\ b \in Externals
        BY <2>1, <3>2 DEF Shape, Waking, Callers
      <4>2. b = c
        BY <1>2, <1>3, <2>1, <3>2, <4>1 DEF JoinInv, OwnJoiner
      <4> QED BY <1>5, <1>7, <4>1, <4>2
    <3> QED BY <3>1, <3>2 DEF Announced
  <2>3. ASSUME NEW x \in Threads, Announced(b, x), Unlinked(x) PROVE Unlinked(x)'
    BY <1>2, <1>3, <2>2, <2>3 DEF Unlinked
  <2> QED BY <1>2, <1>5, <2>1, <2>3, OthersJoin
<1>6. OwnJoiner'
  BY <1>2 DEF JoinInv, OwnJoiner
<1> QED BY <1>1, <1>4, <1>5, <1>6 DEF IInv, JoinInv
\* A joiner that is a ULT: it is BLOCKED, and now it can be found.
LEMMA SetLinkStep ==
  ASSUME IInv, YthreadConstants, NEW e \in Xstreams, SetLink(e)
  PROVE  IInv'
<1>0. PICK t, s : t = frame[e].p_prev /\ s = frame[e].p_next
  OBVIOUS
<1>1. /\ e \in Actors /\ pc[e] = "link" /\ p_thread' = p_thread
      /\ pc' = [pc EXCEPT ![e] = "run"] /\ frame' = [frame EXCEPT ![e] = NoFrame]
      /\ p_link' = [p_link EXCEPT ![s] = t]
      /\ UNCHANGED <<state, p_pool, request, migration_pool, p_last_xstream, queue,
                     num_blocked, joining, suspended, freed>>
  BY <1>0 DEF Actors, SetLink, userVars, poolVars, Return, Goto
<1>2. /\ Types /\ Queues /\ Null \notin Threads /\ Shape(e) /\ JoinOK(e) /\ frame[e] \in Frames
      /\ NoFrame \in Frames /\ "run" \in Locations /\ Threads \cap Externals = {}
  BY <1>1, InCallback DEF Locations, YthreadConstants
<1>3. /\ frame[e].callback = "suspend_join" /\ t # Null /\ t # Ctx(e) /\ s \in Threads
      /\ joining[t] = s /\ Unlinked(s)
  BY <1>0, <1>1, <1>2 DEF Shape, Waking, JoinOK, Frames, NoFrame
<1>4. /\ t \in Threads /\ Works(e, t) /\ Owns(e, t) /\ ~Queued(t) /\ state[t] = "BLOCKED"
      /\ t \notin suspended /\ t \in Callers
  BY <1>0, <1>1, <1>2, <1>3, Prev DEF Role, Callers
<1>5. Moves(e) /\ pc'[e] = "run" /\ frame'[e] = NoFrame /\ Ctx(e)' = Ctx(e)
  BY <1>1, <1>2, Goes
<1>6. Queues' /\ \A x : Queued(x)' <=> Queued(x)
  BY <1>1, <1>2, PoolsSame
<1>7. DataTypes'
  BY <1>1, <1>2, <1>3, <1>4 DEF Types, DataTypes
<1>8. ~Owns(e, t)'
  BY <1>2, <1>3, <1>4, <1>5 DEF Owns, Runs, Works, Wakes, Takes, NoFrame
<1>9. Fine(e, t)'
  BY <1>1, <1>4, <1>5, <1>6, <1>8 DEF Fine, Role, Owns
<1>10. Inside(e, {t})
  BY <1>0, <1>1, <1>2, <1>3, <1>4, <1>5, <1>6, <1>7, <1>9
     DEF Inside, Free, Owns, Runs, Works, Wakes, Takes, Role, Suspending, NoFrame
<1>11. Shape(e)' /\ JoinOK(e)'
  BY <1>5 DEF Shape, JoinOK, NoFrame
<1>12. \A b \in Actors \ {e} : ~Owns(b, t) /\ ~Works(b, t) /\ (b \in Externals => b # t)
  BY <1>1, <1>2, <1>4, Held DEF Owns
<1>13. Awaits(t, s)'
  BY <1>1, <1>3, <1>4, <1>5, <1>8, <1>12, OthersStay DEF Awaits, Owned
<1>14. \A x \in Threads : Gone(x)' <=> Gone(x)
  BY <1>1, <1>5, GoneStays DEF Past
<1>15. {t} \in SUBSET Threads /\ \A x \in {t} : Owns(e, x)
  BY <1>4
<1>16. Stores(e, {t}, t, s)
  BY <1>1, <1>3, <1>12, <1>13, <1>14, <1>15 DEF Stores
<1> QED BY <1>1, <1>3, <1>4, <1>10, <1>11, <1>15, <1>16, StoreLink

\* An external joiner stores the dummy that stands for it.
LEMMA SetFutexLinkStep ==
  ASSUME IInv, YthreadConstants, NEW x \in Externals, SetFutexLink(x)
  PROVE  IInv'
<1>0. PICK s : s = joining[x]
  OBVIOUS
<1>1. /\ x \in Actors /\ x \in Callers /\ pc[x] = "futex_link" /\ p_thread' = p_thread
      /\ pc' = [pc EXCEPT ![x] = "futex"] /\ frame' = frame
      /\ p_link' = [p_link EXCEPT ![s] = x]
      /\ UNCHANGED <<state, p_pool, request, migration_pool, p_last_xstream, queue,
                     num_blocked, joining, suspended, freed>>
  BY <1>0 DEF Actors, Callers, SetFutexLink, userVars, poolVars, Goto
<1>2. /\ Types /\ Queues /\ Null \notin Threads /\ Shape(x) /\ JoinOK(x) /\ frame[x] \in Frames
      /\ "futex" \in Locations /\ Threads \cap Externals = {}
  BY <1>1, InCallback DEF Locations, YthreadConstants
<1>3. frame[x] = NoFrame /\ s \in Threads /\ joining[x] = s /\ Unlinked(s)
  BY <1>0, <1>1, <1>2 DEF Shape, Waking, JoinOK, Types, DataTypes
<1>4. Moves(x) /\ pc'[x] = "futex" /\ frame'[x] = frame[x] /\ Ctx(x)' = Ctx(x)
  BY <1>1, <1>2, Goes
<1>5. Queues' /\ \A y : Queued(y)' <=> Queued(y)
  BY <1>1, <1>2, PoolsSame
<1>6. DataTypes'
  BY <1>1, <1>2, <1>3 DEF Types, DataTypes
<1>7. Inside(x, {})
  BY <1>1, <1>2, <1>3, <1>4, <1>5, <1>6
     DEF Inside, Owns, Runs, Works, Wakes, Takes, Role, Suspending, NoFrame
<1>8. Shape(x)' /\ JoinOK(x)'
  BY <1>3, <1>4 DEF Shape, JoinOK, NoFrame
<1>9. x \notin Threads
  BY <1>2
<1>10. ASSUME NEW b \in Actors \ {x} PROVE ~Works(b, x) /\ (b \in Externals => b # x)
  BY <1>2, <1>9, InCallback DEF Works, Frames, YthreadConstants
<1>11. Awaits(x, s)'
  BY <1>1, <1>3, <1>9 DEF Awaits
<1>12. \A y \in Threads : Gone(y)' <=> Gone(y)
  BY <1>1, <1>3, <1>4, GoneStays DEF Past
<1>13. Stores(x, {}, x, s)
  BY <1>1, <1>3, <1>10, <1>11, <1>12 DEF Stores
<1> QED BY <1>1, <1>3, <1>7, <1>8, <1>13, StoreLink
\* thread_join: the caller begins to join s, or finds it TERMINATED.
LEMMA JoinBegins ==
  ASSUME IInv, YthreadConstants, NEW a \in Actors, NEW s \in Threads, Join(a, s)
  PROVE  IInv'
<1>0. PICK c : c = Caller(a)
  OBVIOUS
<1>1. /\ pc[a] = "run" /\ c # Null /\ joining[c] = Null /\ JoinerOf[s] = c
      /\ joining' = [joining EXCEPT ![c] = s] /\ p_thread' = p_thread /\ frame' = frame
      /\ UNCHANGED <<state, p_pool, request, migration_pool, p_link, p_last_xstream, queue,
                     num_blocked, suspended, freed>>
  BY <1>0 DEF Join, InUserCode, threadVars, descVars, poolVars
<1>2. /\ Types /\ Queues /\ Null \notin Threads /\ Null \notin Externals /\ Shape(a) /\ JoinOK(a)
      /\ frame[a] \in Frames
  BY InCallback
<1>3. frame[a] = NoFrame /\ (a \in Xstreams => c = Ctx(a)) /\ (a \notin Xstreams => c = a)
  BY <1>0, <1>1, <1>2 DEF Shape, Waking, Caller, Ctx
<1>4. c \in Callers /\ (a \in Xstreams => c \in Threads)
  BY <1>1, <1>2, <1>3 DEF Types, ActorTypes, Callers, Ctx, Actors
<1>5. PICK l \in {"run", "join"} : pc' = [pc EXCEPT ![a] = l]
  <2>1. pc' = pc \/ pc' = [pc EXCEPT ![a] = "join"]
    BY DEF Join, Goto
  <2>2. pc = [pc EXCEPT ![a] = "run"]
    BY <1>1, <1>2 DEF Types, ActorTypes
  <2> QED BY <2>1, <2>2
<1>6. l \in Locations
  BY DEF Locations
<1>7. Moves(a) /\ pc'[a] = l /\ frame'[a] = frame[a] /\ Ctx(a)' = Ctx(a)
  BY <1>1, <1>2, <1>5, <1>6, Goes
<1>8. Queues' /\ \A x : Queued(x)' <=> Queued(x)
  BY <1>1, <1>2, PoolsSame
<1>9. DataTypes'
  BY <1>1, <1>2, <1>4, <1>8 DEF Types, DataTypes
<1>10. joining'[c] = s /\ \A d \in Callers \ {c} : joining'[d] = joining[d]
  BY <1>2, <1>1, <1>4 DEF Types, DataTypes
<1>11. PICK U \in SUBSET Threads : U = Threads \cap {c}
  OBVIOUS
<1>12. ASSUME c \in Threads PROVE Free(a, c) /\ Fine(a, c)'
  <2>1. a \in Xstreams /\ p_thread[a] = c
    BY <1>2, <1>3, <1>12 DEF Actors, YthreadConstants, Ctx
  <2>2. /\ Owns(a, c) /\ state[c] \in {"READY", "RUNNING"} /\ ~Queued(c) /\ c \notin suspended
    BY <1>1, <1>12, <2>1, Running
  <2>3. Owns(a, c)' /\ Role(a, c)'
    BY <1>1, <1>2, <1>3, <1>4, <1>5, <1>7, <1>12, <2>1, <2>2
       DEF Owns, Role, Runs, Works, Wakes, Takes, NoFrame
  <2> QED BY <1>1, <1>8, <2>2, <2>3 DEF Free, Fine
<1>13. Inside(a, U)
  BY <1>1, <1>2, <1>3, <1>4, <1>5, <1>7, <1>8, <1>9, <1>10, <1>11, <1>12
     DEF Inside, Owns, Runs, Works, Wakes, Takes, Role, Suspending, NoFrame, Callers
<1>14. Shape(a)'
  BY <1>1, <1>2, <1>3, <1>5, <1>7 DEF Shape
<1>15. /\ Types' /\ Queues' /\ PlaceInv'
       /\ \A d \in Threads \ U : state[d] = "BLOCKED" /\ ~Owned(d) =>
            state'[d] = "BLOCKED" /\ ~Owned(d)'
  BY <1>13, <1>14, InsidePlaces
<1>16. PlaceInv /\ JoinInv
  BY DEF IInv
<1>17. ASSUME NEW x \in Threads PROVE Gone(x)' <=> Gone(x)
  BY <1>1, <1>5, <1>7, GoneStays DEF Past
<1>18. ASSUME NEW x \in Threads PROVE LinkOK(x)'
  <2>1. PICK d : d = p_link[x]
    OBVIOUS
  <2>2. d \in Callers \cup {Null} /\ LinkOK(x)
    BY <1>2, <1>16, <2>1 DEF Types, DataTypes, JoinInv
  <2>3. d # Null /\ Awaits(d, x) => Awaits(d, x)' \/ Gone(x)'
    BY <1>1, <1>2, <1>10, <1>11, <1>15, <2>2 DEF Awaits
  <2> QED BY <1>1, <1>17, <2>1, <2>2, <2>3, LinkKept
<1>19. ASSUME NEW b \in Actors, b # a PROVE JoinOK(b)'
  <2>1. JoinOK(b) /\ Shape(b) /\ Moves(a)
    BY <1>7, InCallback
  <2>2. \A d \in Callers : Minds(b, d) /\ joining[d] # Null => joining'[d] = joining[d]
    BY <1>1, <1>10
  <2>3. \A x \in Threads : Announced(b, x) /\ Unlinked(x) => Unlinked(x)'
    BY <1>1, <1>17 DEF Unlinked
  <2> QED BY <1>2, <1>19, <2>1, <2>2, <2>3, OthersJoin
<1>20. JoinOK(a)'
  <2>1. Caller(a)' = c
    BY <1>0, <1>1 DEF Caller
  <2>2. s # Null
    BY <1>2
  <2> QED BY <1>3, <1>5, <1>7, <1>10, <2>1, <2>2 DEF JoinOK, NoFrame
<1>21. OwnJoiner'
  BY <1>1, <1>10, <1>16 DEF JoinInv, OwnJoiner
<1> QED BY <1>15, <1>18, <1>19, <1>20, <1>21 DEF IInv, JoinInv

\* The joiner has been woken.
LEMMA FutexSuspendStep ==
  ASSUME IInv, YthreadConstants, NEW x \in Externals, FutexSuspend(x)
  PROVE  IInv'
<1>1. /\ x \in Actors /\ pc[x] = "futex" /\ p_thread' = p_thread /\ frame' = frame
      /\ pc' = [pc EXCEPT ![x] = "run"] /\ "run" \in Locations
      /\ UNCHANGED <<state, p_pool, request, migration_pool, p_link, p_last_xstream, queue,
                     num_blocked, joining, suspended, freed>>
  BY DEF Actors, FutexSuspend, threadVars, descVars, poolVars, userVars, Goto, Locations
<1>2. /\ Types /\ Queues /\ Null \notin Threads /\ Shape(x) /\ frame[x] \in Frames
  BY <1>1, InCallback
<1>3. frame[x] = NoFrame
  BY <1>1, <1>2 DEF Shape, Waking
<1>4. Moves(x) /\ pc'[x] = "run" /\ frame'[x] = frame[x] /\ Ctx(x)' = Ctx(x)
  BY <1>1, <1>2, Goes
<1>5. Queues' /\ \A y : Queued(y)' <=> Queued(y)
  BY <1>1, <1>2, PoolsSame
<1>6. DataTypes'
  BY <1>1, <1>2 DEF Types, DataTypes
<1>7. Inside(x, {})
  BY <1>1, <1>2, <1>3, <1>4, <1>5, <1>6
     DEF Inside, Owns, Runs, Works, Wakes, Takes, Role, Suspending, NoFrame
<1>8. Shape(x)'
  BY <1>3, <1>4 DEF Shape
<1>9. Quiet(x)
  BY <1>1, <1>3, <1>4, GoneStays DEF Quiet, Carries, Past, NoFrame
<1> QED BY <1>1, <1>7, <1>8, <1>9, InsideStep

\* A TERMINATED ULT is in nobody's hands.
LEMMA TerminatedIsFree ==
  ASSUME IInv, YthreadConstants, NEW s \in Threads, state[s] = "TERMINATED"
  PROVE  /\ \A b \in Actors : ~Owns(b, s) /\ ~Past(b, s)
         /\ ~Queued(s) /\ s \notin suspended /\ Gone(s)
<1>1. ASSUME NEW b \in Actors PROVE ~Owns(b, s)
  BY Held
<1>2. ASSUME NEW b \in Actors PROVE ~Past(b, s)
  BY <1>1 DEF Past, Works, Owns
<1>3. Placed(s) /\ Null \notin Threads
  BY DEF IInv, PlaceInv, YthreadConstants
<1>4. ASSUME NEW b \in Actors PROVE ~Suspending(b, s)
  BY <1>1, <1>3, InCallback, SuspendingWorks DEF Owns
<1> QED BY <1>1, <1>2, <1>3, <1>4 DEF Placed, Gone
\* When a join returns nobody else is in the middle of the same join, or of one by its target.
LEMMA NotMinded ==
  ASSUME IInv, YthreadConstants, NEW a \in Actors, pc[a] = "run", NEW c, c = Caller(a), c # Null,
         NEW s \in Threads, joining[c] = s, state[s] = "TERMINATED",
         NEW b \in Actors, b # a, NEW d, Minds(b, d)
  PROVE  d # c /\ d # s
<1>1. /\ Types /\ Null \notin Threads /\ Null \notin Externals /\ Threads \cap Externals = {}
      /\ Shape(b) /\ JoinOK(b) /\ frame[b] \in Frames
  BY InCallback DEF YthreadConstants
<1>2. ~Owns(b, s)
  BY TerminatedIsFree
<1>3. ASSUME c \in Threads PROVE ~Owns(b, c)
  <2>1. Runs(a, c)
    BY <1>1, <1>3 DEF Caller, Runs, Ctx, Actors
  <2> QED BY <1>3, <2>1, Held DEF Owns
<1>4. c \in Threads \/ c = a
  BY <1>1 DEF Caller, Types, ActorTypes
<1>5. CASE pc[b] = "join" /\ d = Caller(b)
  <2>1. d # Null /\ ((Runs(b, d) /\ d \in Threads) \/ (d = b /\ b \in Externals))
    BY <1>1, <1>5 DEF Shape, Waking, Caller, Ctx, Runs, Types, ActorTypes, Actors
  <2> QED BY <1>1, <1>2, <1>3, <1>4, <2>1 DEF Owns
<1>6. CASE frame[b].callback = "suspend_join" /\ d = frame[b].p_prev
  <2>1. d \in Threads /\ Works(b, d)
    BY <1>1, <1>6 DEF Shape, NoFrame, Frames, Works
  <2>2. a \in Externals => c # d
    BY <1>1, <1>4, <2>1, <1>3 DEF Owns
  <2> QED BY <1>1, <1>2, <1>3, <1>4, <2>1, <2>2 DEF Owns
<1>7. CASE pc[b] = "futex_link" /\ d = b
  <2>1. b \in Externals
    BY <1>1, <1>7 DEF Shape, Waking
  <2> QED BY <1>1, <1>4, <1>7, <2>1
<1>8. CASE /\ pc[b] \in {"wake", "push", "jump", "futex_wake"} /\ frame[b].p_prev # Null
           /\ d = frame[b].p_joiner
  <2>1. joining[d] = frame[b].p_prev /\ Works(b, frame[b].p_prev)
    BY <1>1, <1>8 DEF JoinOK, Works
  <2>2. d # c
    BY <1>2, <2>1 DEF Owns
  <2>3. d # s
    BY <1>1, <1>2, <1>8 DEF Owns, Wakes, Shape
  <2> QED BY <2>2, <2>3
<1> QED BY <1>5, <1>6, <1>7, <1>8 DEF Minds

\* Free or revive: in both cases nobody else knows the ULT any more.
LEMMA JoinReturnsStep ==
  ASSUME IInv, YthreadConstants, NEW a \in Actors, JoinReturns(a)
  PROVE  IInv'
<1>0. PICK c, s : c = Caller(a) /\ s = joining[c]
  OBVIOUS
<1>1. /\ pc[a] = "run" /\ c # Null /\ s # Null /\ state[s] = "TERMINATED"
      /\ UNCHANGED <<num_blocked, p_thread, pc, frame, suspended>>
  BY <1>0 DEF JoinReturns
<1>2. /\ Types /\ Queues /\ Null \notin Threads /\ Null \notin Externals /\ Shape(a) /\ JoinOK(a)
      /\ frame[a] \in Frames /\ "run" \in Locations /\ Threads \cap Externals = {}
  BY InCallback DEF Locations, YthreadConstants
<1>3. frame[a] = NoFrame /\ (a \in Xstreams => c = Ctx(a)) /\ (a \notin Xstreams => c = a)
  BY <1>0, <1>1, <1>2 DEF Shape, Waking, Caller, Ctx
<1>4. c \in Callers /\ s \in Threads /\ (c \in Threads => a \in Xstreams /\ p_thread[a] = c)
  BY <1>0, <1>1, <1>2, <1>3 DEF Types, ActorTypes, DataTypes, Callers, Ctx, Actors
<1>5. pc' = [pc EXCEPT ![a] = "run"] /\ p_thread' = p_thread /\ frame' = frame
  BY <1>1, <1>2 DEF Types, ActorTypes
<1>6. Moves(a) /\ pc'[a] = "run" /\ frame'[a] = frame[a] /\ Ctx(a)' = Ctx(a)
  BY <1>2, <1>5, Goes
<1>7. \A x : Owns(a, x)' <=> Owns(a, x)
  BY <1>1, <1>6 DEF Owns, Runs, Works, Wakes, Takes
<1>8. \A b \in Actors : ~Owns(b, s) /\ ~Past(b, s)
  BY <1>1, <1>4, TerminatedIsFree
<1>9. ~Queued(s) /\ s \notin suspended /\ Gone(s)
  BY <1>1, <1>4, TerminatedIsFree
<1>10. ASSUME c \in Threads
       PROVE  Owns(a, c) /\ state[c] \in {"READY", "RUNNING"} /\ ~Queued(c) /\ c \notin suspended
  BY <1>1, <1>4, <1>10, Running
<1>11. c # s
  BY <1>1, <1>10, <1>4
<1>12. \A b \in Actors \ {a} : \A d : Minds(b, d) => d # c /\ d # s
  BY <1>0, <1>1, <1>4, NotMinded
<1>13. Shape(a)'
  BY <1>3, <1>6 DEF Shape
<1>14. PlaceInv /\ JoinInv
  BY DEF IInv
<1>15. JoinOK(a)'
  BY <1>3, <1>6 DEF JoinOK, NoFrame
<1>16. ASSUME /\ joining' = [joining EXCEPT ![c] = Null] /\ freed' = freed \cup {s}
              /\ UNCHANGED <<state, p_pool, request, migration_pool, p_link, p_last_xstream, queue>>
       PROVE  IInv'
  <2>1. Queues' /\ \A x : Queued(x)' <=> Queued(x)
    BY <1>2, <1>16, PoolsSame
  <2>2. DataTypes'
    BY <1>1, <1>2, <1>4, <1>16, <2>1 DEF Types, DataTypes
  <2>3. joining'[c] = Null /\ \A d \in Callers \ {c} : joining'[d] = joining[d]
    BY <1>2, <1>4, <1>16 DEF Types, DataTypes
  <2>4. PICK U \in SUBSET Threads : U = Threads \cap {c}
    OBVIOUS
  <2>5. ASSUME c \in Threads PROVE Free(a, c) /\ Fine(a, c)'
    BY <1>1, <1>2, <1>3, <1>6, <1>7, <1>10, <1>16, <2>1, <2>5
       DEF Free, Fine, Role, Owns, Runs, Works, Wakes, Takes, NoFrame
  <2>6. Inside(a, U)
    BY <1>1, <1>3, <1>6, <1>7, <1>16, <2>1, <2>2, <2>3, <2>4, <2>5
       DEF Inside, Role, Owns, Runs, Works, Wakes, Takes, Suspending, Callers
  <2>7. /\ Types' /\ Queues' /\ PlaceInv'
        /\ \A d \in Threads \ U : state[d] = "BLOCKED" /\ ~Owned(d) =>
             state'[d] = "BLOCKED" /\ ~Owned(d)'
    BY <1>13, <2>6, InsidePlaces
  <2>8. ASSUME NEW x \in Threads PROVE Gone(x)' <=> Gone(x)
    BY <1>1, <1>6, <1>16, GoneStays DEF Past
  <2>9. ASSUME NEW x \in Threads PROVE LinkOK(x)'
    <3>1. PICK d : d = p_link[x]
      OBVIOUS
    <3>2. d \in Callers \cup {Null} /\ LinkOK(x)
      BY <1>2, <1>14, <3>1 DEF Types, DataTypes, JoinInv
    <3>3. d # Null /\ Awaits(d, x) => Awaits(d, x)' \/ Gone(x)'
      BY <1>0, <1>9, <2>3, <2>4, <2>7, <2>8, <3>2 DEF Awaits
    <3> QED BY <1>16, <2>8, <3>1, <3>2, <3>3, LinkKept
  <2>10. ASSUME NEW b \in Actors, b # a PROVE JoinOK(b)'
    <3>1. JoinOK(b) /\ Shape(b)
      BY InCallback
    <3>2. \A d \in Callers : Minds(b, d) /\ joining[d] # Null => joining'[d] = joining[d]
      BY <1>12, <2>3, <2>10
    <3>3. \A x \in Threads : Announced(b, x) /\ Unlinked(x) => Unlinked(x)'
      BY <1>16, <2>8 DEF Unlinked
    <3> QED BY <1>2, <1>6, <2>10, <3>1, <3>2, <3>3, OthersJoin
  <2>11. OwnJoiner'
    BY <1>14, <2>3 DEF JoinInv, OwnJoiner
  <2> QED BY <1>15, <2>7, <2>9, <2>10, <2>11 DEF IInv, JoinInv
<1>17. ASSUME NEW p \in Pools,
              p_pool' = [p_pool EXCEPT ![s] = p], queue' = [queue EXCEPT ![p] = Append(@, s)],
              joining' = [joining EXCEPT ![c] = Null, ![s] = Null],
              state' = [state EXCEPT ![s] = "READY"], request' = [request EXCEPT ![s] = {}],
              p_last_xstream' = [p_last_xstream EXCEPT ![s] = Null],
              p_link' = [p_link EXCEPT ![s] = Null], UNCHANGED <<migration_pool, freed>>
       PROVE  IInv'
  <2>1. /\ Queues' /\ queue' \in [Pools -> Seq(Threads)]
        /\ \A x \in Threads : Queued(x)' <=> x = s \/ Queued(x)
    <3>1. p_pool'[s] = p /\ \A x \in Threads \ {s} : p_pool'[x] = p_pool[x]
      BY <1>2, <1>4, <1>17 DEF Types, DataTypes
    <3> QED BY <1>2, <1>4, <1>9, <1>17, <3>1, PoolAppend
  <2>2. DataTypes'
    BY <1>1, <1>2, <1>4, <1>17, <2>1 DEF Types, DataTypes, Callers
  <2>3. /\ joining'[c] = Null /\ joining'[s] = Null
        /\ \A d \in Callers \ {c, s} : joining'[d] = joining[d]
    BY <1>2, <1>4, <1>17 DEF Types, DataTypes, Callers
  <2>4. /\ state'[s] = "READY" /\ "JOIN" \notin request'[s] /\ p_link'[s] = Null
        /\ \A x \in Threads \ {s} : /\ state'[x] = state[x] /\ request'[x] = request[x]
                                    /\ p_link'[x] = p_link[x]
    BY <1>2, <1>4, <1>17 DEF Types, DataTypes
  <2>5. PICK U \in SUBSET Threads : U = (Threads \cap {c}) \cup {s}
    BY <1>4
  <2>6. ASSUME c \in Threads PROVE Free(a, c) /\ Fine(a, c)'
    BY <1>1, <1>2, <1>3, <1>6, <1>7, <1>10, <1>11, <2>1, <2>4, <2>6
       DEF Free, Fine, Role, Owns, Runs, Works, Wakes, Takes, NoFrame
  <2>7. Free(a, s) /\ Fine(a, s)'
    BY <1>1, <1>4, <1>7, <1>8, <1>9, <2>1, <2>4 DEF Free, Fine, Role, Owns
  <2>8. Inside(a, U)
    BY <1>1, <1>3, <1>6, <1>7, <2>1, <2>2, <2>3, <2>4, <2>5, <2>6, <2>7
       DEF Inside, Role, Owns, Runs, Works, Wakes, Takes, Suspending, Callers
  <2>9. /\ Types' /\ Queues' /\ PlaceInv'
        /\ \A d \in Threads \ U : state[d] = "BLOCKED" /\ ~Owned(d) =>
             state'[d] = "BLOCKED" /\ ~Owned(d)'
    BY <1>13, <2>8, InsidePlaces
  <2>10. ASSUME NEW x \in Threads, x # s PROVE Gone(x)' <=> Gone(x)
    BY <1>1, <1>6, <2>4, <2>10, GoneStays DEF Past
  <2>11. ~Gone(s)'
    BY <1>1, <1>8, <2>4 DEF Gone, Past
  <2>12. ASSUME NEW x \in Threads PROVE LinkOK(x)'
    <3>1. CASE x = s
      BY <2>4, <2>11, <3>1 DEF LinkOK
    <3>2. CASE x # s
      <4>1. PICK d : d = p_link[x]
        OBVIOUS
      <4>2. d \in Callers \cup {Null} /\ LinkOK(x)
        BY <1>2, <1>14, <4>1 DEF Types, DataTypes, JoinInv
      <4>3. d # Null /\ Awaits(d, x) => Awaits(d, x)' \/ Gone(x)'
        <5>1. Awaits(d, x) => d # s /\ d # c
          BY <1>0, <1>1, <1>4, <3>2 DEF Awaits
        <5> QED BY <2>3, <2>5, <2>9, <4>2, <5>1 DEF Awaits
      <4> QED BY <2>4, <2>10, <3>2, <4>1, <4>2, <4>3, LinkKept
    <3> QED BY <3>1, <3>2
  <2>13. ASSUME NEW b \in Actors, b # a PROVE JoinOK(b)'
    <3>1. JoinOK(b) /\ Shape(b)
      BY InCallback
    <3>2. \A d \in Callers : Minds(b, d) /\ joining[d] # Null => joining'[d] = joining[d]
      BY <1>12, <2>3, <2>13
    <3>3. \A x \in Threads : Announced(b, x) /\ Unlinked(x) => Unlinked(x)'
      BY <1>9, <2>4, <2>10 DEF Unlinked
    <3> QED BY <1>2, <1>6, <2>13, <3>1, <3>2, <3>3, OthersJoin
  <2>14. OwnJoiner'
    BY <1>14, <2>3 DEF JoinInv, OwnJoiner
  <2> QED BY <1>15, <2>9, <2>12, <2>13, <2>14 DEF IInv, JoinInv
<1>18. \/ /\ joining' = [joining EXCEPT ![c] = Null] /\ freed' = freed \cup {s}
          /\ UNCHANGED <<state, p_pool, request, migration_pool, p_link, p_last_xstream, queue>>
       \/ \E p \in Pools :
          /\ p_pool' = [p_pool EXCEPT ![s] = p] /\ queue' = [queue EXCEPT ![p] = Append(@, s)]
          /\ joining' = [joining EXCEPT ![c] = Null, ![s] = Null]
          /\ state' = [state EXCEPT ![s] = "READY"] /\ request' = [request EXCEPT ![s] = {}]
          /\ p_last_xstream' = [p_last_xstream EXCEPT ![s] = Null]
          /\ p_link' = [p_link EXCEPT ![s] = Null] /\ UNCHANGED <<migration_pool, freed>>
  BY <1>0 DEF JoinReturns, threadVars, descVars, SetState
<1> QED BY <1>16, <1>17, <1>18
------------------------------------------------------------------------------
(* The invariant *)

\* A request other than to join changes nothing that the invariant looks at.
LEMMA StillStep ==
  ASSUME IInv, UNCHANGED <<pc, frame, p_thread, state, p_pool, queue, joining, suspended, p_link>>,
         DataTypes', \A t \in Threads : "JOIN" \in request'[t] <=> "JOIN" \in request[t]
  PROVE  IInv'
<1>1. /\ Types /\ Queues /\ PlaceInv /\ JoinInv
      /\ pc' = pc /\ frame' = frame /\ p_thread' = p_thread /\ state' = state /\ p_pool' = p_pool
      /\ queue' = queue /\ joining' = joining /\ suspended' = suspended /\ p_link' = p_link
  BY DEF IInv
<1>2. /\ \A t : Gone(t)' <=> Gone(t)
      /\ \A t : Owned(t)' <=> Owned(t)
      /\ \A t : Queued(t)' <=> Queued(t)
      /\ \A a, t : (Role(a, t)' <=> Role(a, t)) /\ (Owns(a, t)' <=> Owns(a, t))
                   /\ (Suspending(a, t)' <=> Suspending(a, t))
      /\ \A a : Shape(a)' <=> Shape(a)
  <2>1. \A a : Ctx(a)' = Ctx(a)
    BY <1>1 DEF Ctx
  <2>2. \A a, t : /\ Owns(a, t)' <=> Owns(a, t)
                  /\ Role(a, t)' <=> Role(a, t)
                  /\ Suspending(a, t)' <=> Suspending(a, t)
                  /\ Past(a, t)' <=> Past(a, t)
    BY <1>1, <2>1 DEF Owns, Runs, Works, Wakes, Takes, Role, Suspending, Past
  <2>3. \A a : Shape(a)' <=> Shape(a)
    BY <1>1, <2>1 DEF Shape
  <2>4. \A t : Queued(t)' <=> Queued(t)
    BY <1>1 DEF Queued
  <2> QED BY <1>1, <2>2, <2>3, <2>4 DEF Gone, Owned
<1>3. Types'
  BY <1>1 DEF Types, ActorTypes
<1>4. Queues'
  BY <1>1 DEF Queues
<1>5. PlaceInv'
  BY <1>1, <1>2 DEF PlaceInv, Alone, Placed
<1>6. \A c, s : Awaits(c, s)' <=> Awaits(c, s)
  BY <1>1, <1>2 DEF Awaits
<1>7. ASSUME NEW s \in Threads PROVE LinkOK(s)' /\ (Unlinked(s) => Unlinked(s)')
  BY <1>1, <1>2, <1>6 DEF JoinInv, LinkOK, Unlinked
<1>8. ASSUME NEW a \in Actors PROVE JoinOK(a)'
  <2>1. Shape(a) /\ JoinOK(a) /\ frame[a] \in Frames /\ joining \in [Callers -> Threads \cup {Null}]
    BY <1>1 DEF PlaceInv, JoinInv, Types, ActorTypes, DataTypes
  <2>2. frame[a].callback = "suspend_join" => frame[a].p_next \in Threads
    BY <2>1 DEF Shape, Frames, NoFrame
  <2>3. pc[a] = "futex_link" /\ joining[a] # Null => joining[a] \in Threads
    BY <2>1 DEF Shape, Waking, Callers
  <2>4. Caller(a)' = Caller(a)
    BY <1>1 DEF Caller
  <2> QED BY <1>1, <1>7, <2>1, <2>2, <2>3, <2>4 DEF JoinOK
<1> QED BY <1>1, <1>3, <1>4, <1>5, <1>7, <1>8 DEF IInv, JoinInv, OwnJoiner

\* Cancellation and migration requests come at any time.
LEMMA RequestsStep ==
  ASSUME IInv, YthreadConstants, RequestStep
  PROVE  IInv'
<1>1. Types
  BY DEF IInv
<1>2. ASSUME NEW t \in Threads, Cancel(t) PROVE IInv'
  <2>1. /\ UNCHANGED <<pc, frame, p_thread, state, p_pool, queue, joining, suspended, p_link>>
        /\ UNCHANGED <<migration_pool, p_last_xstream, num_blocked, freed>>
        /\ request' = [request EXCEPT ![t] = @ \cup {"CANCEL"}]
    BY <1>2 DEF Cancel, poolVars
  <2>2. \A x \in Threads : request'[x] = request[x] \/ request'[x] = request[x] \cup {"CANCEL"}
    BY <1>1, <2>1 DEF Types, DataTypes
  <2>3. request' \in [Threads -> SUBSET {"JOIN", "CANCEL", "MIGRATE"}]
    <3>1. ASSUME NEW x \in Threads PROVE request'[x] \in SUBSET {"JOIN", "CANCEL", "MIGRATE"}
      <4>1. request[x] \in SUBSET {"JOIN", "CANCEL", "MIGRATE"}
        BY <1>1 DEF Types, DataTypes
      <4> QED BY <4>1, <2>2
    <3>2. request' = [x \in Threads |-> request'[x]]
      BY <1>1, <2>1 DEF Types, DataTypes
    <3> QED BY <3>1, <3>2
  <2>4. DataTypes'
    <3>1. \A x \in Threads : "MIGRATE" \in request'[x] => migration_pool'[x] \in Pools
      BY <1>1, <2>1, <2>2 DEF Types, DataTypes
    <3> QED BY <1>1, <2>1, <2>3, <3>1 DEF Types, DataTypes
  <2>5. \A x \in Threads : "JOIN" \in request'[x] <=> "JOIN" \in request[x]
    BY <2>2
  <2> QED BY <2>1, <2>4, <2>5, StillStep
<1>3. ASSUME NEW t \in Threads, NEW p \in Pools, MigrateToPool(t, p) PROVE IInv'
  <2>1. /\ UNCHANGED <<pc, frame, p_thread, state, p_pool, queue, joining, suspended, p_link>>
        /\ UNCHANGED <<p_last_xstream, num_blocked, freed>>
        /\ request' = [request EXCEPT ![t] = @ \cup {"MIGRATE"}]
        /\ migration_pool' = [migration_pool EXCEPT ![t] = p]
    BY <1>3 DEF MigrateToPool, poolVars
  <2>2. \A x \in Threads : \/ request'[x] = request[x]
                           \/ x = t /\ request'[x] = request[x] \cup {"MIGRATE"}
    BY <1>1, <2>1 DEF Types, DataTypes
  <2>3. request' \in [Threads -> SUBSET {"JOIN", "CANCEL", "MIGRATE"}]
    <3>1. ASSUME NEW x \in Threads PROVE request'[x] \in SUBSET {"JOIN", "CANCEL", "MIGRATE"}
      <4>1. request[x] \in SUBSET {"JOIN", "CANCEL", "MIGRATE"}
        BY <1>1 DEF Types, DataTypes
      <4> QED BY <4>1, <2>2
    <3>2. request' = [x \in Threads |-> request'[x]]
      BY <1>1, <2>1 DEF Types, DataTypes
    <3> QED BY <3>1, <3>2
  <2>4. DataTypes'
    <3>1. \A x \in Threads : "MIGRATE" \in request'[x] => migration_pool'[x] \in Pools
      BY <1>1, <2>1, <2>2 DEF Types, DataTypes
    <3> QED BY <1>1, <2>1, <2>3, <3>1 DEF Types, DataTypes
  <2>5. \A x \in Threads : "JOIN" \in request'[x] <=> "JOIN" \in request[x]
    BY <2>2
  <2> QED BY <2>1, <2>4, <2>5, StillStep
<1> QED BY <1>2, <1>3 DEF RequestStep

\* At the beginning every ULT is in its pool.
LEMMA InitOK ==
  ASSUME YthreadConstants, Init
  PROVE  IInv
<1>1. /\ Null \notin Threads \cup Externals /\ Home \in [Threads -> Pools]
      /\ JoinerOf \in [Threads -> Callers]
  BY DEF YthreadConstants
<1>2. ASSUME NEW p \in Pools
      PROVE  /\ queue[p] \in Seq(Threads) /\ Distinct(queue[p])
             /\ \A t \in Threads : Listed(queue[p], t) <=> Home[t] = p
  <2> DEFINE T == {t \in Threads : Home[t] = p}
  <2>1. queue[p] \in SetToSeqs(T)
    BY DEF Init
  <2>2. IsFiniteSet(T)
    BY FS_Subset DEF YthreadConstants
  <2>3. /\ queue[p] \in [1..Cardinality(T) -> T]
        /\ \A i, j \in 1..Cardinality(T) : i # j => queue[p][i] # queue[p][j]
    BY <2>1 DEF SetToSeqs
  <2> DEFINE n == Cardinality(T)
  <2>4. n \in Nat /\ IsFiniteSet(1..n) /\ Cardinality(1..n) = n
    BY <2>2, FS_CardinalityType, FS_Interval
  <2> HIDE DEF T
  <2>5. queue[p] \in Injection(1..n, T)
    <3>1. \A i, j \in 1..n : queue[p][i] = queue[p][j] => i = j
      BY <2>3
    <3>2. queue[p] \in [1..n -> T]
      BY <2>3
    <3> QED BY <3>1, <3>2 DEF Injection, IsInjective
  <2>6. queue[p] \in Surjection(1..n, T)
    BY <2>2, <2>4, <2>5, FS_Injection
  <2>7. queue[p] \in Seq(T) /\ Len(queue[p]) = n
    BY <2>3, <2>4
  <2>8. \A t : Listed(queue[p], t) <=> t \in T
    BY <2>3, <2>4, <2>6, <2>7 DEF Listed, Surjection
  <2>9. Distinct(queue[p])
    BY <2>3, <2>7 DEF Distinct
  <2>10. queue[p] \in Seq(Threads)
    BY <2>7 DEF T
  <2> QED BY <2>8, <2>9, <2>10 DEF T
<1>3. queue \in [Pools -> Seq(Threads)] /\ Queues
  <2>1. \A S \in SUBSET Threads : SetToSeqs(S) \subseteq UNION {SetToSeqs(T) : T \in SUBSET Threads}
    OBVIOUS
  <2>2. queue = [p \in Pools |-> queue[p]] /\ p_pool = Home
    BY DEF Init
  <2> QED BY <1>2, <2>2 DEF Queues
<1>4. \A a \in Actors : /\ pc[a] = "run" /\ frame[a] = NoFrame /\ Ctx(a) = Null
                        /\ Caller(a) \in Externals \cup {Null}
  BY DEF Init, Ctx, Caller, Actors
<1>5. \A t \in Threads : /\ state[t] = "READY" /\ request[t] = {} /\ p_link[t] = Null
                         /\ joining[t] = Null /\ Queued(t)
  BY <1>1, <1>2 DEF Init, Queued, Callers
<1>6. Types
  <2>1. NoFrame \in Frames /\ "run" \in Locations
    BY DEF NoFrame, Frames, Callbacks, Locations
  <2> QED BY <1>1, <1>3, <1>5, <2>1 DEF Types, ActorTypes, DataTypes, Init
<1>7. \A a \in Actors, t \in Threads : ~Owns(a, t) /\ ~Past(a, t)
  BY <1>1, <1>4 DEF Owns, Runs, Works, Wakes, Takes, NoFrame, Past
<1>8. PlaceInv
  <2>1. \A a \in Actors : Shape(a)
    BY <1>4 DEF Shape
  <2>2. \A a \in Actors, t \in Threads : Role(a, t)
    BY <1>7 DEF Role, Owns
  <2>3. \A t \in Threads : Placed(t)
    BY <1>5, <1>7 DEF Placed, Owned, Init
  <2> QED BY <1>7, <2>1, <2>2, <2>3 DEF PlaceInv, Alone
<1>9. JoinInv
  <2>1. \A s \in Threads : LinkOK(s)
    BY <1>5, <1>7 DEF LinkOK, Gone
  <2>2. \A a \in Actors : JoinOK(a)
    BY <1>4 DEF JoinOK, NoFrame
  <2> QED BY <2>1, <2>2 DEF JoinInv, OwnJoiner, Init
<1> QED BY <1>3, <1>6, <1>8, <1>9 DEF IInv

\* So does a step of somebody else.
LEMMA StutterOK ==
  ASSUME IInv, UNCHANGED vars
  PROVE  IInv'
<1>1. DataTypes'
  BY DEF vars, threadVars, descVars, poolVars, userVars, IInv, Types, DataTypes
<1> QED BY <1>1, StillStep DEF vars, threadVars, descVars, poolVars, userVars

\* Every step keeps the invariant.
LEMMA NextOK ==
  ASSUME IInv, YthreadConstants, Next
  PROVE  IInv'
<1>1. ASSUME NEW e \in Xstreams, UserStep(e) PROVE IInv'
  BY <1>1, LoneSteps, ToSteps, ResumeToSteps, ThreadYieldToStep DEF UserStep
<1>2. ASSUME NEW a \in Actors, AnyStep(a) PROVE IInv'
  BY <1>2, ResumeAndPushStep, PushDecStep, RequestJoinStep, JoinReturnsStep, ResumeStep, JoinBegins
     DEF AnyStep
<1>3. ASSUME NEW e \in Xstreams, RuntimeStep(e) PROVE IInv'
  <2>1. ASSUME JoinYields(e) PROVE IInv'
    <3>1. p_thread[e] \in Threads
      BY <2>1 DEF JoinYields, IInv, Types, ActorTypes
    <3> QED BY <2>1, <3>1, LoneSteps
  <2> QED BY <1>3, <2>1, RemoveStep, IncStep, DecStep, HandleRequestStep, AddStep, BlockStep,
             SetLinkStep, TerminateStep, LoadLinkStep, SetJoinFlagStep, SpinOnLinkStep, WakeStep,
             FutexWakeStep, JumpStep, LeaveStep, ScheduleStep DEF RuntimeStep
<1>4. ASSUME NEW x \in Externals, ExternalStep(x) PROVE IInv'
  BY <1>2, <1>4, SetFutexLinkStep, FutexSuspendStep DEF ExternalStep, Actors
<1>5. ASSUME UNCHANGED vars PROVE IInv'
  BY <1>5, StutterOK
<1>6. ASSUME NEW e \in Xstreams, XstreamStep(e) PROVE IInv'
  BY <1>1, <1>2, <1>3, <1>6 DEF XstreamStep, Actors
<1> QED BY <1>4, <1>5, <1>6, RequestsStep DEF Next, Terminated
------------------------------------------------------------------------------
(* What the invariant says *)

\* Every field has its type.
LEMMA TypesMean ==
  ASSUME IInv, YthreadConstants
  PROVE  TypeOK
<1>1. ASSUME NEW a \in Actors PROVE pc[a] = "run" => frame[a] = NoFrame
  BY InCallback DEF Shape, Waking
<1>2. \A a \in Actors : frame[a] \in Frames
  BY InCallback
<1> QED BY <1>1, <1>2 DEF IInv, Types, ActorTypes, DataTypes, TypeOK, Frames

\* What each kind of place means.
LEMMA PlacesMean ==
  ASSUME IInv, YthreadConstants, NEW t \in Threads, NEW x \in Places(t)
  PROVE  \/ \E p \in Pools : \E i \in 1..Len(queue[p]) : x = <<p, i>> /\ queue[p][i] = t
         \/ \E e \in Xstreams : x = <<e, 0>> /\ (Runs(e, t) \/ Works(e, t))
         \/ \E a \in Actors : /\ x = <<a, 1>> /\ Wakes(a, t) /\ ~Runs(a, t) /\ ~Works(a, t)
<1> DEFINE A == UNION {{<<p, i>> : i \in {k \in 1..Len(queue[p]) : queue[p][k] = t}} :
                       p \in Pools}
           B == {<<e, 0>> : e \in {f \in Xstreams : p_thread[f] = t}}
           C == {<<e, 0>> : e \in {f \in Xstreams : frame[f].p_prev = t
                                                  /\ pc[f] \notin {"dec", "link"}}}
           D == {<<e, 1>> : e \in {a \in Actors : frame[a].p_joiner = t
                                                /\ pc[a] \in {"push", "jump"}}}
<1>1. CASE x \in A
  BY <1>1
<1>2. CASE x \in B
  BY <1>2 DEF Runs, Ctx
<1>3. CASE x \in C
  BY <1>3 DEF Works
<1>4. CASE x \in D
  <2>1. PICK a \in Actors : x = <<a, 1>> /\ frame[a].p_joiner = t /\ pc[a] \in {"push", "jump"}
    BY <1>4
  <2>2. Wakes(a, t) /\ ~Runs(a, t) /\ ~Works(a, t)
    BY <2>1, Woken DEF Wakes
  <2> QED BY <2>1, <2>2
<1>5. x \in A \/ x \in B \/ x \in C \/ x \in D
  BY DEF Places
<1> HIDE DEF A, B, C, D
<1> QED BY <1>1, <1>2, <1>3, <1>4, <1>5

\* A ULT is queued, or has one owner, which is on its stack or about to make it ready.
LEMMA OnePlaceEach ==
  ASSUME IInv, YthreadConstants, NEW t \in Threads, NEW x \in Places(t), NEW y \in Places(t)
  PROVE  x = y
<1>1. ASSUME NEW a \in Actors, NEW b \in Actors, Owns(a, t), Owns(b, t) PROVE a = b
  BY <1>1, Held
<1>2. ASSUME NEW a \in Actors, Owns(a, t), NEW p \in Pools, NEW i \in 1..Len(queue[p]),
             queue[p][i] = t
      PROVE  FALSE
  <2>1. Queued(t)
    BY <1>2 DEF Queued, Listed
  <2> QED BY <1>2, <2>1, Held
<1>3. ASSUME NEW p \in Pools, NEW i \in 1..Len(queue[p]), queue[p][i] = t,
             NEW q \in Pools, NEW j \in 1..Len(queue[q]), queue[q][j] = t
      PROVE  p = q /\ i = j
  BY <1>3 DEF IInv, Queues, Listed, Distinct
<1>4. \/ \E p \in Pools : \E i \in 1..Len(queue[p]) : x = <<p, i>> /\ queue[p][i] = t
      \/ \E e \in Xstreams : x = <<e, 0>> /\ (Runs(e, t) \/ Works(e, t))
      \/ \E a \in Actors : /\ x = <<a, 1>> /\ Wakes(a, t) /\ ~Runs(a, t) /\ ~Works(a, t)
  BY PlacesMean
<1>5. \/ \E p \in Pools : \E i \in 1..Len(queue[p]) : y = <<p, i>> /\ queue[p][i] = t
      \/ \E e \in Xstreams : y = <<e, 0>> /\ (Runs(e, t) \/ Works(e, t))
      \/ \E a \in Actors : /\ y = <<a, 1>> /\ Wakes(a, t) /\ ~Runs(a, t) /\ ~Works(a, t)
  BY PlacesMean
<1>6. CASE \E p \in Pools : \E i \in 1..Len(queue[p]) : x = <<p, i>> /\ queue[p][i] = t
  <2>1. PICK p \in Pools : \E i \in 1..Len(queue[p]) : x = <<p, i>> /\ queue[p][i] = t
    BY <1>6
  <2>2. PICK i \in 1..Len(queue[p]) : x = <<p, i>> /\ queue[p][i] = t
    BY <2>1
  <2>3. \A a \in Actors : ~Owns(a, t)
    BY <1>2, <2>2
  <2>4. PICK q \in Pools : \E j \in 1..Len(queue[q]) : y = <<q, j>> /\ queue[q][j] = t
    BY <1>5, <2>3 DEF Owns, Actors
  <2>5. PICK j \in 1..Len(queue[q]) : y = <<q, j>> /\ queue[q][j] = t
    BY <2>4
  <2> QED BY <1>3, <2>2, <2>5
<1>7. CASE \E e \in Xstreams : x = <<e, 0>> /\ (Runs(e, t) \/ Works(e, t))
  <2>1. PICK e \in Xstreams : x = <<e, 0>> /\ (Runs(e, t) \/ Works(e, t))
    BY <1>7
  <2>2. e \in Actors /\ Owns(e, t)
    BY <2>1 DEF Owns, Actors
  <2> QED BY <1>1, <1>2, <1>5, <2>1, <2>2 DEF Owns, Actors
<1>8. CASE \E a \in Actors : /\ x = <<a, 1>> /\ Wakes(a, t) /\ ~Runs(a, t) /\ ~Works(a, t)
  <2>1. PICK a \in Actors : x = <<a, 1>> /\ Wakes(a, t) /\ ~Runs(a, t) /\ ~Works(a, t)
    BY <1>8
  <2>2. Owns(a, t)
    BY <2>1 DEF Owns
  <2> QED BY <1>1, <1>2, <1>5, <2>1, <2>2 DEF Owns, Actors
<1> QED BY <1>4, <1>6, <1>7, <1>8

\* Two places would be two of these; whoever may take a ULT finds it in none.
LEMMA PlacesOK ==
  ASSUME IInv, YthreadConstants
  PROVE  OnePlace
<1>1. ASSUME NEW t \in Threads PROVE Cardinality(Places(t)) <= 1
  <2>1. CASE Places(t) = {}
    BY <2>1, FS_EmptySet
  <2>2. CASE Places(t) # {}
    <3>1. PICK x : x \in Places(t)
      BY <2>2
    <3>2. Places(t) = {x}
      BY <3>1, OnePlaceEach
    <3>3. Cardinality({x}) = 1
      BY FS_Singleton
    <3> QED BY <3>2, <3>3
  <2> QED BY <2>1, <2>2
<1>2. ASSUME NEW t \in Threads, state[t] = "TERMINATED" \/ (t \in suspended /\ state[t] = "BLOCKED")
      PROVE  Places(t) = {}
  <2>1. ~Queued(t) /\ ~Owned(t)
    BY <1>2, TerminatedIsFree, AtHand DEF Claims, Owned
  <2>2. ASSUME NEW x \in Places(t) PROVE FALSE
    BY <2>1, PlacesMean DEF Queued, Listed, Owned, Owns, Actors
  <2> QED BY <2>2
<1> QED BY <1>1, <1>2 DEF OnePlace

\* Whatever an actor is going to use is in its hands, or waits for it in a join.
LEMMA UsesOK ==
  ASSUME IInv, YthreadConstants
  PROVE  NoUseAfterFree
<1>1. ASSUME NEW a \in Actors, NEW t \in Threads, Owns(a, t) PROVE state[t] # "TERMINATED"
  BY <1>1, Held
<1>2. ASSUME NEW a \in Actors, NEW t \in Uses(a), t \in Threads PROVE state[t] # "TERMINATED"
  <2>1. Shape(a) /\ JoinOK(a) /\ frame[a] \in Frames /\ Null \notin Threads
    BY InCallback
  <2>2. CASE a \in Xstreams /\ t = p_thread[a]
    BY <1>1, <1>2, <2>2 DEF Owns, Runs, Ctx, Actors
  <2>3. CASE pc[a] \notin {"run", "remove"} /\ t = frame[a].p_next
    <3>1. Takes(a, t) \/ t = Ctx(a) \/ frame[a].callback = "suspend_join"
      BY <1>2, <2>1, <2>3 DEF Shape, NoFrame, Takes
    <3>2. CASE frame[a].callback = "suspend_join"
      BY <2>1, <2>3, <3>2 DEF JoinOK, Unlinked, Gone
    <3> QED BY <1>1, <1>2, <3>1, <3>2 DEF Owns, Runs
  <2>4. CASE pc[a] \notin {"run", "dec"} /\ t = frame[a].p_prev
    BY <1>1, <1>2, <2>4 DEF Owns, Works
  <2>5. CASE pc[a] \in {"wake", "push", "jump"} /\ t = frame[a].p_joiner
    BY <1>1, <1>2, <2>5 DEF Owns, Wakes
  <2> QED BY <2>2, <2>3, <2>4, <2>5 DEF Uses
<1>3. ASSUME NEW a \in Actors, pc[a] \in {"wake", "futex_wake"}, frame[a].p_joiner \in Externals
      PROVE  joining[frame[a].p_joiner] = frame[a].p_prev
  <2>1. Shape(a) /\ JoinOK(a)
    BY InCallback
  <2>2. frame[a].p_prev # Null
    BY <1>3, <2>1 DEF Shape
  <2> QED BY <1>3, <2>1, <2>2 DEF JoinOK
<1> QED BY <1>2, <1>3 DEF NoUseAfterFree

\* Every ULT has one place, whatever yields, suspends, resumes, joins, exits, is cancelled or
\* migrates, and whoever does it.
THEOREM EachInOnePlace ==
  ASSUME YthreadConstants
  PROVE  Spec => [](TypeOK /\ OnePlace)
<1>1. Init => IInv
  BY InitOK
<1>2. IInv /\ [Next]_vars => IInv'
  BY NextOK, StutterOK
<1>3. IInv => TypeOK /\ OnePlace
  BY TypesMean, PlacesOK
<1> QED BY <1>1, <1>2, <1>3, PTL DEF Spec

\* Nobody uses a ULT that its joiner may have freed.
THEOREM NobodyUsesAFreedUlt ==
  ASSUME YthreadConstants
  PROVE  Spec => []NoUseAfterFree
<1>1. Init => IInv
  BY InitOK
<1>2. IInv /\ [Next]_vars => IInv'
  BY NextOK, StutterOK
<1>3. IInv => NoUseAfterFree
  BY UsesOK
<1> QED BY <1>1, <1>2, <1>3, PTL DEF Spec
------------------------------------------------------------------------------
(* The count of blocked ULTs *)

\* The ULT that an execution stream is about to jump to: it is still BLOCKED, but no
\* longer counted.
JumpedTo(t) == \E a \in Actors : pc[a] = "jump" /\ frame[a].p_joiner = t

IsDue(t, p) == p_pool[t] = p /\ state[t] = "BLOCKED" /\ ~JumpedTo(t)

\* a has counted the ULT it is about to mark BLOCKED.
Foresees(a, p) ==
    /\ \/ frame[a].callback \in {"suspend", "suspend_join"} /\ pc[a] \in {"request", "block"}
       \/ frame[a].callback = "resume_suspend_to" /\ pc[a] \in {"dec", "request", "block"}
    /\ p_pool[frame[a].p_prev] = p

\* a still has to give back the count of the ULT it went on to.
Owes(a, p) ==
    \/ frame[a].callback = "thread_yield_to" /\ frame[a].p_pool = p
    \/ /\ \/ frame[a].callback = "resume_yield_to"
          \/ frame[a].callback = "resume_suspend_to" /\ pc[a] \in {"inc", "dec"}
          \/ frame[a].callback = "resume_exit_to" /\ pc[a] \in {"terminate", "dec"}
       /\ p_pool[frame[a].p_next] = p

\* a still has to give back the count of the ULT it pushed.
Pushed(a, p) == pc[a] = "push_dec" /\ frame[a].p_joiner_pool = p

Due(p) == {t \in Threads : IsDue(t, p)}
Foreseen(p) == {a \in Actors : Foresees(a, p)}
Owing(p) == {a \in Actors : Owes(a, p)}
Pushing(p) == {a \in Actors : Pushed(a, p)}

\* What num_blocked counts.
Books(p) ==
    num_blocked[p] = Cardinality(Due(p)) + Cardinality(Foreseen(p)) + Cardinality(Owing(p))
                     + Cardinality(Pushing(p))

CountInv ==
    /\ IInv
    /\ \A t \in Threads : "MIGRATE" \notin request[t]
    /\ \A a \in Actors : pc[a] = "remove" => frame[a].p_pool = p_pool[frame[a].p_prev]
    /\ \A p \in Pools : Books(p)
------------------------------------------------------------------------------
\* The sets that are counted are finite.
LEMMA CountedFinite ==
  ASSUME YthreadConstants, NEW p
  PROVE  /\ IsFiniteSet(Due(p)) /\ IsFiniteSet(Foreseen(p))
         /\ IsFiniteSet(Owing(p)) /\ IsFiniteSet(Pushing(p))
<1>1. IsFiniteSet(Threads) /\ IsFiniteSet(Actors)
  BY FS_Union DEF YthreadConstants, Actors
<1>2. /\ Due(p) \subseteq Threads /\ Foreseen(p) \subseteq Actors
      /\ Owing(p) \subseteq Actors /\ Pushing(p) \subseteq Actors
  BY DEF Due, Foreseen, Owing, Pushing
<1> QED BY <1>1, <1>2, FS_Subset

\* The accounts that pool p keeps of others than actor a and ULT t are as they were.
KeptBut(a, t, p) ==
    /\ \A b \in Actors \ {a} : /\ Foresees(b, p)' <=> Foresees(b, p)
                               /\ Owes(b, p)' <=> Owes(b, p)
                               /\ Pushed(b, p)' <=> Pushed(b, p)
    /\ \A x \in Threads \ {t} : IsDue(x, p)' <=> IsDue(x, p)

\* What happens to those of a and t happens to num_blocked.
Balanced(a, t, p) ==
    num_blocked'[p] =
      num_blocked[p] + One(t \in Threads /\ IsDue(t, p)') - One(t \in Threads /\ IsDue(t, p))
                     + One(Foresees(a, p)') - One(Foresees(a, p))
                     + One(Owes(a, p)') - One(Owes(a, p))
                     + One(Pushed(a, p)') - One(Pushed(a, p))

\* Then the books of p stay right.
LEMMA BooksStep ==
  ASSUME YthreadConstants, NEW a \in Actors, NEW t, NEW p,
         Books(p), num_blocked[p] \in Int, KeptBut(a, t, p), Balanced(a, t, p)
  PROVE  Books(p)'
<1>1. /\ IsFiniteSet(Due(p)) /\ IsFiniteSet(Foreseen(p))
      /\ IsFiniteSet(Owing(p)) /\ IsFiniteSet(Pushing(p))
  BY CountedFinite
<1>2. /\ Cardinality(Due(p)) \in Nat
      /\ Cardinality(Due(p)') = Cardinality(Due(p)) + One(t \in Threads /\ IsDue(t, p)')
                                                   - One(t \in Threads /\ IsDue(t, p))
  <2>1. \A y : y # t => (y \in Due(p)' <=> y \in Due(p))
    BY DEF Due, KeptBut
  <2>2. /\ t \in Due(p) <=> (t \in Threads /\ IsDue(t, p))
        /\ t \in Due(p)' <=> (t \in Threads /\ IsDue(t, p)')
    BY DEF Due
  <2>3. /\ Cardinality(Due(p)) \in Nat
        /\ Cardinality(Due(p)') = Cardinality(Due(p)) + One(t \in Due(p)') - One(t \in Due(p))
    BY <1>1, <2>1, CountChange
  <2> QED BY <2>2, <2>3 DEF One
<1>3. /\ Cardinality(Foreseen(p)) \in Nat
      /\ Cardinality(Foreseen(p)') = Cardinality(Foreseen(p)) + One(Foresees(a, p)')
                                                             - One(Foresees(a, p))
  <2>1. \A y : y # a => (y \in Foreseen(p)' <=> y \in Foreseen(p))
    BY DEF Foreseen, KeptBut
  <2>2. /\ a \in Foreseen(p) <=> Foresees(a, p)
        /\ a \in Foreseen(p)' <=> Foresees(a, p)'
    BY DEF Foreseen
  <2>3. /\ Cardinality(Foreseen(p)) \in Nat
        /\ Cardinality(Foreseen(p)') = Cardinality(Foreseen(p)) + One(a \in Foreseen(p)')
                                                               - One(a \in Foreseen(p))
    BY <1>1, <2>1, CountChange
  <2> QED BY <2>2, <2>3 DEF One
<1>4. /\ Cardinality(Owing(p)) \in Nat
      /\ Cardinality(Owing(p)') = Cardinality(Owing(p)) + One(Owes(a, p)') - One(Owes(a, p))
  <2>1. \A y : y # a => (y \in Owing(p)' <=> y \in Owing(p))
    BY DEF Owing, KeptBut
  <2>2. /\ a \in Owing(p) <=> Owes(a, p)
        /\ a \in Owing(p)' <=> Owes(a, p)'
    BY DEF Owing
  <2>3. /\ Cardinality(Owing(p)) \in Nat
        /\ Cardinality(Owing(p)') = Cardinality(Owing(p)) + One(a \in Owing(p)')
                                                         - One(a \in Owing(p))
    BY <1>1, <2>1, CountChange
  <2> QED BY <2>2, <2>3 DEF One
<1>5. /\ Cardinality(Pushing(p)) \in Nat
      /\ Cardinality(Pushing(p)') = Cardinality(Pushing(p)) + One(Pushed(a, p)')
                                                           - One(Pushed(a, p))
  <2>1. \A y : y # a => (y \in Pushing(p)' <=> y \in Pushing(p))
    BY DEF Pushing, KeptBut
  <2>2. /\ a \in Pushing(p) <=> Pushed(a, p)
        /\ a \in Pushing(p)' <=> Pushed(a, p)'
    BY DEF Pushing
  <2>3. /\ Cardinality(Pushing(p)) \in Nat
        /\ Cardinality(Pushing(p)') = Cardinality(Pushing(p)) + One(a \in Pushing(p)')
                                                             - One(a \in Pushing(p))
    BY <1>1, <2>1, CountChange
  <2> QED BY <2>2, <2>3 DEF One
<1>6. \A b : One(b) \in Int
  BY DEF One
<1> QED BY <1>2, <1>3, <1>4, <1>5, <1>6 DEF Books, Balanced
------------------------------------------------------------------------------
(* A step of one actor *)

\* Only a moves, and no ULT changes its pool.
OnlyMoves(a) ==
    /\ \A b \in Actors \ {a} : pc'[b] = pc[b] /\ frame'[b] = frame[b]
    /\ p_pool' = p_pool

\* Besides t, every ULT is BLOCKED if it was, and jumped to if it was.
BlockedBut(a, t) ==
    /\ \A x \in Threads \ {t} : state'[x] = "BLOCKED" <=> state[x] = "BLOCKED"
    /\ pc[a] = "jump" => frame[a].p_joiner = t
    /\ pc'[a] = "jump" => frame'[a].p_joiner = t

\* A step of a, which changes the accounts of itself and of t.
Posts(a, t) ==
    /\ OnlyMoves(a) /\ BlockedBut(a, t)
    /\ \A x \in Threads : "MIGRATE" \notin request'[x]
    /\ pc'[a] = "remove" => frame'[a].p_pool = p_pool[frame'[a].p_prev]
    /\ \A p \in Pools : Balanced(a, t, p)

\* Nobody else's accounts change.
LEMMA OnlyItsOwn ==
  ASSUME NEW a \in Actors, NEW t, NEW p, OnlyMoves(a), BlockedBut(a, t)
  PROVE  KeptBut(a, t, p)
<1>1. ASSUME NEW b \in Actors \ {a}
      PROVE  /\ Foresees(b, p)' <=> Foresees(b, p)
             /\ Owes(b, p)' <=> Owes(b, p)
             /\ Pushed(b, p)' <=> Pushed(b, p)
  <2>1. pc'[b] = pc[b] /\ frame'[b] = frame[b] /\ p_pool' = p_pool
    BY <1>1 DEF OnlyMoves
  <2> QED BY <2>1 DEF Foresees, Owes, Pushed
<1>2. ASSUME NEW x \in Threads \ {t} PROVE IsDue(x, p)' <=> IsDue(x, p)
  <2>1. JumpedTo(x)' <=> JumpedTo(x)
    BY <1>2 DEF JumpedTo, OnlyMoves, BlockedBut
  <2> QED BY <1>2, <2>1 DEF IsDue, OnlyMoves, BlockedBut
<1> QED BY <1>1, <1>2 DEF KeptBut

\* Such a step keeps the books.
LEMMA PostsKeep ==
  ASSUME CountInv, YthreadConstants, IInv', NEW a \in Actors, NEW t, Posts(a, t)
  PROVE  CountInv'
<1>1. ASSUME NEW p \in Pools PROVE Books(p)'
  <2>1. Books(p) /\ num_blocked[p] \in Int
    BY DEF CountInv, IInv, Types, DataTypes
  <2>2. KeptBut(a, t, p) /\ Balanced(a, t, p)
    BY OnlyItsOwn DEF Posts
  <2> QED BY <2>1, <2>2, BooksStep
<1>2. ASSUME NEW b \in Actors, pc'[b] = "remove"
      PROVE  frame'[b].p_pool = p_pool'[frame'[b].p_prev]
  <2>1. CASE b = a
    BY <1>2, <2>1 DEF Posts, OnlyMoves
  <2>2. CASE b # a
    <3>1. pc'[b] = pc[b] /\ frame'[b] = frame[b] /\ p_pool' = p_pool
      BY <2>2 DEF Posts, OnlyMoves
    <3> QED BY <1>2, <3>1 DEF CountInv
  <2> QED BY <2>1, <2>2
<1> QED BY <1>1, <1>2 DEF CountInv, Posts

\* A step that has nothing to do with the counts.
Silent(a) ==
    /\ OnlyMoves(a)
    /\ \A x \in Threads : state'[x] = "BLOCKED" <=> state[x] = "BLOCKED"
    /\ pc[a] # "jump" /\ pc'[a] \notin {"jump", "remove"}
    /\ num_blocked' = num_blocked
    /\ \A x \in Threads : "MIGRATE" \notin request'[x]
    /\ \A p \in Pools : /\ Foresees(a, p)' <=> Foresees(a, p)
                        /\ Owes(a, p)' <=> Owes(a, p)
                        /\ Pushed(a, p)' <=> Pushed(a, p)

\* Such a step balances.
LEMMA SilentPosts ==
  ASSUME IInv, YthreadConstants, NEW a \in Actors, Silent(a)
  PROVE  Posts(a, Null)
<1>1. OnlyMoves(a) /\ BlockedBut(a, Null)
  BY DEF Silent, BlockedBut
<1>2. ASSUME NEW p \in Pools PROVE Balanced(a, Null, p)
  <2>1. num_blocked[p] \in Int /\ num_blocked'[p] = num_blocked[p] /\ Null \notin Threads
    BY DEF IInv, Types, DataTypes, Silent, YthreadConstants
  <2>2. /\ Foresees(a, p)' <=> Foresees(a, p)
        /\ Owes(a, p)' <=> Owes(a, p)
        /\ Pushed(a, p)' <=> Pushed(a, p)
    BY DEF Silent
  <2> QED BY <2>1, <2>2 DEF Balanced, One
<1> QED BY <1>1, <1>2 DEF Posts, Silent

\* Adding to the count of one pool.
LEMMA Added ==
  ASSUME Types, NEW q, NEW n, AddNumBlocked(q, n), NEW p \in Pools
  PROVE  /\ num_blocked[p] \in Int
         /\ num_blocked'[p] = IF p = q THEN num_blocked[p] + n ELSE num_blocked[p]
BY DEF Types, DataTypes, AddNumBlocked

\* An actor that is outside the runtime has nothing to give back.
LEMMA NoAccounts ==
  ASSUME NEW a, frame[a] = NoFrame, NEW p, pc[a] # "push_dec"
  PROVE  ~Foresees(a, p) /\ ~Owes(a, p) /\ ~Pushed(a, p)
BY DEF Foresees, Owes, Pushed, NoFrame

\* One actor comes to l with the locals f.
LEMMA ComesTo ==
  ASSUME Types, NEW a \in Actors, NEW l, NEW f, pc' = [pc EXCEPT ![a] = l],
         frame' = [frame EXCEPT ![a] = f] \/ (frame' = frame /\ f = frame[a]),
         p_pool' = p_pool
  PROVE  OnlyMoves(a) /\ pc'[a] = l /\ frame'[a] = f
BY DEF Types, ActorTypes, OnlyMoves
------------------------------------------------------------------------------
(* What a running ULT may do *)

\* Entering the runtime.
LEMMA EnterAccounts ==
  ASSUME IInv, NEW e \in Actors, pc[e] = "run", NEW cb, NEW t, NEW s, NEW l, Enter(e, cb, t, s, l),
         p_pool' = p_pool
  PROVE  /\ OnlyMoves(e) /\ pc'[e] = l
         /\ frame'[e].callback = cb /\ frame'[e].p_prev = t /\ frame'[e].p_next = s
         /\ frame'[e].p_pool = p_pool[t]
         /\ \A p : ~Foresees(e, p) /\ ~Owes(e, p) /\ ~Pushed(e, p)
<1> DEFINE f == [NoFrame EXCEPT !.callback = cb, !.p_prev = t, !.p_next = s, !.p_pool = p_pool[t]]
<1>1. pc' = [pc EXCEPT ![e] = l] /\ frame' = [frame EXCEPT ![e] = f]
  BY Zenon DEF Enter, Goto
<1>2. f.callback = cb /\ f.p_prev = t /\ f.p_next = s /\ f.p_pool = p_pool[t]
  BY DEF NoFrame
<1>3. frame[e] = NoFrame
  BY DEF IInv, PlaceInv, Shape, Waking
<1> HIDE DEF f
<1>4. OnlyMoves(e) /\ pc'[e] = l /\ frame'[e] = f
  BY <1>1, ComesTo DEF IInv
<1> QED BY <1>2, <1>3, <1>4, NoAccounts

\* The ways into the runtime that count nothing.
LEMMA SilentEnter ==
  ASSUME CountInv, YthreadConstants, NEW e \in Actors, pc[e] = "run",
         NEW cb, NEW t, NEW s, NEW l, Enter(e, cb, t, s, l),
         \/ cb \in {"yield", "schedule"} /\ l = "request"
         \/ cb \in {"suspend", "suspend_join"} /\ l = "inc"
         \/ cb \in {"exit", "exit_to", "resume_exit_to"} /\ l = "load_link",
         p_pool' = p_pool, num_blocked' = num_blocked,
         \A x \in Threads : "MIGRATE" \notin request'[x],
         \A x \in Threads : state'[x] = "BLOCKED" <=> state[x] = "BLOCKED"
  PROVE  Posts(e, Null)
<1>1. IInv
  BY DEF CountInv
<1>2. /\ OnlyMoves(e) /\ pc'[e] = l /\ frame'[e].callback = cb
      /\ \A p : ~Foresees(e, p) /\ ~Owes(e, p) /\ ~Pushed(e, p)
  BY <1>1, EnterAccounts
<1>3. \A p : ~Foresees(e, p)' /\ ~Owes(e, p)' /\ ~Pushed(e, p)'
  BY <1>2 DEF Foresees, Owes, Pushed
<1>4. Silent(e)
  BY <1>2, <1>3 DEF Silent
<1> QED BY <1>1, <1>4, SilentPosts

\* A ULT in a pool is READY.
LEMMA QueuedReady ==
  ASSUME IInv, NEW s \in Threads, IsInPool(s)
  PROVE  state[s] = "READY"
<1>1. queue[p_pool[s]] \in Seq(Threads) /\ p_pool[s] \in Pools
  BY DEF IInv, Types, DataTypes
<1>2. Queued(s)
  BY <1>1 DEF IsInPool, Range, Queued, Listed
<1> QED BY <1>2 DEF IInv, PlaceInv, Placed

\* A suspended ULT that may be resumed is counted.
LEMMA ClaimsDue ==
  ASSUME IInv, YthreadConstants, NEW s \in Threads, Claims(s)
  PROVE  /\ \A p : IsDue(s, p) <=> p_pool[s] = p
         /\ state[s] = "BLOCKED" /\ \A b \in Actors : ~Owns(b, s)
<1>1. \A b \in Actors : ~Owns(b, s)
  <2>1. ASSUME NEW c \in Actors, Suspending(c, s) PROVE FALSE
    <3>1. Works(c, s) /\ pc[c] # "link"
      BY <2>1, SuspendingWorks DEF IInv, PlaceInv, YthreadConstants
    <3> QED BY <3>1 DEF IInv, PlaceInv, Role, Claims
  <2> QED BY <2>1 DEF IInv, PlaceInv, Placed, Owned, Claims
<1>2. ~JumpedTo(s)
  BY <1>1 DEF JumpedTo, Owns, Wakes
<1> QED BY <1>1, <1>2 DEF IsDue, Claims

\* Operations that count nothing when they enter the runtime.
LEMMA LonePosts ==
  ASSUME CountInv, YthreadConstants, NEW e \in Xstreams, NEW t \in Threads,
         Yield(e, t) \/ Suspend(e, t) \/ Exit(e, t)
  PROVE  Posts(e, Null)
<1>1. /\ e \in Actors /\ pc[e] = "run" /\ UNCHANGED <<state, p_pool, num_blocked, request>>
      /\ \/ Enter(e, "yield", t, Null, "request")
         \/ Enter(e, "suspend", t, Null, "inc")
         \/ Enter(e, "exit", t, Null, "load_link")
  BY DEF Yield, Suspend, Exit, Calls, InUserCode, descVars, poolVars, threadVars, Actors
<1>2. \A x \in Threads : "MIGRATE" \notin request'[x]
  BY <1>1 DEF CountInv
<1> QED BY <1>1, <1>2, SilentEnter

\* The same of those that go on to another ULT.
LEMMA ToPosts ==
  ASSUME CountInv, YthreadConstants, NEW e \in Xstreams, NEW t \in Threads, NEW s \in Threads,
         YieldTo(e, t, s) \/ SuspendTo(e, t, s) \/ ExitTo(e, t, s) \/ ResumeExitTo(e, t, s)
  PROVE  Posts(e, Null)
<1>1. /\ e \in Actors /\ pc[e] = "run" /\ UNCHANGED <<p_pool, num_blocked, request>>
      /\ \/ Enter(e, "yield", t, Null, "request") /\ SetState(s, "RUNNING") /\ IsInPool(s)
         \/ Enter(e, "suspend", t, Null, "inc") /\ state' = state
         \/ Enter(e, "exit_to", t, s, "load_link") /\ state' = state
         \/ Enter(e, "resume_exit_to", t, s, "load_link") /\ state' = state
  BY DEF YieldTo, SuspendTo, ExitTo, ResumeExitTo, Calls, InUserCode, descVars, poolVars,
         threadVars, Actors
<1>2. \A x \in Threads : "MIGRATE" \notin request'[x]
  BY <1>1 DEF CountInv
<1>3. \A x \in Threads : state'[x] = "BLOCKED" <=> state[x] = "BLOCKED"
  BY <1>1, QueuedReady DEF SetState, CountInv, IInv, Types, DataTypes
<1> QED BY <1>1, <1>2, <1>3, SilentEnter

\* ABT_thread_yield_to counts its caller.
LEMMA ThreadYieldToPosts ==
  ASSUME CountInv, YthreadConstants, NEW e \in Xstreams, NEW t \in Threads, NEW s \in Threads,
         ThreadYieldTo(e, t, s)
  PROVE  Posts(e, Null)
<1>1. /\ IInv /\ Types /\ e \in Actors /\ pc[e] = "run" /\ UNCHANGED <<state, p_pool, request>>
      /\ Enter(e, "thread_yield_to", t, s, "remove") /\ AddNumBlocked(p_pool[t], 1)
      /\ Null \notin Threads
  BY DEF ThreadYieldTo, Calls, InUserCode, descVars, threadVars, Actors, CountInv, IInv,
         YthreadConstants
<1>2. /\ OnlyMoves(e) /\ pc'[e] = "remove" /\ frame'[e].callback = "thread_yield_to"
      /\ frame'[e].p_prev = t /\ frame'[e].p_pool = p_pool[t]
      /\ \A p : ~Foresees(e, p) /\ ~Owes(e, p) /\ ~Pushed(e, p)
  BY <1>1, EnterAccounts
<1>3. \A p : ~Foresees(e, p)' /\ (Owes(e, p)' <=> p = p_pool[t]) /\ ~Pushed(e, p)'
  BY <1>2 DEF Foresees, Owes, Pushed
<1>4. ASSUME NEW p \in Pools PROVE Balanced(e, Null, p)
  <2>1. /\ num_blocked[p] \in Int
        /\ num_blocked'[p] = IF p = p_pool[t] THEN num_blocked[p] + 1 ELSE num_blocked[p]
    BY <1>1, Added
  <2> QED BY <1>1, <1>2, <1>3, <2>1 DEF Balanced, One
<1>5. BlockedBut(e, Null)
  BY <1>1, <1>2 DEF BlockedBut
<1>6. \A x \in Threads : "MIGRATE" \notin request'[x]
  BY <1>1 DEF CountInv
<1> QED BY <1>2, <1>4, <1>5, <1>6 DEF Posts

\* Resuming another ULT and going on as it: the count of that ULT is due until the callback
\* gives it back, or becomes that of the caller when both are in one pool.
LEMMA ResumeToPosts ==
  ASSUME CountInv, YthreadConstants, NEW e \in Xstreams, NEW t \in Threads, NEW s \in Threads,
         ResumeYieldTo(e, t, s) \/ ResumeSuspendTo(e, t, s)
  PROVE  Posts(e, s)
<1>1. PICK cb \in {"resume_yield_to", "resume_suspend_to"}, l \in {"inc", "request"} :
        /\ Enter(e, cb, t, s, l)
        /\ l = IF cb = "resume_suspend_to" /\ p_pool[t] # p_pool[s] THEN "inc" ELSE "request"
  BY DEF ResumeYieldTo, ResumeSuspendTo
<1>2. /\ IInv /\ Types /\ e \in Actors /\ pc[e] = "run"
      /\ UNCHANGED <<p_pool, request, num_blocked>>
      /\ Claims(s) /\ SetState(s, "RUNNING")
  BY DEF ResumeYieldTo, ResumeSuspendTo, Calls, InUserCode, descVars, poolVars, Actors, CountInv,
         IInv
<1>3. /\ OnlyMoves(e) /\ pc'[e] = l /\ frame'[e].callback = cb
      /\ frame'[e].p_prev = t /\ frame'[e].p_next = s
      /\ \A p : ~Foresees(e, p) /\ ~Owes(e, p) /\ ~Pushed(e, p)
  BY <1>1, <1>2, EnterAccounts
<1>4. \A p : /\ Foresees(e, p)' <=> cb = "resume_suspend_to" /\ l = "request" /\ p = p_pool[t]
             /\ Owes(e, p)' <=> (cb = "resume_yield_to" \/ l = "inc") /\ p = p_pool[s]
             /\ ~Pushed(e, p)'
  BY <1>2, <1>3 DEF Foresees, Owes, Pushed
<1>5. \A p : (IsDue(s, p) <=> p = p_pool[s]) /\ ~IsDue(s, p)'
  BY <1>2, ClaimsDue DEF IsDue, SetState, Types, DataTypes
<1>6. ASSUME NEW p \in Pools PROVE Balanced(e, s, p)
  <2>1. num_blocked[p] \in Int /\ num_blocked'[p] = num_blocked[p]
    BY <1>2 DEF Types, DataTypes
  <2> QED BY <1>1, <1>3, <1>4, <1>5, <2>1 DEF Balanced, One
<1>7. BlockedBut(e, s)
  BY <1>1, <1>2, <1>3 DEF BlockedBut, SetState, Types, DataTypes
<1>8. \A x \in Threads : "MIGRATE" \notin request'[x]
  BY <1>2 DEF CountInv
<1> QED BY <1>1, <1>3, <1>6, <1>7, <1>8 DEF Posts

\* A resumed ULT stays counted until it is pushed.
LEMMA ResumePosts ==
  ASSUME CountInv, YthreadConstants, NEW a \in Actors, NEW s \in Threads, Resume(a, s)
  PROVE  Posts(a, Null)
<1> DEFINE f == [NoFrame EXCEPT !.callback = "resume", !.p_joiner = s]
<1>1. /\ IInv /\ Types /\ pc[a] = "run" /\ UNCHANGED <<state, p_pool, request, num_blocked>>
      /\ pc' = [pc EXCEPT ![a] = "push"] /\ frame' = [frame EXCEPT ![a] = f]
  BY DEF Resume, Calls, InUserCode, descVars, poolVars, threadVars, Goto, CountInv, IInv
<1>2. f.callback = "resume"
  BY DEF NoFrame
<1>3. frame[a] = NoFrame
  BY <1>1 DEF IInv, PlaceInv, Shape, Waking
<1> HIDE DEF f
<1>4. OnlyMoves(a) /\ pc'[a] = "push" /\ frame'[a] = f
  BY <1>1, ComesTo
<1>5. \A p : /\ ~Foresees(a, p) /\ ~Owes(a, p) /\ ~Pushed(a, p)
             /\ ~Foresees(a, p)' /\ ~Owes(a, p)' /\ ~Pushed(a, p)'
  BY <1>1, <1>2, <1>3, <1>4, NoAccounts DEF Foresees, Owes, Pushed
<1>6. Silent(a)
  BY <1>1, <1>4, <1>5 DEF Silent, CountInv
<1> QED BY <1>1, <1>6, SilentPosts

\* The scheduler and the loop of a join count nothing when they enter the runtime.
LEMMA SchedulePosts ==
  ASSUME CountInv, YthreadConstants, NEW e \in Xstreams,
         JoinYields(e) \/ \E p \in Pools : Schedule(e, p)
  PROVE  Posts(e, Null)
<1>1. \E cb \in {"yield", "schedule"} : \E t : Enter(e, cb, t, Null, "request")
  BY DEF JoinYields, Schedule
<1>2. e \in Actors /\ pc[e] = "run" /\ UNCHANGED <<state, p_pool, num_blocked, request>>
  BY DEF JoinYields, Schedule, descVars, poolVars, threadVars, Actors
<1>3. \A x \in Threads : "MIGRATE" \notin request'[x]
  BY <1>2 DEF CountInv
<1> QED BY <1>1, <1>2, <1>3, SilentEnter

\* A join begins and waits without a count, but for the one of the callback that suspends
\* the joiner.
LEMMA JoinPosts ==
  ASSUME CountInv, YthreadConstants, NEW a \in Actors,
         \/ \E s \in Threads : Join(a, s)
         \/ a \in Externals /\ (SetFutexLink(a) \/ FutexSuspend(a))
  PROVE  Posts(a, Null)
<1>1. /\ IInv /\ Types /\ pc[a] \in {"run", "futex_link", "futex"}
      /\ UNCHANGED <<state, p_pool, request, num_blocked, frame>>
      /\ pc' = pc \/ \E l \in {"join", "futex", "run"} : pc' = [pc EXCEPT ![a] = l]
  BY DEF Join, SetFutexLink, FutexSuspend, InUserCode, descVars, poolVars, threadVars, Goto,
         CountInv, IInv
<1>2. PICK l \in {"run", "futex_link", "join", "futex"} : pc' = [pc EXCEPT ![a] = l]
  <2>1. CASE pc' = pc
    BY <1>1, <2>1 DEF Types, ActorTypes
  <2> QED BY <1>1, <2>1
<1>3. frame[a] = NoFrame
  BY <1>1 DEF IInv, PlaceInv, Shape, Waking
<1>4. OnlyMoves(a) /\ pc'[a] = l /\ frame'[a] = NoFrame
  BY <1>1, <1>2, <1>3, ComesTo
<1>5. \A p : /\ ~Foresees(a, p) /\ ~Owes(a, p) /\ ~Pushed(a, p)
             /\ ~Foresees(a, p)' /\ ~Owes(a, p)' /\ ~Pushed(a, p)'
  BY <1>1, <1>3, <1>4 DEF Foresees, Owes, Pushed, NoFrame
<1>6. Silent(a)
  BY <1>1, <1>4, <1>5 DEF Silent, CountInv
<1> QED BY <1>1, <1>6, SilentPosts

\* The joiner that finds no JOIN request suspends itself, or, outside, waits on its futex.
LEMMA RequestJoinPosts ==
  ASSUME CountInv, YthreadConstants, NEW a \in Actors, RequestJoin(a)
  PROVE  Posts(a, Null)
<1> DEFINE c == Caller(a)
           s == joining[c]
           g == [NoFrame EXCEPT !.callback = "suspend_join", !.p_prev = c, !.p_next = s,
                                !.p_pool = p_pool[c]]
<1>1. /\ IInv /\ Types /\ pc[a] = "join" /\ UNCHANGED <<state, p_pool, num_blocked>>
      /\ request' = [request EXCEPT ![s] = @ \cup {"JOIN"}]
      /\ \/ pc' = [pc EXCEPT ![a] = "run"] /\ frame' = frame
         \/ pc' = [pc EXCEPT ![a] = "futex_link"] /\ frame' = frame
         \/ pc' = [pc EXCEPT ![a] = "inc"] /\ frame' = [frame EXCEPT ![a] = g]
  BY Zenon DEF RequestJoin, Goto, Enter, poolVars, CountInv, IInv
<1>2. g.callback = "suspend_join"
  BY DEF NoFrame
<1>3. \A x \in Threads : "MIGRATE" \notin request'[x]
  BY <1>1 DEF CountInv, Types, DataTypes
<1>4. frame[a] = NoFrame
  BY <1>1 DEF IInv, PlaceInv, Shape, Waking
<1> HIDE DEF c, s, g
<1>5. PICK l, f :
        /\ l \in {"run", "futex_link", "inc"}
        /\ pc' = [pc EXCEPT ![a] = l]
        /\ frame' = [frame EXCEPT ![a] = f] \/ (frame' = frame /\ f = frame[a])
        /\ f = NoFrame \/ (f = g /\ l = "inc")
  BY <1>1, <1>4
<1>6. OnlyMoves(a) /\ pc'[a] = l /\ frame'[a] = f
  BY <1>1, <1>5, ComesTo
<1>7. \A p : /\ ~Foresees(a, p) /\ ~Owes(a, p) /\ ~Pushed(a, p)
             /\ ~Foresees(a, p)' /\ ~Owes(a, p)' /\ ~Pushed(a, p)'
  BY <1>1, <1>2, <1>4, <1>5, <1>6 DEF Foresees, Owes, Pushed, NoFrame
<1>8. Silent(a)
  BY <1>1, <1>3, <1>5, <1>6, <1>7 DEF Silent
<1> QED BY <1>1, <1>8, SilentPosts
------------------------------------------------------------------------------
(* The callbacks *)

\* A ULT that a callback works with, and has not marked BLOCKED, is not BLOCKED.
LEMMA WorkedOn ==
  ASSUME IInv, YthreadConstants, NEW e \in Actors,
         pc[e] \in {"request", "add", "block", "terminate"}
  PROVE  /\ frame[e].p_prev \in Threads /\ Works(e, frame[e].p_prev)
         /\ state[frame[e].p_prev] \in {"READY", "RUNNING"}
<1>1. frame[e].p_prev # Null
  BY DEF IInv, PlaceInv, Shape, NoFrame, Waking
<1>2. frame[e].p_prev \in Threads /\ Works(e, frame[e].p_prev)
  BY <1>1, Prev
<1> QED BY <1>2 DEF IInv, PlaceInv, Role

\* ABT_thread_yield_to takes its count back when the target has left the pool.
LEMMA RemovePosts ==
  ASSUME CountInv, YthreadConstants, NEW e \in Xstreams, PoolRemove(e)
  PROVE  Posts(e, Null)
<1> DEFINE s == frame[e].p_next
           q == p_pool[frame[e].p_prev]
<1>1. /\ IInv /\ Types /\ pc[e] = "remove" /\ UNCHANGED <<p_pool, request>> /\ e \in Actors
      /\ frame[e].p_pool = q /\ Null \notin Threads
  BY DEF PoolRemove, descVars, CountInv, IInv, Actors, YthreadConstants
<1>2. frame[e].callback = "thread_yield_to" /\ s \in Threads
  BY <1>1 DEF IInv, PlaceInv, Shape, NoFrame, Waking, Types, ActorTypes, Frames
<1>3. PICK l, f :
        /\ l \in {"request", "run"}
        /\ pc' = [pc EXCEPT ![e] = l]
        /\ frame' = [frame EXCEPT ![e] = f] \/ (frame' = frame /\ f = frame[e])
        /\ IF l = "run"
             THEN f = NoFrame /\ AddNumBlocked(q, -1) /\ state' = state
             ELSE f = frame[e] /\ num_blocked' = num_blocked
                  /\ IsInPool(s) /\ SetState(s, "RUNNING")
  <2>1. CASE IsInPool(s)
    BY <2>1 DEF PoolRemove, Goto
  <2>2. CASE ~IsInPool(s)
    BY <2>2 DEF PoolRemove, Goto, Return
  <2> QED BY <2>1, <2>2
<1>4. OnlyMoves(e) /\ pc'[e] = l /\ frame'[e] = f
  BY <1>1, <1>3, ComesTo
<1>5. \A p : /\ ~Foresees(e, p) /\ ~Pushed(e, p) /\ (Owes(e, p) <=> p = q)
             /\ ~Foresees(e, p)' /\ ~Pushed(e, p)' /\ (Owes(e, p)' <=> l = "request" /\ p = q)
  BY <1>1, <1>2, <1>3, <1>4 DEF Foresees, Owes, Pushed, NoFrame
<1>6. \A x \in Threads : state'[x] = "BLOCKED" <=> state[x] = "BLOCKED"
  BY <1>1, <1>2, <1>3, QueuedReady DEF SetState, Types, DataTypes
<1>7. ASSUME NEW p \in Pools PROVE Balanced(e, Null, p)
  <2>1. /\ num_blocked[p] \in Int
        /\ num_blocked'[p] = IF l = "run" /\ p = q THEN num_blocked[p] - 1 ELSE num_blocked[p]
    <3>1. CASE l = "run"
      <4>1. AddNumBlocked(q, -1)
        BY <1>3, <3>1
      <4> QED BY <1>1, <3>1, <4>1, Added
    <3>2. CASE l # "run"
      BY <1>1, <1>3, <3>2 DEF Types, DataTypes
    <3> QED BY <3>1, <3>2
  <2> QED BY <1>1, <1>5, <2>1, <1>3 DEF Balanced, One
<1> QED BY <1>1, <1>3, <1>4, <1>6, <1>7 DEF Posts, BlockedBut, CountInv

\* Counting the ULT that is about to be BLOCKED.
LEMMA IncPosts ==
  ASSUME CountInv, YthreadConstants, NEW e \in Xstreams, IncNumBlocked(e)
  PROVE  Posts(e, Null)
<1> DEFINE q == p_pool[frame[e].p_prev]
           cb == frame[e].callback
<1>1. /\ IInv /\ Types /\ pc[e] = "inc" /\ UNCHANGED <<state, p_pool, request, frame>>
      /\ e \in Actors /\ Null \notin Threads /\ AddNumBlocked(q, 1)
  BY DEF IncNumBlocked, descVars, threadVars, CountInv, IInv, Actors, YthreadConstants
<1>2. cb \in {"suspend", "suspend_join", "resume_suspend_to"}
  BY <1>1 DEF IInv, PlaceInv, Shape, NoFrame, Waking
<1>3. PICK l \in {"request", "dec"} :
        pc' = [pc EXCEPT ![e] = l] /\ (l = "dec" <=> cb = "resume_suspend_to")
  BY DEF IncNumBlocked, Goto
<1>4. OnlyMoves(e) /\ pc'[e] = l /\ frame'[e] = frame[e]
  BY <1>1, <1>3, ComesTo
<1>5. \A p : /\ ~Foresees(e, p) /\ ~Pushed(e, p) /\ (Foresees(e, p)' <=> p = q)
             /\ ~Pushed(e, p)' /\ (Owes(e, p)' <=> Owes(e, p))
  BY <1>1, <1>2, <1>3, <1>4 DEF Foresees, Owes, Pushed
<1>6. ASSUME NEW p \in Pools PROVE Balanced(e, Null, p)
  <2>1. /\ num_blocked[p] \in Int
        /\ num_blocked'[p] = IF p = q THEN num_blocked[p] + 1 ELSE num_blocked[p]
    BY <1>1, Added
  <2> QED BY <1>1, <1>5, <2>1 DEF Balanced, One
<1> QED BY <1>1, <1>3, <1>4, <1>6 DEF Posts, BlockedBut, CountInv

\* Giving back the count of the ULT that was resumed, or of the caller that came back.
LEMMA DecPosts ==
  ASSUME CountInv, YthreadConstants, NEW e \in Xstreams, DecNumBlocked(e)
  PROVE  Posts(e, Null)
<1> DEFINE cb == frame[e].callback
           q == IF cb = "thread_yield_to" THEN frame[e].p_pool ELSE p_pool[frame[e].p_next]
<1>1. /\ IInv /\ Types /\ pc[e] = "dec" /\ UNCHANGED <<state, p_pool, request>>
      /\ e \in Actors /\ Null \notin Threads /\ AddNumBlocked(q, -1)
  BY DEF DecNumBlocked, descVars, threadVars, CountInv, IInv, Actors, YthreadConstants
<1>2. cb \in {"thread_yield_to", "resume_yield_to", "resume_suspend_to", "resume_exit_to"}
  BY <1>1 DEF IInv, PlaceInv, Shape, NoFrame, Waking
<1>3. PICK l, f :
        /\ l \in {"request", "run"}
        /\ pc' = [pc EXCEPT ![e] = l]
        /\ frame' = [frame EXCEPT ![e] = f] \/ (frame' = frame /\ f = frame[e])
        /\ f = IF l = "run" THEN NoFrame ELSE frame[e]
        /\ l = "request" <=> cb = "resume_suspend_to"
  BY DEF DecNumBlocked, Goto, Return
<1>4. OnlyMoves(e) /\ pc'[e] = l /\ frame'[e] = f
  BY <1>1, <1>3, ComesTo
<1>5. \A p : /\ ~Pushed(e, p) /\ ~Pushed(e, p)' /\ (Foresees(e, p)' <=> Foresees(e, p))
             /\ (Owes(e, p) <=> p = q) /\ ~Owes(e, p)'
  BY <1>1, <1>2, <1>3, <1>4 DEF Foresees, Owes, Pushed, NoFrame
<1>6. ASSUME NEW p \in Pools PROVE Balanced(e, Null, p)
  <2>1. /\ num_blocked[p] \in Int
        /\ num_blocked'[p] = IF p = q THEN num_blocked[p] - 1 ELSE num_blocked[p]
    BY <1>1, Added
  <2> QED BY <1>1, <1>5, <2>1 DEF Balanced, One
<1> QED BY <1>1, <1>3, <1>4, <1>6 DEF Posts, BlockedBut, CountInv

\* Handling the requests: no ULT changes its pool when nobody migrates.
LEMMA HandlePosts ==
  ASSUME CountInv, YthreadConstants, NEW e \in Xstreams, HandleRequest(e)
  PROVE  Posts(e, Null)
<1>0. PICK t : t = frame[e].p_prev
  OBVIOUS
<1> DEFINE cb == frame[e].callback
           cancelled == "CANCEL" \in request[t] /\ ~IsSuspension(e)
<1>1. /\ IInv /\ Types /\ pc[e] = "request" /\ UNCHANGED num_blocked /\ e \in Actors
      /\ t \in Threads /\ state[t] \in {"READY", "RUNNING"} /\ frame[e] \in Frames
  BY <1>0, WorkedOn DEF HandleRequest, poolVars, CountInv, IInv, Actors, Types, ActorTypes
<1>2. "MIGRATE" \notin request[t]
  BY <1>1 DEF CountInv
<1>3. p_pool' = p_pool /\ \A x \in Threads : "MIGRATE" \notin request'[x]
  BY <1>0, <1>1, <1>2 DEF HandleRequest, CountInv, Types, DataTypes
<1>4. CASE ~cancelled /\ cb = "schedule"
  <2>1. /\ frame' = [frame EXCEPT ![e] = NoFrame] /\ pc' = [pc EXCEPT ![e] = "run"]
        /\ state' = [state EXCEPT ![t] = "RUNNING"]
    BY <1>0, <1>2, <1>4 DEF HandleRequest, SetState, Goto
  <2>2. OnlyMoves(e) /\ pc'[e] = "run" /\ frame'[e] = NoFrame
    BY <1>1, <1>3, <2>1, ComesTo
  <2>3. \A p : /\ ~Foresees(e, p) /\ ~Owes(e, p) /\ ~Pushed(e, p)
               /\ ~Foresees(e, p)' /\ ~Owes(e, p)' /\ ~Pushed(e, p)'
    BY <1>1, <1>4, <2>2 DEF Foresees, Owes, Pushed, NoFrame
  <2>4. \A x \in Threads : state'[x] = "BLOCKED" <=> state[x] = "BLOCKED"
    BY <1>1, <2>1 DEF Types, DataTypes
  <2>5. Silent(e)
    BY <1>1, <1>3, <2>2, <2>3, <2>4 DEF Silent
  <2> QED BY <1>1, <2>5, SilentPosts
<1>5. CASE cancelled \/ cb # "schedule"
  <2>1. PICK l \in {"load_link", "block", "add"}, c \in BOOLEAN :
          /\ pc' = [pc EXCEPT ![e] = l] /\ frame' = [frame EXCEPT ![e].cancel = c]
          /\ l = "block" <=> IsSuspension(e)
    BY <1>0, <1>2, <1>5 DEF HandleRequest, Goto
  <2>2. state' = state
    BY <1>0, <1>2, <1>5 DEF HandleRequest
  <2>3. PICK f : /\ frame' = [frame EXCEPT ![e] = f]
                 /\ f.callback = cb /\ f.p_prev = t /\ f.p_next = frame[e].p_next
                 /\ f.p_pool = frame[e].p_pool
    <3> DEFINE g == [frame[e] EXCEPT !.cancel = c]
    <3>1. /\ g.callback = cb /\ g.p_prev = t /\ g.p_next = frame[e].p_next
          /\ g.p_pool = frame[e].p_pool
      BY <1>0, <1>1 DEF Frames
    <3>2. frame' = [frame EXCEPT ![e] = g]
      BY ONLY <2>1
    <3> QED BY <3>1, <3>2
  <2>4. OnlyMoves(e) /\ pc'[e] = l /\ frame'[e] = f
    <3>1. Types /\ e \in Actors /\ p_pool' = p_pool
      BY <1>1, <1>3
    <3>2. pc' = [pc EXCEPT ![e] = l] /\ frame' = [frame EXCEPT ![e] = f]
      BY <2>1, <2>3
    <3> HIDE DEF cb, cancelled
    <3> QED BY ONLY <3>1, <3>2, ComesTo
  <2>5. \A p : /\ Foresees(e, p)' <=> Foresees(e, p)
               /\ Owes(e, p)' <=> Owes(e, p)
               /\ ~Pushed(e, p)' /\ ~Pushed(e, p)
    BY <1>0, <1>1, <1>3, <2>1, <2>3, <2>4 DEF Foresees, Owes, Pushed, IsSuspension
  <2>6. Silent(e)
    BY <1>1, <1>3, <2>1, <2>2, <2>4, <2>5 DEF Silent
  <2> QED BY <1>1, <2>6, SilentPosts
<1> QED BY <1>4, <1>5

\* Pushing the ULT, or marking it TERMINATED, is not about the counts.
LEMMA AddPosts ==
  ASSUME CountInv, YthreadConstants, NEW e \in Xstreams, Add(e) \/ Terminate(e)
  PROVE  Posts(e, Null)
<1> DEFINE t == frame[e].p_prev
           cb == frame[e].callback
<1>1. /\ IInv /\ Types /\ pc[e] \in {"add", "terminate"} /\ UNCHANGED <<p_pool, request, num_blocked>>
      /\ e \in Actors
  BY DEF Add, Terminate, descVars, poolVars, CountInv, IInv, Actors
<1>2. t \in Threads /\ state[t] \in {"READY", "RUNNING"}
  BY <1>1, WorkedOn
<1>3. PICK l, f :
        /\ l \in {"run", "dec"}
        /\ pc' = [pc EXCEPT ![e] = l]
        /\ frame' = [frame EXCEPT ![e] = f] \/ (frame' = frame /\ f = frame[e])
        /\ f = IF l = "run" THEN NoFrame ELSE frame[e]
        /\ l = "dec" <=> cb \in {"thread_yield_to", "resume_yield_to"}
                         \/ (cb = "resume_exit_to" /\ pc[e] = "terminate")
  <2>1. CASE Add(e)
    BY <2>1 DEF Add, Goto, Return
  <2>2. CASE Terminate(e)
    BY <2>2 DEF Terminate, Goto, Return
  <2> QED BY <2>1, <2>2
<1>4. OnlyMoves(e) /\ pc'[e] = l /\ frame'[e] = f
  BY <1>1, <1>3, ComesTo
<1>5. cb # "resume_suspend_to"
  BY <1>1 DEF IInv, PlaceInv, Shape, NoFrame, Waking
<1>6. \A p : /\ ~Foresees(e, p) /\ ~Foresees(e, p)'
             /\ Owes(e, p)' <=> Owes(e, p)
             /\ ~Pushed(e, p)' /\ ~Pushed(e, p)
  BY <1>1, <1>3, <1>4, <1>5 DEF Foresees, Owes, Pushed, NoFrame
<1>7. \A x \in Threads : state'[x] = "BLOCKED" <=> state[x] = "BLOCKED"
  BY <1>1, <1>2 DEF Add, AddThread, Terminate, SetState, Types, DataTypes
<1>8. Silent(e)
  BY <1>1, <1>3, <1>4, <1>6, <1>7 DEF Silent, CountInv
<1> QED BY <1>1, <1>8, SilentPosts

\* Marking the ULT BLOCKED: it has been counted before.
LEMMA BlockPosts ==
  ASSUME CountInv, YthreadConstants, NEW e \in Xstreams, Block(e)
  PROVE  Posts(e, frame[e].p_prev)
<1> DEFINE cb == frame[e].callback
<1>1. PICK t : t = frame[e].p_prev
  OBVIOUS
<1>2. /\ IInv /\ Types /\ pc[e] = "block" /\ UNCHANGED <<p_pool, request, num_blocked>>
      /\ e \in Actors /\ SetState(t, "BLOCKED")
  BY <1>1 DEF Block, descVars, poolVars, CountInv, IInv, Actors
<1>3. t \in Threads /\ state[t] \in {"READY", "RUNNING"} /\ Works(e, t)
  BY <1>1, <1>2, WorkedOn
<1>4. cb \in {"suspend", "suspend_join", "resume_suspend_to"}
  BY <1>2 DEF IInv, PlaceInv, Shape, NoFrame, Waking
<1>5. PICK l, f :
        /\ l \in {"run", "link"}
        /\ pc' = [pc EXCEPT ![e] = l]
        /\ frame' = [frame EXCEPT ![e] = f] \/ (frame' = frame /\ f = frame[e])
        /\ f = IF l = "run" THEN NoFrame ELSE frame[e]
        /\ l = "link" <=> cb = "suspend_join"
  BY DEF Block, Goto, Return
<1>6. OnlyMoves(e) /\ pc'[e] = l /\ frame'[e] = f
  BY <1>2, <1>5, ComesTo
<1>7. \A p : /\ (Foresees(e, p) <=> p = p_pool[t]) /\ ~Foresees(e, p)'
             /\ ~Owes(e, p)' /\ ~Owes(e, p) /\ ~Pushed(e, p)' /\ ~Pushed(e, p)
  BY <1>1, <1>2, <1>4, <1>5, <1>6 DEF Foresees, Owes, Pushed, NoFrame
<1>8. \A p : ~IsDue(t, p) /\ (IsDue(t, p)' <=> p = p_pool[t])
  <2>1. ASSUME NEW b \in Actors, b # e PROVE ~(pc'[b] = "jump" /\ frame'[b].p_joiner = t)
    <3>1. ~Owns(b, t)
      BY <1>2, <1>3, <2>1 DEF IInv, PlaceInv, Alone, Owns
    <3> QED BY <1>6, <2>1, <3>1 DEF OnlyMoves, Owns, Wakes
  <2>2. ~JumpedTo(t)'
    BY <1>5, <1>6, <2>1 DEF JumpedTo
  <2> QED BY <1>2, <1>3, <2>2 DEF IsDue, SetState, Types, DataTypes
<1>9. ASSUME NEW p \in Pools PROVE Balanced(e, t, p)
  <2>1. num_blocked[p] \in Int /\ num_blocked'[p] = num_blocked[p]
    BY <1>2 DEF Types, DataTypes
  <2> QED BY <1>3, <1>7, <1>8, <2>1 DEF Balanced, One
<1>10. BlockedBut(e, t)
  BY <1>2, <1>5, <1>6 DEF BlockedBut, SetState, Types, DataTypes
<1> QED BY <1>1, <1>2, <1>5, <1>6, <1>9, <1>10 DEF Posts, CountInv

\* Storing the joiner in p_link ends its suspension.
LEMMA SetLinkPosts ==
  ASSUME CountInv, YthreadConstants, NEW e \in Xstreams, SetLink(e)
  PROVE  Posts(e, Null)
<1>1. /\ IInv /\ Types /\ pc[e] = "link" /\ UNCHANGED <<state, p_pool, request, num_blocked>>
      /\ e \in Actors /\ pc' = [pc EXCEPT ![e] = "run"] /\ frame' = [frame EXCEPT ![e] = NoFrame]
  BY DEF SetLink, Return, Goto, poolVars, CountInv, IInv, Actors
<1>2. OnlyMoves(e) /\ pc'[e] = "run" /\ frame'[e] = NoFrame
  BY <1>1, ComesTo
<1>3. frame[e].callback = "suspend_join"
  BY <1>1 DEF IInv, PlaceInv, Shape, NoFrame, Waking
<1>4. \A p : /\ ~Foresees(e, p) /\ ~Owes(e, p) /\ ~Pushed(e, p)
             /\ ~Foresees(e, p)' /\ ~Owes(e, p)' /\ ~Pushed(e, p)'
  BY <1>1, <1>2, <1>3 DEF Foresees, Owes, Pushed, NoFrame
<1>5. Silent(e)
  BY <1>1, <1>2, <1>4 DEF Silent, CountInv
<1> QED BY <1>1, <1>5, SilentPosts
------------------------------------------------------------------------------
(* Waking the joiner *)

\* Looking for the joiner, and the system call that wakes an external one.
LEMMA WakingPosts ==
  ASSUME CountInv, YthreadConstants, NEW e \in Xstreams,
         LoadLink(e) \/ SetJoinFlag(e) \/ SpinOnLink(e) \/ FutexWake(e)
  PROVE  Posts(e, Null)
<1> DEFINE cb == frame[e].callback
<1>1. /\ IInv /\ Types /\ pc[e] \in {"load_link", "join_flag", "spin", "futex_wake"}
      /\ UNCHANGED <<state, p_pool, num_blocked>> /\ e \in Actors /\ frame[e] \in Frames
  BY DEF LoadLink, SetJoinFlag, SpinOnLink, FutexWake, threadVars, descVars, poolVars, CountInv,
         IInv, Actors, Types, ActorTypes
<1>2. \A x \in Threads : "MIGRATE" \notin request'[x]
  <2>1. PICK t : request' = request \/ request' = [request EXCEPT ![t] = @ \cup {"JOIN"}]
    BY DEF LoadLink, SetJoinFlag, SpinOnLink, FutexWake, threadVars, descVars
  <2>2. ASSUME NEW x \in Threads PROVE request'[x] \in {request[x], request[x] \cup {"JOIN"}}
    BY <1>1, <2>1 DEF Types, DataTypes
  <2> QED BY <2>2 DEF CountInv
<1>3. /\ cb # "resume" /\ (~frame[e].cancel => AfterWake(e) = "leave")
      /\ cb = "resume_exit_to" => ~frame[e].cancel
      /\ cb \notin {"suspend", "suspend_join", "resume_suspend_to"}
      /\ AfterWake(e) \in {"terminate", "leave"}
  BY <1>1 DEF IInv, PlaceInv, Shape, NoFrame, Waking, AfterWake, Frames
<1>4. PICK l : /\ pc' = [pc EXCEPT ![e] = l]
               /\ l \in {"join_flag", "wake", "spin", "terminate", "leave"}
               /\ cb = "resume_exit_to" => l # "terminate"
  BY <1>3 DEF LoadLink, SetJoinFlag, SpinOnLink, FutexWake, Goto
<1>5. PICK f : /\ frame' = [frame EXCEPT ![e] = f] \/ (frame' = frame /\ f = frame[e])
               /\ f.callback = cb /\ f.p_prev = frame[e].p_prev /\ f.p_next = frame[e].p_next
               /\ f.p_pool = frame[e].p_pool
  <2>1. CASE frame' = frame
    BY <2>1
  <2>2. CASE \E j : frame' = [frame EXCEPT ![e].p_joiner = j]
    <3>1. PICK j : frame' = [frame EXCEPT ![e].p_joiner = j]
      BY <2>2
    <3> DEFINE g == [frame[e] EXCEPT !.p_joiner = j]
    <3>2. /\ g.callback = cb /\ g.p_prev = frame[e].p_prev /\ g.p_next = frame[e].p_next
          /\ g.p_pool = frame[e].p_pool
      BY <1>1 DEF Frames
    <3>3. frame' = [frame EXCEPT ![e] = g]
      BY ONLY <3>1
    <3> QED BY <3>2, <3>3
  <2> QED BY <2>1, <2>2 DEF LoadLink, SetJoinFlag, SpinOnLink, FutexWake
<1>6. OnlyMoves(e) /\ pc'[e] = l /\ frame'[e] = f
  BY <1>1, <1>4, <1>5, ComesTo
<1>7. \A p : /\ ~Foresees(e, p) /\ ~Foresees(e, p)'
             /\ Owes(e, p)' <=> Owes(e, p)
             /\ ~Pushed(e, p)' /\ ~Pushed(e, p)
  BY <1>1, <1>3, <1>4, <1>5, <1>6 DEF Foresees, Owes, Pushed
<1>8. Silent(e)
  BY <1>1, <1>2, <1>4, <1>6, <1>7 DEF Silent
<1> QED BY <1>1, <1>8, SilentPosts

\* A joiner that an actor is about to wake is counted, unless the actor jumps to it.
LEMMA WokenDue ==
  ASSUME IInv, YthreadConstants, NEW a \in Actors, NEW j \in Threads, Wakes(a, j)
  PROVE  /\ state[j] = "BLOCKED" /\ \A b \in Actors \ {a} : ~Wakes(b, j)
         /\ \A p : IsDue(j, p) <=> (p_pool[j] = p /\ pc[a] # "jump")
<1>1. state[j] = "BLOCKED" /\ \A b \in Actors \ {a} : ~Wakes(b, j)
  BY DEF IInv, PlaceInv, Role, Alone, Owns
<1>2. JumpedTo(j) <=> pc[a] = "jump"
  BY <1>1 DEF JumpedTo, Wakes
<1> QED BY <1>1, <1>2 DEF IsDue

\* Waking a joiner takes its count before a jump, and leaves it before a push.
LEMMA WakePosts ==
  ASSUME CountInv, YthreadConstants, NEW e \in Xstreams, Wake(e)
  PROVE  \E t : Posts(e, t)
<1>1. PICK j : j = frame[e].p_joiner
  OBVIOUS
<1>2. /\ IInv /\ Types /\ pc[e] = "wake" /\ e \in Actors /\ Null \notin Threads
      /\ UNCHANGED <<state, p_pool, request, frame>>
  BY DEF Wake, threadVars, descVars, CountInv, IInv, Actors, YthreadConstants
<1>3. PICK l \in {"futex_wake", "jump", "push"} :
        /\ pc' = [pc EXCEPT ![e] = l]
        /\ IF l = "jump" THEN j \in Threads /\ AddNumBlocked(p_pool[j], -1)
                              /\ frame[e].callback = "exit"
                         ELSE num_blocked' = num_blocked
  BY <1>1 DEF Wake, Goto
<1>4. OnlyMoves(e) /\ pc'[e] = l /\ frame'[e] = frame[e]
  BY <1>2, <1>3, ComesTo
<1>5. \A x \in Threads : "MIGRATE" \notin request'[x]
  BY <1>2 DEF CountInv
<1>6. \A p : /\ Foresees(e, p)' <=> Foresees(e, p)
             /\ Owes(e, p)' <=> Owes(e, p)
             /\ ~Pushed(e, p)' /\ ~Pushed(e, p)
  BY <1>2, <1>3, <1>4 DEF Foresees, Owes, Pushed
<1>7. CASE l # "jump"
  <2>1. Silent(e)
    BY <1>2, <1>3, <1>4, <1>5, <1>6, <1>7 DEF Silent
  <2> QED BY <1>2, <2>1, SilentPosts
<1>8. CASE l = "jump"
  <2>1. j \in Threads /\ AddNumBlocked(p_pool[j], -1)
    BY <1>3, <1>8
  <2>2. Wakes(e, j)
    BY <1>1, <1>2 DEF Wakes
  <2>3. \A p : (IsDue(j, p) <=> p = p_pool[j]) /\ ~IsDue(j, p)'
    <3>1. JumpedTo(j)'
      BY <1>1, <1>2, <1>4, <1>8 DEF JumpedTo
    <3> QED BY <1>2, <2>1, <2>2, <3>1, WokenDue DEF IsDue
  <2>4. ASSUME NEW p \in Pools PROVE Balanced(e, j, p)
    <3>1. /\ num_blocked[p] \in Int
          /\ num_blocked'[p] = IF p = p_pool[j] THEN num_blocked[p] - 1 ELSE num_blocked[p]
      BY <1>2, <2>1, Added
    <3> QED BY <1>6, <2>1, <2>3, <3>1 DEF Balanced, One
  <2>5. BlockedBut(e, j)
    BY <1>1, <1>2, <1>4 DEF BlockedBut
  <2> QED BY <1>4, <1>5, <1>8, <2>4, <2>5 DEF Posts
<1> QED BY <1>7, <1>8

\* The jump itself: the joiner is counted no more.
LEMMA JumpPosts ==
  ASSUME CountInv, YthreadConstants, NEW e \in Xstreams, Jump(e)
  PROVE  \E t : Posts(e, t)
<1>1. PICK j : j = frame[e].p_joiner
  OBVIOUS
<1>2. /\ IInv /\ Types /\ pc[e] = "jump" /\ e \in Actors
      /\ UNCHANGED <<num_blocked, p_pool, request, frame>>
      /\ pc' = [pc EXCEPT ![e] = "terminate"] /\ SetState(j, "RUNNING")
  BY <1>1 DEF Jump, poolVars, descVars, CountInv, IInv, Actors, Goto
<1>3. j \in Threads /\ frame[e].callback = "exit" /\ Wakes(e, j)
  BY <1>1, <1>2 DEF IInv, PlaceInv, Shape, NoFrame, Waking, Wakes
<1>4. OnlyMoves(e) /\ pc'[e] = "terminate" /\ frame'[e] = frame[e]
  BY <1>2, ComesTo
<1>5. \A p : /\ ~Foresees(e, p)' /\ ~Foresees(e, p)
             /\ ~Owes(e, p)' /\ ~Owes(e, p)
             /\ ~Pushed(e, p)' /\ ~Pushed(e, p)
  BY <1>2, <1>3, <1>4 DEF Foresees, Owes, Pushed
<1>6. \A p : ~IsDue(j, p) /\ ~IsDue(j, p)'
  BY <1>2, <1>3, WokenDue DEF IsDue, SetState, Types, DataTypes
<1>7. ASSUME NEW p \in Pools PROVE Balanced(e, j, p)
  <2>1. num_blocked[p] \in Int /\ num_blocked'[p] = num_blocked[p]
    BY <1>2 DEF Types, DataTypes
  <2> QED BY <1>5, <1>6, <2>1 DEF Balanced, One
<1>8. BlockedBut(e, j)
  BY <1>1, <1>2, <1>3, <1>4 DEF BlockedBut, SetState, Types, DataTypes
<1> QED BY <1>2, <1>4, <1>7, <1>8 DEF Posts, CountInv

\* Pushing a ULT that was counted as BLOCKED.
LEMMA PushPosts ==
  ASSUME CountInv, YthreadConstants, NEW a \in Actors, ResumeAndPush(a)
  PROVE  \E t : Posts(a, t)
<1>1. PICK j, q : j = frame[a].p_joiner /\ q = p_pool[j]
  OBVIOUS
<1>2. /\ IInv /\ Types /\ pc[a] = "push" /\ frame[a] \in Frames
      /\ UNCHANGED <<num_blocked, p_pool, request>>
      /\ pc' = [pc EXCEPT ![a] = "push_dec"] /\ state' = [state EXCEPT ![j] = "READY"]
      /\ frame' = [frame EXCEPT ![a].p_joiner_pool = q]
  BY <1>1 DEF ResumeAndPush, AddThread, SetState, descVars, CountInv, IInv, Goto, Types, ActorTypes
<1>3. j \in Threads /\ Wakes(a, j) /\ frame[a].callback # "resume_suspend_to"
      /\ frame[a].callback \notin {"suspend", "suspend_join"}
  BY <1>1, <1>2 DEF IInv, PlaceInv, Shape, NoFrame, Waking, Wakes
<1>4. PICK f : /\ frame' = [frame EXCEPT ![a] = f]
               /\ f.callback = frame[a].callback /\ f.p_prev = frame[a].p_prev
               /\ f.p_next = frame[a].p_next /\ f.p_pool = frame[a].p_pool
               /\ f.p_joiner_pool = q
  <2> DEFINE g == [frame[a] EXCEPT !.p_joiner_pool = q]
  <2>1. /\ g.callback = frame[a].callback /\ g.p_prev = frame[a].p_prev
        /\ g.p_next = frame[a].p_next /\ g.p_pool = frame[a].p_pool
        /\ g.p_joiner_pool = q
    BY <1>2 DEF Frames
  <2>2. frame' = [frame EXCEPT ![a] = g]
    BY ONLY <1>2
  <2> QED BY <2>1, <2>2
<1>5. OnlyMoves(a) /\ pc'[a] = "push_dec" /\ frame'[a] = f
  <2>1. Types /\ p_pool' = p_pool /\ pc' = [pc EXCEPT ![a] = "push_dec"]
    BY <1>2
  <2>2. frame' = [frame EXCEPT ![a] = f]
    BY <1>4
  <2> QED BY ONLY <2>1, <2>2, ComesTo
<1>6. \A p : /\ ~Foresees(a, p)' /\ ~Foresees(a, p)
             /\ Owes(a, p)' <=> Owes(a, p)
             /\ (Pushed(a, p)' <=> p = q) /\ ~Pushed(a, p)
  BY <1>2, <1>3, <1>4, <1>5 DEF Foresees, Owes, Pushed
<1>7. \A p : (IsDue(j, p) <=> p = q) /\ ~IsDue(j, p)'
  <2>1. \A p : IsDue(j, p) <=> p = q
    BY <1>1, <1>2, <1>3, WokenDue
  <2>2. state'[j] = "READY"
    BY <1>2, <1>3 DEF Types, DataTypes
  <2> QED BY <2>1, <2>2 DEF IsDue
<1>8. ASSUME NEW p \in Pools PROVE Balanced(a, j, p)
  <2>1. num_blocked[p] \in Int /\ num_blocked'[p] = num_blocked[p]
    BY <1>2 DEF Types, DataTypes
  <2> QED BY <1>3, <1>6, <1>7, <2>1 DEF Balanced, One
<1>9. BlockedBut(a, j)
  BY <1>1, <1>2, <1>3, <1>5 DEF BlockedBut, Types, DataTypes
<1> QED BY <1>2, <1>5, <1>8, <1>9 DEF Posts, CountInv

\* Giving back its count.
LEMMA PushDecPosts ==
  ASSUME CountInv, YthreadConstants, NEW a \in Actors, PushDec(a)
  PROVE  Posts(a, Null)
<1>1. PICK q : q = frame[a].p_joiner_pool
  OBVIOUS
<1>2. /\ IInv /\ Types /\ pc[a] = "push_dec" /\ frame[a] \in Frames /\ Null \notin Threads
      /\ UNCHANGED <<state, p_pool, request>> /\ AddNumBlocked(q, -1)
  BY <1>1 DEF PushDec, threadVars, descVars, CountInv, IInv, Types, ActorTypes, YthreadConstants
<1>3. /\ frame[a].callback \notin {"suspend", "suspend_join", "resume_suspend_to"}
      /\ frame[a].callback = "resume_exit_to" => ~frame[a].cancel
  BY <1>2 DEF IInv, PlaceInv, Shape, NoFrame, Waking
<1>0. PICK l, f : l = AfterWake(a) /\ f = IF l = "run" THEN NoFrame ELSE frame[a]
  OBVIOUS
<1>4. /\ l \in {"terminate", "leave", "run"}
      /\ pc' = [pc EXCEPT ![a] = l]
      /\ frame' = [frame EXCEPT ![a] = f] \/ (frame' = frame /\ f = frame[a])
      /\ IF l = "run" THEN f = NoFrame /\ frame[a].callback = "resume" ELSE f = frame[a]
      /\ l = "terminate" => frame[a].callback # "resume_exit_to"
  <2>1. /\ pc' = [pc EXCEPT ![a] = l]
        /\ frame' = IF l = "run" THEN [frame EXCEPT ![a] = NoFrame] ELSE frame
    BY <1>0 DEF PushDec, Goto
  <2>2. /\ l \in {"terminate", "leave", "run"}
        /\ l = "run" => frame[a].callback = "resume"
        /\ l = "terminate" => frame[a].callback # "resume_exit_to"
    BY <1>0, <1>3 DEF AfterWake
  <2> QED BY <1>0, <2>1, <2>2
<1>5. OnlyMoves(a) /\ pc'[a] = l /\ frame'[a] = f
  BY <1>2, <1>4, ComesTo
<1>6. \A p : /\ ~Foresees(a, p)' /\ ~Foresees(a, p)
             /\ Owes(a, p)' <=> Owes(a, p)
             /\ (Pushed(a, p) <=> p = q) /\ ~Pushed(a, p)'
  BY <1>1, <1>2, <1>3, <1>4, <1>5 DEF Foresees, Owes, Pushed, NoFrame
<1>7. ASSUME NEW p \in Pools PROVE Balanced(a, Null, p)
  <2>1. /\ num_blocked[p] \in Int
        /\ num_blocked'[p] = IF p = q THEN num_blocked[p] - 1 ELSE num_blocked[p]
    BY <1>2, Added
  <2> QED BY <1>2, <1>6, <2>1 DEF Balanced, One
<1> QED BY <1>2, <1>4, <1>5, <1>7 DEF Posts, BlockedBut, CountInv

\* Off the stack of the exiting ULT: the one that was resumed is due to be given back.
LEMMA LeavePosts ==
  ASSUME CountInv, YthreadConstants, NEW e \in Xstreams, Leave(e)
  PROVE  \E t : Posts(e, t)
<1>1. PICK s : s = frame[e].p_next
  OBVIOUS
<1>2. /\ IInv /\ Types /\ pc[e] = "leave" /\ e \in Actors
      /\ UNCHANGED <<num_blocked, p_pool, request, frame>>
      /\ pc' = [pc EXCEPT ![e] = "terminate"] /\ frame[e] \in Frames
      /\ IF frame[e].callback = "exit" THEN state' = state ELSE SetState(s, "RUNNING")
  BY <1>1 DEF Leave, poolVars, descVars, CountInv, IInv, Goto, Actors, Types, ActorTypes
<1>3. /\ frame[e].callback \in {"exit", "exit_to", "resume_exit_to"}
      /\ frame[e].callback # "exit" => s \in Threads /\ Takes(e, s)
  BY <1>1, <1>2 DEF IInv, PlaceInv, Shape, NoFrame, Waking, Takes, Frames
<1>4. OnlyMoves(e) /\ pc'[e] = "terminate" /\ frame'[e] = frame[e]
  BY <1>2, ComesTo
<1>5. \A p : /\ ~Foresees(e, p)' /\ ~Foresees(e, p)
             /\ ~Owes(e, p) /\ (Owes(e, p)' <=> frame[e].callback = "resume_exit_to" /\ p = p_pool[s])
             /\ ~Pushed(e, p)' /\ ~Pushed(e, p)
  BY <1>1, <1>2, <1>3, <1>4 DEF Foresees, Owes, Pushed
<1>6. CASE frame[e].callback = "resume_exit_to"
  <2>1. s \in Threads /\ state[s] = "BLOCKED" /\ Owns(e, s) /\ ~Wakes(e, s)
    BY <1>2, <1>3, <1>6 DEF IInv, PlaceInv, Role, Owns, Wakes
  <2>2. ~JumpedTo(s)
    BY <1>2, <2>1 DEF IInv, PlaceInv, Alone, JumpedTo, Owns, Wakes
  <2>3. \A p : (IsDue(s, p) <=> p = p_pool[s]) /\ ~IsDue(s, p)'
    BY <1>2, <1>6, <2>1, <2>2 DEF IsDue, SetState, Types, DataTypes
  <2>4. ASSUME NEW p \in Pools PROVE Balanced(e, s, p)
    <3>1. num_blocked[p] \in Int /\ num_blocked'[p] = num_blocked[p]
      BY <1>2 DEF Types, DataTypes
    <3> QED BY <1>5, <1>6, <2>1, <2>3, <3>1 DEF Balanced, One
  <2>5. BlockedBut(e, s)
    BY <1>2, <1>4, <1>6, <2>1 DEF BlockedBut, SetState, Types, DataTypes
  <2> QED BY <1>2, <1>4, <2>4, <2>5 DEF Posts, CountInv
<1>7. CASE frame[e].callback # "resume_exit_to"
  <2>1. \A x \in Threads : state'[x] = "BLOCKED" <=> state[x] = "BLOCKED"
    <3>1. frame[e].callback = "exit_to" => state[s] = "READY"
      BY <1>2, <1>3 DEF IInv, PlaceInv, Role
    <3> QED BY <1>2, <1>3, <1>7, <3>1 DEF SetState, Types, DataTypes
  <2>2. Silent(e)
    BY <1>2, <1>4, <1>5, <1>7, <2>1 DEF Silent, CountInv
  <2> QED BY <1>2, <2>2, SilentPosts
<1> QED BY <1>6, <1>7
------------------------------------------------------------------------------
(* Steps that move nobody *)

\* Nobody's accounts change.
StillBooks ==
    /\ pc' = pc /\ frame' = frame /\ num_blocked' = num_blocked
    /\ \A x \in Threads : "MIGRATE" \notin request'[x]
    /\ \A b \in Actors : pc[b] = "remove" => p_pool'[frame[b].p_prev] = p_pool[frame[b].p_prev]
    /\ \A p \in Pools : /\ \A b \in Actors : /\ Foresees(b, p)' <=> Foresees(b, p)
                                             /\ Owes(b, p)' <=> Owes(b, p)
                        /\ \A x \in Threads : IsDue(x, p)' <=> IsDue(x, p)

\* Then the books stay as they are.
LEMMA StillKeeps ==
  ASSUME CountInv, YthreadConstants, IInv', StillBooks
  PROVE  CountInv'
<1>1. ASSUME NEW p \in Pools PROVE Books(p)'
  <2>1. /\ Due(p)' = Due(p) /\ Foreseen(p)' = Foreseen(p)
        /\ Owing(p)' = Owing(p) /\ Pushing(p)' = Pushing(p)
    BY DEF StillBooks, Due, Foreseen, Owing, Pushing, Pushed
  <2> QED BY <2>1 DEF CountInv, Books, StillBooks
<1>2. ASSUME NEW b \in Actors, pc'[b] = "remove"
      PROVE  frame'[b].p_pool = p_pool'[frame'[b].p_prev]
  BY <1>2 DEF CountInv, StillBooks
<1> QED BY <1>1, <1>2 DEF CountInv, StillBooks

\* A ULT that is revived in another pool was in no account.
LEMMA JoinReturnsBooks ==
  ASSUME CountInv, YthreadConstants, NEW a \in Actors, JoinReturns(a)
  PROVE  StillBooks
<1>1. PICK s : s = joining[Caller(a)]
  OBVIOUS
<1>2. /\ IInv /\ Types /\ Null \notin Threads /\ state[s] = "TERMINATED"
      /\ UNCHANGED <<num_blocked, pc, frame>>
      /\ \A x \in Threads \ {s} : p_pool'[x] = p_pool[x] /\ state'[x] = state[x]
      /\ state'[s] # "BLOCKED" \/ s \notin Threads
      /\ \A x \in Threads : "MIGRATE" \notin request'[x]
  <2>1. CASE UNCHANGED threadVars
    BY <1>1, <2>1 DEF JoinReturns, threadVars, descVars, CountInv, IInv, YthreadConstants
  <2>2. CASE ~UNCHANGED threadVars
    <3>1. PICK p : p_pool' = [p_pool EXCEPT ![s] = p]
      BY <1>1, <2>2 DEF JoinReturns
    <3>2. /\ state' = [state EXCEPT ![s] = "READY"] /\ request' = [request EXCEPT ![s] = {}]
          /\ state[s] = "TERMINATED" /\ UNCHANGED <<num_blocked, pc, frame>>
      BY <1>1, <2>2 DEF JoinReturns, SetState
    <3> QED BY <3>1, <3>2 DEF CountInv, IInv, Types, DataTypes, YthreadConstants
  <2> QED BY <2>1, <2>2
<1>3. ASSUME NEW b \in Actors, NEW t \in Threads, Runs(b, t) \/ (Works(b, t) /\ pc[b] # "link")
      PROVE  t # s
  BY <1>2, <1>3 DEF IInv, PlaceInv, Role
<1>4. ASSUME NEW b \in Actors
      PROVE  /\ pc[b] = "remove" => p_pool'[frame[b].p_prev] = p_pool[frame[b].p_prev]
             /\ \A p \in Pools : /\ Foresees(b, p)' <=> Foresees(b, p)
                                 /\ Owes(b, p)' <=> Owes(b, p)
  <2>1. Shape(b) /\ frame[b] \in Frames
    BY <1>2 DEF IInv, PlaceInv, Types, ActorTypes
  <2>2. pc[b] = "remove" => p_pool'[frame[b].p_prev] = p_pool[frame[b].p_prev]
    <3>1. ASSUME pc[b] = "remove" PROVE frame[b].p_prev \in Threads /\ Runs(b, frame[b].p_prev)
      BY <2>1, <3>1 DEF Shape, NoFrame, Waking, Runs, Frames
    <3> QED BY <1>2, <1>3, <3>1
  <2>3. ASSUME NEW p \in Pools PROVE Foresees(b, p)' <=> Foresees(b, p)
    <3>1. CASE \/ frame[b].callback \in {"suspend", "suspend_join"} /\ pc[b] \in {"request", "block"}
               \/ frame[b].callback = "resume_suspend_to" /\ pc[b] \in {"dec", "request", "block"}
      <4>1. frame[b].p_prev \in Threads /\ Works(b, frame[b].p_prev) /\ pc[b] # "link"
        BY <2>1, <3>1 DEF Shape, NoFrame, Waking, Works, Frames
      <4>2. p_pool'[frame[b].p_prev] = p_pool[frame[b].p_prev]
        BY <1>2, <1>3, <4>1
      <4> QED BY <1>2, <4>2 DEF Foresees
    <3>2. CASE ~(\/ frame[b].callback \in {"suspend", "suspend_join"} /\ pc[b] \in {"request", "block"}
                 \/ frame[b].callback = "resume_suspend_to" /\ pc[b] \in {"dec", "request", "block"})
      BY <1>2, <3>2 DEF Foresees
    <3> QED BY <3>1, <3>2
  <2>4. ASSUME NEW p \in Pools PROVE Owes(b, p)' <=> Owes(b, p)
    <3>1. CASE \/ frame[b].callback = "resume_yield_to"
               \/ frame[b].callback = "resume_suspend_to" /\ pc[b] \in {"inc", "dec"}
               \/ frame[b].callback = "resume_exit_to" /\ pc[b] \in {"terminate", "dec"}
      <4>1. frame[b].p_next \in Threads /\ Runs(b, frame[b].p_next)
        BY <2>1, <3>1 DEF Shape, NoFrame, Waking, Runs, Frames
      <4>2. p_pool'[frame[b].p_next] = p_pool[frame[b].p_next]
        BY <1>2, <1>3, <4>1
      <4> QED BY <1>2, <4>2 DEF Owes
    <3>2. CASE ~(\/ frame[b].callback = "resume_yield_to"
                 \/ frame[b].callback = "resume_suspend_to" /\ pc[b] \in {"inc", "dec"}
                 \/ frame[b].callback = "resume_exit_to" /\ pc[b] \in {"terminate", "dec"})
      BY <1>2, <3>2 DEF Owes
    <3> QED BY <3>1, <3>2
  <2> QED BY <2>2, <2>3, <2>4
<1>5. ASSUME NEW p \in Pools, NEW x \in Threads PROVE IsDue(x, p)' <=> IsDue(x, p)
  <2>1. JumpedTo(x)' <=> JumpedTo(x)
    BY <1>2 DEF JumpedTo
  <2>2. CASE x = s
    BY <1>2, <2>2 DEF IsDue
  <2>3. CASE x # s
    BY <1>2, <2>1, <2>3 DEF IsDue
  <2> QED BY <2>2, <2>3
<1> QED BY <1>2, <1>4, <1>5 DEF StillBooks

\* A request to cancel, and a step of nobody.
LEMMA StillSteps ==
  ASSUME CountInv, YthreadConstants, "migrate" \notin Ops, RequestStep \/ UNCHANGED vars
  PROVE  StillBooks
<1>1. \/ request' = request
      \/ \E t \in Threads : request' = [request EXCEPT ![t] = @ \cup {"CANCEL"}]
  BY DEF RequestStep, Cancel, MigrateToPool, vars, threadVars, descVars
<1>2. \A x \in Threads : "MIGRATE" \notin request'[x]
  <2>1. PICK t : request' = request \/ request' = [request EXCEPT ![t] = @ \cup {"CANCEL"}]
    BY <1>1
  <2>2. ASSUME NEW x \in Threads PROVE request'[x] \in {request[x], request[x] \cup {"CANCEL"}}
    BY <2>1 DEF CountInv, IInv, Types, DataTypes
  <2> QED BY <2>2 DEF CountInv
<1>3. UNCHANGED <<pc, frame, num_blocked, p_pool, state>>
  BY DEF RequestStep, Cancel, MigrateToPool, vars, threadVars, descVars, poolVars
<1> QED BY <1>2, <1>3 DEF StillBooks, Foresees, Owes, IsDue, JumpedTo
------------------------------------------------------------------------------
(* The theorems *)

\* The books are right from the start, when every ULT is in a pool.
LEMMA CountInit ==
  ASSUME YthreadConstants, Init
  PROVE  CountInv
<1>1. IInv
  BY InitOK
<1>2. ASSUME NEW p \in Pools PROVE Books(p)
  <2>1. /\ Due(p) = {} /\ Foreseen(p) = {} /\ Owing(p) = {} /\ Pushing(p) = {}
    BY DEF Init, Due, Foreseen, Owing, Pushing, IsDue, Foresees, Owes, Pushed, NoFrame
  <2>2. num_blocked[p] = 0
    BY DEF Init
  <2> QED BY <2>1, <2>2, FS_EmptySet DEF Books
<1> QED BY <1>1, <1>2 DEF Init, CountInv

\* No step of a program without migration falsifies them.
LEMMA CountNext ==
  ASSUME CountInv, YthreadConstants, "migrate" \notin Ops, [Next]_vars
  PROVE  CountInv'
<1>1. IInv'
  BY NextOK, StutterOK DEF CountInv
<1>2. ASSUME NEW a \in Actors, \E t : Posts(a, t) PROVE CountInv'
  BY <1>1, <1>2, PostsKeep
<1>3. ASSUME StillBooks PROVE CountInv'
  BY <1>1, <1>3, StillKeeps
<1>4. ASSUME NEW e \in Xstreams, UserStep(e) PROVE CountInv'
  <2>1. e \in Actors
    BY DEF Actors
  <2> QED BY <1>2, <1>4, <2>1, LonePosts, ToPosts, ThreadYieldToPosts, ResumeToPosts DEF UserStep
<1>5. ASSUME NEW a \in Actors, AnyStep(a) PROVE CountInv'
  BY <1>2, <1>3, <1>5, PushPosts, PushDecPosts, RequestJoinPosts, JoinReturnsBooks, ResumePosts,
     JoinPosts DEF AnyStep
<1>6. ASSUME NEW e \in Xstreams, RuntimeStep(e) PROVE CountInv'
  <2>1. e \in Actors
    BY DEF Actors
  <2> QED BY <1>2, <1>6, <2>1, RemovePosts, IncPosts, DecPosts, HandlePosts, AddPosts, BlockPosts,
             SetLinkPosts, WakingPosts, WakePosts, JumpPosts, LeavePosts, SchedulePosts
          DEF RuntimeStep
<1>7. ASSUME NEW x \in Externals, ExternalStep(x) PROVE CountInv'
  <2>1. x \in Actors
    BY DEF Actors
  <2> QED BY <1>2, <1>5, <1>7, <2>1, JoinPosts DEF ExternalStep
<1>8. ASSUME RequestStep \/ UNCHANGED vars PROVE CountInv'
  BY <1>3, <1>8, StillSteps
<1>9. ASSUME NEW e \in Xstreams, XstreamStep(e) PROVE CountInv'
  BY <1>4, <1>5, <1>6, <1>9 DEF XstreamStep, Actors
<1> QED BY <1>7, <1>8, <1>9 DEF Next, Terminated

\* Between the callbacks num_blocked counts the BLOCKED ULTs of the pool, no more and no less.
LEMMA CountExact ==
  ASSUME CountInv, YthreadConstants
  PROVE  NumBlockedExact
<1>1. ASSUME \A a \in Actors : pc[a] = "run", NEW p \in Pools
      PROVE  num_blocked[p] =
               Cardinality({t \in Threads : p_pool[t] = p /\ state[t] = "BLOCKED"})
  <2>1. \A a \in Actors : frame[a] = NoFrame
    BY <1>1 DEF CountInv, IInv, PlaceInv, Shape, Waking
  <2>2. Foreseen(p) = {} /\ Owing(p) = {} /\ Pushing(p) = {}
    BY <1>1, <2>1, NoAccounts DEF Foreseen, Owing, Pushing
  <2>3. Due(p) = {t \in Threads : p_pool[t] = p /\ state[t] = "BLOCKED"}
    BY <1>1 DEF Due, IsDue, JumpedTo
  <2>4. Cardinality({}) = 0 /\ Cardinality(Due(p)) \in Nat
    BY CountedFinite, FS_EmptySet, FS_CardinalityType
  <2>5. Books(p)
    BY DEF CountInv
  <2> QED BY <2>2, <2>3, <2>4, <2>5 DEF Books
<1> QED BY <1>1 DEF NumBlockedExact

\* An empty pool with a count of zero has only TERMINATED ULTs, and ULTs at work.
LEMMA CountStrandsNobody ==
  ASSUME CountInv, YthreadConstants
  PROVE  NoUltStranded
<1>1. ASSUME NEW p \in Pools, queue[p] = <<>>, num_blocked[p] <= 0,
             NEW t \in Threads, p_pool[t] = p, state[t] # "TERMINATED"
      PROVE  \E a \in Actors : t \in Uses(a)
  <2>1. Due(p) = {} /\ Foreseen(p) = {}
    <3>1. /\ IsFiniteSet(Due(p)) /\ IsFiniteSet(Foreseen(p))
          /\ IsFiniteSet(Owing(p)) /\ IsFiniteSet(Pushing(p))
      BY CountedFinite
    <3>2. /\ Cardinality(Due(p)) \in Nat /\ Cardinality(Foreseen(p)) \in Nat
          /\ Cardinality(Owing(p)) \in Nat /\ Cardinality(Pushing(p)) \in Nat
      BY <3>1, FS_CardinalityType
    <3>3. Books(p)
      BY DEF CountInv
    <3>4. Cardinality(Due(p)) = 0 /\ Cardinality(Foreseen(p)) = 0
      BY <1>1, <3>2, <3>3 DEF Books
    <3> QED BY <3>1, <3>4, FS_EmptySet
  <2>2. IInv /\ Null \notin Threads
    BY DEF CountInv, YthreadConstants
  <2>3. CASE Owned(t)
    <3>1. PICK a \in Actors : Owns(a, t)
      BY <2>3 DEF Owned
    <3>2. ~(Works(a, t) /\ pc[a] = "dec")
      <4>1. ASSUME Works(a, t), pc[a] = "dec" PROVE FALSE
        <5>1. Foresees(a, p)
          BY <1>1, <4>1 DEF Works, Foresees
        <5> QED BY <2>1, <5>1 DEF Foreseen
      <4> QED BY <4>1
    <3>3. frame[a].p_prev = t => pc[a] # "run"
      BY <2>2 DEF IInv, PlaceInv, Shape, NoFrame, Waking
    <3>4. Takes(a, t) => pc[a] \notin {"run", "remove"}
      BY <2>2 DEF IInv, PlaceInv, Shape, NoFrame, Waking, Takes
    <3>5. t \in Uses(a)
      BY <2>2, <3>1, <3>2, <3>3, <3>4 DEF Owns, Runs, Works, Wakes, Takes, Uses, Ctx
    <3> QED BY <3>5
  <2>4. CASE ~Owned(t)
    <3>1. ~Queued(t)
      <4>1. ASSUME NEW q \in Pools, Listed(queue[q], t) PROVE FALSE
        <5>1. q = p
          BY <1>1, <2>2, <4>1 DEF IInv, Queues
        <5> QED BY <1>1, <4>1, <5>1 DEF Listed
      <4> QED BY <4>1 DEF Queued
    <3>2. state[t] = "BLOCKED"
      BY <1>1, <2>2, <2>4, <3>1 DEF IInv, PlaceInv, Placed
    <3>3. ~JumpedTo(t)
      BY <2>4 DEF JumpedTo, Owned, Owns, Wakes
    <3> QED BY <1>1, <2>1, <3>2, <3>3 DEF Due, IsDue
  <2> QED BY <2>3, <2>4
<1> QED BY <1>1 DEF NoUltStranded

\* The count of blocked ULTs is exact between two callbacks, unless ULTs migrate.
THEOREM BlockedAreCounted ==
  ASSUME YthreadConstants, "migrate" \notin Ops
  PROVE  Spec => []NumBlockedExact
<1>1. Init => CountInv
  BY CountInit
<1>2. CountInv /\ [Next]_vars => CountInv'
  BY CountNext
<1>3. CountInv => NumBlockedExact
  BY CountExact
<1> QED BY <1>1, <1>2, <1>3, PTL DEF Spec

\* A pool looks drained only when none of its ULTs is suspended, unless ULTs migrate.
THEOREM NoUltIsStranded ==
  ASSUME YthreadConstants, "migrate" \notin Ops
  PROVE  Spec => []NoUltStranded
<1>1. Init => CountInv
  BY CountInit
<1>2. CountInv /\ [Next]_vars => CountInv'
  BY CountNext
<1>3. CountInv => NoUltStranded
  BY CountStrandsNobody
<1> QED BY <1>1, <1>2, <1>3, PTL DEF Spec
===============================================================================
