---------------------------- MODULE PoolsProofs -----------------------------
(***************************************************************************)
(* Proofs about Pools: for any number of concurrent requests, however they *)
(* interleave, fail and are cancelled, a process opens two pools and one   *)
(* for each recorder build that is cut short, and a recorder that is built *)
(* keeps its pool.                                                         *)
(***************************************************************************)
EXTENDS Pools, TLAPS

\* Someone has stored the recorder's pool, and not yet the recorder.
Building == \E c \in Caller : pc[c] = "start"

\* Who is about to create something holds the lock, and what it looked for is
\* still missing.
UnderLock ==
  \A c \in Caller :
    /\ pc[c] # "idle" => needs[c] # <<>>
    /\ pc[c] \in {"create", "start"} => Holds(c)
    /\ pc[c] = "create" =>
         IF Head(needs[c]) = "recorder" THEN recorder = 0 ELSE pool = 0
    /\ pc[c] = "start" =>
         Head(needs[c]) = "recorder" /\ recorder = 0 /\ pool # 0

\* The pools that were created are the current one's number, and all but one
\* belong to a recorder, built, torn or under way.
Counted ==
  /\ pool = created
  /\ recorder # 0 => pool # 0
  /\ created <= torn + 2
  /\ recorder = 0 /\ ~Building => created <= torn + 1

IInv == TypeOK /\ UnderLock /\ Counted

-----------------------------------------------------------------------------
(* The lock and the plan.                                                  *)

\* Leaving the queue does not move who is at its head, unless it is the head
\* that leaves.
LEMMA LeaveKeepsHolder ==
  ASSUME queue \in Seq(Caller), NEW c \in Caller, Leave(c)
  PROVE  /\ queue' \in Seq(Caller)
         /\ \A d \in Caller \ {c} : Holds(d) => Holds(d)'
<1>1. CASE UNCHANGED queue
  BY <1>1 DEF Holds
<1>2. CASE \E i \in DOMAIN queue : queue[i] = c /\ queue' = RemoveAt(queue, i)
  <2>1. PICK i \in DOMAIN queue : queue[i] = c /\ queue' = RemoveAt(queue, i)
    BY <1>2
  <2>. DEFINE before == SubSeq(queue, 1, i - 1)
              after == SubSeq(queue, i + 1, Len(queue))
  <2>2. i \in 1 .. Len(queue) /\ queue' = before \o after
    BY <2>1 DEF RemoveAt
  <2>3. before \in Seq(Caller) /\ after \in Seq(Caller)
    BY <2>2
  <2>4. queue' \in Seq(Caller)
    BY <2>2, <2>3
  <2>5. ASSUME NEW d \in Caller \ {c}, Holds(d)
        PROVE  Holds(d)'
    <3>1. queue[1] = d /\ i # 1
      BY <2>1, <2>2, <2>5 DEF Holds
    <3>2. Len(before) >= 1 /\ before[1] = d
      BY <2>2, <3>1
    <3>3. Len(queue') >= 1 /\ queue'[1] = d
      <4>1. \A p, q \in Seq(Caller) :
              Len(p) >= 1 => Len(p \o q) >= 1 /\ (p \o q)[1] = p[1]
        OBVIOUS
      <4> HIDE DEF before, after
      <4>. QED
        BY <2>2, <2>3, <3>2, <4>1
    <3>. QED
      BY <2>4, <3>3 DEF Holds
  <2>. QED
    BY <2>4, <2>5
<1>. QED
  BY <1>1, <1>2 DEF Leave

\* One request holds the lock.
LEMMA OneHolder ==
  ASSUME NEW c \in Caller, NEW d \in Caller, Holds(c), Holds(d)
  PROVE  c = d
BY DEF Holds

\* Resolving a dependency keeps to the plan.
LEMMA ResolveType ==
  ASSUME TypeOK, NEW c \in Caller, needs[c] # <<>>, Resolve(c)
  PROVE  /\ pc' \in [Caller -> {"idle", "next", "wait", "create", "start"}]
         /\ needs' \in [Caller -> {<<>>, <<"pool">>, <<"recorder", "pool">>}]
         /\ pc'[c] \in {"idle", "next"}
         /\ pc'[c] # "idle" => needs'[c] # <<>>
         /\ \A d \in Caller \ {c} : pc'[d] = pc[d] /\ needs'[d] = needs[d]
<1>1. needs[c] \in {<<"pool">>, <<"recorder", "pool">>}
  BY DEF TypeOK
<1>2. /\ Tail(<<"pool">>) = <<>> /\ Len(<<"pool">>) = 1
      /\ Tail(<<"recorder", "pool">>) = <<"pool">> /\ Len(<<"recorder", "pool">>) = 2
  OBVIOUS
<1>3. <<"pool">> # <<>>
  OBVIOUS
<1>. QED
  BY <1>1, <1>2, <1>3 DEF TypeOK, Resolve

-----------------------------------------------------------------------------
(* The invariant.                                                          *)

\* The initial states satisfy it.
LEMMA InitIInv == Init => IInv
<1>. SUFFICES ASSUME Init PROVE IInv
  OBVIOUS
<1>1. TypeOK
  <2>1. needs \in [Caller -> {<<>>, <<"pool">>, <<"recorder", "pool">>}]
    BY Zenon DEF Init
  <2>2. queue \in Seq(Caller)
    BY DEF Init
  <2>. QED
    BY <2>1, <2>2 DEF Init, TypeOK
<1>2. \A c \in Caller : pc[c] = "idle"
  BY DEF Init
<1>3. UnderLock
  BY <1>2 DEF UnderLock
<1>4. Counted
  BY DEF Init, Counted
<1>. QED
  BY <1>1, <1>3, <1>4 DEF IInv

\* A step of a request that creates nothing and sets nothing.
LEMMA QuietIInv ==
  ASSUME IInv, NEW c \in Caller,
         TypeOK',
         UNCHANGED <<pool, recorder, created, torn>>,
         \A d \in Caller \ {c} : pc'[d] = pc[d] /\ needs'[d] = needs[d],
         \A d \in Caller \ {c} : Holds(d) => Holds(d)',
         pc'[c] # "idle" => needs'[c] # <<>>,
         pc[c] # "start" /\ pc'[c] # "start",
         pc'[c] = "create" =>
           /\ Holds(c)'
           /\ IF Head(needs'[c]) = "recorder" THEN recorder = 0 ELSE pool = 0
  PROVE  IInv'
<1>1. UnderLock'
  <2>. SUFFICES ASSUME NEW d \in Caller
       PROVE  /\ pc'[d] # "idle" => needs'[d] # <<>>
              /\ pc'[d] \in {"create", "start"} => Holds(d)'
              /\ pc'[d] = "create" =>
                   IF Head(needs'[d]) = "recorder" THEN recorder' = 0 ELSE pool' = 0
              /\ pc'[d] = "start" =>
                   Head(needs'[d]) = "recorder" /\ recorder' = 0 /\ pool' # 0
    BY DEF UnderLock
  <2>1. CASE d = c
    BY <2>1
  <2>2. CASE d # c
    BY <2>2 DEF IInv, UnderLock
  <2>. QED
    BY <2>1, <2>2
<1>2. Building' <=> Building
  BY DEF Building
<1>3. Counted'
  BY <1>2 DEF IInv, Counted
<1>. QED
  BY <1>1, <1>3 DEF IInv

\* Every step keeps the invariant.
LEMMA NextIInv == IInv /\ [Next]_vars => IInv'
<1>. SUFFICES ASSUME IInv, [Next]_vars
     PROVE  IInv'
  OBVIOUS
<1>1. ASSUME NEW c \in Caller, NEW plan \in Plan, Arrive(c, plan)
      PROVE  IInv'
  <2>1. plan \in {<<"pool">>, <<"recorder", "pool">>} /\ plan # <<>>
    BY DEF Plan
  <2>2. TypeOK'
    BY <1>1, <2>1 DEF IInv, TypeOK, Arrive
  <2>. QED
    BY <1>1, <2>1, <2>2, QuietIInv DEF IInv, TypeOK, Arrive, Holds
<1>2. ASSUME NEW c \in Caller, Immediate(c)
      PROVE  IInv'
  <2>1. needs[c] # <<>>
    BY <1>2 DEF IInv, UnderLock, Immediate
  <2>2. TypeOK'
    BY <1>2, <2>1, ResolveType DEF IInv, TypeOK, Immediate
  <2>. QED
    BY <1>2, <2>1, <2>2, ResolveType, QuietIInv DEF IInv, Immediate, Holds
<1>3. ASSUME NEW c \in Caller, Enter(c)
      PROVE  IInv'
  <2>1. TypeOK'
    BY <1>3 DEF IInv, TypeOK, Enter
  <2>2. \A d \in Caller : Holds(d) => Holds(d)'
    BY <1>3 DEF IInv, TypeOK, Enter, Holds
  <2>. QED
    BY <1>3, <2>1, <2>2, QuietIInv DEF IInv, TypeOK, UnderLock, Enter
<1>4. ASSUME NEW c \in Caller, Found(c)
      PROVE  IInv'
  <2>1. needs[c] # <<>> /\ Leave(c) /\ Resolve(c)
    BY <1>4 DEF IInv, UnderLock, Found
  <2>2. /\ queue' \in Seq(Caller)
        /\ \A d \in Caller \ {c} : Holds(d) => Holds(d)'
    BY <2>1, LeaveKeepsHolder DEF IInv, TypeOK
  <2>3. TypeOK'
    BY <1>4, <2>1, <2>2, ResolveType DEF IInv, TypeOK, Found
  <2>. QED
    BY <1>4, <2>1, <2>2, <2>3, ResolveType, QuietIInv DEF IInv, Found
<1>5. ASSUME NEW c \in Caller, NotFound(c)
      PROVE  IInv'
  <2>1. TypeOK'
    BY <1>5 DEF IInv, TypeOK, NotFound
  <2>. QED
    BY <1>5, <2>1, QuietIInv DEF IInv, TypeOK, UnderLock, NotFound, Holds
<1>6. ASSUME NEW c \in Caller, CreatePool(c)
      PROVE  IInv'
  <2>1. /\ pc[c] = "create" /\ Holds(c) /\ needs[c] # <<>>
        /\ \A d \in Caller \ {c} : pc[d] \notin {"create", "start"}
    BY <1>6, OneHolder DEF IInv, UnderLock, CreatePool
  <2>2. /\ created' = created + 1 /\ pool' = created + 1 /\ pool' # 0
        /\ created \in Nat /\ torn \in Nat /\ UNCHANGED <<recorder, events, torn>>
    BY <1>6 DEF IInv, TypeOK, CreatePool
  <2>3. CASE Head(needs[c]) = "recorder"
    <3>1. pc' = [pc EXCEPT ![c] = "start"] /\ UNCHANGED <<needs, queue>>
      BY <1>6, <2>3 DEF CreatePool
    <3>2. recorder = 0
      BY <2>1, <2>3 DEF IInv, UnderLock
    <3>3. TypeOK'
      BY <2>2, <3>1 DEF IInv, TypeOK
    <3>4. UnderLock'
      BY <2>1, <2>2, <2>3, <3>1, <3>2 DEF IInv, TypeOK, UnderLock, Holds
    <3>5. ~Building
      BY <2>1 DEF Building
    <3>6. Building'
      BY <3>1 DEF IInv, TypeOK, Building
    <3>7. Counted'
      BY <2>2, <3>2, <3>5, <3>6 DEF IInv, Counted
    <3>. QED
      BY <3>3, <3>4, <3>7 DEF IInv
  <2>4. CASE Head(needs[c]) # "recorder"
    <3>1. Leave(c) /\ Resolve(c)
      BY <1>6, <2>4 DEF CreatePool
    <3>2. pool = 0 /\ created = 0
      BY <2>1, <2>4 DEF IInv, UnderLock, Counted
    <3>3. TypeOK'
      BY <2>1, <2>2, <3>1, LeaveKeepsHolder, ResolveType DEF IInv, TypeOK
    <3>4. UnderLock'
      BY <2>1, <3>1, ResolveType DEF IInv, UnderLock
    <3>5. Counted'
      BY <2>2, <3>2 DEF IInv, Counted
    <3>. QED
      BY <3>3, <3>4, <3>5 DEF IInv
  <2>. QED
    BY <2>3, <2>4
<1>7. ASSUME NEW c \in Caller, CreateFails(c)
      PROVE  IInv'
  <2>1. /\ queue' \in Seq(Caller)
        /\ \A d \in Caller \ {c} : Holds(d) => Holds(d)'
    BY <1>7, LeaveKeepsHolder DEF IInv, TypeOK, CreateFails
  <2>2. TypeOK'
    BY <1>7, <2>1 DEF IInv, TypeOK, CreateFails
  <2>. QED
    BY <1>7, <2>1, <2>2, QuietIInv DEF IInv, TypeOK, CreateFails
<1>8. ASSUME NEW c \in Caller, Start(c)
      PROVE  IInv'
  <2>1. /\ pc[c] = "start" /\ needs[c] # <<>> /\ pool # 0
        /\ \A d \in Caller \ {c} : pc[d] \notin {"create", "start"}
    BY <1>8, OneHolder DEF IInv, UnderLock, Start
  <2>2. /\ Leave(c) /\ Resolve(c)
        /\ recorder' = pool /\ events' \in BOOLEAN /\ UNCHANGED <<pool, created, torn>>
    BY <1>8 DEF Start
  <2>3. TypeOK'
    BY <2>1, <2>2, LeaveKeepsHolder, ResolveType DEF IInv, TypeOK
  <2>4. UnderLock'
    BY <2>1, <2>2, ResolveType DEF IInv, UnderLock
  <2>5. Counted'
    BY <2>1, <2>2 DEF IInv, Counted
  <2>. QED
    BY <2>3, <2>4, <2>5 DEF IInv
<1>9. ASSUME NEW c \in Caller, Cancel(c)
      PROVE  IInv'
  <2>1. /\ queue' \in Seq(Caller)
        /\ \A d \in Caller \ {c} : Holds(d) => Holds(d)'
    BY <1>9, LeaveKeepsHolder DEF IInv, TypeOK, Cancel
  <2>2. TypeOK'
    BY <1>9, <2>1 DEF IInv, TypeOK, Cancel
  <2>3. CASE pc[c] # "start"
    BY <1>9, <2>1, <2>2, <2>3, QuietIInv DEF IInv, TypeOK, Cancel
  <2>4. CASE pc[c] = "start"
    <3>1. /\ torn' = torn + 1 /\ UNCHANGED <<pool, recorder, created, needs>>
          /\ pc' = [pc EXCEPT ![c] = "idle"]
      BY <1>9, <2>4 DEF Cancel
    <3>2. UnderLock'
      BY <2>1, <3>1 DEF IInv, TypeOK, UnderLock
    <3>3. Counted'
      BY <3>1 DEF IInv, TypeOK, Counted
    <3>. QED
      BY <2>2, <3>2, <3>3 DEF IInv
  <2>. QED
    BY <2>3, <2>4
<1>10. CASE UNCHANGED vars
  BY <1>10 DEF IInv, TypeOK, UnderLock, Counted, Building, Holds, vars
<1>. QED
  BY <1>1, <1>2, <1>3, <1>4, <1>5, <1>6, <1>7, <1>8, <1>9, <1>10 DEF Next, Step

\* The invariant holds throughout.
THEOREM Invariance == Spec => []IInv
BY InitIInv, NextIInv, PTL DEF Spec

\* Type correctness.
THEOREM TypeCorrect == Spec => []TypeOK
<1>1. IInv => TypeOK
  BY DEF IInv
<1>. QED
  BY <1>1, Invariance, PTL

\* Pools do not grow with load: two, and one for each torn recorder build.
THEOREM BoundCorrect == Spec => []PoolsBounded
<1>1. IInv => PoolsBounded
  BY DEF IInv, TypeOK, Counted, PoolsBounded
<1>. QED
  BY <1>1, Invariance, PTL

\* Once there is a recorder, neither it nor the pools change.
THEOREM SettlingCorrect == Spec => RecorderSettles
<1>1. ASSUME IInv, [Next]_vars
      PROVE  [recorder # 0 => recorder' = recorder /\ created' = created]_vars
  <2>. SUFFICES ASSUME recorder # 0, NEW c \in Caller, CreatePool(c) \/ Start(c)
       PROVE  FALSE
    BY <1>1 DEF Next, Step, Arrive, Immediate, Enter, Found, NotFound,
                CreateFails, Cancel, vars
  <2>1. CASE CreatePool(c)
    BY <1>1, <2>1 DEF IInv, UnderLock, Counted, CreatePool
  <2>2. CASE Start(c)
    BY <1>1, <2>2 DEF IInv, UnderLock, Start
  <2>. QED
    BY <2>1, <2>2
<1>. QED
  BY <1>1, Invariance, PTL DEF Spec, RecorderSettles
=============================================================================
