-------------------------------- MODULE Pools --------------------------------
(***************************************************************************)
(* The lazily built singletons of app/api/deps.py: the asyncpg pool and    *)
(* the accounting recorder, in the module-level _accounting map, behind    *)
(* one asyncio.Lock (which is FIFO).  FastAPI resolves the dependencies of *)
(* a request in order; at every await the coroutines of other requests     *)
(* run, and a request may be cancelled there.                              *)
(***************************************************************************)
EXTENDS Naturals, Sequences, SequencesExt

CONSTANTS
  Caller,      \* concurrent requests of one process
  Accounting,  \* accounting_enabled (db_url is set)
  Kafka,       \* kafka_bootstrap_servers is set
  MaxPools     \* bound on the pools created

ASSUME PoolsAssumption ==
  /\ Accounting \in BOOLEAN
  /\ Kafka \in BOOLEAN
  /\ MaxPools \in Nat

VARIABLES
  pc,          \* what each request is doing
  needs,       \* the dependencies it still has to resolve
  queue,       \* the lock's holder and those who wait for it
  pool,        \* _accounting["pool"], 0 if absent
  recorder,    \* _accounting["recorder"]: its pool, 0 if absent
  events,      \* ... and whether it has a publisher
  created,     \* history: pools created
  torn         \* history: recorder builds cut between their pool and the end

vars == <<pc, needs, queue, pool, recorder, events, created, torn>>

\* get_chat_service comes before require_api_key; the other routes only
\* authenticate.
Plan == {<<"recorder", "pool">>, <<"pool">>}

Init ==
  /\ pc = [c \in Caller |-> "idle"]
  /\ needs = [c \in Caller |-> <<>>]
  /\ queue = <<>>
  /\ pool = 0
  /\ recorder = 0
  /\ events = FALSE
  /\ created = 0
  /\ torn = 0

Holds(c) == queue # <<>> /\ Head(queue) = c

\* The dependency is there: on to the next one.
Resolve(c) ==
  /\ needs' = [needs EXCEPT ![c] = Tail(@)]
  /\ pc' = [pc EXCEPT ![c] = IF Len(needs[c]) = 1 THEN "idle" ELSE "next"]

\* The lock is released or the waiter withdraws, if it is either.
Leave(c) ==
  \/ (\A i \in DOMAIN queue : queue[i] # c) /\ UNCHANGED queue
  \/ \E i \in DOMAIN queue : queue[i] = c /\ queue' = RemoveAt(queue, i)

Arrive(c, plan) ==
  /\ pc[c] = "idle"
  /\ pc' = [pc EXCEPT ![c] = "next"]
  /\ needs' = [needs EXCEPT ![c] = plan]
  /\ UNCHANGED <<queue, pool, recorder, events, created, torn>>

\* Accounting is off, or get_db_pool finds the pool without the lock.
Immediate(c) ==
  /\ pc[c] = "next"
  /\ IF Head(needs[c]) = "recorder" THEN ~Accounting ELSE pool # 0
  /\ Resolve(c)
  /\ UNCHANGED <<queue, pool, recorder, events, created, torn>>

Enter(c) ==
  /\ pc[c] = "next"
  /\ IF Head(needs[c]) = "recorder" THEN Accounting ELSE pool = 0
  /\ queue' = Append(queue, c)
  /\ pc' = [pc EXCEPT ![c] = "wait"]
  /\ UNCHANGED <<needs, pool, recorder, events, created, torn>>

\* Under the lock both look again: the recorder's builder for a recorder,
\* get_db_pool for a pool.
Found(c) ==
  /\ pc[c] = "wait"
  /\ Holds(c)
  /\ IF Head(needs[c]) = "recorder" THEN recorder # 0 ELSE pool # 0
  /\ Leave(c)
  /\ Resolve(c)
  /\ UNCHANGED <<pool, recorder, events, created, torn>>

\* Mutant: get_db_pool trusts the look it had before the lock.
NotFoundPool(c) ==
  /\ pc[c] = "wait"
  /\ Holds(c)
  /\ Head(needs[c]) = "recorder" => recorder = 0
  /\ pc' = [pc EXCEPT ![c] = "create"]
  /\ UNCHANGED <<needs, queue, pool, recorder, events, created, torn>>

NotFound(c) ==
  /\ pc[c] = "wait"
  /\ Holds(c)
  /\ IF Head(needs[c]) = "recorder" THEN recorder = 0 ELSE pool = 0
  /\ pc' = [pc EXCEPT ![c] = "create"]
  /\ UNCHANGED <<needs, queue, pool, recorder, events, created, torn>>

\* create_pool.  The recorder's builder has not looked for one, and replaces
\* the one in the map; it then starts the producer.
CreatePool(c) ==
  /\ pc[c] = "create"
  /\ created < MaxPools
  /\ created' = created + 1
  /\ pool' = created + 1
  /\ IF Head(needs[c]) = "recorder"
       THEN pc' = [pc EXCEPT ![c] = "start"] /\ UNCHANGED <<needs, queue>>
       ELSE Leave(c) /\ Resolve(c)
  /\ UNCHANGED <<recorder, events, torn>>

\* Mutant: the lock is released by hand, not by async with.
CreateFailsLocked(c) ==
  /\ pc[c] = "create"
  /\ pc' = [pc EXCEPT ![c] = "idle"]
  /\ UNCHANGED <<needs, queue, pool, recorder, events, created, torn>>

\* The database is down: the request fails, and nothing is cached.
CreateFails(c) ==
  /\ pc[c] = "create"
  /\ pc' = [pc EXCEPT ![c] = "idle"]
  /\ Leave(c)
  /\ UNCHANGED <<needs, pool, recorder, events, created, torn>>

\* The producer starts; if Kafka is down or not configured the recorder is
\* built without a publisher, for good.
Start(c) ==
  /\ pc[c] = "start"
  /\ recorder' = pool
  /\ events' \in IF Kafka THEN BOOLEAN ELSE {FALSE}
  /\ Leave(c)
  /\ Resolve(c)
  /\ UNCHANGED <<pool, created, torn>>

\* The request is cancelled at an await: the lock is released (or the waiter
\* withdraws), and a pool it has stored stays.
Cancel(c) ==
  /\ pc[c] # "idle"
  /\ pc' = [pc EXCEPT ![c] = "idle"]
  /\ Leave(c)
  /\ torn' = IF pc[c] = "start" THEN torn + 1 ELSE torn
  /\ UNCHANGED <<needs, pool, recorder, events, created>>

Step(c) ==
  \/ Immediate(c) \/ Enter(c) \/ Found(c) \/ NotFound(c)
  \/ CreatePool(c) \/ CreateFails(c) \/ Start(c)

Next ==
  \E c \in Caller : (\E plan \in Plan : Arrive(c, plan)) \/ Step(c) \/ Cancel(c)

Spec == Init /\ [][Next]_vars

\* The event loop runs what is ready, and awaits end by a result or an error.
FairSpec == Spec /\ \A c \in Caller : WF_vars(Step(c))

-----------------------------------------------------------------------------
(* Properties.                                                             *)

\* Type correctness: what requests wait for, and what the map and the lock hold.
TypeOK ==
  /\ pc \in [Caller -> {"idle", "next", "wait", "create", "start"}]
  /\ needs \in [Caller -> {<<>>, <<"pool">>, <<"recorder", "pool">>}]
  /\ queue \in Seq(Caller)
  /\ pool \in Nat /\ recorder \in Nat /\ created \in Nat /\ torn \in Nat
  /\ events \in BOOLEAN

\* Connections do not leak with load: whatever the interleaving, a process
\* opens one pool for its routes and one for its recorder, and one more for
\* each recorder build that is cut short.  (get_db_pool's docstring says one.)
PoolsBounded == created <= 2 + torn

\* The recorder writes through a pool of its own that nothing replaces: once
\* it is built, no further pool is created and it stays the cached one.
RecorderSettles ==
  [][recorder # 0 => recorder' = recorder /\ created' = created]_vars

\* Nobody waits for ever for the lock, whatever fails or is cancelled under it.
EveryoneIsServed == \A c \in Caller : pc[c] = "wait" ~> pc[c] # "wait"
=============================================================================
