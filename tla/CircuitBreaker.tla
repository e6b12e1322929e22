--------------------------- MODULE CircuitBreaker ---------------------------
(***************************************************************************)
(* One provider's circuit breaker: its hash in Redis, and the calls of     *)
(* every replica that consult it (app/resilience/circuit_breaker.py), each *)
(* used as ChatService._call_provider uses it: allow, call the provider,   *)
(* record the outcome.                                                     *)
(*                                                                         *)
(* allow, record_success and record_failure are optimistic transactions:   *)
(* WATCH and read the hash, decide with the clock read then, and EXEC,     *)
(* which aborts and re-runs the closure if the key was touched meanwhile.  *)
(* The reading and the EXEC are separate steps here, so other callers and  *)
(* the clock move between them.                                            *)
(***************************************************************************)
EXTENDS BreakerRules

CONSTANT Caller        \* concurrent requests, on any replica

VARIABLES
  hash,     \* what the key holds
  idle,     \* seconds since the key's last EXPIRE; Ttl once it is absent
  pc,       \* what each caller is doing
  snap,     \* the hash as the caller's closure read it
  lag,      \* seconds since the closure read the clock, up to Cooldown
  dirty,    \* Redis marks a watching client whose key was touched
  streak    \* history: failures recorded since the last success or expiry

vars == <<hash, idle, pc, snap, lag, dirty, streak>>

\* "admit", "succeed", "fail": inside the transaction of allow,
\* record_success, record_failure; "calling": awaiting the provider.
Phase == {"idle", "admit", "calling", "succeed", "fail"}

InTransaction(c) == pc[c] \in {"admit", "succeed", "fail"}

\* Type correctness: the fields of the hash, the key's age and the callers'
\* places in allow / record_* keep their ranges.
TypeOK ==
  /\ hash \in Hash
  /\ idle \in 0..Ttl
  /\ pc \in [Caller -> Phase]
  /\ snap \in [Caller -> Hash]
  /\ lag \in [Caller -> 0..Cooldown]
  /\ dirty \in [Caller -> BOOLEAN]
  /\ streak \in 0..Threshold

Init ==
  /\ hash = Clean
  /\ idle = Ttl
  /\ pc = [c \in Caller |-> "idle"]
  /\ snap = [c \in Caller |-> Clean]
  /\ lag = [c \in Caller |-> 0]
  /\ dirty = [c \in Caller |-> FALSE]
  /\ streak = 0

-----------------------------------------------------------------------------
(* The transaction seam, run_transaction.                                  *)

\* WATCH, then the closure reads the hash and the clock.
Read(c, phase) ==
  /\ pc' = [pc EXCEPT ![c] = phase]
  /\ snap' = [snap EXCEPT ![c] = hash]
  /\ lag' = [lag EXCEPT ![c] = 0]
  /\ dirty' = [dirty EXCEPT ![c] = FALSE]
  /\ UNCHANGED <<hash, idle, streak>>

\* The key changes: every other transaction under way will abort.
Touch(c) == dirty' = [d \in Caller |-> dirty[d] \/ (InTransaction(d) /\ d # c)]

\* Mutant: the TTL is only set when the key is created.
WriteKeepingTtl(c, h) ==
  /\ hash' = h
  /\ idle' = IF idle = Ttl THEN 0 ELSE idle
  /\ Touch(c)

\* EXEC of an HSET of h with its EXPIRE.
Write(c, h) ==
  /\ hash' = h
  /\ idle' = 0
  /\ Touch(c)

\* Mutant: read, decide and write without WATCH.
CommitUnwatched(c, from, to) ==
  /\ pc[c] = from
  /\ pc' = [pc EXCEPT ![c] = to]
  /\ UNCHANGED <<snap, lag>>

\* EXEC goes through, and the caller moves on.
Commit(c, from, to) ==
  /\ pc[c] = from
  /\ ~dirty[c]
  /\ pc' = [pc EXCEPT ![c] = to]
  /\ UNCHANGED <<snap, lag>>

\* Mutant: the hash is read once, outside the closure that is re-run.
RetryWithoutReading(c) ==
  /\ InTransaction(c)
  /\ dirty[c]
  /\ dirty' = [dirty EXCEPT ![c] = FALSE]
  /\ UNCHANGED <<hash, idle, pc, snap, lag, streak>>

\* EXEC of a dirty transaction: WatchError, the closure runs again.
Retry(c) ==
  /\ InTransaction(c)
  /\ dirty[c]
  /\ Read(c, pc[c])

-----------------------------------------------------------------------------
(* The callers.                                                            *)

AllowRead(c) == pc[c] = "idle" /\ Read(c, "admit")

\* CircuitOpenError: nothing is written.
Reject(c) ==
  /\ Cooling(snap[c])
  /\ Commit(c, "admit", "idle")
  /\ UNCHANGED <<hash, idle, dirty, streak>>

\* Mutant: with nothing to write, allow returns without an EXEC.
AdmitWithoutExec(c) ==
  /\ pc[c] = "admit"
  /\ ~Cooling(snap[c]) /\ ~ProbeDue(snap[c])
  /\ pc' = [pc EXCEPT ![c] = "calling"]
  /\ UNCHANGED <<hash, idle, snap, lag, dirty, streak>>

\* Closed, or already half-open: admitted without a write.
Admit(c) ==
  /\ ~Cooling(snap[c]) /\ ~ProbeDue(snap[c])
  /\ Commit(c, "admit", "calling")
  /\ UNCHANGED <<hash, idle, dirty, streak>>

\* The cooldown is over: this caller writes the half-open state.
Probe(c) ==
  /\ ProbeDue(snap[c])
  /\ Commit(c, "admit", "calling")
  /\ Write(c, AfterProbe(snap[c]))
  /\ UNCHANGED streak

\* The provider answers or raises; the record_* transaction starts.
Answer(c, outcome) == pc[c] = "calling" /\ Read(c, outcome)

RecordSuccess(c) ==
  /\ Commit(c, "succeed", "idle")
  /\ Write(c, Clean)
  /\ streak' = 0

RecordFailure(c) ==
  /\ Commit(c, "fail", "idle")
  /\ Write(c, AfterFailure(snap[c], lag[c]))
  /\ streak' = OneMore(streak)

\* The task is cancelled, its replica dies, or Redis raises: no outcome is
\* recorded (CancelledError is not an Exception).
Abandon(c) ==
  /\ pc[c] # "idle"
  /\ pc' = [pc EXCEPT ![c] = "idle"]
  /\ UNCHANGED <<hash, idle, snap, lag, dirty, streak>>

-----------------------------------------------------------------------------
(* Time.                                                                   *)

LagsGrow == lag' = [c \in Caller |-> Older(lag[c], Cooldown)]

Tick ==
  /\ idle + 1 # Ttl
  /\ hash' = Aged(hash)
  /\ idle' = Older(idle, Ttl)
  /\ LagsGrow
  /\ UNCHANGED <<pc, snap, dirty, streak>>

\* The second in which the key's TTL runs out: Redis drops the key, and a
\* transaction that watched it aborts.
Expire ==
  /\ idle + 1 = Ttl
  /\ hash' = Clean
  /\ idle' = Ttl
  /\ streak' = 0
  /\ dirty' = [c \in Caller |-> dirty[c] \/ InTransaction(c)]
  /\ LagsGrow
  /\ UNCHANGED <<pc, snap>>

Next ==
  \/ \E c \in Caller :
       \/ AllowRead(c) \/ Reject(c) \/ Admit(c) \/ Probe(c)
       \/ Answer(c, "succeed") \/ Answer(c, "fail")
       \/ RecordSuccess(c) \/ RecordFailure(c)
       \/ Retry(c) \/ Abandon(c)
  \/ Tick \/ Expire

Spec == Init /\ [][Next]_vars

\* Time passes, whatever the callers do or fail to do.
FairSpec == Spec /\ WF_vars(Tick \/ Expire)

-----------------------------------------------------------------------------
(* Properties.                                                             *)

\* No outcome is lost or counted twice, whatever the replicas interleave
\* (the read, decide and write of record_failure and record_success): the
\* stored count is exactly the number of consecutive failures, and the
\* breaker is tripped exactly when that number has reached the threshold.
CountsEveryFailure ==
  /\ hash.failures = streak
  /\ hash.state = "closed" <=> streak < Threshold

\* allow() lets a call through only if, at the very EXEC that admits it, the
\* stored breaker is not open and cooling: a breaker tripped by another
\* replica between the read and the EXEC is seen.
NoCallWhileCooling ==
  [][\A c \in Caller :
       pc[c] = "admit" /\ pc'[c] = "calling" => ~Cooling(hash)]_vars

\* A quarantine ends only because its cooldown has elapsed or because a call
\* admitted before it succeeds: a late failure cannot shorten it, and the
\* TTL (_ttl_seconds: "never lost out from under a cooling breaker") cannot
\* drop it.
QuarantineEnds ==
  [][Cooling(hash) /\ ~Cooling(hash') =>
       \/ hash' = [hash EXCEPT !.age = Cooldown]
       \/ \E c \in Caller : pc[c] = "succeed" /\ hash' = Clean]_vars

\* The transactions make each operation atomic: this module implements
\* AtomicBreaker, a call being under way from the EXEC of its allow to the
\* EXEC of its outcome ("one transaction (read state, decide, queue the
\* write), so concurrent replicas never corrupt the counter or race a
\* transition").
Serving == {c \in Caller : pc[c] \in {"calling", "succeed", "fail"}}

Atomic == INSTANCE AtomicBreaker WITH busy <- Serving

ImplementsAtomicBreaker == Atomic!Spec

\* Recovery needs no manual reset: once no more failures are recorded, the
\* breaker ends up closed for good, even if every probe is abandoned and no
\* new call arrives.
Recovers ==
  (<>[][\A c \in Caller : ~RecordFailure(c)]_vars)
     => <>[](hash.state = "closed")

\* The module's description: "HALF-OPEN - a single probe call is admitted".
\* The code does not keep this: every caller that reads half_open is admitted.
AtMostOneProbe ==
  \A c, d \in Caller :
    /\ pc[c] = "calling" /\ Effective(snap[c]) = "half_open"
    /\ pc[d] = "calling" /\ Effective(snap[d]) = "half_open"
    => c = d

\* The state diagram: while the cooldown runs, an open breaker stays open
\* (Open --> HalfOpen : cooldown elapsed, and no edge to Closed).  The code does
\* not keep this: a success of a call admitted before the trip closes it.
CoolingStaysOpen == [][Cooling(hash) => hash'.state # "closed"]_vars
=============================================================================
