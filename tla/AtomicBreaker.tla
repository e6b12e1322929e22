--------------------------- MODULE AtomicBreaker ----------------------------
(***************************************************************************)
(* What the circuit breaker promises its callers: every allow and every    *)
(* record_* takes effect at one instant, on the breaker as it is then.     *)
(* CircuitBreaker implements this with optimistic transactions.            *)
(***************************************************************************)
EXTENDS BreakerRules

CONSTANT Caller

VARIABLES
  hash,    \* the breaker
  busy     \* callers admitted and not yet accounted for

vars == <<hash, busy>>

Init == hash = Clean /\ busy = {}

\* allow: never while the breaker cools; the first one after the cooldown
\* makes it half-open.
Admit(c) ==
  /\ c \notin busy
  /\ ~Cooling(hash)
  /\ hash' = IF ProbeDue(hash) THEN AfterProbe(hash) ELSE hash
  /\ busy' = busy \union {c}

Succeed(c) ==
  /\ c \in busy
  /\ hash' = Clean
  /\ busy' = busy \ {c}

\* The stamp is the time the outcome's transaction began: no later than now,
\* no earlier than the stamp it replaces.
Fail(c) ==
  /\ c \in busy
  /\ \E stamp \in 0..hash.age : hash' = AfterFailure(hash, stamp)
  /\ busy' = busy \ {c}

Abandon(c) ==
  /\ c \in busy
  /\ busy' = busy \ {c}
  /\ UNCHANGED hash

Tick == hash' = Aged(hash) /\ UNCHANGED busy

\* Quiet for long enough, the breaker is forgotten, never while it cools.
Forget ==
  /\ ~Cooling(hash)
  /\ hash' = Clean
  /\ UNCHANGED busy

Next ==
  \/ \E c \in Caller : Admit(c) \/ Succeed(c) \/ Fail(c) \/ Abandon(c)
  \/ Tick \/ Forget

Spec == Init /\ [][Next]_vars
=============================================================================
