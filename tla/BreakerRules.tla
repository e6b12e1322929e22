---------------------------- MODULE BreakerRules ----------------------------
(***************************************************************************)
(* The decisions of app/resilience/circuit_breaker.py, as functions of one *)
(* stored hash {state, failures, opened_at}.                               *)
(*                                                                         *)
(* Time is kept as ages: "age" is now - opened_at, in seconds, and stops   *)
(* at Cooldown, because the code only asks whether the cooldown is over.   *)
(* Likewise "failures" stops at Threshold: the code only asks whether the  *)
(* threshold is reached.                                                   *)
(***************************************************************************)
EXTENDS Naturals

CONSTANTS Threshold,   \* failure_threshold: consecutive failures that trip
          Cooldown,    \* cooldown_seconds
          Ttl          \* seconds an untouched key lives: max(4 * Cooldown, 60)

ASSUME BreakerAssumption ==
  /\ Threshold \in Nat \ {0}
  /\ Cooldown \in Nat \ {0}
  /\ Ttl \in Nat
  /\ Ttl >= 4 * Cooldown

CircuitState == {"closed", "open", "half_open"}

Hash == [state : CircuitState, failures : 0..Threshold, age : 0..Cooldown]

\* An absent key reads as this; record_success stores the same three values.
Clean == [state |-> "closed", failures |-> 0, age |-> Cooldown]

\* An open breaker whose cooldown is over is half-open for whoever reads it.
Effective(h) ==
  IF h.state = "open" /\ h.age >= Cooldown THEN "half_open" ELSE h.state

Cooling(h) == Effective(h) = "open"

\* Mutant: allow() writes the half-open state on every probe.
ProbeDueAlways(h) == h.state # "closed" /\ ~Cooling(h)

\* allow() has a transition to write.
ProbeDue(h) == h.state = "open" /\ ~Cooling(h)

AfterProbe(h) == [h EXCEPT !.state = "half_open"]

OneMore(n) == IF n < Threshold THEN n + 1 ELSE Threshold

\* Mutant: the threshold is never applied.
AfterFailureNeverTrips(h, stamp) ==
  [state |-> "closed", failures |-> h.failures + 1, age |-> h.age]

\* A failure opens the breaker, stamped "stamp" seconds ago, when it is the
\* outcome of a probe or brings the count to the threshold.
AfterFailure(h, stamp) ==
  IF Effective(h) = "half_open" \/ h.failures + 1 >= Threshold
    THEN [state |-> "open", failures |-> Threshold, age |-> stamp]
    ELSE [state |-> "closed", failures |-> OneMore(h.failures), age |-> h.age]

Older(n, bound) == IF n < bound THEN n + 1 ELSE bound

\* One second passes.
Aged(h) == [h EXCEPT !.age = Older(@, Cooldown)]
=============================================================================
