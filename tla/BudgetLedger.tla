---------------------------- MODULE BudgetLedger ----------------------------
(***************************************************************************)
(* What the monthly budget promises for one API key and one billing month: *)
(* a running total of what calls cost, admission while it is below the     *)
(* cap, and one alert when it crosses 80% of the cap.                      *)
(* Budget implements this over Redis.                                      *)
(***************************************************************************)
EXTENDS Naturals, FiniteSets

CONSTANTS
  Caller,     \* concurrent requests of the key, on any replica
  Cap,        \* monthly_cap_usd
  MaxCost     \* the most one call can cost

VARIABLES
  running,    \* the month has not ended
  spend,      \* what the month's calls have cost so far
  inflight,   \* calls admitted and not yet charged
  alerts      \* alerts fired

vars == <<running, spend, inflight, alerts>>

\* At or over 80% of the cap.
Alerting(amount) == 5 * amount >= 4 * Cap

Crosses(before, after) == ~Alerting(before) /\ Alerting(after)

Init ==
  /\ running = TRUE
  /\ spend = 0
  /\ inflight = {}
  /\ alerts = 0

\* Admission looks at what is already spent: a call cannot be split.
Admit(c) ==
  /\ c \notin inflight
  /\ running => spend < Cap
  /\ inflight' = inflight \union {c}
  /\ UNCHANGED <<running, spend, alerts>>

\* After the month the total may be forgotten, and an alert repeated.
Charge(c, cost) ==
  /\ c \in inflight
  /\ spend' = spend + cost
  /\ inflight' = inflight \ {c}
  /\ \/ alerts' = alerts + (IF Crosses(spend, spend') THEN 1 ELSE 0)
     \/ ~running /\ alerts' = alerts + 1
     \/ ~running /\ alerts' = alerts
  /\ UNCHANGED running

\* A call that fails, or that accounting could not price, costs nothing.
Forgo(c) ==
  /\ c \in inflight
  /\ inflight' = inflight \ {c}
  /\ UNCHANGED <<running, spend, alerts>>

MonthEnds ==
  /\ running' = FALSE
  /\ UNCHANGED <<spend, inflight, alerts>>

Next ==
  \/ \E c \in Caller :
       Admit(c) \/ Forgo(c) \/ \E cost \in 0..MaxCost : Charge(c, cost)
  \/ MonthEnds

Spec == Init /\ [][Next]_vars

\* The cap is overrun by less than what the calls in flight at once can cost.
OverrunBounded ==
  running => spend < Cap + MaxCost * Cardinality(Caller)

\* "the alert fires exactly once": with the crossing, and never again.
AlertsOnce ==
  running => alerts = IF Alerting(spend) THEN 1 ELSE 0
=============================================================================
