------------------------------- MODULE Budget -------------------------------
(***************************************************************************)
(* MonthlyBudgetEnforcer (app/limits/budget.py) for one API key and one    *)
(* month's Redis key, used as ChatService uses it: check(0) before the     *)
(* call, charge(cost) after it.                                            *)
(*                                                                         *)
(* Both run _accrue, an optimistic transaction: WATCH and read {spend,     *)
(* alerted}, decide, EXEC; a dirty EXEC re-runs the closure, whose result  *)
(* carrier keeps what earlier attempts left in it.                         *)
(***************************************************************************)
EXTENDS Naturals, FiniteSets

CONSTANTS
  Caller,      \* concurrent requests of the API key, on any replica
  Cap,         \* monthly_cap_usd
  Cost,        \* what a call may cost
  MonthDays,   \* days in the billing month
  TtlDays      \* _PERIOD_TTL_SECONDS, in days

ASSUME BudgetAssumption ==
  /\ IsFiniteSet(Caller)
  /\ Cap \in Nat \ {0}
  /\ Cost \subseteq Nat
  /\ \E m \in Cost : \A n \in Cost : n <= m
  /\ MonthDays \in Nat \ {0}
  /\ TtlDays \in Nat
  /\ TtlDays > MonthDays

VARIABLES
  spend,       \* the key's fields
  alerted,
  idle,        \* days since the key's last EXPIRE; TtlDays once it is absent
  day,         \* of the month; MonthDays once the month is over
  pc,          \* what each request is doing
  snap,        \* the fields as its closure read them
  dirty,       \* the watched key was touched since
  exceeded,    \* the carrier's flag, which only ever gets set
  billed,      \* history: the cost of every call charged this month
  alerts       \* history: results returned with alert_fired

vars == <<spend, alerted, idle, day, pc, snap, dirty, exceeded, billed, alerts>>

Phase == {"idle", "check", "calling", "charge"}

InTransaction(c) == pc[c] \in {"check", "charge"}

InFlight == {c \in Caller : pc[c] \in {"calling", "charge"}}

\* Type correctness: the stored fields, the carrier and the clocks keep their
\* ranges.
TypeOK ==
  /\ spend \in Nat
  /\ alerted \in BOOLEAN
  /\ idle \in 0..TtlDays
  /\ day \in 0..MonthDays
  /\ pc \in [Caller -> Phase]
  /\ snap \in [Caller -> [spend : Nat, alerted : BOOLEAN]]
  /\ dirty \in [Caller -> BOOLEAN]
  /\ exceeded \in [Caller -> BOOLEAN]
  /\ billed \in Nat
  /\ alerts \in Nat

Init ==
  /\ spend = 0
  /\ alerted = FALSE
  /\ idle = TtlDays
  /\ day = 0
  /\ pc = [c \in Caller |-> "idle"]
  /\ snap = [c \in Caller |-> [spend |-> 0, alerted |-> FALSE]]
  /\ dirty = [c \in Caller |-> FALSE]
  /\ exceeded = [c \in Caller |-> FALSE]
  /\ billed = 0
  /\ alerts = 0

\* At or over 80% of the cap.
Alerting(amount) == 5 * amount >= 4 * Cap

\* Mutant: exactly 80% does not count as crossed.
CrossedStrictly(read, cost) ==
  ~read.alerted /\ ~Alerting(read.spend) /\ 5 * (read.spend + cost) > 4 * Cap

\* The one-shot crossing, from the fields the closure read.
Crossed(read, cost) ==
  ~read.alerted /\ ~Alerting(read.spend) /\ Alerting(read.spend + cost)

-----------------------------------------------------------------------------
(* The transaction, _accrue.                                               *)

\* WATCH and HMGET.  Only check enforces the cap.
Read(c, phase) ==
  /\ pc' = [pc EXCEPT ![c] = phase]
  /\ snap' = [snap EXCEPT ![c] = [spend |-> spend, alerted |-> alerted]]
  /\ dirty' = [dirty EXCEPT ![c] = FALSE]
  /\ exceeded' = [exceeded EXCEPT ![c] =
       phase = "check" /\ ((pc[c] = "check" /\ exceeded[c]) \/ spend >= Cap)]
  /\ UNCHANGED <<spend, alerted, idle, day, billed, alerts>>

\* EXEC, with the queued HSET and EXPIRE: every other watcher becomes dirty.
Accrue(c, cost) ==
  /\ spend' = snap[c].spend + cost
  /\ alerted' = (snap[c].alerted \/ Crossed(snap[c], cost))
  /\ idle' = 0
  /\ dirty' = [d \in Caller |-> dirty[d] \/ (InTransaction(d) /\ d # c)]
  /\ billed' = billed + cost
  /\ alerts' = alerts + (IF Crossed(snap[c], cost) THEN 1 ELSE 0)
  /\ UNCHANGED <<day, snap, exceeded>>

\* EXEC fails: the closure runs again, on the same carrier.
Retry(c) ==
  /\ InTransaction(c)
  /\ dirty[c]
  /\ Read(c, pc[c])

-----------------------------------------------------------------------------
(* A request.                                                              *)

\* The enforcer is built per request, for the month the request arrives in.
Check(c) ==
  /\ day < MonthDays
  /\ pc[c] = "idle"
  /\ Read(c, "check")

\* Mutant: refused from the alert line on.
DenyAtAlert(c) ==
  /\ pc[c] = "check"
  /\ ~dirty[c]
  /\ Alerting(snap[c].spend)
  /\ pc' = [pc EXCEPT ![c] = "idle"]
  /\ UNCHANGED <<spend, alerted, idle, day, snap, dirty, exceeded, billed, alerts>>

\* At the cap: an empty MULTI/EXEC, then BudgetExceeded.
Deny(c) ==
  /\ pc[c] = "check"
  /\ ~dirty[c]
  /\ snap[c].spend >= Cap
  /\ pc' = [pc EXCEPT ![c] = "idle"]
  /\ UNCHANGED <<spend, alerted, idle, day, snap, dirty, exceeded, billed, alerts>>

\* Mutant: the cap itself is still admitted, and does not mark the carrier.
AdmitAtCap(c) ==
  /\ pc[c] = "check"
  /\ ~dirty[c]
  /\ snap[c].spend <= Cap
  /\ Accrue(c, 0)
  /\ pc' = [pc EXCEPT ![c] = "calling"]

\* Below the cap: the zero cost is accrued, and the call goes ahead unless an
\* earlier attempt has marked the carrier.
Admit(c) ==
  /\ pc[c] = "check"
  /\ ~dirty[c]
  /\ snap[c].spend < Cap
  /\ Accrue(c, 0)
  /\ pc' = [pc EXCEPT ![c] = IF exceeded[c] THEN "idle" ELSE "calling"]

\* The call is over and priced: charge starts its transaction.
Charge(c) == pc[c] = "calling" /\ Read(c, "charge")

\* Mutant: the charge is read, added and written back without WATCH.
ChargedUnwatched(c, cost) ==
  /\ pc[c] = "charge"
  /\ Accrue(c, cost)
  /\ pc' = [pc EXCEPT ![c] = "idle"]

\* EXEC of the charge.
Charged(c, cost) ==
  /\ pc[c] = "charge"
  /\ ~dirty[c]
  /\ Accrue(c, cost)
  /\ pc' = [pc EXCEPT ![c] = "idle"]

\* The call fails, the recorder cannot price it, Redis is down (the error is
\* swallowed), or the replica dies: nothing is charged.
Abandon(c) ==
  /\ pc[c] # "idle"
  /\ pc' = [pc EXCEPT ![c] = "idle"]
  /\ UNCHANGED <<spend, alerted, idle, day, snap, dirty, exceeded, billed, alerts>>

-----------------------------------------------------------------------------
(* Time, in days.                                                          *)

\* Mutant: the key has no TTL.
NextDayWithoutTtl ==
  /\ day' = IF day < MonthDays THEN day + 1 ELSE MonthDays
  /\ idle' = idle + 1
  /\ UNCHANGED <<spend, alerted, pc, snap, dirty, exceeded, billed, alerts>>

NextDay ==
  /\ idle + 1 # TtlDays
  /\ day' = IF day < MonthDays THEN day + 1 ELSE MonthDays
  /\ idle' = IF idle < TtlDays THEN idle + 1 ELSE TtlDays
  /\ UNCHANGED <<spend, alerted, pc, snap, dirty, exceeded, billed, alerts>>

\* The day on which the key's TTL runs out.
Expire ==
  /\ idle + 1 = TtlDays
  /\ day' = IF day < MonthDays THEN day + 1 ELSE MonthDays
  /\ idle' = TtlDays
  /\ spend' = 0
  /\ alerted' = FALSE
  /\ dirty' = [c \in Caller |-> dirty[c] \/ InTransaction(c)]
  /\ UNCHANGED <<pc, snap, exceeded, billed, alerts>>

Next ==
  \/ \E c \in Caller :
       \/ Check(c) \/ Deny(c) \/ Admit(c) \/ Charge(c)
       \/ \E cost \in Cost : Charged(c, cost)
       \/ Retry(c) \/ Abandon(c)
  \/ NextDay \/ Expire

Spec == Init /\ [][Next]_vars

-----------------------------------------------------------------------------
(* Properties.                                                             *)

MonthRuns == day < MonthDays

\* No charge is lost, doubled or dropped by the TTL while the month runs:
\* the stored spend is what the charged calls cost.
SpendIsExact == MonthRuns => spend = billed

\* The unreset carrier never turns away a request that the cap allows: a
\* request leaves check refused only if the cap is reached at that EXEC.
RefusesOnlyAtCap ==
  [][\A c \in Caller :
       MonthRuns /\ (Deny(c) \/ (Admit(c) /\ pc'[c] = "idle")) => spend >= Cap]_vars

\* The ledger's promises: admission below the cap, exact totals, one alert.
MaxOfCost == CHOOSE m \in Cost : \A n \in Cost : n <= m

Ledger == INSTANCE BudgetLedger
  WITH running <- MonthRuns, spend <- billed, inflight <- InFlight,
       MaxCost <- MaxOfCost

ImplementsLedger == Ledger!Spec

\* The cap is a soft one: concurrent calls overrun it, by less than they can
\* cost together.
OverrunBounded == Ledger!OverrunBounded

\* "The alert fires exactly once across replicas".
AlertsOnce == Ledger!AlertsOnce
=============================================================================
