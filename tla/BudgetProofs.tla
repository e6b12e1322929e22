---------------------------- MODULE BudgetProofs ----------------------------
(***************************************************************************)
(* Proofs about Budget, for every cap, bounded cost, month and TTL longer  *)
(* than the month, and every finite set of callers.                        *)
(***************************************************************************)
EXTENDS Budget, FiniteSetTheorems, TLAPS

\* A clean transaction has read what the key still holds.
ReadsAreCurrent ==
  \A c \in Caller : InTransaction(c) /\ ~dirty[c] =>
    snap[c] = [spend |-> spend, alerted |-> alerted]

\* The key was written this month, so its TTL outlasts the month.
KeyOutlivesMonth == MonthRuns => idle <= day \/ idle = TtlDays

\* The flag in Redis says whether the alert line has been crossed.
FlagIsCurrent == MonthRuns => (alerted <=> Alerting(spend))

\* Spend never falls within the month, so a carrier marked by an earlier
\* attempt still tells the truth.
CarrierIsRight ==
  MonthRuns => \A c \in Caller : pc[c] = "check" /\ exceeded[c] => spend >= Cap

IInv ==
  /\ TypeOK
  /\ SpendIsExact
  /\ ReadsAreCurrent
  /\ KeyOutlivesMonth
  /\ FlagIsCurrent
  /\ CarrierIsRight

USE BudgetAssumption

-----------------------------------------------------------------------------
(* The steps.                                                              *)

\* The initial states satisfy the inductive invariant.
LEMMA InitIInv == Init => IInv
<1> SUFFICES ASSUME Init PROVE IInv
  OBVIOUS
<1>1. TypeOK
  <2>1. [spend |-> 0, alerted |-> FALSE] \in [spend : Nat, alerted : BOOLEAN]
    OBVIOUS
  <2>2. spend \in Nat /\ idle \in 0..TtlDays /\ day \in 0..MonthDays
        /\ billed \in Nat /\ alerts \in Nat
    BY DEF Init
  <2>3. /\ alerted \in BOOLEAN
        /\ dirty \in [Caller -> BOOLEAN] /\ exceeded \in [Caller -> BOOLEAN]
    BY DEF Init
  <2>4. pc \in [Caller -> Phase]
    BY DEF Init, Phase
  <2>5. snap \in [Caller -> [spend : Nat, alerted : BOOLEAN]]
    BY <2>1 DEF Init
  <2>6. QED
    BY <2>2, <2>3, <2>4, <2>5 DEF TypeOK
<1>2. QED
  BY <1>1 DEF Init, IInv, SpendIsExact, ReadsAreCurrent, InTransaction,
              KeyOutlivesMonth, FlagIsCurrent, CarrierIsRight, Alerting

\* A read disturbs nobody, and leaves its reader with the fields as they are.
LEMMA ReadStep ==
  ASSUME IInv, NEW c \in Caller, NEW phase \in Phase, Read(c, phase)
  PROVE  IInv'
<1>1. TypeOK'
  <2>1. (phase = "check" /\ ((pc[c] = "check" /\ exceeded[c]) \/ spend >= Cap))
          \in BOOLEAN
    OBVIOUS
  <2>2. exceeded' \in [Caller -> BOOLEAN]
    BY <2>1 DEF IInv, TypeOK, Read
  <2>3. QED
    BY <2>2 DEF IInv, TypeOK, Read
<1>2. ReadsAreCurrent'
  BY DEF IInv, TypeOK, Read, ReadsAreCurrent, InTransaction
<1>3. CarrierIsRight'
  BY DEF IInv, TypeOK, Read, CarrierIsRight, MonthRuns
<1>4. QED
  BY <1>1, <1>2, <1>3 DEF IInv, Read, SpendIsExact, KeyOutlivesMonth,
                          FlagIsCurrent, MonthRuns

\* What a committing transaction decided, in terms of the key as it is.
LEMMA AccrueOnCurrent ==
  ASSUME IInv, NEW c \in Caller, InTransaction(c), ~dirty[c], NEW cost \in Nat
  PROVE  /\ snap[c].spend = spend
         /\ Crossed(snap[c], cost) \in BOOLEAN
         /\ MonthRuns => (Crossed(snap[c], cost)
                            <=> ~Alerting(spend) /\ Alerting(spend + cost))
<1>1. snap[c] = [spend |-> spend, alerted |-> alerted]
  BY DEF IInv, ReadsAreCurrent
<1>2. alerted \in BOOLEAN
  BY DEF IInv, TypeOK
<1>3. QED
  BY <1>1, <1>2 DEF IInv, FlagIsCurrent, Crossed, Alerting

\* An EXEC keeps the invariant: what it adds is billed, and the readings it makes
\* stale become dirty.
LEMMA AccrueStep ==
  ASSUME IInv, NEW c \in Caller, NEW cost \in Nat, NEW to \in {"idle", "calling"},
         InTransaction(c), ~dirty[c], Accrue(c, cost),
         pc' = [pc EXCEPT ![c] = to]
  PROVE  IInv'
<1>1. /\ spend' = spend + cost /\ billed' = billed + cost /\ idle' = 0
      /\ UNCHANGED <<day, snap, exceeded>>
      /\ dirty' = [d \in Caller |-> dirty[d] \/ (InTransaction(d) /\ d # c)]
  BY AccrueOnCurrent DEF Accrue
<1>2. alerted' \in BOOLEAN /\ alerts' \in Nat
  <2>1. alerted' = (snap[c].alerted \/ Crossed(snap[c], cost))
        /\ alerts' = alerts + (IF Crossed(snap[c], cost) THEN 1 ELSE 0)
    BY DEF Accrue
  <2>2. snap[c].alerted \in BOOLEAN
    BY DEF IInv, TypeOK
  <2>3. alerted' \in BOOLEAN
    BY <2>1, <2>2
  <2>4. QED
    BY <2>1, <2>3 DEF IInv, TypeOK
<1>3. dirty' \in [Caller -> BOOLEAN]
  <2>1. \A d \in Caller :
          (dirty[d] \/ (InTransaction(d) /\ d # c)) \in BOOLEAN
    BY DEF IInv, TypeOK, InTransaction
  <2>2. QED
    BY <1>1, <2>1
<1>4. TypeOK'
  BY <1>1, <1>2, <1>3 DEF IInv, TypeOK, Phase
<1>5. ASSUME NEW d \in Caller, InTransaction(d)'
      PROVE  dirty'[d]
  BY <1>1, <1>5 DEF IInv, TypeOK, InTransaction
<1>6. ReadsAreCurrent'
  BY <1>5 DEF ReadsAreCurrent
<1>7. SpendIsExact' /\ KeyOutlivesMonth' /\ CarrierIsRight'
  BY <1>1 DEF IInv, TypeOK, SpendIsExact, KeyOutlivesMonth, CarrierIsRight,
              MonthRuns
<1>8. FlagIsCurrent'
  <2> SUFFICES ASSUME MonthRuns
               PROVE  alerted' <=> Alerting(spend')
    BY <1>1 DEF FlagIsCurrent, MonthRuns
  <2>1. snap[c].alerted = alerted
    BY DEF IInv, ReadsAreCurrent
  <2>2. alerted' = (alerted \/ Crossed(snap[c], cost))
    BY <2>1 DEF Accrue
  <2>3. Alerting(spend) => Alerting(spend + cost)
    BY DEF IInv, TypeOK, Alerting
  <2>4. QED
    BY <1>1, <2>2, <2>3, AccrueOnCurrent DEF IInv, FlagIsCurrent
<1>9. QED
  BY <1>4, <1>6, <1>7, <1>8 DEF IInv

\* A request that leaves without an EXEC takes nothing with it.
LEMMA LeaveStep ==
  ASSUME IInv, NEW c \in Caller, pc' = [pc EXCEPT ![c] = "idle"],
         UNCHANGED <<spend, alerted, idle, day, snap, dirty, exceeded, billed, alerts>>
  PROVE  IInv'
<1>1. TypeOK' /\ ReadsAreCurrent' /\ CarrierIsRight'
  BY DEF IInv, TypeOK, Phase, ReadsAreCurrent, InTransaction, CarrierIsRight,
         MonthRuns
<1>2. QED
  BY <1>1 DEF IInv, SpendIsExact, KeyOutlivesMonth, FlagIsCurrent, MonthRuns

\* A day passes: the key still outlives the month.
LEMMA NextDayStep ==
  ASSUME IInv, NextDay
  PROVE  IInv'
<1>1. TypeOK' /\ ReadsAreCurrent'
  BY DEF IInv, TypeOK, NextDay, ReadsAreCurrent, InTransaction
<1>2. MonthRuns' => MonthRuns
  BY DEF IInv, TypeOK, NextDay, MonthRuns
<1>3. KeyOutlivesMonth'
  BY DEF IInv, TypeOK, NextDay, KeyOutlivesMonth, MonthRuns
<1>4. SpendIsExact' /\ FlagIsCurrent' /\ CarrierIsRight'
  BY <1>2 DEF IInv, NextDay, SpendIsExact, FlagIsCurrent, CarrierIsRight, Alerting
<1>5. QED
  BY <1>1, <1>3, <1>4 DEF IInv

\* The key expires only once the month is over.
LEMMA ExpiresAfterMonth ==
  ASSUME IInv, Expire
  PROVE  ~MonthRuns
BY DEF IInv, TypeOK, Expire, KeyOutlivesMonth, MonthRuns

\* The key expires: the month is over, and the flag is gone with the spend.
LEMMA ExpireStep ==
  ASSUME IInv, Expire
  PROVE  IInv'
<1>1. day' = MonthDays /\ ~MonthRuns'
  <2>1. ~(day < MonthDays)
    BY ExpiresAfterMonth DEF MonthRuns
  <2>2. day' = MonthDays
    BY <2>1 DEF Expire
  <2>3. QED
    BY <2>2 DEF MonthRuns
<1>2. dirty' \in [Caller -> BOOLEAN]
  <2>1. \A d \in Caller : (dirty[d] \/ InTransaction(d)) \in BOOLEAN
    BY DEF IInv, TypeOK, InTransaction
  <2>2. QED
    BY <2>1 DEF Expire
<1>3. TypeOK'
  <2>1. spend' \in Nat /\ idle' \in 0..TtlDays /\ day' \in 0..MonthDays
    BY <1>1 DEF Expire
  <2>0. alerted' \in BOOLEAN
    BY DEF Expire
  <2>2. UNCHANGED <<pc, snap, exceeded, billed, alerts>>
    BY DEF Expire
  <2>3. QED
    BY <1>2, <2>0, <2>1, <2>2 DEF IInv, TypeOK
<1>4. ReadsAreCurrent'
  BY DEF Expire, ReadsAreCurrent, InTransaction
<1>5. QED
  BY <1>1, <1>3, <1>4 DEF IInv, SpendIsExact, KeyOutlivesMonth, FlagIsCurrent,
                          CarrierIsRight

\* Every step keeps the inductive invariant.
LEMMA NextIInv == IInv /\ [Next]_vars => IInv'
<1> SUFFICES ASSUME IInv, [Next]_vars PROVE IInv'
  OBVIOUS
<1>1. ASSUME NEW c \in Caller, Check(c) \/ Charge(c) \/ Retry(c) PROVE IInv'
  BY <1>1, ReadStep DEF Check, Charge, Retry, Phase, IInv, TypeOK
<1>2. ASSUME NEW c \in Caller, Deny(c) \/ Abandon(c) PROVE IInv'
  BY <1>2, LeaveStep DEF Deny, Abandon
<1>3. ASSUME NEW c \in Caller, Admit(c) PROVE IInv'
  <2>1. InTransaction(c) /\ ~dirty[c] /\ Accrue(c, 0)
        /\ pc' = [pc EXCEPT ![c] = IF exceeded[c] THEN "idle" ELSE "calling"]
    BY <1>3 DEF Admit, InTransaction
  <2>2. QED
    BY <2>1, AccrueStep
<1>4. ASSUME NEW c \in Caller, NEW cost \in Cost, Charged(c, cost) PROVE IInv'
  <2>1. InTransaction(c) /\ cost \in Nat
    BY <1>4 DEF Charged, InTransaction
  <2>2. QED
    BY <1>4, <2>1, AccrueStep DEF Charged
<1>5. CASE NextDay
  BY <1>5, NextDayStep
<1>6. CASE Expire
  BY <1>6, ExpireStep
<1>7. CASE UNCHANGED vars
  BY <1>7 DEF vars, IInv, TypeOK, SpendIsExact, ReadsAreCurrent, InTransaction,
              KeyOutlivesMonth, FlagIsCurrent, CarrierIsRight, MonthRuns
<1>8. QED
  BY <1>1, <1>2, <1>3, <1>4, <1>5, <1>6, <1>7 DEF Next

\* The inductive invariant.
THEOREM Invariance == Spec => []IInv
<1>1. QED
  BY InitIInv, NextIInv, PTL DEF Spec

\* Every variable keeps its type.
THEOREM TypeCorrect == Spec => []TypeOK
<1>1. IInv => TypeOK
  BY DEF IInv
<1>2. QED
  BY <1>1, Invariance, PTL

\* While the month runs, no charge is lost, doubled or expired.
THEOREM SpendCorrect == Spec => []SpendIsExact
<1>1. IInv => SpendIsExact
  BY DEF IInv
<1>2. QED
  BY <1>1, Invariance, PTL

\* check refuses a request only if the cap is reached at the EXEC that refuses
\* it: what an earlier attempt left on the carrier is still true.
THEOREM RefusalCorrect == Spec => RefusesOnlyAtCap
<1>1. ASSUME IInv, NEW c \in Caller, MonthRuns, Deny(c)
      PROVE  spend >= Cap
  BY <1>1 DEF Deny, IInv, ReadsAreCurrent, InTransaction
<1>2. ASSUME IInv, NEW c \in Caller, MonthRuns, Admit(c), pc'[c] = "idle"
      PROVE  spend >= Cap
  <2>1. exceeded[c] /\ pc[c] = "check"
    BY <1>2 DEF Admit, IInv, TypeOK
  <2>2. QED
    BY <1>2, <2>1 DEF IInv, CarrierIsRight
<1>3. IInv /\ [Next]_vars =>
        [\A c \in Caller :
           MonthRuns /\ (Deny(c) \/ (Admit(c) /\ pc'[c] = "idle")) => spend >= Cap]_vars
  BY <1>1, <1>2
<1>4. QED
  BY <1>3, Invariance, PTL DEF Spec, RefusesOnlyAtCap

-----------------------------------------------------------------------------
(* Budget implements BudgetLedger.                                         *)

\* MaxOfCost is a cost, and the largest.
LEMMA CostIsBounded == MaxOfCost \in Cost /\ \A n \in Cost : n <= MaxOfCost
BY DEF MaxOfCost

\* Every step is a step of the ledger, or none to it.
LEMMA LedgerStep ==
  ASSUME IInv, [Next]_vars
  PROVE  [Ledger!Next]_(Ledger!vars)
<1> USE DEF InFlight, Ledger!vars
<1>0. pc \in [Caller -> Phase] /\ billed \in Nat /\ alerts \in Nat
  BY DEF IInv, TypeOK
<1>1. ASSUME NEW c \in Caller, Check(c) \/ Charge(c) \/ Retry(c) \/ Deny(c)
      PROVE  UNCHANGED <<day, InFlight, billed, alerts>>
  BY <1>0, <1>1 DEF Check, Charge, Retry, Deny, Read, InTransaction
<1>2. ASSUME NEW c \in Caller, Admit(c)
      PROVE  Ledger!Admit(c) \/ UNCHANGED <<day, InFlight, billed, alerts>>
  <2>1. InTransaction(c) /\ ~dirty[c] /\ snap[c].spend < Cap /\ Accrue(c, 0)
        /\ pc[c] = "check"
        /\ pc' = [pc EXCEPT ![c] = IF exceeded[c] THEN "idle" ELSE "calling"]
    BY <1>2 DEF Admit, InTransaction
  <2>2. spend \in Nat /\ snap[c] = [spend |-> spend, alerted |-> alerted]
    BY <2>1 DEF IInv, TypeOK, ReadsAreCurrent
  <2>3. ~Crossed(snap[c], 0)
    BY <2>2 DEF Crossed, Alerting
  <2>4. UNCHANGED <<day, billed, alerts>>
    BY <1>0, <2>1, <2>3 DEF Accrue
  <2>5. MonthRuns => billed < Cap
    BY <2>1, <2>2 DEF IInv, SpendIsExact
  <2>6. \/ InFlight' = InFlight
        \/ InFlight' = InFlight \union {c} /\ c \notin InFlight
    BY <1>0, <2>1
  <2>7. QED
    BY <2>4, <2>5, <2>6 DEF Ledger!Admit, MonthRuns
<1>3. ASSUME NEW c \in Caller, NEW cost \in Cost, Charged(c, cost)
      PROVE  Ledger!Charge(c, cost) /\ cost \in 0..MaxOfCost
  <2>1. InTransaction(c) /\ ~dirty[c] /\ Accrue(c, cost) /\ cost \in Nat
        /\ pc[c] = "charge" /\ pc' = [pc EXCEPT ![c] = "idle"]
    BY <1>3 DEF Charged, InTransaction
  <2>2. c \in InFlight /\ InFlight' = InFlight \ {c}
    BY <1>0, <2>1
  <2>3. billed' = billed + cost /\ day' = day
        /\ alerts' = alerts + (IF Crossed(snap[c], cost) THEN 1 ELSE 0)
    BY <2>1 DEF Accrue
  <2>4. MonthRuns => (Crossed(snap[c], cost) <=> Ledger!Crosses(billed, billed'))
    BY <2>1, <2>3, AccrueOnCurrent
       DEF IInv, SpendIsExact, Alerting, Ledger!Crosses, Ledger!Alerting
  <2>5. \/ alerts' = alerts + (IF Ledger!Crosses(billed, billed') THEN 1 ELSE 0)
        \/ ~MonthRuns /\ alerts' = alerts + 1
        \/ ~MonthRuns /\ alerts' = alerts
    BY <1>0, <2>3, <2>4
  <2>6. Ledger!Charge(c, cost)
    BY <2>2, <2>3, <2>5 DEF Ledger!Charge, MonthRuns
  <2>7. QED
    BY <2>1, <2>6, CostIsBounded
<1>4. ASSUME NEW c \in Caller, Abandon(c)
      PROVE  Ledger!Forgo(c) \/ UNCHANGED <<day, InFlight, billed, alerts>>
  BY <1>0, <1>4 DEF Abandon, Ledger!Forgo, MonthRuns
<1>5. ASSUME NextDay \/ Expire
      PROVE  Ledger!MonthEnds \/ UNCHANGED <<MonthRuns, InFlight, billed, alerts>>
  <2>1. UNCHANGED <<pc, billed, alerts>>
    BY <1>5 DEF NextDay, Expire
  <2>2. MonthRuns' => MonthRuns
    BY <1>5 DEF NextDay, Expire, MonthRuns, IInv, TypeOK
  <2>3. MonthRuns \in BOOLEAN /\ MonthRuns' \in BOOLEAN
    BY DEF MonthRuns
  <2>4. QED
    BY <2>1, <2>2, <2>3 DEF Ledger!MonthEnds
<1>6. ASSUME UNCHANGED <<day, InFlight, billed, alerts>>
      PROVE  UNCHANGED <<MonthRuns, InFlight, billed, alerts>>
  BY <1>6 DEF MonthRuns
<1>7. CASE UNCHANGED vars
  BY <1>6, <1>7 DEF vars
<1>8. QED
  BY <1>1, <1>2, <1>3, <1>4, <1>5, <1>6, <1>7 DEF Next, Ledger!Next

\* The WATCH/MULTI/EXEC budget keeps the ledger's promises.
THEOREM Implementation == Spec => ImplementsLedger
<1>1. Init => Ledger!Init
  BY DEF Init, Ledger!Init, MonthRuns, InFlight
<1>2. IInv /\ [Next]_vars => [Ledger!Next]_(Ledger!vars)
  BY LedgerStep
<1>3. QED
  BY <1>1, <1>2, Invariance, PTL DEF Spec, ImplementsLedger, Ledger!Spec

-----------------------------------------------------------------------------
(* What the ledger promises, by an invariant of the ledger that every step *)
(* that implements one of its steps keeps.                                 *)

\* What the month has cost, and what the calls in flight may still add.
Committed == billed + MaxOfCost * Cardinality(InFlight)

\* A running month is below the cap, or has admitted its last call: what it can
\* still cost is then bounded by the calls in flight when it reached the cap.
LInv ==
  /\ MonthRuns => billed < Cap \/ Committed < Cap + MaxOfCost * Cardinality(Caller)
  /\ AlertsOnce

\* The callers in flight are finitely many, and no more than there are.
LEMMA InFlightSize ==
  /\ IsFiniteSet(InFlight)
  /\ Cardinality(InFlight) \in Nat
  /\ Cardinality(Caller) \in Nat
  /\ Cardinality(InFlight) <= Cardinality(Caller)
<1>1. InFlight \subseteq Caller
  BY DEF InFlight
<1>2. QED
  BY <1>1, FS_Subset, FS_CardinalityType

\* Products of counts and costs, spelled out for the solver.
LEMMA Times ==
  ASSUME NEW m \in Nat, NEW n \in Nat
  PROVE  /\ m * n \in Nat
         /\ \A k \in Nat : k <= n => m * k <= m * n
         /\ n > 0 => m * (n - 1) = m * n - m
BY SMT

\* With c out, the calls in flight can cost at most one call less.
LEMMA OneLess ==
  ASSUME NEW c \in InFlight
  PROVE  /\ MaxOfCost * Cardinality(InFlight \ {c})
              = MaxOfCost * Cardinality(InFlight) - MaxOfCost
         /\ MaxOfCost * Cardinality(InFlight) \in Nat
<1>1. /\ Cardinality(InFlight \ {c}) = Cardinality(InFlight) - 1
      /\ Cardinality(InFlight) > 0
  BY InFlightSize, FS_RemoveElement, FS_EmptySet
<1>2. MaxOfCost \in Nat
  BY CostIsBounded
<1>3. QED
  BY <1>1, <1>2, InFlightSize, Times

\* The initial states satisfy the ledger's invariant.
LEMMA InitLInv == Init => LInv
BY DEF Init, LInv, AlertsOnce, Ledger!AlertsOnce, Ledger!Alerting

\* Every step of the ledger keeps it.
LEMMA LedgerNext == IInv /\ LInv /\ [Next]_vars => LInv'
<1> SUFFICES ASSUME IInv, LInv, [Ledger!Next]_(Ledger!vars) PROVE LInv'
  BY LedgerStep
<1> USE DEF LInv, AlertsOnce, Ledger!AlertsOnce, Ledger!Alerting
<1>0. /\ MaxOfCost * Cardinality(Caller) \in Nat
      /\ MaxOfCost * Cardinality(InFlight) <= MaxOfCost * Cardinality(Caller)
      /\ MaxOfCost \in Nat /\ billed \in Nat /\ alerts \in Nat
  BY InFlightSize, Times, CostIsBounded DEF IInv, TypeOK
<1>1. ASSUME NEW c \in Caller, Ledger!Admit(c) PROVE LInv'
  BY <1>1 DEF Ledger!Admit
<1>2. ASSUME NEW c \in Caller, Ledger!Forgo(c) PROVE LInv'
  <2>1. c \in InFlight /\ InFlight' = InFlight \ {c}
        /\ UNCHANGED <<MonthRuns, billed, alerts>>
    BY <1>2 DEF Ledger!Forgo
  <2>2. MonthRuns' =>
          billed' < Cap \/ Committed' < Cap + MaxOfCost * Cardinality(Caller)
    BY <1>0, <2>1, OneLess DEF Committed
  <2>3. QED
    BY <2>1, <2>2
<1>3. ASSUME NEW c \in Caller, NEW cost \in 0..MaxOfCost, Ledger!Charge(c, cost)
      PROVE  LInv'
  <2>1. c \in InFlight /\ InFlight' = InFlight \ {c} /\ billed' = billed + cost
        /\ MonthRuns' = MonthRuns
    BY <1>3 DEF Ledger!Charge
  <2>2. MonthRuns' => Committed' < Cap + MaxOfCost * Cardinality(Caller)
    BY <1>0, <2>1, OneLess DEF Committed
  <2>3. AlertsOnce'
    BY <1>0, <1>3 DEF Ledger!Charge, Ledger!Crosses
  <2>4. QED
    BY <2>2, <2>3
<1>4. CASE Ledger!MonthEnds
  BY <1>4 DEF Ledger!MonthEnds
<1>5. CASE UNCHANGED Ledger!vars
  BY <1>5 DEF Ledger!vars, Committed
<1>6. QED
  BY <1>1, <1>2, <1>3, <1>4, <1>5 DEF Ledger!Next

\* Concurrent calls overrun the cap by less than they can cost together: at most
\* Cap - 1 was spent when the last one was admitted, and it and the others in
\* flight add at most MaxOfCost each.
THEOREM OverrunCorrect == Spec => []OverrunBounded
<1>1. IInv /\ LInv => OverrunBounded
  <2> SUFFICES ASSUME IInv, LInv, MonthRuns
               PROVE  billed < Cap + MaxOfCost * Cardinality(Caller)
    BY DEF OverrunBounded, Ledger!OverrunBounded, Ledger!Cardinality, Cardinality
  <2>1. /\ MaxOfCost * Cardinality(Caller) \in Nat
        /\ MaxOfCost * Cardinality(InFlight) \in Nat
        /\ billed \in Nat
    BY InFlightSize, Times, CostIsBounded DEF IInv, TypeOK
  <2>2. QED
    BY <2>1 DEF LInv, Committed
<1>2. QED
  BY <1>1, InitLInv, LedgerNext, Invariance, PTL DEF Spec

\* "The alert fires exactly once across replicas".
THEOREM AlertCorrect == Spec => []AlertsOnce
<1>1. LInv => AlertsOnce
  BY DEF LInv
<1>2. QED
  BY <1>1, InitLInv, LedgerNext, Invariance, PTL DEF Spec
=============================================================================
