CONSTANTS
  Caller = {c1, c2, c3}
  Cap = 5
  Cost = {1, 4}
  MonthDays = 2
  TtlDays = 3
SPECIFICATION Spec
SYMMETRY Replicas
INVARIANTS
  TypeOK
  SpendIsExact
  OverrunBounded
  AlertsOnce
PROPERTIES
  RefusesOnlyAtCap
  ImplementsLedger
