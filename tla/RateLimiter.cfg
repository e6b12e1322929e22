CONSTANTS
  c1 = c1
  c2 = c2
  Caller = {c1, c2}
  Offset <- Skewed
  Capacity = 2
  Unit = 3
  Rate = 2
  Second = 2
  Horizon = 5
  MaxGain = 1
SPECIFICATION Spec
INVARIANTS
  TypeOK
  RateBounded
PROPERTIES
  RetryAfterSuffices
