CONSTANTS
  Caller = {c1, c2, c3}
  Accounting = TRUE
  Kafka = TRUE
  MaxPools = 5
SPECIFICATION FairSpec
INVARIANT
  PoolsBounded
PROPERTIES
  EveryoneIsServed
