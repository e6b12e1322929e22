CONSTANTS
  Threshold = 2
  Cooldown = 2
  Ttl = 8
  Caller = {c1, c2}
SPECIFICATION FairSpec
INVARIANTS
  TypeOK
  CountsEveryFailure
PROPERTIES
  NoCallWhileCooling
  QuarantineEnds
  ImplementsAtomicBreaker
  Recovers
