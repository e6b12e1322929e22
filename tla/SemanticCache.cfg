CONSTANTS
  acme = acme
  zen = zen
  refund = refund
  refunds = refunds
  weather = weather
  Caller = {c1, c2}
  Tenant = {acme, zen}
  Collection = {"atlas_cache_acme", "atlas_cache_zen"}
  NameOf <- Names
  Model = {m1}
  Text = {refund, refunds, weather}
  Answer = {a1}
  Score <- Scores
  Threshold = 97
  MaxFailures = 4
  None = None
SPECIFICATION Spec
INVARIANTS
  ServesOwnUncited
  RaceIsPaidOnce
