CONSTANTS
  alice = alice
  bob = bob
  mock = mock
  unknown = unknown
  plain = plain
  personal = personal
  masked = masked
  hostile = hostile
  long = long
  short = short
  good = good
  banned = banned
  fixable = fixable
  fixed = fixed
  v1 = v1
  v2 = v2
  Request = {r1, r2}
  Arrival <- Arrivals
  Deployment <- Deployments
  Known = {mock}
  PreChain <- DeployedPre
  PostChain <- DeployedPost
  Rejected = Rejected
  Text = {plain, personal, masked, hostile}
  Answer = {good, banned}
  Version = {v1, v2}
  Unversioned = Unversioned
  Production = Production
  Cap = 1
  None = None
SPECIFICATION FairSpec
INVARIANTS
  TypeOK
  ProviderSeesGuarded
  AccountingNeverFails
  BilledIsRecorded
PROPERTIES
  ImplementsContract
  EveryRequestEnds
