SPECIFICATION BothSpec
CONSTANTS
  s1 = s1
  s3 = s3
  Allocations = {a1, a2, a3}
  Batch = 2
  MaxUnknown = 1
  Sandboxes = {s1, s3}
  Hosts <- SmallHosts
  Policies <- SmallPolicies
  Reservations <- PlatformHolds
  Quotas <- SmallQuotas
  QuotaOf <- TaskQuotas
  Node <- OneHost
  NodePolicy <- OnePolicy
  Platform <- Zero
  MaxQueue = 2
  MaxCrashes = 1
INVARIANTS
  NeverOversold
  PoolIsSound
PROPERTIES
  LiveKeepsItsShare
  CreateGetsItsTurn
  LedgerSpec
  GoneIsReleased
