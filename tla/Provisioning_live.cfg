SPECIFICATION FairSpec
CONSTANTS
  NoStore = NoStore
  PlatformName = p
  Names = {p, a}
  Isolates = {i1}
  Requests = {r1}
  MaxMerchants = 2
  MaxCrashes = 1
  Adding = {2}
  MaxExtra = 2
INVARIANTS TypeOK InstalledIsUsable ClaimedIsComplete TenantIntegrity
PROPERTIES BootstrapCompletes
CHECK_DEADLOCK FALSE
