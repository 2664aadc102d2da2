SPECIFICATION FairSpec
CONSTANTS
  Builds <- MCMixed
  Requests = {}
  OrgOf <- MCOrgOf
  Admin = "tinai-admin"
  AppOf <- MCAppOf
  RegionOf <- MCRegionOf
  PullOf <- MCPullOf
  NoPull = "none"
  Regions = {"IN", "QA"}
  HomeRegion = "IN"
  Critical = {"shop"}
  ScanEnabled = TRUE
  NoImage = "noimage"
  MaxEvents = 2
  MaxRestarts = 1
INVARIANTS
  TypeOK
  OnlyPushedImages
  TenantsStayHome
  TenantsAreFenced
PROPERTIES
  GoroutinesEnd
CHECK_DEADLOCK FALSE
