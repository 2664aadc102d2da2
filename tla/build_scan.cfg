SPECIFICATION Spec
CONSTANTS
  Builds <- MCTenant
  Requests = {}
  OrgOf <- MCOrgOf
  Admin = "tinai-admin"
  AppOf <- MCAppOf
  RegionOf <- MCRegionOf
  PullOf <- MCPullOf
  NoPull = "none"
  Regions = {"IN"}
  HomeRegion = "IN"
  Critical = {"shop"}
  ScanEnabled = TRUE
  NoImage = "noimage"
  MaxEvents = 1
  MaxRestarts = 1
PROPERTIES
  BlockedStaysOut
CHECK_DEADLOCK FALSE
