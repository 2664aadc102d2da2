SPECIFICATION Spec
CONSTANTS
  Builds <- MCSite
  Requests = {"r1"}
  OrgOf <- MCOrgOf
  Admin = "tinai-admin"
  AppOf <- MCAppOf
  RegionOf <- MCRegionOf
  PullOf <- MCPullOf
  NoPull = "none"
  Regions = {"IN"}
  HomeRegion = "IN"
  Critical = {}
  ScanEnabled = FALSE
  NoImage = "noimage"
  MaxEvents = 4
  MaxRestarts = 1
PROPERTIES
  PrevIsPredecessor
CHECK_DEADLOCK FALSE
