SPECIFICATION Spec
CONSTANTS
  Builds <- MCPreview
  Requests = {}
  OrgOf <- MCOrgOf
  Admin = "tinai-admin"
  AppOf <- MCAppOf
  RegionOf <- MCRegionOf
  PullOf <- MCPullOf
  NoPull = "none"
  Regions = {"IN"}
  HomeRegion = "IN"
  Critical = {}
  ScanEnabled = TRUE
  NoImage = "noimage"
  MaxEvents = 1
  MaxRestarts = 1
INVARIANTS
  PreviewsAreIsolated
CHECK_DEADLOCK FALSE
