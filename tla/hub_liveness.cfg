SPECIFICATION FairSpec
CONSTANTS
  p1 = p1  p2 = p2  c1 = c1  c2 = c2  a1 = a1  b1 = b1  b2 = b2
  tA = tA  tB = tB  sA = sA  sB = sB  None = None
  Pods = {p1}
  Clients = {c1, c2}
  Channels = {a1, b1}
  Tenants = {tA, tB}
  Subjects = {sA, sB}
  PodOf <- OnePodOf
  TenantOf <- SameTenant
  ChannelTenant <- ChannelTenants
  SubjectOf <- ChannelSubjects
  HasNats = TRUE
  CmdCap = 1
  SendCap = 1
  MaxNotify = 1
  MaxReads = 1
  MaxCrashes = 1
CHECK_DEADLOCK FALSE
PROPERTIES
  SessionLeaves
