SPECIFICATION Spec
CONSTANTS
  p1 = p1  p2 = p2  c1 = c1  c2 = c2  a1 = a1  b1 = b1  b2 = b2
  tA = tA  tB = tB  sA = sA  sB = sB  None = None
  Pods = {p1, p2}
  Clients = {c1}
  Channels = {a1, b1, b2}
  Tenants = {tA, tB}
  Subjects = {sA, sB}
  PodOf <- OnePodOfOne
  TenantOf <- OneTenant
  ChannelTenant <- SharedTenants
  SubjectOf <- SharedSubjects
  HasNats = TRUE
  CmdCap = 2
  SendCap = 2
  MaxNotify = 2
  MaxReads = 3
  MaxCrashes = 1
CHECK_DEADLOCK FALSE
INVARIANTS
  CopiesBounded
  RelayOrder
  OwnTenantOnly
