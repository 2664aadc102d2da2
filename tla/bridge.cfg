SPECIFICATION FairSpec
CONSTANTS
  c1 = c1  c2 = c2  tA = tA  tB = tB  None = None
  Conns = {c1, c2}
  Tenants = {tA, tB}
  TenantOf <- SameTenant
  SendCap = 1
  MaxEvents = 2
  MaxReads <- ReadBounds
CHECK_DEADLOCK FALSE
INVARIANTS
  TypeOK
  OwnEventsInOrder
  NoGhosts
PROPERTIES
  NothingAfterClose
  ClosedSessionsEnd
