CONSTANTS
  None = None
  MaxLog = 3
  MaxExpired = 1
  u1 = u1
  u2 = u2
  t1 = t1
  t2 = t2
  r1 = r1
  r2 = r2
  Users <- MCUsers
  Tokens <- MCTokens
  Requests <- MCRequests
SPECIFICATION Spec
PROPERTY BootstrapOnlyOnce
CHECK_DEADLOCK FALSE
