CONSTANTS
  None = None
  MaxLog = 3
  MaxExpired = 2
  u1 = u1
  u2 = u2
  t1 = t1
  t2 = t2
  r1 = r1
  r2 = r2
  Users <- MCUsers
  Tokens <- MCTokens
  Requests <- MCRequests
SYMMETRY Symmetry
SPECIFICATION Spec
INVARIANT AccountsTypeOK
INVARIANT OneOpenToken
INVARIANT AuditIsFaithful
PROPERTY OnlyTimeLocksOut
CHECK_DEADLOCK FALSE
