\* Two users, one secret, two sessions, two requests at once.
SPECIFICATION Spec
CONSTANTS
  None = None
  Users = {u1, u2}
  Secrets = {x1}
  Sessions = {s1, s2}
  Keys = {k1, k2}
  Requests = {r1, r2}
  TTL = 1
  MaxTime = 1
  MaxLog = 5
SYMMETRY Symmetry
CHECK_DEADLOCK FALSE
INVARIANTS
  SecretsStayDecryptable
  PlaintextIsEarned
  AccessIsAudited
PROPERTY ChangesAreAudited
