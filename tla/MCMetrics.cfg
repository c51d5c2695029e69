CONSTANTS
  Ttl = 1
  FetchTimeout = 1
  MaxClock = 3
  None = None
  m = m
  r = r
  Callers <- MCCallers
  Managers <- MCManagers
SPECIFICATION MetricsFairSpec
INVARIANT StateMatchesTask
INVARIANT MetricsReflectRequest
INVARIANT ResultNeverRegresses
PROPERTY RecomputesEnd
