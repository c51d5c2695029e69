CONSTANTS
  Ttl = 1
  FetchTimeout = 1
  MaxClock = 3
  None = None
  c1 = c1
  c2 = c2
  t1 = t1
  t2 = t2
  Callers <- MCCallers
  Tasks <- MCTasks
SPECIFICATION FairSpec
INVARIANT TypeOK
INVARIANT SingleFlight
INVARIANT AnswersAreFresh
PROPERTY StoreNeverRegresses
PROPERTY ImplementsContract
PROPERTY CallsSettle
