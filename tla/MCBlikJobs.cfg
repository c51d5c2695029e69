CONSTANTS
  None = None
  FutureDays = 7
  x1 = x1
  x2 = x2
  i1 = i1
  i2 = i2
  i3 = i3
  r1 = r1
  r2 = r2
  f1 = f1
  f2 = f2
  v1 = v1
  j1 = j1
  j2 = j2
  Payments = {}
  Txs <- MCTxs
  Items <- MCItems
  Place <- MCPlace
  Date <- MCDate
  Amount <- MCAmount
  Row <- MCRow
  Files <- MCFiles
  Content <- MCContent
  Previews <- MCPreviews
  Jobs <- MCJobs
  DecisionLists <- MCDecisionLists
SPECIFICATION FairSpec
INVARIANT BlikTypeOK
INVARIANT BlikOutcomesAreTrue
INVARIANT BlikEnrichmentIsSound
INVARIANT DescriptionOnce
INVARIANT BlikAutoAppliesSingles
PROPERTY BlikImplementsContract
PROPERTY BlikJobsEnd
