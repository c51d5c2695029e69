CONSTANTS
  None = None
  FutureDays = 7
  x1 = x1
  x2 = x2
  i1 = i1
  i2 = i2
  i3 = i3
  p1 = p1
  p2 = p2
  v1 = v1
  j1 = j1
  j2 = j2
  c1 = c1
  Txs <- MCTxs
  Items <- MCItems
  Payments <- MCItems
  Place <- MCPlace
  Date <- MCDate
  Amount <- MCAmount
  Pages <- MCPages
  Contents <- MCContents
  Previews <- MCPreviews
  Jobs <- MCJobs
  ShortId <- MCShortId
  DecisionLists <- MCDecisionLists
  Limits = {2}
  Clients <- MCClients
SPECIFICATION FairSpec
CONSTRAINT PollsAlone
INVARIANT AllegroTypeOK
INVARIANT OutcomesAreTrue
INVARIANT EnrichmentIsSound
INVARIANT NotesOnce
INVARIANT AnswersAgree
PROPERTY AnswersAdvance
PROPERTY JobsEnd
