\* Four transactions, three categories.
SPECIFICATION SuggestionsSpec
CONSTANTS
  None = None
  Ids = {1, 2, 3, 4}
  Kinds <- MCKinds
  Categories = {1, 2, 3}
  NameRank <- MCNameRank
  Texts <- MCTexts
  TextSimilarity <- MCTextSimilarity
  MatchLimit = 2
  SuggestionLimit = 1
INVARIANTS
  SuggestionsAreRanked
