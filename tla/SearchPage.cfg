\* Calls answered in any order; the user edits, picks and leaves at any time.
SPECIFICATION Spec
CONSTANTS
  Chars <- MCChars
  Space = {" "}
  Alnum = {"c", "C", "d"}
  CharAlnum = {"c", "C", "d"}
  Lower <- MCLower
  Stopwords = {}
  Stem <- MCStem
  BoxTexts <- MCBoxTexts
  Suggested <- MCSuggested
  MaxSuggestCalls = 2
  Texts <- MCTexts
  Total <- MCTotal
  PageSize = 2
  MaxCalls = 3
INVARIANTS
  TypeOK
  LoadingMeansWaiting
  MoreFollowsFullPage
  PagesInSequence
  MenuFitsBox
