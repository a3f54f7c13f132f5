\* A link that is broken over two lines.
SPECIFICATION Spec
CONSTANTS
  Dumps <- MCDumps
  Blank <- MCBlank
  Chars <- MCChars
  Space <- MCSpace
  Alnum <- MCAlnum
  CharAlnum <- MCAlnum
  Lower <- MCLower
  Stopwords <- MCStopwords
  Stem <- PorterStem
  TermBefore <- MCTermBefore
  Limits = {0, 1, 2}
  MaxSnippet = 7
  Ellipsis = "..."
  SuggestLimits = {1, 2}
  OutDegrees = 6
  Rounds = 3
INVARIANT
  RanksFromOneGraph
