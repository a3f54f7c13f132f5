\* Files of up to six characters against a cache of two entries.
SPECIFICATION Spec
CONSTANTS
  CommandLines <- MCCommandLines
  Environments <- MCEnvironments
  Numerals <- MCNumerals
  DefaultDump = "d"
  Canonical <- MCCanonical
  Chars <- MCChars
  Space = {" "}
  Alnum = {"a", "s", "S"}
  CharAlnum = {"a", "s", "S", "0xc3"}
  Lower <- MCLower
  Stopwords <- MCStopwords
  Stem <- PorterStem
  DefaultQueries <- MCDefaultQueries
  MaxChars = 6
  Capacity = 2
INVARIANTS
  FilesOfOneInput
  Reported
  WarmWhenItFits
  SameWords
  SearchedForItsWords
