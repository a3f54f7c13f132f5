\* One crash while the store is saved, and every page is indexed twice.
SPECIFICATION Spec
CONSTANTS
  Dumps <- OneDump
  Pages <- PagesOfOne
  NoDump = "none"
  Garbled <- MCGarbled
  ComputePageRank = FALSE
  Limits <- OneCrash
INVARIANT
  RebuildStartsAfresh
