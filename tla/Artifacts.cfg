\* Crashes, full disks, a file that cannot be opened, a dump that does not parse, a
\* cleared cache, a recomputation, and a replaced dump.
SPECIFICATION FairSpec
CONSTANTS
  Dumps <- TwoDumps
  Pages <- MCPages
  NoDump = "none"
  Garbled <- MCGarbled
  ComputePageRank = TRUE
  Limits <- Troubles
INVARIANTS
  TypeOK
  StoresDense
  ServedIndexIsSaved
  ServedDocumentsKnown
  LoadableMeansComplete
PROPERTIES
  WholePairIsReused
  ServesInTheEnd
