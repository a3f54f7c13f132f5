\* Two threads, every kind of request, a cache of one entry.
SPECIFICATION FairSpec
CONSTANTS
  Threads = {t1, t2}
  NoThread = NoThread
  Capacity = 1
  MaxArrivals = 4
  Texts <- MCTexts
  Blank = {"  "}
  TooLong = {"long"}
  Normalize <- MCNormalize
  Absent = Absent
  Junk = Junk
  DefaultLimit = 2
  MaxLimit = 2
  SizeMax = 2
  Requests <- EveryKindOfRequest
  Search <- MCSearch
  Answers <- MCAnswers
  NoResults = NoResults
CHECK_DEADLOCK FALSE
INVARIANT
  TypeOK
PROPERTIES
  ImplementsApi
  EveryRequestAnswered
