\* Three threads race for three keys in a cache of two entries, and evict.
SPECIFICATION Spec
CONSTANTS
  Threads = {t1, t2, t3}
  NoThread = NoThread
  Capacity = 2
  MaxArrivals = 4
  Texts <- MCTexts
  Blank = {"  "}
  TooLong = {"long"}
  Normalize <- MCNormalize
  Absent = Absent
  Junk = Junk
  DefaultLimit = 2
  MaxLimit = 2
  SizeMax = 2
  Requests <- RacingRequests
  Search <- MCSearch
  Answers <- MCAnswers
  NoResults = NoResults
SYMMETRY ThreadSymmetry
INVARIANTS
  LocksHeld
  CacheIntact
  CachedAnswersRight
  AnswersAsAsked
  EntriesPaidByMisses
