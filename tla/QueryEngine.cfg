\* Up to three documents, every score map, three pages from any offset, and a
\* size_t small enough to wrap.
SPECIFICATION Spec
CONSTANTS
  Docs = {d1, d2, d3}
  Scores = {1, 2, 3}
  MaxLimit = 2
  SizeMax = 5
  MaxPages = 3
INVARIANTS
  TypeOK
  KeepsTheBest
  PagesOfRanking
  ShownOnceWithoutTies
