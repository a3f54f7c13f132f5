\* Four documents of one score, a page each.
SPECIFICATION HeapSpec
CONSTANTS
  Docs = {d1, d2, d3, d4}
  Scores = {1}
  MaxLimit = 1
  SizeMax = 5
  MaxPages = 4
INVARIANT
  PagesArePartsOfOneList
