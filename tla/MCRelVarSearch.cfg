SPECIFICATION FairSearchSpec
CONSTANTS
  MaxId = 8
  SearchedIds <- MCSearchedIds
  Indexes <- MCIndexes
INVARIANTS
  ReturnsLowerBound
PROPERTIES
  Terminates
