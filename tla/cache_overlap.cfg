SPECIFICATION FairPagedSpec
CONSTANTS
  Keys = {1, 2}
  Workers = {w1, w2}
  PageSize = 2
  Existing = 2
  MaxCreates = 4
  MaxUpdates = 1
  MaxFailures = 1
INVARIANTS KeysAreKnown OrderedWalksSeeAllRows
PROPERTY ListsConverge
