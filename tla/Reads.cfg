SPECIFICATION Spec
CONSTANTS
  Keys = {empty, k1}
  EmptyKey = empty
  DefaultLimit = 2
  MaxLimit = 2
  MaxGetLatest = 2
  MaxBatch = 2
  MaxSeq = 4
  MaxFailures = 1
  MaxCrashes = 1
CHECK_DEADLOCK FALSE
INVARIANTS PagesHaveNoHoles EndedListingIsComplete LatestIsNewest IndexIsNewest
