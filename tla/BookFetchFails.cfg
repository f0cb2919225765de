SPECIFICATION FairSpec
CONSTANTS
  Depth = 1
  Qty = {0, 1}
  MaxUpdates = 2
  SnapshotLimit = 1
  NoBook = NoBook
  SnapshotLag = 0
  FetchMayFail = TRUE
  MaxRestarts = 0
PROPERTY ResyncEnds
