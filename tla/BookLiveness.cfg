SPECIFICATION FairSpec
CONSTANTS
  Depth = 1
  Qty = {0, 1}
  MaxUpdates = 4
  SnapshotLimit = 1
  NoBook = NoBook
  SnapshotLag = 0
  FetchMayFail = FALSE
  MaxRestarts = 1
PROPERTIES ServedMovesForward ResyncEnds CatchesUp
