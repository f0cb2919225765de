SPECIFICATION Spec
CONSTANTS
  Depth = 2
  Qty = {0, 1}
  MaxUpdates = 4
  SnapshotLimit = 1
  NoBook = NoBook
  SnapshotLag = 1
  FetchMayFail = TRUE
  MaxRestarts = 1
INVARIANTS TypeOK MirrorsExchange OneResync
PROPERTY ImplementsFeed
