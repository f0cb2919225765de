SPECIFICATION Spec
CONSTANTS
  Actors = {"cli", "scheduler"}
  Interval = 2
  Depth = 6
  Limit = 2
  RowPeriod = 2
  RowLimit = 1
  Retention = 4
  MaxAhead = 0
  MaxTime = 6
  MaxFailures = 1
INVARIANTS TypeOK GapsExact SeriesHasNoHoles
PROPERTIES BackfillCompletes ImplementsTable CandlesArrive
