SPECIFICATION Spec
CONSTANTS
  NoValue = NoValue
  Entry = 1
  MaxHold = 2
  Fast = 1
  Slow = 2
  Lookback = 1
  Stop = 1
  MinPerWindow = 2
  FallsShort <- MCFallsShort
  Readings <- MCReadings
  Candidates = {1, 2}
  Scores <- MCScores
  MinBars = 2
  Windows = 2
  MaxBars = 5
  MaxFaults = 1
INVARIANTS TypeOK NoLookAhead  HoldsAtMostMaxHold WalkForwardIsHonest
PROPERTY JobsEnd
CHECK_DEADLOCK FALSE
