SPECIFICATION Spec
CONSTANTS
  Instances = {i1}
  NoInstance = NoInstance
  Prices = {1}
  QtyUsd = 2
  MaxPositionUsd = 2
  MaxDailyLossUsd = 1
  Modes = {"testnet"}
  EmptyAnswers = FALSE
  MinBars = 1
  MaxCandles = 2
  MaxDays = 0
INVARIANT PositionIsHeld
