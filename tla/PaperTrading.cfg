SPECIFICATION Spec
CONSTANTS
  Instances = {i1}
  NoInstance = NoInstance
  Prices = {1, 2}
  QtyUsd = 6
  MaxPositionUsd = 4
  MaxDailyLossUsd = 1
  Modes = {"sim", "testnet"}
  EmptyAnswers = TRUE
  MinBars = 1
  MaxCandles = 3
  MaxDays = 1
INVARIANTS TypeOK KillSwitch StopSticks OrdersExplainPosition
PROPERTIES HaltHolds NeverAddsBeyondGuard
