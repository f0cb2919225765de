SPECIFICATION Spec
CONSTANTS
  Rules = {"rule"}
  RefreshEvery = 1
  Cooldown = 6
  MaxStall = 1
  MaxTime = 8
INVARIANTS TypeOK
PROPERTIES OneAlertPerCrossing DisabledRuleStops CooldownHolds
