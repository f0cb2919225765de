SPECIFICATION Spec
CONSTANTS
  Clients = {"poller", "scheduler"}
  WeightOf <- UnitWeights
  Threshold = 2
  Limit = 3
  MaxRetries = 1
  OutsideWeight = 1
  MaxOutside = 1
INVARIANTS TypeOK SpendsWithin OvershootBounded
PROPERTIES CallsReturn
