SPECIFICATION Spec
CONSTANTS
  Requests = {r1, r2}
  Limit = 2
  MaxCandles = 3
  MaxStores = 4
  MaxFunding = 1
SYMMETRY Symmetry
INVARIANTS TypeOK NeverGoesBack ServesAsOfCandle
