SPECIFICATION LookSpec
CONSTANTS
  Prices = {0, 1}
  Sides = {0, 1}
  Horizon = 1
  Cutoffs = 2
  MaxObservations = 4
INVARIANTS
  LeaksThatTradeAreSeen
CHECK_DEADLOCK FALSE
