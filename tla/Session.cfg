SPECIFICATION SSpec
CONSTANTS
  i1 = i1
  i2 = i2
  Instruments = {i1, i2}
  Expiry <- MCExpiry
  Strike <- MCStrike
  Right <- MCRight
  Quotes <- MCQuotes
  NoQuote = NoQuote
  LegLists <- MCPair
  Lots <- MCSell
  RuleMenu <- MCRules
  Levels <- MCNoLevels
  Delay = 0
  Fee = 1
  ExerciseFee = 2
  MaxPositions = 1
  MaxLegs = 2
  MaxLegsInAll = 2
  MaxOrders = 2
  MaxRules = 3
  MaxTime = 3
  CondMenu <- MCConds
  MaxWakes = 1
INVARIANTS
  DecidedBeforeFilled
  NotLeftWaiting
  LeftPositionsClose
PROPERTIES
  SessionUsesPortfolio
  RulePassIsTheLoop
  SessionEnds
