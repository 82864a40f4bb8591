SPECIFICATION Spec
CONSTANTS
  i1 = i1
  i2 = i2
  Instruments = {i1, i2}
  Expiry <- MCExpiryMixed
  Strike <- MCStrike
  Right <- MCRight
  Quotes <- MCQuotes
  NoQuote = NoQuote
  LegLists <- MCMixed
  Lots <- MCBoth
  RuleMenu <- MCRules
  Levels <- MCLevels
  Delay = 1
  Fee = 1
  ExerciseFee = 2
  MaxPositions = 2
  MaxLegs = 2
  MaxLegsInAll = 2
  MaxOrders = 3
  MaxRules = 1
  MaxTime = 2
INVARIANTS
  OneOrderPerWaitingLeg
  SpentRuleGuardsNothing
  NoOpeningAfterClose
  TradeLogMatchesLegs
  BooksBalance
  OrdersConserved
PROPERTIES
  LegHistory
