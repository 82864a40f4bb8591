SPECIFICATION BSpec
CONSTANTS
  i1 = i1
  i2 = i2
  Instruments = {i1, i2}
  Expiry <- MCExpiry
  Strike <- MCStrike
  Right <- MCRight
  Quotes <- MCQuotes
  NoQuote = NoQuote
  LegLists <- MCCall
  Lots <- MCSell
  RuleMenu <- MCExit
  Levels <- MCLevels
  Delay = 1
  Fee = 1
  ExerciseFee = 2
  MaxPositions = 1
  MaxLegs = 1
  MaxLegsInAll = 2
  MaxOrders = 6
  MaxRules = 1
  MaxTime = 12
  NumDates = 3
  DayLength = 3
  Bell = 2
  Spot = i2
  NoSpot = NoSpot
  Forwards <- MCForwards
  OnExpiry = "Settle"
  MaxResumes = 1
INVARIANTS
  NothingWorksOvernight
  NothingHeldPastExpiry
  HeldLegsAreMarked
PROPERTIES
  UsesPortfolio
