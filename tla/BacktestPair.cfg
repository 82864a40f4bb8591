SPECIFICATION FairBSpec
CONSTANTS
  i1 = i1
  i2 = i2
  Instruments = {i1, i2}
  Expiry <- MCExpiry
  Strike <- MCStrike
  Right <- MCRight
  Quotes <- MCQuotes
  NoQuote = NoQuote
  LegLists <- MCPair
  Lots <- MCSell
  RuleMenu <- MCRules
  Levels <- MCLevels
  Delay = 1
  Fee = 1
  ExerciseFee = 2
  MaxPositions = 1
  MaxLegs = 2
  MaxLegsInAll = 2
  MaxOrders = 6
  MaxRules = 1
  MaxTime = 12
  NumDates = 2
  DayLength = 2
  Bell = 2
  Spot = NoSpot
  NoSpot = NoSpot
  Forwards <- MCForwards
  OnExpiry = "Forbid"
  MaxResumes = 1
INVARIANTS
  FillsOnTime
  EstablishedPositionsProtected
PROPERTIES
  RunEnds
