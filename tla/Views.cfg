SPECIFICATION ViewsSpec
CONSTANTS
  Interval = 2
  Anchor = 3
  Source = "mid"
  Period = 2
  Books <- MCBooks
  DayEnd = 6
  MaxPrints = 4
  NumStrikes = 6
  StrikeGap = 2
  OptionColumns <- MCColumns
  SpotColumns <- MCSpots
  Delta <- MCDelta
  Unsolved = Unsolved
  Targets = {20}
  Reach = 1
  SessionEnd = 2
  NumSessions = 2
  Expires = 8
  Prices = {0, 1}
  Sides = {0, 1}
  Horizon = 2
  Cutoffs = 2
  MaxObservations = 4
  Instruments <- MCInstruments
  LastTime = 2
  MaxRows = 4
  Dates <- MCWeek
  DayLength = 8
  SessionOpen = 1
  SettleTime = 7
  PrintTimes = {1, 3, 5, 6}
  Plan <- MCPlan
  MaxResumes = 2
INVARIANTS
  CacheIsCurrent
  StepsAreTheTimes
  BarsAreOfTheirPrints
  BarReadingsAreCausal
  ChainIsCausal
  ForwardIsAtTheMoney
  VerdictIsRight
  DailyLoopRepeats
  SeriesOutlivesNoOpen
  MetAtFirstObservation
PROPERTIES
  Replays
CHECK_DEADLOCK FALSE
