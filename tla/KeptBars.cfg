SPECIFICATION ClockSpec
CONSTANTS
  Dates <- MCWeek
  DayLength = 8
  SessionOpen = 1
  SettleTime = 7
  PrintTimes = {1, 3, 5, 6}
  Plan <- MCPlan
  MaxResumes = 2
INVARIANTS
  BarsOfTheDay
CHECK_DEADLOCK FALSE
