SPECIFICATION ClockSpec
CONSTANTS
  Dates <- MCWeek
  DayLength = 8
  SessionOpen = 1
  SettleTime = 7
  PrintTimes = {2, 3, 5, 6}
  Plan <- MCPlan
  MaxResumes = 2
INVARIANTS
  OnTime
CHECK_DEADLOCK FALSE
