SPECIFICATION ArchiveSpec
CONSTANTS
  Contracts <- MCContracts
  Registries <- MCHeld
  OwnLot = 1
  Dates = {1, 2}
  Times = {1, 2}
  Torn = Torn
  Unparsable = Unparsable
  MaxFiles = 2
  MaxRows = 3
  Listed <- MCListed
  Foreign <- MCForeign
  FileDates = {1, 2}
  FileTimes = {1, 2}
  FilePrices = {1, 2}
  MaxPrinted = 3
  MaxDayFiles = 2
  WordBits = 6
  ByteBits = 3
  Block = 2
  Values <- MCValues
  MaxLength = 4
  DateOf <- MCDates
  Blobs = 1
  MaxRuns = 2
  MaxScans = 1
  MaxDamage = 1
INVARIANTS
  LoadedAsPrinted
  ReloadedAsWritten
  EveryFileAccountedFor
  RoundTrip
  ServedAsOpened
  HalfDaysWereAbandoned
  CleanRunLeavesDays
  ForcedRunRepairs
PROPERTIES
  UnforcedRunKeepsDays
CHECK_DEADLOCK FALSE
