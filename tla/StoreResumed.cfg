SPECIFICATION Spec
CONSTANTS
  DateOf <- MCDates
  Blobs = 0
  MaxRuns = 2
  MaxScans = 0
  MaxDamage = 0
INVARIANTS
  Resumable
CHECK_DEADLOCK FALSE
