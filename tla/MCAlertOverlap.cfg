CONSTANTS
  Alerts = {a, b}
  Levels = {2}
  MinLevel = 2
  Urgent = 3
  Runs = {r, s}
  InFlight = 1
  Gap = 1
  Hour = 2
  MaxPerHour = 1
  MaxPerEmail = 2
  MaxAttempts = 1
  MaxListed = 2
  MaxFaults = 0
SPECIFICATION Spec
INVARIANTS
  CapWithOverlap
  SentWasReceived
  RowsAreOwned
SYMMETRY Interchangeable
CHECK_DEADLOCK FALSE
