CONSTANTS
  Alerts = {a}
  Levels = {2, 3}
  MinLevel = 2
  Urgent = 3
  Runs = {r, s}
  InFlight = 2
  Gap = 1
  Hour = 2
  MaxPerHour = 2
  MaxPerEmail = 1
  MaxAttempts = 2
  MaxListed = 1
  MaxFaults = 0
SPECIFICATION Spec
INVARIANT
  RacedRunIsLeftOut
CHECK_DEADLOCK FALSE
