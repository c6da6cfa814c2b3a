CONSTANTS
  Alerts = {a}
  Levels = {2, 3, 4}
  MinLevel = 2
  Urgent = 4
  Runs = {r}
  InFlight = 1
  Gap = 1
  Hour = 2
  MaxPerHour = 2
  MaxPerEmail = 1
  MaxAttempts = 1
  MaxListed = 1
  MaxFaults = 2
SPECIFICATION FairSpec
INVARIANTS
  OncePerLevel
  NonUrgentSpaced
PROPERTY
  AlertsGoOut
CHECK_DEADLOCK FALSE
