CONSTANTS
  Jobs = {j1, j2}
  Cadences = {4, 6}
  Base = 1
  FloorMax = 2
  CapMin = 5
  MaxExponent = 3
  AfterDays = 7
  MinFailures = 3
  MaxAge = 8
  MaxFails = 4
  MaxEdits = 2
  MaxFaults = 1
SPECIFICATION FairSpec
PROPERTIES
  KeepsWatching
  FailingIsStopped
  PauseIsNotAStop
CHECK_DEADLOCK FALSE
