CONSTANTS
  Workers = {w1, w2}
  ManualTasks = {}
  ScheduledTasks = {s1, s2, s3}
  Contents = {a, b}
  Vantages = {v1, v2}
  v1 = v1
  a = a
  b = b
  blank = blank
  None = None
  Blank <- OnlyBlank
  Suspect <- PricesVanish
  Replaced <- LayoutChanges
  MaxAttempts = 1
  MaxStalls = 0
  MaxEdits = 2
SPECIFICATION LaneSpec
INVARIANTS
  ValidatorsMatchLatest
  StreakIsRecorded
  ReportedOnceWhenSerial
PROPERTIES
  ImplementsLedger
  NotModifiedAnswersLatest
SYMMETRY Interchangeable
CHECK_DEADLOCK FALSE
