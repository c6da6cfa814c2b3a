CONSTANTS
  Workers = {w1,w2}
  ManualTasks = {m1}
  ScheduledTasks = {s1}
  Contents = {a, blank}
  Vantages = {v1,v2}
  a = a
  b = b
  blank = blank
  None = None
  Blank <- OnlyBlank
  Suspect <- NoPages
  Replaced <- NoPages
  MaxAttempts = 3
  MaxStalls = 1
  MaxEdits = 1
SPECIFICATION RedeliverySpec
INVARIANT
  OutcomeRecordedOnce
PROPERTY
  RowsSettle
CHECK_DEADLOCK FALSE
