CONSTANTS
  Workers = {w1, w2}
  ManualTasks = {}
  ScheduledTasks = {s1, s2}
  Contents = {a, b}
  Vantages = {v1}
  a = a
  b = b
  blank = blank
  None = None
  Blank <- OnlyBlank
  Suspect <- NoPages
  Replaced <- NoPages
  MaxAttempts = 1
  MaxStalls = 1
  MaxEdits = 1
SPECIFICATION Spec
INVARIANT
  ChangeShownOnce
SYMMETRY Interchangeable
CHECK_DEADLOCK FALSE
