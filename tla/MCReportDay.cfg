CONSTANTS
  None = None
  MaxStalls = 1
  Days = 2
  Changes = {e1, e2}
  ReportSlots = {w1}
  MaxAttempts = 3
  MaxFaults = 0
SPECIFICATION ReportSpec
INVARIANT CoversItsDay
CHECK_DEADLOCK FALSE
