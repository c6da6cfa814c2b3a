CONSTANTS
  Requests = {r1, r2}
  Workers = {w1, w2}
  None = None
  MaxStalls = 1
  LocksHold = FALSE
SPECIFICATION FairSpec
PROPERTIES
  ImplementsRow
  RowSettles
CHECK_DEADLOCK FALSE
