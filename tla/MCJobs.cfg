CONSTANTS
  None = None
  MaxStalls = 1
  Requests = {q1, q2}
  Workers = {w1, w2}
  LocksHold = TRUE
  Asks = {a1, a2, a3}
  DigestSlots = {w1, w2}
  Checks = {k1, k2}
  CheckSlots = {w1}
  Pages = {p1, p2}
  p1 = p1
  a1 = a1
  a2 = a2
  a3 = a3
  k1 = k1
  k2 = k2
  MaxBatch = 1
  MaxScans = 2
  Days = 2
  Changes = {e1, e2}
  ReportSlots = {w1, w2}
  MaxAttempts = 2
  MaxFaults = 1
  MaxPolls = 2
  MaxSent = 4
  Urls = {u1, u2}
  u1 = u1
  Lone = {}
  Cadence = 3
  Tick = 4
  Bucket = 2
  Spacing = 2
  Jitter = 2
  MaxDelay = 3
  Slots = 1
  Tries = 2
  MaxFailures = 2
  MaxUpsets = 1
  Horizon = 4
SPECIFICATION JobsSpec
INVARIANTS
  JobsTypeOK
  ReportsAgree
  BusyPanelAsks
PROPERTIES
  NoCallForCompleted
  ImplementsSlot
  NothingIsPaidTwice
  FinishedStays
  ScansAreSpaced
CHECK_DEADLOCK FALSE
