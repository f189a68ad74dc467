SPECIFICATION FairSpec
CONSTANTS
  t1 = t1  d1 = d1  d2 = d2  c1 = c1  c2 = c2  m1 = m1  m2 = m2
  Ticket = {t1}
  Device = {d1, d2}
  Searcher = {d2}
  Call = {c1, c2}
  Manager = {m1}
  MaxScans = 2
  MaxFaults = 1
INVARIANTS TypeOK OldestEnters CountIsExact WaitsUntilRecorded
PROPERTIES QueueIsDrained
CHECK_DEADLOCK FALSE
