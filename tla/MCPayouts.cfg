SPECIFICATION FairSpec
CONSTANTS
  b1 = b1  p1 = p1  k1 = k1  k2 = k2
  Payout = {b1, p1}
  Bank = {b1}
  Task = {k1, k2}
  Batch = 2
  MaxFaults = 1
INVARIANTS TypeOK SentStaysDebited StatusIsTrue
PROPERTIES HandedIsConcluded
CHECK_DEADLOCK FALSE
