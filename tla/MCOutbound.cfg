SPECIFICATION FairSpec
CONSTANTS
  k1 = k1  k2 = k2
  Key = {k1, k2}
  Confirmation = {k1}
  Mail = {k2}
  Text = {k1, k2}
  Note = {n1, n2}
  Log = {l1, l2}
  Calls = 2
  Batch = 1
  MaxRefusals = 1
  MaxFaults = 1
INVARIANTS TypeOK NothingBeforeCommit SentOnce
PROPERTIES PendingIsSent
CHECK_DEADLOCK FALSE
