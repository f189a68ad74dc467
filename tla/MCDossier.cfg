SPECIFICATION Spec
CONSTANTS
  selfie = selfie  rccm = rccm  u1 = u1  u2 = u2  r1 = r1  s1 = s1  s2 = s2
  DocumentType = {selfie, rccm}
  Personal = {selfie}
  Upload = {u1, u2}
  Reviewer = {r1}
  Submission = {s1, s2}
  MaxDocs = 2
  MaxFaults = 1
INVARIANTS TypeOK NeverAsleep DecidedIsPurged StatusesAgree
CHECK_DEADLOCK FALSE
