SPECIFICATION Spec
CONSTANTS
  a = a  b = b  e1 = e1  e2 = e2  r1 = r1  r2 = r2  k1 = k1
  Order = {a, b}
  Event = {e1, e2}
  EventOf <- MCEventOf
  Gross <- MCGross
  Platform <- MCPlatform
  Operator <- MCOperator
  BuyerFee <- MCBuyerFee
  Requester = {r1, r2}
  Officer = {k1}
  MinPayout = 1
  Horizon = 2
  MaxEdits = 2
INVARIANTS HeldUntilDue
CHECK_DEADLOCK FALSE
