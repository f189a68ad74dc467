SPECIFICATION FairSpec
CONSTANTS
  b1 = b1  h1 = h1  p1 = p1  w1 = w1  x1 = x1
  Payment = {p1, w1}
  Widgets = {w1}
  Tx = {x1}
  Underpaid = {}
  Buyer = {b1}
  Handler = {h1}
  MaxFaults = 1
PROPERTIES DatedIsDecided
CHECK_DEADLOCK FALSE
