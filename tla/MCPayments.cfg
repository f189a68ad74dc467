SPECIFICATION Spec
CONSTANTS
  b1 = b1  h1 = h1  p1 = p1  w1 = w1  x1 = x1  x2 = x2
  Payment = {p1, w1}
  Widgets = {w1}
  Tx = {x1, x2}
  Underpaid = {}
  Buyer = {b1}
  Handler = {h1}
  MaxFaults = 0
INVARIANTS TypeOK  OwnTransactions  
 
SYMMETRY Symmetry
CHECK_DEADLOCK FALSE
