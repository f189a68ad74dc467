SPECIFICATION Spec
CONSTANTS
  o1 = o1  f1 = f1
  t1 = t1  t2 = t2
  p1 = p1  p2 = p2  p3 = p3
  r1 = r1  r2 = r2
  Order = {o1, f1}
  TicketType = {t1, t2}
  Place = {p1, p2, p3}
  OrderOf <- MCOrderOf
  TypeOf <- MCTypeOf
  Free = {f1}
  Request = {r1, r2}
  Totals = {1, 2}
  MaxAborts = 0
SYMMETRY RequestSymmetry
INVARIANTS TypeOK
PROPERTY OfficeSpec
CHECK_DEADLOCK FALSE
