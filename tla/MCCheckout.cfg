SPECIFICATION FairSpec
CONSTANTS
  o1 = o1  o2 = o2  f1 = f1
  t1 = t1
  p1 = p1  p2 = p2  p3 = p3
  r1 = r1  r2 = r2
  Order = {o1, o2}
  TicketType = {t1}
  Place = {p1, p2}
  OrderOf <- MCOrderOf
  TypeOf <- MCTypeOf
  Free = {}
  Request = {r1}
  Totals = {1, 2}
  MaxAborts = 1
INVARIANTS NoOversell NoPhantomReservation ServedOnceWhenPaid
PROPERTY LapsedReleasedUnlessDrift
CHECK_DEADLOCK FALSE
