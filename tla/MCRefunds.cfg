SPECIFICATION FairSpec
CONSTANTS
  a1 = a1  f1 = f1  k1 = k1  k2 = k2
  Order = {a1, f1}
  Free = {f1}
  Price <- MCPrice
  Fee <- MCFee
  Kkiapay = {a1}
  Bictorys = {}
  Amounts = {1}
  Task = {k1, k2}
  MaxRows = 2
  MaxFaults = 1
INVARIANTS TypeOK WithinPaid RefundedIsVoid RevertedIsWhole CompletionIsTrue
  ListedIsDecided
PROPERTIES KkiapayIsConcluded
CHECK_DEADLOCK FALSE
