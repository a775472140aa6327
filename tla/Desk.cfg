SPECIFICATION Spec
CONSTANTS
  l1 = l1
  l2 = l2
  r1 = r1
  r2 = r2
  Loans = {l1, l2}
  Requests = {r1, r2}
  Offered = {"CASH_LOAN", "GOODS_ONLINE"}
  Amounts = {1000, 2503}
  Tenors = {2, 3}
  AllSettings <- BothSettings
  MaxNumbers = 2
  MaxOverlaps = 1
SYMMETRY Slots
INVARIANTS
  NumbersAdvance
  TermsInOrder
CHECK_DEADLOCK FALSE
