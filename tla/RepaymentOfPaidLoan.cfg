SPECIFICATION Spec
CONSTANTS
  l1 = l1
  l2 = l2
  k1 = k1
  k2 = k2
  r1 = r1
  r2 = r2
  Loans = {l1}
  Repayments = {k1, k2}
  Requests = {r1}
  LastPeriod = 2
  Tenor = 2
  Total = 3
  MaxOverlaps = 0
PROPERTY OnlyDisbursedIsRepaid
CHECK_DEADLOCK FALSE
