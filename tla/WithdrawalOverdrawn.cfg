SPECIFICATION Spec
CONSTANTS
  m1 = m1
  m2 = m2
  w1 = w1
  w2 = w2
  r1 = r1
  r2 = r2
  c1 = c1
  Members = {m1}
  Withdrawals = {w1, w2}
  Requests = {r1, r2}
  Periods = {1}
  Amounts <- Big
  Changes = {}
  Depositor <- OfTheFirst
  Fees <- Small
  AnnualRate <- HighRate
  OpeningAccount <- TwoSaved
  DepositAmount = 2
  MonthlyFee = 1
SYMMETRY Overlapping
INVARIANT NeverOverdrawn
CHECK_DEADLOCK FALSE
