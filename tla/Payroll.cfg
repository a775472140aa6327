SPECIFICATION Spec
CONSTANTS
  m1 = m1
  m2 = m2
  r1 = r1
  r2 = r2
  Members = {m1}
  Runs = {r1, r2}
  Periods <- TwoPeriods
  Forcing <- Always
  Deletable <- TwoPeriods
  AnnualRate <- HighRate
  OpeningAccount <- Empty
  MonthlyFee = 1
  EntranceFee = 2
  DepositAmount = 1
  DepositTenor = 2
  MaxFees = 4
SYMMETRY Overlapping
INVARIANTS
  ChargesExact
  PaymentsExplained
  MonthChargedOnce
CHECK_DEADLOCK FALSE
