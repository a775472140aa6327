SPECIFICATION Spec
CONSTANTS
  m1 = m1
  d1 = d1
  c1 = c1
  c2 = c2
  r1 = r1
  r2 = r2
  Members = {m1}
  Deposits = {d1}
  Changes = {c1, c2}
  Requests = {r1, r2}
  Periods <- TwoPeriods
  Amounts <- SomeAmounts
  Tenors <- SomeTenors
  Fees <- TwoFees
  AnnualRate <- HighRate
  OpeningAccount <- OneSaved
  MonthlyFee = 1
  MaxOverlaps = 1
CONSTRAINT OneChangeOverlaps
SYMMETRY Overlapping
INVARIANTS
  AllBooked
  DepositsInOrder
  FeesAreDue
  CollectionEnds
  ReviewIsOpen
PROPERTY CompletedStays
CHECK_DEADLOCK FALSE
