SPECIFICATION Spec
CONSTANTS
  l1 = l1
  l2 = l2
  r1 = r1
  r2 = r2
  Loans = {l1}
  Requests = {r1, r2}
  LoanTypes <- ExcessOnly
  Amounts <- Small
  MaxTenor = 1
  InitialFund = 3
SYMMETRY RequestSymmetry
INVARIANTS
  TypeOK
  PayoutIsSigned
  PaidOutOnce
  ScheduleIffAuthorized
CHECK_DEADLOCK FALSE
