SPECIFICATION FundSpec
CONSTANTS
  r1 = r1
  r2 = r2
  Requests = {r1, r2}
  Amounts <- Small
  LoanAmounts <- One
  MaxRows = 3
  MaxBalance = 3
SYMMETRY Overlapping
INVARIANTS
  FundTypeOK
  BalanceIsLedger
  OfficersRunningBalances
CHECK_DEADLOCK FALSE
