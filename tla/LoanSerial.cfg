SPECIFICATION Spec
CONSTANTS
  l1 = l1
  l2 = l2
  r1 = r1
  r2 = r2
  Loans = {l1, l2}
  Requests = {r1}
  LoanTypes <- ExcessAndPhone
  Amounts <- Small
  MaxTenor = 2
  InitialFund = 3
INVARIANTS
  ReviewConsistent
  LedgerBalances
PROPERTIES
  DecidedStepsStay
  ImplementsWorkflow
CHECK_DEADLOCK FALSE
