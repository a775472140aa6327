-------------------------- MODULE LoanCalculation ---------------------------
(***************************************************************************)
(* What a loan costs and whether a request is within the limits            *)
(* (loan-calculation.service.ts, loan-validation.service.ts and the        *)
(* handlers of the loan types).  Amounts are integers of the smallest unit *)
(* the code rounds to; rates are percentages.                              *)
(***************************************************************************)
EXTENDS Integers

LoanTypes == {"CASH_LOAN", "GOODS_ONLINE", "GOODS_PHONE", "EXCESS_LOAN"}

\* Math.round of a quotient: to the nearest integer, halves upwards.
RoundedQuotient(n, d) == (2 * n + d) \div (2 * d)

\* Yearly interest for the months of the tenor.
TotalInterest(amount, tenor, rate) == RoundedQuotient(amount * rate * tenor, 1200)

MarginAmount(amount, margin) == RoundedQuotient(amount * margin, 100)

NoTerms == [rate |-> 0, total |-> 0, installment |-> 0]

\* Excess loans are free of interest, goods bought online bear a margin.
TotalRepayment(type, amount, tenor, rate, margin) ==
  CASE type = "EXCESS_LOAN" -> amount
    [] type = "GOODS_ONLINE" ->
         amount + MarginAmount(amount, margin) + TotalInterest(amount, tenor, rate)
    [] OTHER -> amount + TotalInterest(amount, tenor, rate)

\* Mutant: what is left of the division is not charged.
MonthlyInstallmentCut(total, tenor) == total \div tenor

MonthlyInstallment(total, tenor) == RoundedQuotient(total, tenor)

\* calculateLoanDetails with the rates of setting s.
LoanDetails(s, type, amount, tenor) ==
  LET total == TotalRepayment(type, amount, tenor, s.rate, s.margin)
  IN  [rate |-> IF type = "EXCESS_LOAN" THEN 0 ELSE s.rate,
       total |-> total,
       installment |-> MonthlyInstallment(total, tenor)]

-----------------------------------------------------------------------------
\* validateLoanAmount of the type's handler: cash is limited by the plafond
\* of the employee's class, goods by a setting, excess loans by the fund.
ValidLoanAmount(s, type, amount) ==
  CASE type = "CASH_LOAN" -> s.min <= amount /\ amount <= s.plafond
    [] type = "EXCESS_LOAN" -> 0 < amount /\ amount <= s.fund
    [] type = "GOODS_PHONE" -> TRUE
    [] OTHER -> s.min <= amount /\ amount <= s.maxGoods

ValidLoanTenor(s, tenor) == 1 <= tenor /\ tenor <= s.maxTenor

=============================================================================
