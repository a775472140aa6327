--------------------------- MODULE SavingsAccount ---------------------------
(***************************************************************************)
(* The rows every service that moves a member's savings works on: the      *)
(* savings account and the savings transactions that explain it.  A        *)
(* transaction belongs to a payroll period (one per member and period, a   *)
(* payslip) or to none (a debit: a withdrawal or a fee).                   *)
(***************************************************************************)
EXTENDS Sums, Sequences

CONSTANTS
  Members,          \* members with a savings account
  Periods,          \* payroll periods, the months 1, 2, ...
  AnnualRate,       \* the setting deposit_interest_rate, in percent
  MonthlyFee,       \* the setting monthly_membership_fee
  OpeningAccount    \* the account of each member at the start

AccountRow == [pokok: Nat, wajib: Nat, sukarela: Int, bunga: Int]

ASSUME SavingsAssumption ==
  /\ Periods \subseteq Nat /\ IsFiniteSet(Periods)
  /\ AnnualRate \in Nat
  /\ MonthlyFee \in Nat
  /\ OpeningAccount \in AccountRow /\ OpeningAccount.sukarela >= 0

\* The columns of a payroll transaction; all zero where there is no row yet.
Payslip == [iuranPendaftaran: Nat, iuranBulanan: Nat, tabunganDeposito: Nat,
            bunga: Int]

NoPayslip == [iuranPendaftaran |-> 0, iuranBulanan |-> 0,
              tabunganDeposito |-> 0, bunga |-> 0]

VARIABLES
  account,   \* savings_accounts
  payslip,   \* savings_transactions with a payroll period
  debits     \* savings_transactions without one, in the order of creation

savingsVars == <<account, payslip, debits>>

SavingsInit ==
  /\ account = [m \in Members |-> OpeningAccount]
  /\ payslip = [m \in Members |-> [p \in Periods |-> NoPayslip]]
  /\ debits = [m \in Members |-> <<>>]

-----------------------------------------------------------------------------
Total(a) == a.pokok + a.wajib + a.sukarela

\* A month's interest, toFixed(0): halves are rounded away from zero.
Interest(total) ==
  LET rounded(t) == (t * AnnualRate + 600) \div 1200
  IN  IF total >= 0 THEN rounded(total) ELSE -rounded(-total)

\* Payroll pays a part of the entrance fee, the monthly fee and a month of the
\* deposit into an account, then adds the interest on what is there.
MonthInterest(a) == IF Total(a) <= 0 THEN 0 ELSE Interest(Total(a))

PaidIn(a, entrance, deposit) ==
  [a EXCEPT !.pokok = @ + entrance, !.wajib = @ + MonthlyFee,
            !.sukarela = @ + deposit]

\* Mutant: the interest is calculated before the payment is booked.
AccountAfterEarlyInterest(a, entrance, deposit) ==
  [PaidIn(a, entrance, deposit) EXCEPT !.bunga = @ + MonthInterest(a)]

AccountAfter(a, entrance, deposit) ==
  LET b == PaidIn(a, entrance, deposit)
  IN  [b EXCEPT !.bunga = @ + MonthInterest(b)]

\* Mutant: a second run of the period overwrites what the first has booked.
PayslipAfterOverwriting(s, a, entrance, deposit) ==
  [s EXCEPT !.iuranPendaftaran = entrance, !.iuranBulanan = MonthlyFee,
            !.tabunganDeposito = deposit,
            !.bunga = MonthInterest(PaidIn(a, entrance, deposit))]

\* The payslip s of account a: the entrance fee and the deposit are added, the
\* monthly fee and the interest are set.
PayslipAfter(s, a, entrance, deposit) ==
  LET b == PaidIn(a, entrance, deposit)
  IN  [s EXCEPT !.iuranPendaftaran = @ + entrance,
                !.iuranBulanan = MonthlyFee,
                !.tabunganDeposito = @ + deposit,
                !.bunga = IF Total(b) <= 0 THEN @ ELSE MonthInterest(b)]

\* Mutant: the balance is written, not decremented.
WriteBalance(m, seen, amount, ref) ==
  LET interest == Interest(Total(seen) - amount)
  IN  /\ account' = [account EXCEPT ![m].sukarela = seen.sukarela - amount,
                                    ![m].bunga = interest]
      /\ debits' = [debits EXCEPT ![m] = Append(@,
           [penarikan |-> amount, bunga |-> interest - seen.bunga, ref |-> ref])]
      /\ UNCHANGED payslip

\* Mutant: the transaction does not take the old interest off.
BookNewInterest(m, seen, amount, ref) ==
  LET interest == Interest(Total(seen) - amount)
  IN  /\ account' = [account EXCEPT ![m].sukarela = @ - amount,
                                    ![m].bunga = interest]
      /\ debits' = [debits EXCEPT ![m] = Append(@,
           [penarikan |-> amount, bunga |-> interest, ref |-> ref])]
      /\ UNCHANGED payslip

\* A withdrawal or a fee: the balance is decremented by the database, the
\* interest is replaced by one computed from the account as it was read, and
\* a transaction tells the difference.
Debit(m, seen, amount, ref) ==
  LET interest == Interest(Total(seen) - amount)
  IN  /\ account' = [account EXCEPT ![m].sukarela = @ - amount,
                                    ![m].bunga = interest]
      /\ debits' = [debits EXCEPT ![m] = Append(@,
           [penarikan |-> amount, bunga |-> interest - seen.bunga, ref |-> ref])]
      /\ UNCHANGED payslip

-----------------------------------------------------------------------------
OverPeriods(m, column(_)) ==
  SumOf([p \in Periods |-> column(payslip[m][p])])

OverDebits(m, column(_)) ==
  SumOf([i \in DOMAIN debits[m] |-> column(debits[m][i])])

\* A member's voluntary savings are what the transactions paid in and took
\* out: the database increments and decrements the balance in the transaction
\* that books the row, so this holds however requests overlap.
SavingsBooked ==
  \A m \in Members :
    account[m].sukarela = OpeningAccount.sukarela
      + OverPeriods(m, LAMBDA row : row.tabunganDeposito)
      - OverDebits(m, LAMBDA row : row.penarikan)

\* The principal savings are the parts of the entrance fee that payslips show.
PrincipalBooked ==
  \A m \in Members :
    account[m].pokok = OpeningAccount.pokok
      + OverPeriods(m, LAMBDA row : row.iuranPendaftaran)

\* The mandatory savings are the monthly fees that payslips show: a member
\* pays one fee for a month.
MandatoryBooked ==
  \A m \in Members :
    account[m].wajib = OpeningAccount.wajib
      + OverPeriods(m, LAMBDA row : row.iuranBulanan)

\* The accrued interest is the sum of what the transactions booked, although
\* payroll adds to it and every debit replaces it.
InterestBooked ==
  \A m \in Members :
    account[m].bunga = OpeningAccount.bunga
      + OverPeriods(m, LAMBDA row : row.bunga)
      + OverDebits(m, LAMBDA row : row.bunga)

=============================================================================
