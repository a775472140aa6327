------------------------------ MODULE Payroll ------------------------------
(***************************************************************************)
(* Payroll and the members' savings (payroll.service.ts and the membership *)
(* fee, mandatory savings, deposit savings and interest processors): what  *)
(* processPayroll, started by the daily job or by hand, with force or      *)
(* without, and deletePeriod do to the accounts, the entrance fees and the *)
(* deposits.  The loans that payroll collects are in LoanRepayment.        *)
(*                                                                         *)
(* Two runs for the same rows wait for each other at the first row both    *)
(* write; before that only the member applications have been read.  So a   *)
(* run looks at its period, reads the applications, and does the rest in   *)
(* one step.                                                               *)
(***************************************************************************)
EXTENDS SavingsAccount

CONSTANTS
  Runs,            \* slots of runs of payroll under way at the same time
  Forcing,         \* the values of force that runs are started with
  Deletable,       \* the periods that are deleted
  EntranceFee,     \* simpanan pokok
  DepositAmount,   \* what a deposit brings each month
  DepositTenor,    \* and for how many months
  MaxFees          \* bound: no run starts when a member has paid so many fees

ASSUME PayrollAssumption ==
  /\ Forcing \subseteq BOOLEAN
  /\ Deletable \subseteq Periods
  /\ EntranceFee \in Nat /\ EntranceFee % 2 = 0
  /\ DepositAmount \in Nat
  /\ DepositTenor \in Nat \ {0}
  /\ MaxFees \in Nat

Plans == {1, 2}

ApplicationRow ==
  [status: {"APPROVED"}, from: Periods, plan: Plans,
   paidAmount: Nat, remainingAmount: Nat, isPaidOff: BOOLEAN]

NotApproved == [status |-> "UNDER_REVIEW_KETUA", isPaidOff |-> FALSE]

DepositRow ==
  [status: {"APPROVED", "ACTIVE", "COMPLETED"}, from: Periods,
   count: 0 .. DepositTenor, collected: Nat]

NoDeposit == [status |-> "UNDER_REVIEW_KETUA"]

VARIABLES
  application,   \* member_applications
  deposit,       \* deposit_applications, one for each member
  period,        \* payroll_periods: no row, a row, or a row with isProcessed
  run,           \* the runs of payroll under way and what they have read
  irregular      \* history: what has happened that makes a month special

payrollVars == <<application, deposit, period, run, irregular>>

vars == <<savingsVars, payrollVars>>

Idle == [op |-> "IDLE"]

RunRow ==
  [op: {"CHECKED"}, period: Periods] \cup
  [op: {"READ"}, period: Periods, seen: [Members -> {NotApproved} \cup ApplicationRow]]

TypeOK ==
  /\ account \in [Members -> AccountRow]
  /\ payslip \in [Members -> [Periods -> Payslip]]
  /\ debits = [m \in Members |-> <<>>]
  /\ application \in [Members -> {NotApproved} \cup ApplicationRow]
  /\ deposit \in [Members -> {NoDeposit} \cup DepositRow]
  /\ period \in [Periods -> {"NONE", "OPEN", "PROCESSED"}]
  /\ run \in [Runs -> {Idle} \cup RunRow]
  /\ irregular \in SUBSET {"OVERLAP", "FORCE", "DELETE"}

Init ==
  /\ SavingsInit
  /\ application = [m \in Members |-> NotApproved]
  /\ deposit = [m \in Members |-> NoDeposit]
  /\ period = [p \in Periods |-> "NONE"]
  /\ run = [r \in Runs |-> Idle]
  /\ irregular = {}

-----------------------------------------------------------------------------
\* The last approval of a membership, before the cutoff of period p: the user
\* becomes a verified member and gets a savings account.
ApproveMember(m, plan, p) ==
  /\ application[m] = NotApproved
  /\ application' = [application EXCEPT ![m] =
       [status |-> "APPROVED", from |-> p, plan |-> plan, paidAmount |-> 0,
        remainingAmount |-> EntranceFee, isPaidOff |-> FALSE]]
  /\ UNCHANGED <<savingsVars, deposit, period, run, irregular>>

Verified(m) == application[m].status = "APPROVED"

\* The last approval of a deposit, before the cutoff of period p.
ApproveDeposit(m, p) ==
  /\ Verified(m)
  /\ deposit[m] = NoDeposit
  /\ deposit' = [deposit EXCEPT ![m] =
       [status |-> "APPROVED", from |-> p, count |-> 0, collected |-> 0]]
  /\ UNCHANGED <<savingsVars, application, period, run, irregular>>

-----------------------------------------------------------------------------
FeesBounded == \A m \in Members : account[m].wajib < MaxFees * MonthlyFee

\* Two runs are under way at once, or a month that was processed is run again.
NoteRun(p) ==
  irregular' = irregular
    \cup (IF \E r \in Runs : run[r] # Idle THEN {"OVERLAP"} ELSE {})
    \cup (IF period[p] = "PROCESSED" THEN {"FORCE"} ELSE {})

\* The period is looked up, and created or reset, outside the transaction.
BeginRun(r, p, force) ==
  /\ run[r] = Idle
  /\ FeesBounded
  /\ force \/ period[p] # "PROCESSED"
  /\ period' = [period EXCEPT ![p] = "OPEN"]
  /\ run' = [run EXCEPT ![r] = [op |-> "CHECKED", period |-> p]]
  /\ NoteRun(p)
  /\ UNCHANGED <<savingsVars, application, deposit>>

ReadApplications(r) ==
  /\ run[r].op = "CHECKED"
  /\ run' = [run EXCEPT ![r] =
       [op |-> "READ", period |-> run[r].period, seen |-> application]]
  /\ UNCHANGED <<savingsVars, application, deposit, period, irregular>>

\* Mutant: the second installment of the fee is the whole fee.
DeductionWholeFee(a) ==
  IF a.plan = 2 /\ a.paidAmount = 0 THEN EntranceFee \div 2 ELSE EntranceFee

\* calculateDeduction: all at once, or one half and then what remains.
Deduction(a) ==
  IF a.plan = 2 /\ a.paidAmount = 0 THEN EntranceFee \div 2 ELSE a.remainingAmount

\* Of the applications that were read, those that payroll p charges.
Charged(a, p) ==
  /\ a.status = "APPROVED"
  /\ ~a.isPaidOff
  /\ a.from <= p

FeeOf(a, p) == IF Charged(a, p) THEN Deduction(a) ELSE 0

\* Mutant: the remaining amount is not brought up to date.
ApplicationAfterUnreduced(a, p) ==
  IF ~Charged(a, p) THEN a
  ELSE [a EXCEPT !.paidAmount = @ + Deduction(a),
                 !.remainingAmount = EntranceFee - 2 * Deduction(a)]

ApplicationAfter(a, p) ==
  IF ~Charged(a, p) THEN a
  ELSE LET remaining == a.remainingAmount - Deduction(a)
       IN  [a EXCEPT !.paidAmount = @ + Deduction(a),
                     !.remainingAmount = IF remaining < 0 THEN 0 ELSE remaining,
                     !.isPaidOff = remaining <= 0]

DepositDue(m, p) ==
  /\ deposit[m].status \in {"APPROVED", "ACTIVE"}
  /\ deposit[m].from <= p
  /\ deposit[m].count < DepositTenor

DepositOf(m, p) == IF DepositDue(m, p) THEN DepositAmount ELSE 0

\* Mutant: the installment before the last completes the deposit.
DepositAfterEarly(m, p) ==
  IF ~DepositDue(m, p) THEN deposit[m]
  ELSE [deposit[m] EXCEPT
          !.status = IF deposit[m].count + 2 >= DepositTenor THEN "COMPLETED"
                                                             ELSE "ACTIVE",
          !.count = @ + 1, !.collected = @ + DepositAmount]

DepositAfter(m, p) ==
  IF ~DepositDue(m, p) THEN deposit[m]
  ELSE [deposit[m] EXCEPT
          !.status = IF deposit[m].count + 1 >= DepositTenor THEN "COMPLETED"
                                                             ELSE "ACTIVE",
          !.count = @ + 1, !.collected = @ + DepositAmount]

\* The transaction.  Entrance fees come from the applications as they were
\* read, which are also written back; everything else is read now.
CommitRun(r) ==
  LET p == run[r].period
      seen == run[r].seen
      fee(m) == FeeOf(seen[m], p)
  IN  /\ run[r].op = "READ"
      /\ account' = [m \in Members |->
           IF Verified(m) THEN AccountAfter(account[m], fee(m), DepositOf(m, p))
                          ELSE account[m]]
      /\ payslip' = [m \in Members |->
           IF Verified(m)
           THEN [payslip[m] EXCEPT ![p] =
                  PayslipAfter(@, account[m], fee(m), DepositOf(m, p))]
           ELSE payslip[m]]
      /\ application' = [m \in Members |->
           IF Charged(seen[m], p) THEN ApplicationAfter(seen[m], p)
                                  ELSE application[m]]
      /\ deposit' = [m \in Members |-> DepositAfter(m, p)]
      /\ period' = [period EXCEPT ![p] = "PROCESSED"]
      /\ run' = [run EXCEPT ![r] = Idle]
      /\ UNCHANGED <<debits, irregular>>

\* The transaction rolls back (an error, the timeout, a deadlock) or the
\* process dies; the period stays as it was left outside the transaction.
FailRun(r) ==
  /\ run[r] # Idle
  /\ run' = [run EXCEPT ![r] = Idle]
  /\ UNCHANGED <<savingsVars, application, deposit, period, irregular>>

\* deletePeriod deletes the payslips of the period and nothing else; a run for
\* the period that is under way fails for want of it.
DeletePeriod(p) ==
  /\ period[p] # "NONE"
  /\ period' = [period EXCEPT ![p] = "NONE"]
  /\ payslip' = [m \in Members |-> [payslip[m] EXCEPT ![p] = NoPayslip]]
  /\ run' = [r \in Runs |->
       IF run[r] # Idle /\ run[r].period = p THEN Idle ELSE run[r]]
  /\ irregular' = irregular \cup {"DELETE"}
  /\ UNCHANGED <<account, debits, application, deposit>>

-----------------------------------------------------------------------------
Next ==
  \/ \E m \in Members, p \in Periods :
       \/ \E plan \in Plans : ApproveMember(m, plan, p)
       \/ ApproveDeposit(m, p)
  \/ \E r \in Runs :
       \/ \E p \in Periods, force \in Forcing : BeginRun(r, p, force)
       \/ ReadApplications(r)
       \/ CommitRun(r)
       \/ FailRun(r)
  \/ \E p \in Deletable : DeletePeriod(p)

Spec == Init /\ [][Next]_vars

-----------------------------------------------------------------------------
\* A deposit is completed by its last installment, and what it has collected
\* is so many times its amount; no installment is taken beyond the tenor,
\* however often a month is run.
DepositExact ==
  \A m \in Members :
    deposit[m] # NoDeposit =>
      /\ deposit[m].collected = DepositAmount * deposit[m].count
      /\ deposit[m].count = DepositTenor <=> deposit[m].status = "COMPLETED"

\* The entrance fee is charged once, at once or in two halves, also when months
\* are forced or deleted and run again: the principal savings are what the
\* application says was paid, and that and what remains make up the fee.
EntranceFeeExact ==
  "OVERLAP" \notin irregular =>
    \A m \in Members :
      Verified(m) =>
        /\ account[m].pokok = OpeningAccount.pokok + application[m].paidAmount
        /\ application[m].paidAmount + application[m].remainingAmount = EntranceFee
        /\ application[m].isPaidOff => application[m].remainingAmount = 0

\* What payroll collects is exact: neither more nor less than was agreed.
ChargesExact == DepositExact /\ EntranceFeeExact

\* However months are forced and runs overlap, the payslips explain what was
\* paid into the principal and the voluntary savings, and rows keep their types.
PaymentsExplained ==
  /\ TypeOK
  /\ "DELETE" \notin irregular => PrincipalBooked /\ SavingsBooked

\* A month that is run once, however often that fails, is charged once.
MonthChargedOnce == irregular = {} => MandatoryBooked /\ InterestBooked

=============================================================================
