--------------------------- MODULE LoanLifecycle ---------------------------
(***************************************************************************)
(* The life of a loan application in the backend's loan services, from the *)
(* draft to the pay-out: createDraft, updateDraft, deleteDraft,            *)
(* submitLoan, reviseLoan, processApproval (approve or reject),            *)
(* processDisbursement and processAuthorization.                           *)
(*                                                                         *)
(* Every handler first reads the loan and checks its guards on what it     *)
(* read, outside any transaction, and then runs one Prisma transaction     *)
(* (PostgreSQL READ COMMITTED) that writes by primary key and checks       *)
(* nothing again.  A request is therefore two steps: Begin... reads and    *)
(* guards, and keeps what it has seen; Commit... is the transaction, whose *)
(* only conditions are those of the database: the rows it updates exist,   *)
(* and the unique columns stay unique.  Requests is the set of requests    *)
(* that may overlap; with one member the handlers never overlap.           *)
(***************************************************************************)
EXTENDS Integers, Sequences, FiniteSets

CONSTANTS
  Loans,        \* ids of the loan applications that can be created
  Requests,     \* slots of HTTP requests in flight at the same time
  LoanTypes,    \* the loan types members ask for
  Amounts,      \* the amounts that pass validateLoanAmount's fixed limits
  MaxTenor,     \* the setting max_loan_tenor
  InitialFund   \* the balance of the social fund at the start

Steps == {"DIVISI_SIMPAN_PINJAM", "KETUA", "PENGAWAS"}

AllTypes == {"CASH_LOAN", "GOODS", "GOODS_PHONE", "EXCESS_LOAN"}

ASSUME ConstantsAssumption ==
  /\ LoanTypes \subseteq AllTypes
  /\ Amounts \subseteq Nat \ {0}
  /\ MaxTenor \in Nat \ {0}
  /\ InitialFund \in Nat

\* enum LoanStatus; NONE: not created yet, DELETED: the row is gone.
Statuses ==
  {"NONE", "DRAFT", "SUBMITTED", "UNDER_REVIEW_DSP", "UNDER_REVIEW_KETUA",
   "UNDER_REVIEW_PENGAWAS", "APPROVED_PENDING_DISBURSEMENT",
   "DISBURSEMENT_IN_PROGRESS", "PENDING_AUTHORIZATION", "DISBURSED",
   "COMPLETED", "REJECTED", "CANCELLED", "DELETED"}

NoStep == "NO_STEP"

Tenors == 1 .. MaxTenor

\* monthlyInstallment, by the amount and the tenor calculateLoanDetails got.
Installment == [amount: Amounts \cup {0}, tenor: Tenors \cup {0}]

NoInstallment == [amount |-> 0, tenor |-> 0]

\* A row of loan_applications with the price column of its goods detail row.
LoanRow ==
  [type: AllTypes, status: Statuses, currentStep: Steps \cup {NoStep},
   amount: Amounts \cup {0}, itemPrice: Amounts \cup {0}, tenor: Tenors,
   installment: Installment]

Decisions == {"NONE", "REVISED", "APPROVED", "REJECTED"}

\* The decisions of the three loan_approvals rows one submission creates.
ApprovalBatch == [Steps -> Decisions]

\* A loan_history row: what was done, and the status it led to.
HistoryRow ==
  [action: {"SUBMITTED", "STATUS_CHANGED", "REVISED", "APPROVED", "REJECTED",
            "DISBURSEMENT_CREATED", "AUTHORIZED_AND_DISBURSED"},
   status: Statuses]

NoSchedule == [count |-> 0, each |-> NoInstallment]

\* The loan_installments rows of a loan: how many there are, and their amount.
ScheduleRow == [count: Tenors \cup {0}, each: Installment]

Ops == {"IDLE", "UPDATE", "DELETE", "SUBMIT", "REVISE", "APPROVE", "REJECT",
        "DISBURSE", "AUTHORIZE"}

NoFundRead == -1

VARIABLES
  loan,         \* loan_applications
  approvals,    \* loan_approvals, one batch per submission
  history,      \* loan_history
  disbursed,    \* loan_disbursements, unique on the loan
  authorized,   \* loan_authorizations, unique on the loan
  schedule,     \* loan_installments
  fund,         \* social_fund_balances.currentBalance
  fundLog,      \* social_fund_transactions of type EXCESS_LOAN_DISBURSEMENT
  request       \* what each request in flight has seen and wants to write

vars == <<loan, approvals, history, disbursed, authorized, schedule, fund,
          fundLog, request>>

rows == <<loan, approvals, history, disbursed, authorized, schedule, fund,
          fundLog>>

\* What a handler keeps between its read and its transaction: the loan row it
\* saw, the approval batch and the input it will write, and, inside the
\* authorization, the balance of the social fund that it read.
RequestRow ==
  [op: Ops \ {"IDLE"}, loan: Loans, seen: LoanRow, batch: Nat,
   amount: Amounts \cup {0}, tenor: Tenors \cup {0},
   fundRead: Nat \cup {NoFundRead}]

Idle == [op |-> "IDLE"]

TypeOK ==
  /\ loan \in [Loans -> LoanRow]
  /\ approvals \in [Loans -> Seq(ApprovalBatch)]
  /\ history \in [Loans -> SUBSET HistoryRow]
  /\ disbursed \in SUBSET Loans
  /\ authorized \in SUBSET Loans
  /\ schedule \in [Loans -> ScheduleRow]
  /\ fund \in Nat
  /\ fundLog \in Seq([loan: Loans, amount: Amounts \cup {0}, balanceAfter: Nat])
  /\ request \in [Requests -> {Idle} \cup RequestRow]

NoLoan ==
  [type |-> "CASH_LOAN", status |-> "NONE", currentStep |-> NoStep,
   amount |-> 0, itemPrice |-> 0, tenor |-> 1, installment |-> NoInstallment]

Init ==
  /\ loan = [l \in Loans |-> NoLoan]
  /\ approvals = [l \in Loans |-> <<>>]
  /\ history = [l \in Loans |-> {}]
  /\ disbursed = {}
  /\ authorized = {}
  /\ schedule = [l \in Loans |-> NoSchedule]
  /\ fund = InitialFund
  /\ fundLog = <<>>
  /\ request = [r \in Requests |-> Idle]

-----------------------------------------------------------------------------
(* Helpers of the approval service.                                        *)

StatusForStep(s) ==
  CASE s = "DIVISI_SIMPAN_PINJAM" -> "UNDER_REVIEW_DSP"
    [] s = "KETUA" -> "UNDER_REVIEW_KETUA"
    [] s = "PENGAWAS" -> "UNDER_REVIEW_PENGAWAS"

\* Mutant: the ketua's step is left out.
NextStepSkippingKetua(s) ==
  IF s = "PENGAWAS" THEN NoStep ELSE "PENGAWAS"

NextStep(s) ==
  CASE s = "DIVISI_SIMPAN_PINJAM" -> "KETUA"
    [] s = "KETUA" -> "PENGAWAS"
    [] s = "PENGAWAS" -> NoStep

StatusAfter(s) ==
  IF s = "PENGAWAS" THEN "APPROVED_PENDING_DISBURSEMENT"
                    ELSE StatusForStep(NextStep(s))

\* validateLoanAmount of the type's handler, beyond the limits Amounts stands
\* for: an excess loan may not exceed what the social fund holds.
ValidAmount(type, amount) ==
  /\ amount \in Amounts
  /\ type = "EXCESS_LOAN" => amount <= fund

\* A handler ends its read phase and enters its transaction.
Enter(r, op, l, b, amount, tenor) ==
  /\ request[r] = Idle
  /\ request' = [request EXCEPT ![r] =
       [op |-> op, loan |-> l, seen |-> loan[l], batch |-> b,
        amount |-> amount, tenor |-> tenor, fundRead |-> NoFundRead]]
  /\ UNCHANGED rows

\* The transaction of request r runs: its loan row still exists.
Running(r, op) ==
  /\ request[r].op = op
  /\ loan[request[r].loan].status # "DELETED"

Done(r) == request' = [request EXCEPT ![r] = Idle]

AddHistory(l, action, status) ==
  history' = [history EXCEPT ![l] =
                @ \cup {[action |-> action, status |-> status]}]

-----------------------------------------------------------------------------
(* The applicant: drafts and submission.                                   *)

\* The new row has a fresh id, so nothing can come between the read and the
\* write: one step.  A phone loan starts without an amount.
CreateDraft(l, type, amount, tenor) ==
  /\ loan[l].status = "NONE"
  /\ type # "GOODS_PHONE" => ValidAmount(type, amount)
  /\ loan' = [loan EXCEPT ![l] =
       [type |-> type, status |-> "DRAFT", currentStep |-> NoStep,
        amount |-> IF type = "GOODS_PHONE" THEN 0 ELSE amount,
        itemPrice |-> IF type = "GOODS" THEN amount ELSE 0,
        tenor |-> tenor,
        installment |-> IF type = "GOODS_PHONE" THEN NoInstallment
                        ELSE [amount |-> amount, tenor |-> tenor]]]
  /\ UNCHANGED <<approvals, history, disbursed, authorized, schedule, fund,
                 fundLog, request>>

NotGiven == 0

\* Mutant: a draft can still be edited when it is under review.
BeginUpdateAnytime(r, l, amount, tenor) ==
  /\ loan[l].status \notin {"NONE", "DELETED"}
  /\ amount = NotGiven
  /\ Enter(r, "UPDATE", l, 0, amount, tenor)

\* The price of a goods draft is not validated again.
BeginUpdate(r, l, amount, tenor) ==
  /\ loan[l].status = "DRAFT"
  /\ \/ amount = NotGiven
     \/ loan[l].type = "GOODS"
     \/ loan[l].type # "GOODS_PHONE" /\ ValidAmount(loan[l].type, amount)
  /\ Enter(r, "UPDATE", l, 0, amount, tenor)

\* The amount updateDraft writes.  A goods request carries itemPrice and no
\* loanAmount: loanAmount is then written back as it was read.
UpdatedAmount(q) ==
  IF q.amount = NotGiven THEN loan[q.loan].amount
  ELSE IF q.seen.type = "GOODS" THEN q.seen.amount ELSE q.amount

\* The installment is calculated again, from what the request gives and, for
\* the rest, from what the handler read.
UpdatedInstallment(q) ==
  IF q.seen.type = "GOODS_PHONE" \/ (q.amount = NotGiven /\ q.tenor = NotGiven)
  THEN loan[q.loan].installment
  ELSE [amount |-> IF q.amount = NotGiven \/ q.seen.type = "GOODS"
                   THEN q.seen.amount ELSE q.amount,
        tenor |-> IF q.tenor = NotGiven THEN q.seen.tenor ELSE q.tenor]

CommitUpdate(r) ==
  LET q == request[r]
  IN  /\ Running(r, "UPDATE")
      /\ loan' = [loan EXCEPT
           ![q.loan].amount = UpdatedAmount(q),
           ![q.loan].tenor = IF q.tenor = NotGiven THEN @ ELSE q.tenor,
           ![q.loan].itemPrice = IF q.amount # NotGiven /\ q.seen.type = "GOODS"
                                 THEN q.amount ELSE @,
           ![q.loan].installment = UpdatedInstallment(q)]
      /\ Done(r)
      /\ UNCHANGED <<approvals, history, disbursed, authorized, schedule,
                     fund, fundLog>>

BeginDelete(r, l) ==
  /\ loan[l].status = "DRAFT"
  /\ Enter(r, "DELETE", l, 0, NotGiven, NotGiven)

\* Mutant: the installments have no onDelete: Cascade.
CommitDeleteKeepingSchedule(r) ==
  LET l == request[r].loan
  IN  /\ Running(r, "DELETE")
      /\ loan' = [loan EXCEPT ![l] = [NoLoan EXCEPT !.status = "DELETED"]]
      /\ approvals' = [approvals EXCEPT ![l] = <<>>]
      /\ history' = [history EXCEPT ![l] = {}]
      /\ disbursed' = disbursed \ {l}
      /\ authorized' = authorized \ {l}
      /\ Done(r)
      /\ UNCHANGED <<schedule, fund, fundLog>>

\* The delete cascades to every row that refers to the loan.
CommitDelete(r) ==
  LET l == request[r].loan
  IN  /\ Running(r, "DELETE")
      /\ loan' = [loan EXCEPT ![l] = [NoLoan EXCEPT !.status = "DELETED"]]
      /\ approvals' = [approvals EXCEPT ![l] = <<>>]
      /\ history' = [history EXCEPT ![l] = {}]
      /\ disbursed' = disbursed \ {l}
      /\ authorized' = authorized \ {l}
      /\ schedule' = [schedule EXCEPT ![l] = NoSchedule]
      /\ Done(r)
      /\ UNCHANGED <<fund, fundLog>>

BeginSubmit(r, l) ==
  /\ loan[l].status = "DRAFT"
  /\ loan[l].type # "GOODS_PHONE" => ValidAmount(loan[l].type, loan[l].amount)
  /\ Enter(r, "SUBMIT", l, 0, NotGiven, NotGiven)

CommitSubmit(r) ==
  LET l == request[r].loan
  IN  /\ Running(r, "SUBMIT")
      /\ loan' = [loan EXCEPT ![l].status = "UNDER_REVIEW_DSP",
                              ![l].currentStep = "DIVISI_SIMPAN_PINJAM"]
      /\ approvals' = [approvals EXCEPT ![l] =
                         Append(@, [s \in Steps |-> "NONE"])]
      /\ history' = [history EXCEPT ![l] = @ \cup
           {[action |-> "SUBMITTED", status |-> "SUBMITTED"],
            [action |-> "STATUS_CHANGED", status |-> "UNDER_REVIEW_DSP"]}]
      /\ Done(r)
      /\ UNCHANGED <<disbursed, authorized, schedule, fund, fundLog>>

-----------------------------------------------------------------------------
(* The officers: revision and the three approval steps.                    *)

\* find() takes a row of the step in whatever order the rows come back.
BatchFound(l, b) == b \in DOMAIN approvals[l]

\* Mutant: the ketua's review does not stop the revision.
BeginReviseLate(r, l, b, amount, tenor) ==
  /\ loan[l].status \in {"UNDER_REVIEW_DSP", "UNDER_REVIEW_KETUA"}
  /\ ValidAmount(loan[l].type, amount)
  /\ BatchFound(l, b)
  /\ Enter(r, "REVISE", l, b, amount, tenor)

BeginRevise(r, l, b, amount, tenor) ==
  /\ loan[l].currentStep = "DIVISI_SIMPAN_PINJAM"
  /\ loan[l].status = "UNDER_REVIEW_DSP"
  /\ ValidAmount(loan[l].type, amount)
  /\ BatchFound(l, b)
  /\ Enter(r, "REVISE", l, b, amount, tenor)

\* The status is not written.  The prices of a goods detail follow the amount.
CommitRevise(r) ==
  LET q == request[r]
  IN  /\ Running(r, "REVISE")
      /\ loan' = [loan EXCEPT
           ![q.loan].amount = q.amount,
           ![q.loan].tenor = q.tenor,
           ![q.loan].itemPrice = IF q.seen.type \in {"GOODS", "GOODS_PHONE"}
                                 THEN q.amount ELSE @,
           ![q.loan].installment = [amount |-> q.amount, tenor |-> q.tenor]]
      /\ approvals' = [approvals EXCEPT
                         ![q.loan][q.batch]["DIVISI_SIMPAN_PINJAM"] = "REVISED"]
      /\ AddHistory(q.loan, "REVISED", "UNDER_REVIEW_DSP")
      /\ Done(r)
      /\ UNCHANGED <<disbursed, authorized, schedule, fund, fundLog>>

\* processApproval's guards, the same for both decisions.
MayDecide(l, b) ==
  LET s == loan[l].currentStep
  IN  /\ s \in Steps
      /\ loan[l].status = StatusForStep(s)
      /\ BatchFound(l, b)
      /\ approvals[l][b][s] \in {"NONE", "REVISED"}

BeginDecision(r, l, b, op) ==
  /\ MayDecide(l, b)
  /\ Enter(r, op, l, b, NotGiven, NotGiven)

\* Mutant: currentStep is not reset.
CommitRejectKeepingStep(r) ==
  LET q == request[r]
  IN  /\ Running(r, "REJECT")
      /\ approvals' = [approvals EXCEPT
                         ![q.loan][q.batch][q.seen.currentStep] = "REJECTED"]
      /\ loan' = [loan EXCEPT ![q.loan].status = "REJECTED"]
      /\ AddHistory(q.loan, "REJECTED", "REJECTED")
      /\ Done(r)
      /\ UNCHANGED <<disbursed, authorized, schedule, fund, fundLog>>

CommitReject(r) ==
  LET q == request[r]
  IN  /\ Running(r, "REJECT")
      /\ approvals' = [approvals EXCEPT
                         ![q.loan][q.batch][q.seen.currentStep] = "REJECTED"]
      /\ loan' = [loan EXCEPT ![q.loan].status = "REJECTED",
                              ![q.loan].currentStep = NoStep]
      /\ AddHistory(q.loan, "REJECTED", "REJECTED")
      /\ Done(r)
      /\ UNCHANGED <<disbursed, authorized, schedule, fund, fundLog>>

CommitApprove(r) ==
  LET q == request[r]
      s == q.seen.currentStep
  IN  /\ Running(r, "APPROVE")
      /\ approvals' = [approvals EXCEPT ![q.loan][q.batch][s] = "APPROVED"]
      /\ loan' = [loan EXCEPT ![q.loan].status = StatusAfter(s),
                              ![q.loan].currentStep = NextStep(s)]
      /\ AddHistory(q.loan, "APPROVED", StatusAfter(s))
      /\ Done(r)
      /\ UNCHANGED <<disbursed, authorized, schedule, fund, fundLog>>

-----------------------------------------------------------------------------
(* Shopkeeper and ketua: disbursement and authorization.                   *)

BeginDisburse(r, l) ==
  /\ loan[l].status = "APPROVED_PENDING_DISBURSEMENT"
  /\ Enter(r, "DISBURSE", l, 0, NotGiven, NotGiven)

\* loan_disbursements.loan_application_id is unique.
CommitDisburse(r) ==
  LET l == request[r].loan
  IN  /\ Running(r, "DISBURSE")
      /\ l \notin disbursed
      /\ disbursed' = disbursed \cup {l}
      /\ loan' = [loan EXCEPT ![l].status = "PENDING_AUTHORIZATION"]
      /\ AddHistory(l, "DISBURSEMENT_CREATED", "PENDING_AUTHORIZATION")
      /\ Done(r)
      /\ UNCHANGED <<approvals, authorized, schedule, fund, fundLog>>

BeginAuthorize(r, l) ==
  /\ loan[l].status = "PENDING_AUTHORIZATION"
  /\ l \in disbursed
  /\ Enter(r, "AUTHORIZE", l, 0, NotGiven, NotGiven)

\* deductSocialFund, inside the transaction: the balance is read without a
\* lock and must cover the amount.
ReadFund(r) ==
  LET q == request[r]
  IN  /\ Running(r, "AUTHORIZE")
      /\ q.seen.type = "EXCESS_LOAN"
      /\ q.fundRead = NoFundRead
      /\ q.seen.amount <= fund
      /\ request' = [request EXCEPT ![r].fundRead = fund]
      /\ UNCHANGED rows

\* Mutant: the balance is not read first.
DeductFundUnread(q) ==
  IF q.seen.type # "EXCESS_LOAN" THEN UNCHANGED <<fund, fundLog>>
  ELSE LET newBalance == q.fundRead - q.seen.amount
       IN  /\ fund' = newBalance
           /\ fundLog' = Append(fundLog, [loan |-> q.loan,
                                          amount |-> q.seen.amount,
                                          balanceAfter |-> newBalance])

\* Mutant: the ledger entry keeps the balance before the deduction.
DeductFundOldBalance(q) ==
  IF q.seen.type # "EXCESS_LOAN" THEN UNCHANGED <<fund, fundLog>>
  ELSE /\ q.fundRead # NoFundRead
       /\ fund' = q.fundRead - q.seen.amount
       /\ fundLog' = Append(fundLog, [loan |-> q.loan,
                                      amount |-> q.seen.amount,
                                      balanceAfter |-> q.fundRead])

\* The end of deductSocialFund: the balance is set from the one that was read.
DeductFund(q) ==
  IF q.seen.type # "EXCESS_LOAN" THEN UNCHANGED <<fund, fundLog>>
  ELSE LET newBalance == q.fundRead - q.seen.amount
       IN  /\ q.fundRead # NoFundRead
           /\ fund' = newBalance
           /\ fundLog' = Append(fundLog, [loan |-> q.loan,
                                          amount |-> q.seen.amount,
                                          balanceAfter |-> newBalance])

\* generateInstallmentSchedule reads the loan again, inside the transaction.
GenerateSchedule(l) ==
  schedule' = [schedule EXCEPT ![l] =
    IF @ # NoSchedule THEN @
    ELSE [count |-> loan[l].tenor, each |-> loan[l].installment]]

\* Mutant: loan_authorizations has no unique column.
CommitAuthorizeAgain(r) ==
  LET q == request[r]
  IN  /\ Running(r, "AUTHORIZE")
      /\ authorized' = authorized \cup {q.loan}
      /\ loan' = [loan EXCEPT ![q.loan].status = "DISBURSED"]
      /\ GenerateSchedule(q.loan)
      /\ DeductFund(q)
      /\ AddHistory(q.loan, "AUTHORIZED_AND_DISBURSED", "DISBURSED")
      /\ Done(r)
      /\ UNCHANGED <<approvals, disbursed>>

\* loan_authorizations.loan_application_id is unique.
CommitAuthorize(r) ==
  LET q == request[r]
  IN  /\ Running(r, "AUTHORIZE")
      /\ q.loan \notin authorized
      /\ authorized' = authorized \cup {q.loan}
      /\ loan' = [loan EXCEPT ![q.loan].status = "DISBURSED"]
      /\ GenerateSchedule(q.loan)
      /\ DeductFund(q)
      /\ AddHistory(q.loan, "AUTHORIZED_AND_DISBURSED", "DISBURSED")
      /\ Done(r)
      /\ UNCHANGED <<approvals, disbursed>>

\* The transaction rolls back: a row it updates is gone, a unique column is
\* taken, the fund does not suffice, or the connection or the process dies.
Fail(r) ==
  /\ request[r] # Idle
  /\ Done(r)
  /\ UNCHANGED rows

-----------------------------------------------------------------------------
Begin(r) ==
  \E l \in Loans :
    \/ \E a \in Amounts \cup {NotGiven}, t \in Tenors \cup {NotGiven} :
         BeginUpdate(r, l, a, t)
    \/ BeginDelete(r, l)
    \/ BeginSubmit(r, l)
    \/ \E b \in DOMAIN approvals[l], a \in Amounts, t \in Tenors :
         BeginRevise(r, l, b, a, t)
    \/ \E b \in DOMAIN approvals[l], op \in {"APPROVE", "REJECT"} :
         BeginDecision(r, l, b, op)
    \/ BeginDisburse(r, l)
    \/ BeginAuthorize(r, l)

Commit(r) ==
  \/ CommitUpdate(r)
  \/ CommitDelete(r)
  \/ CommitSubmit(r)
  \/ CommitRevise(r)
  \/ CommitReject(r)
  \/ CommitApprove(r)
  \/ CommitDisburse(r)
  \/ ReadFund(r)
  \/ CommitAuthorize(r)

Next ==
  \/ \E l \in Loans, type \in LoanTypes, a \in Amounts, t \in Tenors :
       CreateDraft(l, type, a, t)
  \/ \E r \in Requests : Begin(r) \/ Commit(r) \/ Fail(r)

Spec == Init /\ [][Next]_vars

-----------------------------------------------------------------------------
(* What holds however the requests overlap.                                *)

\* The history row that tells of the approval of step s.
Approved(s) ==
  [action |-> "APPROVED",
   status |-> CASE s = "DIVISI_SIMPAN_PINJAM" -> "UNDER_REVIEW_KETUA"
                [] s = "KETUA" -> "UNDER_REVIEW_PENGAWAS"
                [] s = "PENGAWAS" -> "APPROVED_PENDING_DISBURSEMENT"]

\* A loan is booked and paid out only after all three officers approved it in
\* turn and the shopkeeper recorded the disbursement: the guards that are
\* never checked again in the transactions still add up to this
\* (loan-approval, loan-disbursement and loan-authorization services).
PayoutIsSigned ==
  /\ authorized \subseteq disbursed
  /\ \A l \in disbursed, s \in Steps : Approved(s) \in history[l]

\* The social fund pays for a loan at most once, and only for a loan that is
\* authorized (or, afterwards, deleted): concurrent authorizations of one
\* loan meet the unique authorization row.
PaidOutOnce ==
  /\ \A i, j \in DOMAIN fundLog : fundLog[i].loan = fundLog[j].loan => i = j
  /\ \A i \in DOMAIN fundLog :
       LET l == fundLog[i].loan
       IN  l \in authorized \/ loan[l].status = "DELETED"

\* Exactly the authorized loans have installments to be collected, written
\* together with the authorization and deleted together with it.
ScheduleIffAuthorized ==
  \A l \in Loans : l \in authorized <=> schedule[l] # NoSchedule

-----------------------------------------------------------------------------
(* What holds as long as no two requests overlap (Requests has one member).*)

Reviewing(l) == loan[l].currentStep \in Steps

StepsBefore(s) ==
  CASE s = "DIVISI_SIMPAN_PINJAM" -> {}
    [] s = "KETUA" -> {"DIVISI_SIMPAN_PINJAM"}
    [] s = "PENGAWAS" -> {"DIVISI_SIMPAN_PINJAM", "KETUA"}

\* A loan under review has one batch of approval rows that tells the same as
\* its status and current step: the steps before the current one are
\* approved, the current one is open, the later ones are untouched.
ReviewConsistent ==
  \A l \in Loans : Reviewing(l) =>
    LET s == loan[l].currentStep
    IN  /\ loan[l].status = StatusForStep(s)
        /\ Len(approvals[l]) = 1
        /\ approvals[l][1][s] \in {"NONE", "REVISED"}
        /\ \A e \in Steps \ {s} :
             approvals[l][1][e] = IF e \in StepsBefore(s) THEN "APPROVED" ELSE "NONE"

\* Every pay-out of an excess loan is taken off the balance once: each entry
\* of the ledger continues from the one before, the last one is the balance,
\* and each entry is for the amount its loan has.
LedgerBalances ==
  /\ \A i \in DOMAIN fundLog :
       /\ fundLog[i].balanceAfter =
            (IF i = 1 THEN InitialFund ELSE fundLog[i - 1].balanceAfter)
              - fundLog[i].amount
       /\ fundLog[i].amount = loan[fundLog[i].loan].amount
  /\ fund = IF fundLog = <<>> THEN InitialFund
            ELSE fundLog[Len(fundLog)].balanceAfter

\* processApproval's "Step ini sudah diproses sebelumnya"
\* (loan-approval.service.ts:289-294): once an officer has approved or
\* rejected a step, that decision is not changed any more.
DecidedStepsStay ==
  [][\A l \in Loans, s \in Steps : \A b \in DOMAIN approvals[l] :
       /\ approvals[l][b][s] \in {"APPROVED", "REJECTED"}
       /\ loan'[l].status # "DELETED"
       => approvals'[l][b][s] = approvals[l][b][s]]_vars

\* The stage of the workflow a status stands for.
StageOf(status) ==
  CASE status = "NONE" -> "absent"
    [] status = "DRAFT" -> "draft"
    [] status \in {"UNDER_REVIEW_DSP", "UNDER_REVIEW_KETUA",
                   "UNDER_REVIEW_PENGAWAS", "APPROVED_PENDING_DISBURSEMENT"}
         -> "review"
    [] status = "PENDING_AUTHORIZATION" -> "booked"
    [] status = "DISBURSED" -> "paid"
    [] status = "REJECTED" -> "rejected"
    [] status = "DELETED" -> "withdrawn"

ApprovedSteps(l) ==
  {s \in Steps : \E b \in DOMAIN approvals[l] : approvals[l][b][s] = "APPROVED"}

NoTerms == [amount |-> 0, tenor |-> 0]

TermsOf(l) ==
  IF loan[l].status \in {"NONE", "DELETED"} THEN NoTerms
  ELSE [amount |-> loan[l].amount, tenor |-> loan[l].tenor]

Workflow == INSTANCE LoanWorkflow WITH
  Terms <- [amount: Amounts \cup {0}, tenor: Tenors],
  NoTerms <- NoTerms,
  Signatures <- 3,
  stage <- [l \in Loans |-> StageOf(loan[l].status)],
  signed <- [l \in Loans |-> Cardinality(ApprovedSteps(l))],
  terms <- [l \in Loans |-> TermsOf(l)],
  debt <- [l \in Loans |->
             [amount |-> schedule[l].each.amount, tenor |-> schedule[l].count]]

\* The loan services carry out the three-signature workflow: terms frozen by
\* the first signature, signatures in turn, no way back from a rejection or
\* a pay-out, and a debt for exactly the terms that were signed.
ImplementsWorkflow == Workflow!WSpec

=============================================================================
