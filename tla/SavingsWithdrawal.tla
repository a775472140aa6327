------------------------- MODULE SavingsWithdrawal -------------------------
(***************************************************************************)
(* Withdrawals from the voluntary savings (savings-withdrawal.service.ts): *)
(* createWithdrawal, processApproval (approve or reject),                  *)
(* confirmDisbursement, confirmAuthorization and cancelWithdrawal, with the*)
(* two others who move the same balance: payroll, and the last signature of*)
(* a deposit change, which takes its fee (the rest of it: DepositChange).  *)
(* As in LoanLifecycle a request reads and guards first and writes, by     *)
(* primary key and unconditionally, in a later step.                       *)
(***************************************************************************)
EXTENDS SavingsAccount

CONSTANTS
  Withdrawals,     \* ids of the withdrawals that can be created
  Requests,        \* slots of HTTP requests in flight at the same time
  Amounts,         \* the amounts members ask for
  DepositAmount,   \* what payroll collects for a member's deposit each month
  Changes,         \* ids of the deposit changes and stops that can be approved
  Depositor,       \* whose deposit each of them is about
  Fees             \* the admin fees and penalties they cost

ASSUME WithdrawalAssumption ==
  /\ Amounts \subseteq Nat \ {0}
  /\ DepositAmount \in Nat
  /\ Changes \cap Withdrawals = {}
  /\ Depositor \in [Changes -> Members]
  /\ Fees \subseteq Nat

Steps == {"DIVISI_SIMPAN_PINJAM", "KETUA", "SHOPKEEPER", "KETUA_AUTH"}

NoStep == "NO_STEP"

\* enum SavingsWithdrawalStatus; NONE: not created yet.
Statuses ==
  {"NONE", "SUBMITTED", "UNDER_REVIEW_DSP", "UNDER_REVIEW_KETUA",
   "APPROVED_WAITING_DISBURSEMENT", "DISBURSEMENT_IN_PROGRESS", "COMPLETED",
   "REJECTED", "CANCELLED"}

WithdrawalRow ==
  [status: Statuses, step: Steps \cup {NoStep}, member: Members, amount: Amounts]

NoWithdrawal == [status |-> "NONE", step |-> NoStep]

\* A savings_withdrawal_approvals row: it is created with its decision.
ApprovalRow == [step: Steps, decision: {"APPROVED", "REJECTED"}]

\* A savings_transactions row without a period: a withdrawal or a fee.
DebitRow ==
  [penarikan: Amounts \cup Fees, bunga: Int, ref: Withdrawals \cup Changes]

VARIABLES
  withdrawal,   \* savings_withdrawals
  approvals,    \* savings_withdrawal_approvals
  disbursed,    \* savings_withdrawal_disbursements, unique on the withdrawal
  authorized,   \* savings_withdrawal_authorizations, unique on the withdrawal
  request,      \* what each request in flight has seen and wants to write
  overlapped    \* history: two requests, or one and payroll, have overlapped

withdrawalVars ==
  <<withdrawal, approvals, disbursed, authorized, request, overlapped>>

vars == <<savingsVars, withdrawalVars>>

Idle == [op |-> "IDLE"]

NotRead == [sukarela |-> "NOT_READ"]

\* What a handler keeps from its reads: the withdrawal (or, for a new one,
\* the row to be written; for a fee, who owes how much) and, inside a
\* transaction that debits it, the account.
RequestRow ==
  [op: {"CREATE"}, id: {"NEW"}, seen: WithdrawalRow, account: {NotRead}]
    \cup
  [op: {"APPROVE", "REJECT", "DISBURSE", "AUTHORIZE", "CANCEL"},
   id: Withdrawals, seen: WithdrawalRow, account: AccountRow \cup {NotRead}]
    \cup
  [op: {"CHARGE"}, id: Changes, seen: [member: Members, amount: Fees],
   account: AccountRow \cup {NotRead}]

TypeOK ==
  /\ account \in [Members -> AccountRow]
  /\ payslip \in [Members -> [Periods -> Payslip]]
  /\ debits \in [Members -> Seq(DebitRow)]
  /\ withdrawal \in [Withdrawals -> {NoWithdrawal} \cup WithdrawalRow]
  /\ approvals \in [Withdrawals -> SUBSET ApprovalRow]
  /\ disbursed \in SUBSET Withdrawals
  /\ authorized \in SUBSET Withdrawals
  /\ request \in [Requests -> {Idle} \cup RequestRow]
  /\ overlapped \in BOOLEAN

Init ==
  /\ SavingsInit
  /\ withdrawal = [w \in Withdrawals |-> NoWithdrawal]
  /\ approvals = [w \in Withdrawals |-> {}]
  /\ disbursed = {}
  /\ authorized = {}
  /\ request = [r \in Requests |-> Idle]
  /\ overlapped = FALSE

-----------------------------------------------------------------------------
\* Requests and payroll note whether another request is in flight.
Noted == overlapped' = (overlapped \/ \E r \in Requests : request[r] # Idle)

Enter(r, op, id, seen) ==
  /\ request[r] = Idle
  /\ request' = [request EXCEPT ![r] =
       [op |-> op, id |-> id, seen |-> seen, account |-> NotRead]]
  /\ Noted
  /\ UNCHANGED <<savingsVars, withdrawal, approvals, disbursed, authorized>>

Done(r) ==
  /\ request' = [request EXCEPT ![r] = Idle]
  /\ UNCHANGED overlapped

PendingOf(m) ==
  {w \in Withdrawals :
     /\ withdrawal[w].status \notin {"NONE", "COMPLETED", "REJECTED", "CANCELLED"}
     /\ withdrawal[w].member = m}

\* Mutant: the principal and mandatory savings count as available.
BeginCreateFromTotal(r, m, amount) ==
  /\ amount <= Total(account[m])
  /\ PendingOf(m) = {}
  /\ Enter(r, "CREATE", "NEW",
           [status |-> "SUBMITTED", step |-> "DIVISI_SIMPAN_PINJAM",
            member |-> m, amount |-> amount])

\* Mutant: a pending withdrawal does not prevent another one.
BeginCreateAnother(r, m, amount) ==
  /\ amount <= account[m].sukarela
  /\ Enter(r, "CREATE", "NEW",
           [status |-> "SUBMITTED", step |-> "DIVISI_SIMPAN_PINJAM",
            member |-> m, amount |-> amount])

\* The early withdrawal penalty lowers only the amount that is handed out.
BeginCreate(r, m, amount) ==
  /\ amount <= account[m].sukarela
  /\ PendingOf(m) = {}
  /\ Enter(r, "CREATE", "NEW",
           [status |-> "SUBMITTED", step |-> "DIVISI_SIMPAN_PINJAM",
            member |-> m, amount |-> amount])

CommitCreate(r) ==
  /\ request[r].op = "CREATE"
  /\ \E w \in Withdrawals :
       /\ withdrawal[w].status = "NONE"
       /\ withdrawal' = [withdrawal EXCEPT ![w] = request[r].seen]
  /\ Done(r)
  /\ UNCHANGED <<savingsVars, approvals, disbursed, authorized>>

\* Mutant: a withdrawal without a current step is decided too.
BeginDecisionAnyStep(r, w, op) ==
  /\ withdrawal[w].status # "NONE"
  /\ \A a \in approvals[w] : a.step # withdrawal[w].step
  /\ Enter(r, op, w, withdrawal[w])

\* The status is not looked at, only the step and whether it was decided.
BeginDecision(r, w, op) ==
  /\ withdrawal[w].step \in {"DIVISI_SIMPAN_PINJAM", "KETUA"}
  /\ \A a \in approvals[w] : a.step # withdrawal[w].step
  /\ Enter(r, op, w, withdrawal[w])

CommitReject(r) ==
  LET q == request[r]
  IN  /\ q.op = "REJECT"
      /\ approvals' = [approvals EXCEPT ![q.id] =
           @ \cup {[step |-> q.seen.step, decision |-> "REJECTED"]}]
      /\ withdrawal' = [withdrawal EXCEPT ![q.id].status = "REJECTED",
                                          ![q.id].step = NoStep]
      /\ Done(r)
      /\ UNCHANGED <<savingsVars, disbursed, authorized>>

\* Mutant: the first approval already leads to the shopkeeper.
StepAfterSkippingKetua(s) == "SHOPKEEPER"

StepAfter(s) == IF s = "DIVISI_SIMPAN_PINJAM" THEN "KETUA" ELSE "SHOPKEEPER"

StatusAfter(s) ==
  IF StepAfter(s) = "KETUA" THEN "UNDER_REVIEW_KETUA"
                            ELSE "APPROVED_WAITING_DISBURSEMENT"

CommitApprove(r) ==
  LET q == request[r]
  IN  /\ q.op = "APPROVE"
      /\ approvals' = [approvals EXCEPT ![q.id] =
           @ \cup {[step |-> q.seen.step, decision |-> "APPROVED"]}]
      /\ withdrawal' = [withdrawal EXCEPT ![q.id].status = StatusAfter(q.seen.step),
                                          ![q.id].step = StepAfter(q.seen.step)]
      /\ Done(r)
      /\ UNCHANGED <<savingsVars, disbursed, authorized>>

BeginDisburse(r, w) ==
  /\ withdrawal[w].step = "SHOPKEEPER"
  /\ withdrawal[w].status = "APPROVED_WAITING_DISBURSEMENT"
  /\ Enter(r, "DISBURSE", w, withdrawal[w])

CommitDisburse(r) ==
  LET q == request[r]
  IN  /\ q.op = "DISBURSE"
      /\ q.id \notin disbursed
      /\ disbursed' = disbursed \cup {q.id}
      /\ withdrawal' = [withdrawal EXCEPT ![q.id].status = "DISBURSEMENT_IN_PROGRESS",
                                          ![q.id].step = "KETUA_AUTH"]
      /\ Done(r)
      /\ UNCHANGED <<savingsVars, approvals, authorized>>

BeginAuthorize(r, w) ==
  /\ withdrawal[w].step = "KETUA_AUTH"
  /\ withdrawal[w].status = "DISBURSEMENT_IN_PROGRESS"
  /\ Enter(r, "AUTHORIZE", w, withdrawal[w])

\* processApproval of a deposit change by the chairman, whose record is open:
\* the fee of a change that is not approved is in no transaction.
BeginCharge(r, c, fee) ==
  /\ \A i \in DOMAIN debits[Depositor[c]] : debits[Depositor[c]][i].ref # c
  /\ Enter(r, "CHARGE", c, [member |-> Depositor[c], amount |-> fee])

\* Inside the transaction: the account is read without a lock.
ReadAccount(r) ==
  /\ request[r].op \in {"AUTHORIZE", "CHARGE"}
  /\ request[r].account = NotRead
  /\ request' = [request EXCEPT ![r].account = account[request[r].seen.member]]
  /\ UNCHANGED <<savingsVars, withdrawal, approvals, disbursed, authorized,
                 overlapped>>

\* Mutant: savings_withdrawal_authorizations has no unique column.
CommitAuthorizeAgain(r) ==
  LET q == request[r]
  IN  /\ q.op = "AUTHORIZE"
      /\ q.account # NotRead
      /\ authorized' = authorized \cup {q.id}
      /\ withdrawal' = [withdrawal EXCEPT ![q.id].status = "COMPLETED",
                                          ![q.id].step = NoStep]
      /\ Debit(q.seen.member, q.account, q.seen.amount, q.id)
      /\ Done(r)
      /\ UNCHANGED <<approvals, disbursed>>

CommitAuthorize(r) ==
  LET q == request[r]
  IN  /\ q.op = "AUTHORIZE"
      /\ q.account # NotRead
      /\ q.id \notin authorized
      /\ authorized' = authorized \cup {q.id}
      /\ withdrawal' = [withdrawal EXCEPT ![q.id].status = "COMPLETED",
                                          ![q.id].step = NoStep]
      /\ Debit(q.seen.member, q.account, q.seen.amount, q.id)
      /\ Done(r)
      /\ UNCHANGED <<approvals, disbursed>>

\* The fee is taken whatever the balance is, and whatever was asked of it.
CommitCharge(r) ==
  LET q == request[r]
  IN  /\ q.op = "CHARGE"
      /\ q.account # NotRead
      /\ Debit(q.seen.member, q.account, q.seen.amount, q.id)
      /\ Done(r)
      /\ UNCHANGED <<withdrawal, approvals, disbursed, authorized>>

\* Mutant: the status is not asked.
BeginCancelLate(r, w) ==
  /\ withdrawal[w].status # "NONE"
  /\ Enter(r, "CANCEL", w, withdrawal[w])

BeginCancel(r, w) ==
  /\ withdrawal[w].status \in {"SUBMITTED", "UNDER_REVIEW_DSP", "UNDER_REVIEW_KETUA"}
  /\ Enter(r, "CANCEL", w, withdrawal[w])

CommitCancel(r) ==
  LET q == request[r]
  IN  /\ q.op = "CANCEL"
      /\ withdrawal' = [withdrawal EXCEPT ![q.id].status = "CANCELLED",
                                          ![q.id].step = NoStep]
      /\ Done(r)
      /\ UNCHANGED <<savingsVars, approvals, disbursed, authorized>>

\* The transaction rolls back: a unique column is taken, or the connection or
\* the process dies.
Fail(r) ==
  /\ request[r] # Idle
  /\ Done(r)
  /\ UNCHANGED <<savingsVars, withdrawal, approvals, disbursed, authorized>>

\* Payroll for a member whose entrance fee is paid and whose deposit is active.
PayMonth(m, p) ==
  /\ payslip[m][p] = NoPayslip
  /\ account' = [account EXCEPT ![m] = AccountAfter(@, 0, DepositAmount)]
  /\ payslip' = [payslip EXCEPT ![m][p] =
       PayslipAfter(@, account[m], 0, DepositAmount)]
  /\ Noted
  /\ UNCHANGED <<debits, withdrawal, approvals, disbursed, authorized, request>>

-----------------------------------------------------------------------------
Begin(r) ==
  \/ \E m \in Members, amount \in Amounts : BeginCreate(r, m, amount)
  \/ \E w \in Withdrawals :
       \/ BeginDecision(r, w, "APPROVE")
       \/ BeginDecision(r, w, "REJECT")
       \/ BeginDisburse(r, w)
       \/ BeginAuthorize(r, w)
       \/ BeginCancel(r, w)
  \/ \E c \in Changes, fee \in Fees : BeginCharge(r, c, fee)

Commit(r) ==
  \/ CommitCreate(r)
  \/ CommitReject(r)
  \/ CommitApprove(r)
  \/ CommitDisburse(r)
  \/ ReadAccount(r)
  \/ CommitAuthorize(r)
  \/ CommitCharge(r)
  \/ CommitCancel(r)

Next ==
  \/ \E r \in Requests : Begin(r) \/ Commit(r) \/ Fail(r)
  \/ \E m \in Members, p \in Periods : PayMonth(m, p)

Spec == Init /\ [][Next]_vars

-----------------------------------------------------------------------------
(* However the requests overlap.                                           *)

\* Money leaves the account only after both officers approved and the
\* shopkeeper confirmed.
WithdrawalIsSigned ==
  /\ authorized \subseteq disbursed
  /\ \A w \in disbursed, s \in {"DIVISI_SIMPAN_PINJAM", "KETUA"} :
       [step |-> s, decision |-> "APPROVED"] \in approvals[w]

\* Each withdrawal is taken off the account of its member at most once, and
\* exactly the authorized ones are.
DebitedOnce ==
  /\ \A m \in Members : \A i, j \in DOMAIN debits[m] :
       debits[m][i].ref \in Withdrawals /\ debits[m][i].ref = debits[m][j].ref => i = j
  /\ \A w \in Withdrawals :
       w \in authorized <=>
         \E m \in Members : \E i \in DOMAIN debits[m] : debits[m][i].ref = w

\* A withdrawal is paid as it was signed: with all signatures, and once.
PaidAsSigned == WithdrawalIsSigned /\ DebitedOnce

-----------------------------------------------------------------------------
(* As long as no two requests have overlapped.                            *)

\* A member has at most one withdrawal under way.
OnePending ==
  ~overlapped => \A m \in Members : \A v, w \in PendingOf(m) : v = w

\* The accrued interest is what the transactions booked: nothing is added to
\* it between the read of the account and the debit that replaces it.
InterestKept == ~overlapped => InterestBooked

\* What the fees of deposit changes have taken from a member.
FeesTaken(m) ==
  OverDebits(m, LAMBDA row : IF row.ref \in Changes THEN row.penarikan ELSE 0)

\* No money leaves, and none has left, for a withdrawal that is cancelled, and
\* in however many withdrawals a member takes out no more than was paid in:
\* what an account is overdrawn by, fees have taken.
PaidFromSavings ==
  ~overlapped =>
    /\ \A m \in Members : account[m].sukarela + FeesTaken(m) >= 0
    /\ \A w \in Withdrawals :
         withdrawal[w].status = "CANCELLED" => w \notin disbursed \cup authorized

\* One request after the other, a member has one withdrawal under way, for
\* which enough was paid in, and payroll, withdrawals and fees agree on the
\* interest.
SerialWithdrawals == OnePending /\ PaidFromSavings /\ InterestKept

\* A withdrawal that is completed, rejected or cancelled stays so.
FinalStays ==
  [][\A w \in Withdrawals :
       /\ ~overlapped'
       /\ withdrawal[w].status \in {"COMPLETED", "REJECTED", "CANCELLED"}
       => withdrawal'[w] = withdrawal[w]]_vars

-----------------------------------------------------------------------------
(* What the code says and does not keep: when requests overlap, and, with    *)
(* nothing overlapping, when a fee comes between request and payment.       *)

\* "Saldo tidak mencukupi" (savings-withdrawal.service.ts:141): a withdrawal
\* that exceeds the balance is refused.
NeverOverdrawn == \A m \in Members : account[m].sukarela >= 0

=============================================================================
