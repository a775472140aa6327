------------------------------ MODULE Deposit -------------------------------
(***************************************************************************)
(* Deposits: a member applies for one (deposit.service.ts), two officers   *)
(* sign it, and payroll then collects it month by month, pays it into the  *)
(* voluntary savings and completes it (deposit-savings.processor.ts).  A   *)
(* request reads and guards first and writes later, by primary key; so     *)
(* does payroll inside its transaction.                                    *)
(***************************************************************************)
EXTENDS SavingsAccount

CONSTANTS
  Deposits,   \* ids of the deposits that can be created
  Changes,    \* ids of the change requests that can be created
  Requests,   \* slots of requests and payroll runs in flight at the same time
  Amounts,    \* deposit_amount_options: what is collected each month
  Tenors,     \* deposit_tenor_options: for how many months
  MaxOverlaps \* bound: how many requests begin while another is in flight

ASSUME DepositAssumption ==
  /\ Amounts \subseteq Nat \ {0}
  /\ Tenors \subseteq Nat \ {0}
  /\ IsFiniteSet(Deposits) /\ Deposits \cap Changes = {}
  /\ MaxOverlaps \in Nat

Steps == {"DIVISI_SIMPAN_PINJAM", "KETUA"}

NoStep == "NO_STEP"

DepositRow ==
  [member : Members, amount : Amounts, tenor : Tenors, collected : Nat, count : Nat,
   status : {"UNDER_REVIEW_DSP", "UNDER_REVIEW_KETUA", "APPROVED", "ACTIVE", "COMPLETED", "REJECTED"},
   step : Steps \cup {NoStep}]

NoDeposit == [status |-> "NONE", step |-> NoStep]

VARIABLES
  deposit,     \* deposit_applications
  approvals,   \* deposit_approvals and deposit_change_approvals: the decision
  request,     \* what each request in flight has seen and wants to write
  overlaps     \* history: how often requests, or one and payroll, overlapped

depositVars == <<deposit, approvals, request, overlaps>>

overlapped == overlaps > 0

\* A row of the approvals is there before its decision is.
Decisions == {"NO_ROW", "OPEN", "APPROVED", "REJECTED"}

NoApprovals == [s \in Steps |-> "NO_ROW"]

OpenApprovals == [s \in Steps |-> "OPEN"]

DepositTypeOK ==
  /\ account \in [Members -> AccountRow]
  /\ payslip \in [Members -> [Periods -> Payslip]]
  /\ deposit \in [Deposits -> {NoDeposit} \cup DepositRow]
  /\ approvals \in [Deposits \cup Changes -> [Steps -> Decisions]]
  /\ overlaps \in 0 .. MaxOverlaps

Idle == [op |-> "IDLE"]

DepositInit ==
  /\ SavingsInit
  /\ deposit = [d \in Deposits |-> NoDeposit]
  /\ approvals = [x \in Deposits \cup Changes |-> NoApprovals]
  /\ request = [r \in Requests |-> Idle]
  /\ overlaps = 0

-----------------------------------------------------------------------------
Enter(r, op, id, seen) ==
  /\ request[r] = Idle
  /\ request' = [request EXCEPT ![r] = [op |-> op, id |-> id, seen |-> seen]]
  /\ overlaps' = IF \A q \in Requests : request[q] = Idle THEN overlaps ELSE overlaps + 1
  /\ overlaps' <= MaxOverlaps
  /\ UNCHANGED <<savingsVars, deposit, approvals>>

Done(r) ==
  /\ request' = [request EXCEPT ![r] = Idle]
  /\ UNCHANGED overlaps

Is(r, op) == request[r] # Idle /\ request[r].op = op

\* create: the application and its approval rows in one statement.
Create(d, m, amount, tenor) ==
  /\ deposit[d] = NoDeposit
  /\ deposit' = [deposit EXCEPT ![d] =
       [member |-> m, amount |-> amount, tenor |-> tenor, collected |-> 0, count |-> 0,
        status |-> "UNDER_REVIEW_DSP", step |-> "DIVISI_SIMPAN_PINJAM"]]
  /\ approvals' = [approvals EXCEPT ![d] = OpenApprovals]
  /\ UNCHANGED <<savingsVars, request, overlaps>>

\* processApproval of a deposit or of a change: the current step is set and
\* its record is there and open.
Decidable(x, row) == row.step \in Steps /\ approvals[x][row.step] = "OPEN"

BeginDecision(r, d, op) ==
  /\ Decidable(d, deposit[d])
  /\ Enter(r, op, d, deposit[d])

CommitReject(r) ==
  LET q == request[r]
  IN  /\ Is(r, "REJECT")
      /\ approvals' = [approvals EXCEPT ![q.id][q.seen.step] = "REJECTED"]
      /\ deposit' = [deposit EXCEPT ![q.id].status = "REJECTED", ![q.id].step = NoStep]
      /\ Done(r)
      /\ UNCHANGED savingsVars

\* Mutant: the first signature is enough.
StepAfterOne(s) == NoStep

StepAfter(s) == IF s = "DIVISI_SIMPAN_PINJAM" THEN "KETUA" ELSE NoStep

StatusAfter(s) == IF StepAfter(s) = NoStep THEN "APPROVED" ELSE "UNDER_REVIEW_KETUA"

CommitApprove(r) ==
  LET q == request[r]
  IN  /\ Is(r, "APPROVE")
      /\ approvals' = [approvals EXCEPT ![q.id][q.seen.step] = "APPROVED"]
      /\ deposit' = [deposit EXCEPT ![q.id].status = StatusAfter(q.seen.step),
                                    ![q.id].step = StepAfter(q.seen.step)]
      /\ Done(r)
      /\ UNCHANGED savingsVars

-----------------------------------------------------------------------------
\* Mutant: the status is not asked for.
DueOfAnyStatus(m) ==
  {d \in Deposits : /\ deposit[d] # NoDeposit
                    /\ deposit[d].member = m
                    /\ deposit[d].count < deposit[d].tenor}

\* The deposits of a member that payroll collects.
DueOf(m) ==
  {d \in Deposits : /\ deposit[d].status \in {"APPROVED", "ACTIVE"}
                    /\ deposit[d].member = m
                    /\ deposit[d].count < deposit[d].tenor}

NextPeriod(m) == {p \in Periods : \A q \in Periods : q < p <=> payslip[m][q] # NoPayslip}

\* Payroll of the next period reads the deposits; those approved after the
\* cutoff are left for the next one.
BeginPay(r, m, ds) ==
  /\ ds # {}
  /\ \A q \in Requests : ~Is(q, "PAY")
  /\ \E p \in NextPeriod(m) :
       Enter(r, "PAY", p, [member |-> m, rows |-> [d \in ds |-> deposit[d]]])

\* Mutant: the amount counts as it is now, not as it was deducted.
AfterInstallmentCurrent(row, seen) ==
  [row EXCEPT !.collected = seen.collected + row.amount, !.count = seen.count + 1,
              !.status = IF seen.count + 1 >= seen.tenor THEN "COMPLETED" ELSE "ACTIVE"]

\* What is written was computed from the deposit as it was read.
AfterInstallment(row, seen) ==
  [row EXCEPT !.collected = seen.collected + seen.amount, !.count = seen.count + 1,
              !.status = IF seen.count + 1 >= seen.tenor THEN "COMPLETED" ELSE "ACTIVE"]

CommitPay(r) ==
  LET q == request[r]
      m == q.seen.member
      rows == q.seen.rows
      deducted == SumOf([d \in DOMAIN rows |-> rows[d].amount])
  IN  /\ Is(r, "PAY")
      /\ account' = [account EXCEPT ![m] = AccountAfter(@, 0, deducted)]
      /\ payslip' = [payslip EXCEPT ![m][q.id] = PayslipAfter(@, account[m], 0, deducted)]
      /\ deposit' = [d \in Deposits |->
           IF d \in DOMAIN rows THEN AfterInstallment(deposit[d], rows[d]) ELSE deposit[d]]
      /\ Done(r)
      /\ UNCHANGED <<debits, approvals>>

\* The transaction rolls back, or the process dies.
Fail(r) ==
  /\ request[r] # Idle
  /\ Done(r)
  /\ UNCHANGED <<savingsVars, deposit, approvals>>

\* What happens to deposits, payroll's collection apart.
DepositNext ==
  \/ \E d \in Deposits, m \in Members, amount \in Amounts, tenor \in Tenors :
       Create(d, m, amount, tenor)
  \/ \E r \in Requests :
       \/ \E d \in Deposits : BeginDecision(r, d, "APPROVE") \/ BeginDecision(r, d, "REJECT")
       \/ \E m \in Members : \E ds \in SUBSET DueOf(m) : BeginPay(r, m, ds)
       \/ CommitReject(r) \/ CommitApprove(r)

-----------------------------------------------------------------------------
DepositsOf(m) == {d \in Deposits : deposit[d] # NoDeposit /\ deposit[d].member = m}

(* What a deposit has collected is what the payslips of its member show,   *)
(* however requests overlap with payroll and whatever the amount was       *)
(* changed to in between.                                                  *)
CollectedBooked ==
  \A m \in Members :
    SumOf([d \in DepositsOf(m) |-> deposit[d].collected])
      = OverPeriods(m, LAMBDA row : row.tabunganDeposito)

(* Nothing is collected for a deposit that both officers have not signed,  *)
(* as long as nothing overlaps.                                            *)
DepositIsSigned ==
  ~overlapped =>
    \A d \in Deposits :
      deposit[d] # NoDeposit /\ (deposit[d].count > 0 \/ deposit[d].status \in {"APPROVED", "ACTIVE"})
        => \A s \in Steps : approvals[d][s] = "APPROVED"

=============================================================================
