--------------------------- MODULE LoanRepayment ---------------------------
(***************************************************************************)
(* How a disbursed loan is paid back: installment by installment through   *)
(* payroll (loan-installment.processor.ts), or at once by a repayment that *)
(* two officers approve (loan-repayment/) and payroll collects             *)
(* (loan-repayment.processor.ts).  Services read and guard in one step and *)
(* write in a later one; the transaction of payroll is one step.           *)
(*                                                                         *)
(* Time is the period whose cutoff comes next.  Money is counted in the    *)
(* smallest unit, to which the monthly installment is rounded.             *)
(***************************************************************************)
EXTENDS Sums, LoanCalculation

CONSTANTS
  Loans,         \* ids of the loans
  Repayments,    \* ids of the repayments that can be created
  Requests,      \* slots of HTTP requests in flight at the same time
  LastPeriod,    \* bound: payroll periods 1 .. LastPeriod
  Tenor,         \* number of installments of a loan
  Total,         \* what a loan has to bring back, totalRepayment
  MaxOverlaps    \* bound: how many requests begin while another is in flight

ASSUME RepaymentAssumption ==
  /\ IsFiniteSet(Loans) /\ IsFiniteSet(Repayments)
  /\ LastPeriod \in Nat
  /\ Tenor \in Nat \ {0}
  /\ Total \in Nat
  /\ MaxOverlaps \in Nat

Periods == 1 .. LastPeriod

Numbers == 1 .. Tenor

Steps == {"DIVISI_SIMPAN_PINJAM", "KETUA"}

NoStep == "NO_STEP"

Decisions == {"NONE", "APPROVED", "REJECTED"}

Undecided == [s \in Steps |-> "NONE"]

LoanRow ==
  [status: {"PENDING_AUTHORIZATION", "DISBURSED", "COMPLETED"},
   excess: BOOLEAN, first: Nat]

NotDisbursed == [status |-> "PENDING_AUTHORIZATION", excess |-> FALSE, first |-> 0]

RepaymentRow ==
  [status: {"UNDER_REVIEW_DSP", "UNDER_REVIEW_KETUA", "APPROVED", "COMPLETED",
            "REJECTED"},
   step: Steps \cup {NoStep}, loan: Loans, total: Int, approvedIn: Nat]

NoRepayment == [status |-> "NONE", step |-> NoStep]

VARIABLES
  next,        \* the period whose cutoff comes next
  loan,        \* loan_applications, and the due month of the first installment
  paid,        \* loan_installments: the numbers with isPaid
  collected,   \* what payroll has collected for each loan
  replenished, \* what payroll has put back into the social fund
  repayment,   \* loan_repayments
  approval,    \* repayment_approvals
  processed,   \* payroll_periods with isProcessed
  inTime,      \* history: periods that payroll has processed after their cutoff
  request,     \* what each request in flight has seen and wants to write
  overlaps     \* history: how often requests overlapped

requestVars == <<request, overlaps>>

overlapped == overlaps > 0

payrollVars == <<processed, inTime>>

loanVars == <<loan, paid, collected, replenished>>

vars == <<next, loanVars, repayment, approval, payrollVars, requestVars>>

Idle == [op |-> "IDLE"]

RequestRow ==
  [op: {"CALCULATE"}, loan: Loans] \cup [op: {"CREATE"}, loan: Loans, total: Int]
    \cup [op: {"APPROVE", "REJECT"}, id: Repayments, step: Steps]

TypeOK ==
  /\ next \in 1 .. LastPeriod + 1
  /\ loan \in [Loans -> LoanRow]
  /\ paid \in [Loans -> SUBSET Numbers]
  /\ collected \in [Loans -> Int]
  /\ replenished \in Int
  /\ repayment \in [Repayments -> {NoRepayment} \cup RepaymentRow]
  /\ approval \in [Repayments -> [Steps -> Decisions]]
  /\ processed \in SUBSET Periods
  /\ inTime \in SUBSET Periods
  /\ request \in [Requests -> {Idle} \cup RequestRow]
  /\ overlaps \in 0 .. MaxOverlaps

Init ==
  /\ next = 1
  /\ loan = [l \in Loans |-> NotDisbursed]
  /\ paid = [l \in Loans |-> {}]
  /\ collected = [l \in Loans |-> 0]
  /\ replenished = 0
  /\ repayment = [k \in Repayments |-> NoRepayment]
  /\ approval = [k \in Repayments |-> Undecided]
  /\ processed = {}
  /\ inTime = {}
  /\ request = [r \in Requests |-> Idle]
  /\ overlaps = 0

-----------------------------------------------------------------------------
CutoffPasses ==
  /\ next <= LastPeriod
  /\ next' = next + 1
  /\ UNCHANGED <<loanVars, repayment, approval, payrollVars, requestVars>>

\* What calculateLoanDetails makes of the total.
Installment == MonthlyInstallment(Total, Tenor)

\* Mutant: a loan disbursed after the cutoff is due in the month that ends.
FirstDueLastMonth == next - 1

\* A loan disbursed after the cutoff of a month is first due the month after.
FirstDue == next

Disburse(l, excess) ==
  /\ loan[l].status = "PENDING_AUTHORIZATION"
  /\ loan' = [loan EXCEPT ![l] =
       [status |-> "DISBURSED", excess |-> excess, first |-> FirstDue]]
  /\ UNCHANGED <<next, paid, collected, replenished, repayment, approval,
                 payrollVars, requestVars>>

-----------------------------------------------------------------------------
Enter(r, row) ==
  /\ request[r] = Idle
  /\ request' = [request EXCEPT ![r] = row]
  /\ overlaps' = IF \A q \in Requests : request[q] = Idle THEN overlaps ELSE overlaps + 1
  /\ overlaps' <= MaxOverlaps
  /\ UNCHANGED <<next, loanVars, repayment, approval, payrollVars>>

Done(r) ==
  /\ request' = [request EXCEPT ![r] = Idle]
  /\ UNCHANGED <<next, loanVars, payrollVars, overlaps>>

UnderReview(l) ==
  {k \in Repayments :
     /\ repayment[k].status \in {"UNDER_REVIEW_DSP", "UNDER_REVIEW_KETUA"}
     /\ repayment[k].loan = l}

\* Mutant: the number of installments is not asked, but what is due by now.
RemainingOfDue(l) ==
  Total - Installment * Cardinality({n \in Numbers : loan[l].first + n - 1 <= next})

Remaining(l) == Total - Installment * Cardinality(paid[l])

\* Mutant: repayments under review are not looked for.
BeginCreateAnother(r, l) ==
  /\ loan[l].status = "DISBURSED"
  /\ Remaining(l) > 0
  /\ Enter(r, [op |-> "CALCULATE", loan |-> l])

\* createRepayment validates,
BeginCreate(r, l) ==
  /\ loan[l].status = "DISBURSED"
  /\ UnderReview(l) = {}
  /\ Remaining(l) > 0
  /\ Enter(r, [op |-> "CALCULATE", loan |-> l])

\* reads the loan again to calculate the amount,
Calculate(r) ==
  LET l == request[r].loan
  IN  /\ request[r].op = "CALCULATE"
      /\ request' = [request EXCEPT ![r] =
           [op |-> "CREATE", loan |-> l, total |-> Remaining(l)]]
      /\ UNCHANGED <<next, loanVars, repayment, approval, payrollVars, overlaps>>

\* and writes the repayment with its two undecided approvals.
CommitCreate(r) ==
  /\ request[r].op = "CREATE"
  /\ \E k \in Repayments :
       /\ repayment[k] = NoRepayment
       /\ repayment' = [repayment EXCEPT ![k] =
            [status |-> "UNDER_REVIEW_DSP", step |-> "DIVISI_SIMPAN_PINJAM",
             loan |-> request[r].loan, total |-> request[r].total,
             approvedIn |-> 0]]
       /\ approval' = [approval EXCEPT ![k] = Undecided]
  /\ Done(r)

StatusForStep(s) ==
  IF s = "DIVISI_SIMPAN_PINJAM" THEN "UNDER_REVIEW_DSP" ELSE "UNDER_REVIEW_KETUA"

\* Mutant: neither the status nor the current step is asked.
BeginDecisionUnasked(r, k, op) ==
  /\ repayment[k] # NoRepayment
  /\ Enter(r, [op |-> op, id |-> k, step |-> repayment[k].step])

BeginDecision(r, k, op) ==
  /\ repayment[k].step \in Steps
  /\ repayment[k].status = StatusForStep(repayment[k].step)
  /\ approval[k][repayment[k].step] = "NONE"
  /\ Enter(r, [op |-> op, id |-> k, step |-> repayment[k].step])

CommitReject(r) ==
  LET q == request[r]
  IN  /\ q.op = "REJECT"
      /\ approval' = [approval EXCEPT ![q.id][q.step] = "REJECTED"]
      /\ repayment' = [repayment EXCEPT ![q.id].status = "REJECTED",
                                        ![q.id].step = NoStep]
      /\ Done(r)

CommitApprove(r) ==
  LET q == request[r]
  IN  /\ q.op = "APPROVE"
      /\ approval' = [approval EXCEPT ![q.id][q.step] = "APPROVED"]
      /\ repayment' = [repayment EXCEPT ![q.id] =
           IF q.step = "KETUA"
           THEN [@ EXCEPT !.status = "APPROVED", !.step = NoStep,
                          !.approvedIn = next]
           ELSE [@ EXCEPT !.status = StatusForStep("KETUA"), !.step = "KETUA"]]
      /\ Done(r)

\* The transaction rolls back, or the connection or the process dies.
Fail(r) ==
  /\ request[r] # Idle
  /\ Done(r)
  /\ UNCHANGED <<repayment, approval>>

-----------------------------------------------------------------------------
\* Mutant: one approval is enough.
CollectibleUnderReview(p) ==
  {k \in Repayments : repayment[k].status \in {"APPROVED", "UNDER_REVIEW_KETUA"}}

Collectible(p) ==
  {k \in Repayments :
     /\ repayment[k].status = "APPROVED"
     /\ repayment[k].approvedIn <= p}

\* Mutant: isPaid is not looked at.
DueInAgain(p, l) == {n \in Numbers : loan[l].first + n - 1 = p}

\* The unpaid installment that is due in the month of period p.
DueIn(p, l) ==
  {n \in Numbers : loan[l].first + n - 1 = p} \ paid[l]

RepaidBy(p, l) == {k \in Collectible(p) : repayment[k].loan = l}

Settled(p) == {l \in Loans : RepaidBy(p, l) # {}}

\* The repayments go first: the loans they settle are no longer disbursed.
DueBy(p, l) ==
  IF l \notin Settled(p) /\ loan[l].status = "DISBURSED" THEN DueIn(p, l) ELSE {}

\* A repayment takes the amount it was created with.
TakenBy(p, l) ==
  SumOf([k \in RepaidBy(p, l) |-> repayment[k].total])
    + Installment * Cardinality(DueBy(p, l))

\* Mutant: the open installments of a settled loan stay open.
PaidAfterLeavingOpen(p, l) == paid[l] \cup DueBy(p, l)

PaidAfter(p, l) == IF l \in Settled(p) THEN Numbers ELSE paid[l] \cup DueBy(p, l)

ExcessLoans == {l \in Loans : loan[l].excess}

\* Mutant: only the installments of excess loans go back to the social fund.
ReplenishedByInstallments(p) ==
  SumOf([l \in ExcessLoans |->
           Installment * Cardinality(DueBy(p, l))])

ReplenishedBy(p) ==
  SumOf([l \in ExcessLoans |-> TakenBy(p, l)])

\* Payroll for period p: the approved repayments, whatever the status of their
\* loan, then the installments due in that month.
\* One step: runs of two months wait for each other at the savings accounts,
\* which they write before they read any loan.
RunPayroll(p, force) ==
  /\ force \/ p \notin processed
  /\ repayment' = [k \in Repayments |->
       IF k \in Collectible(p)
       THEN [repayment[k] EXCEPT !.status = "COMPLETED"] ELSE repayment[k]]
  /\ paid' = [l \in Loans |-> PaidAfter(p, l)]
  /\ loan' = [l \in Loans |->
       IF l \in Settled(p) \/ (DueBy(p, l) # {} /\ PaidAfter(p, l) = Numbers)
       THEN [loan[l] EXCEPT !.status = "COMPLETED"] ELSE loan[l]]
  /\ collected' = [l \in Loans |-> collected[l] + TakenBy(p, l)]
  /\ replenished' = replenished + ReplenishedBy(p)
  /\ processed' = processed \cup {p}
  /\ inTime' = IF p < next THEN inTime \cup {p} ELSE inTime
  /\ UNCHANGED <<next, approval, requestVars>>

\* deletePeriod forgets the period; the installments it paid stay paid.
DeletePeriod(p) ==
  /\ p \in processed
  /\ processed' = processed \ {p}
  /\ UNCHANGED <<next, loanVars, repayment, approval, inTime, requestVars>>

-----------------------------------------------------------------------------
Begin(r) ==
  \/ \E l \in Loans : BeginCreate(r, l)
  \/ \E k \in Repayments : BeginDecision(r, k, "APPROVE")
  \/ \E k \in Repayments : BeginDecision(r, k, "REJECT")

Commit(r) ==
  \/ Calculate(r)
  \/ CommitCreate(r)
  \/ CommitReject(r)
  \/ CommitApprove(r)

Payroll ==
  \E p \in Periods :
    \/ \E force \in BOOLEAN : RunPayroll(p, force)
    \/ DeletePeriod(p)

Next ==
  \/ CutoffPasses
  \/ \E l \in Loans, excess \in BOOLEAN : Disburse(l, excess)
  \/ \E r \in Requests : Begin(r) \/ Commit(r) \/ Fail(r)
  \/ Payroll

Spec == Init /\ [][Next]_vars

-----------------------------------------------------------------------------
(* However the requests overlap with each other and with payroll.          *)

\* A loan is completed exactly when none of its installments is open, whether
\* payroll took them one by one or a repayment settled the rest.
CompletedIffPaid ==
  \A l \in Loans : loan[l].status = "COMPLETED" <=> paid[l] = Numbers

\* Payroll charges each installment once, however often a month is forced or
\* deleted and run again: apart from repayments, what was collected for a loan
\* is what its paid installments say.
InstallmentsChargedOnce ==
  \A l \in Loans :
    (\A k \in Repayments : repayment[k] # NoRepayment => repayment[k].loan # l)
      => collected[l] = Installment * Cardinality(paid[l])

\* What excess loans bring back goes to the social fund they were paid from.
ExcessReplenishesFund ==
  replenished = SumOf([l \in ExcessLoans |-> collected[l]])

\* Payroll's money is accounted for: members are charged what the paid
\* installments say, and the fund gets back what belongs to it.
MoneyAccounted == InstallmentsChargedOnce /\ ExcessReplenishesFund

\* When payroll has run for a month after its cutoff, no installment due in it
\* is open: a loan disbursed later is due later.
DueIsCollected ==
  \A p \in inTime, l \in Loans :
    loan[l].status = "DISBURSED" => DueIn(p, l) = {}

-----------------------------------------------------------------------------
(* As long as no two requests have overlapped; payroll runs at any time.   *)

\* "Sudah ada pengajuan pelunasan yang sedang diproses untuk pinjaman ini"
\* (repayment-calculation.service.ts:92): a loan has at most one repayment
\* under review.
OneUnderReview == ~overlapped => \A l \in Loans : Cardinality(UnderReview(l)) <= 1

\* Payroll settles a loan by a repayment only with both approvals.
RepaidIsSigned ==
  ~overlapped => \A k \in Repayments :
    repayment[k].status = "COMPLETED" => \A s \in Steps : approval[k][s] = "APPROVED"

Settlements(l) ==
  {k \in Repayments : repayment[k].status = "COMPLETED" /\ repayment[k].loan = l}

\* The cooperative does not lose: when a loan is completed payroll has
\* collected all of it, however stale the amount of a repayment is, up to what
\* rounding leaves: half a unit for each installment, and as much again for
\* each repayment that is calculated after the last installment was paid.
CompletedIsCovered ==
  ~overlapped => \A l \in Loans :
    loan[l].status = "COMPLETED" =>
      2 * collected[l] >= 2 * Total - Tenor * (1 + Cardinality(Settlements(l)))

\* One request after the other, a loan has one repayment under way, which is
\* signed before it is collected and covers what the loan has to bring back.
RepaymentsCover == OneUnderReview /\ RepaidIsSigned /\ CompletedIsCovered

-----------------------------------------------------------------------------
(* What the code says and does not keep.                                   *)

\* "Hanya pinjaman yang sudah dicairkan yang dapat dilunasi"
\* (repayment-calculation.service.ts:76): only a disbursed loan is repaid.
OnlyDisbursedIsRepaid ==
  [][\A k \in Repayments :
       /\ repayment[k].status = "APPROVED"
       /\ repayment'[k].status = "COMPLETED"
       => loan[repayment[k].loan].status = "DISBURSED"]_vars

=============================================================================
