------------------------ MODULE LoanRepaymentProofs ------------------------
(***************************************************************************)
(* How disbursed loans come back, for any loans, tenors, amounts, periods, *)
(* repayments and requests.  Whatever requests do, a loan is completed     *)
(* exactly when nothing is open, what was due in a month that was run      *)
(* after its cutoff has been taken, and payroll's money is accounted for:  *)
(* the loans' rows are payroll's alone, and it reads and writes them in    *)
(* one transaction.  While requests do not overlap, repayments are signed  *)
(* before they are collected and cover the loans they complete.            *)
(***************************************************************************)
EXTENDS LoanRepayment, ArithmeticProofs

-----------------------------------------------------------------------------
(* Payroll and the loans' rows, whatever requests do.                      *)

\* The rows that payroll works on, and what it has run after the cutoff.
PayrollTypes ==
  /\ next \in Nat
  /\ loan \in [Loans -> LoanRow]
  /\ paid \in [Loans -> SUBSET Numbers]
  /\ inTime \in SUBSET {p \in Periods : p < next}

Inv == PayrollTypes /\ CompletedIffPaid /\ DueIsCollected

-----------------------------------------------------------------------------
LEMMA InitInv == Init => Inv
  <1> SUFFICES ASSUME Init
               PROVE  Inv
    OBVIOUS
  <1>1. PayrollTypes
    BY DEF Init, PayrollTypes, LoanRow, NotDisbursed
  <1>2. 1 \in Numbers
    BY RepaymentAssumption DEF Numbers
  <1>3. CompletedIffPaid
    BY <1>2 DEF Init, CompletedIffPaid, NotDisbursed
  <1>4. DueIsCollected
    BY DEF Init, DueIsCollected
  <1> QED
    BY <1>1, <1>3, <1>4 DEF Inv

\* Requests leave payroll's rows alone.
LEMMA RequestInv ==
  ASSUME Inv, UNCHANGED <<next, loanVars, payrollVars>>
  PROVE  Inv'
  BY DEF Inv, PayrollTypes, CompletedIffPaid, DueIsCollected, DueIn, loanVars, payrollVars

LEMMA CutoffInv ==
  ASSUME Inv, CutoffPasses
  PROVE  Inv'
  <1>1. next' = next + 1 /\ UNCHANGED <<loan, paid, inTime>>
    BY DEF CutoffPasses, loanVars, payrollVars
  <1>2. PayrollTypes'
    BY <1>1 DEF Inv, PayrollTypes, Periods
  <1>3. CompletedIffPaid' /\ DueIsCollected'
    BY <1>1 DEF Inv, CompletedIffPaid, DueIsCollected, DueIn
  <1> QED
    BY <1>2, <1>3 DEF Inv

\* A loan is first due in the month whose cutoff comes next: nothing of it was
\* due in a month that has been run after its cutoff.
LEMMA DisburseInv ==
  ASSUME Inv, NEW l \in Loans, NEW excess \in BOOLEAN, Disburse(l, excess)
  PROVE  Inv'
  <1> DEFINE row == [status |-> "DISBURSED", excess |-> excess, first |-> next]
  <1>1. /\ loan[l].status = "PENDING_AUTHORIZATION"
        /\ loan' = [loan EXCEPT ![l] = row]
        /\ UNCHANGED <<next, paid, inTime>>
    BY DEF Disburse, FirstDue, payrollVars
  <1>2. row \in LoanRow /\ row.status = "DISBURSED" /\ row.first = next
    BY DEF LoanRow, Inv, PayrollTypes
  <1> HIDE DEF row
  <1>3. PayrollTypes'
    BY <1>1, <1>2 DEF Inv, PayrollTypes
  <1>4. CompletedIffPaid'
    BY <1>1, <1>2 DEF Inv, PayrollTypes, CompletedIffPaid
  <1>5. ASSUME NEW p \in inTime, NEW k \in Loans, loan'[k].status = "DISBURSED"
        PROVE  DueIn(p, k)' = {}
    <2>1. CASE k = l
      <3>1. p \in Nat /\ p < next /\ loan'[k].first = next
        BY <1>1, <1>2, <2>1 DEF Inv, PayrollTypes, Periods
      <3>2. \A n \in Numbers : n \in Nat /\ n >= 1
        BY RepaymentAssumption DEF Numbers
      <3>3. \A n \in Numbers : loan'[k].first + n - 1 # p
        BY <3>1, <3>2 DEF Inv, PayrollTypes
      <3> QED
        BY <3>3 DEF DueIn
    <2>2. CASE k # l
      BY <1>1, <1>5, <2>2 DEF Inv, PayrollTypes, DueIsCollected, DueIn
    <2> QED
      BY <2>1, <2>2
  <1>6. DueIsCollected'
    BY <1>1, <1>5 DEF DueIsCollected
  <1> QED
    BY <1>3, <1>4, <1>6 DEF Inv

\* One run of payroll takes the rest of the loans that are settled and what is
\* due of the others, and completes exactly the loans this leaves paid.
LEMMA RunPayrollInv ==
  ASSUME Inv, NEW p \in Periods, NEW force \in BOOLEAN, RunPayroll(p, force)
  PROVE  Inv'
  <1> DEFINE done(l) == l \in Settled(p) \/ (DueBy(p, l) # {} /\ PaidAfter(p, l) = Numbers)
  <1>1. /\ paid' = [l \in Loans |-> PaidAfter(p, l)]
        /\ loan' = [l \in Loans |->
             IF done(l) THEN [loan[l] EXCEPT !.status = "COMPLETED"] ELSE loan[l]]
        /\ inTime' = IF p < next THEN inTime \cup {p} ELSE inTime
        /\ next' = next
    BY DEF RunPayroll
  <1>2. ASSUME NEW l \in Loans
        PROVE  /\ DueBy(p, l) \in SUBSET Numbers
               /\ PaidAfter(p, l) \in SUBSET Numbers
               /\ paid[l] \subseteq PaidAfter(p, l)
    BY DEF DueBy, DueIn, PaidAfter, Inv, PayrollTypes
  <1>3. ASSUME NEW l \in Loans
        PROVE  /\ loan'[l] \in LoanRow
               /\ loan'[l].first = loan[l].first
               /\ done(l) => loan'[l].status = "COMPLETED"
               /\ ~done(l) => loan'[l].status = loan[l].status
    <2>1. loan[l] \in LoanRow
      BY DEF Inv, PayrollTypes
    <2>2. /\ [loan[l] EXCEPT !.status = "COMPLETED"] \in LoanRow
          /\ [loan[l] EXCEPT !.status = "COMPLETED"].status = "COMPLETED"
          /\ [loan[l] EXCEPT !.status = "COMPLETED"].first = loan[l].first
      BY <2>1 DEF LoanRow
    <2> HIDE DEF done
    <2>3. loan'[l] = IF done(l) THEN [loan[l] EXCEPT !.status = "COMPLETED"] ELSE loan[l]
      BY <1>1
    <2> QED
      BY <2>1, <2>2, <2>3
  <1>4. PayrollTypes'
    BY <1>1, <1>2, <1>3 DEF Inv, PayrollTypes
  <1>5. CompletedIffPaid'
    <2>1. ASSUME NEW l \in Loans
          PROVE  loan'[l].status = "COMPLETED" <=> PaidAfter(p, l) = Numbers
      <3>1. CASE l \in Settled(p)
        BY <1>3, <3>1 DEF PaidAfter
      <3>2. CASE l \notin Settled(p) /\ loan[l].status = "DISBURSED"
        BY <1>3, <3>2 DEF PaidAfter, Inv, CompletedIffPaid
      <3>3. CASE l \notin Settled(p) /\ loan[l].status # "DISBURSED"
        BY <1>3, <3>3 DEF PaidAfter, DueBy, Inv, CompletedIffPaid
      <3> QED
        BY <3>1, <3>2, <3>3
    <2> QED
      BY <1>1, <2>1 DEF CompletedIffPaid
  <1>6. DueIsCollected'
    <2>1. ASSUME NEW i \in inTime', NEW l \in Loans, loan'[l].status = "DISBURSED"
          PROVE  DueIn(i, l)' = {}
      <3>1. ~done(l) /\ loan[l].status = "DISBURSED" /\ loan'[l].first = loan[l].first
        BY <1>3, <2>1
      <3>2. paid'[l] = paid[l] \cup DueIn(p, l)
        BY <1>1, <3>1 DEF PaidAfter, DueBy
      <3>3. CASE i \in inTime
        BY <3>1, <3>2, <3>3 DEF Inv, DueIsCollected, DueIn
      <3>4. CASE i = p
        BY <3>1, <3>2, <3>4 DEF DueIn
      <3> QED
        BY <1>1, <3>3, <3>4
    <2> QED
      BY <2>1 DEF DueIsCollected
  <1> QED
    BY <1>4, <1>5, <1>6 DEF Inv

LEMMA StepInv == Inv /\ [Next]_vars => Inv'
  <1> SUFFICES ASSUME Inv, [Next]_vars
               PROVE  Inv'
    OBVIOUS
  <1>1. CASE CutoffPasses
    BY <1>1, CutoffInv
  <1>2. ASSUME NEW l \in Loans, NEW excess \in BOOLEAN, Disburse(l, excess)
        PROVE  Inv'
    BY <1>2, DisburseInv
  <1>3. ASSUME NEW r \in Requests, Begin(r) \/ Commit(r) \/ Fail(r)
        PROVE  Inv'
    <2>1. UNCHANGED <<next, loanVars, payrollVars>>
      BY <1>3 DEF Begin, BeginCreate, BeginDecision, Enter, Commit, Calculate, CommitCreate,
                  CommitReject, CommitApprove, Fail, Done
    <2> QED
      BY <2>1, RequestInv
  <1>4. ASSUME NEW p \in Periods, NEW force \in BOOLEAN, RunPayroll(p, force)
        PROVE  Inv'
    BY <1>4, RunPayrollInv
  <1>5. ASSUME NEW p \in Periods, DeletePeriod(p)
        PROVE  Inv'
    BY <1>5 DEF DeletePeriod, loanVars, Inv, PayrollTypes, CompletedIffPaid, DueIsCollected, DueIn
  <1>6. CASE UNCHANGED vars
    BY <1>6, RequestInv DEF vars
  <1> QED
    BY <1>1, <1>2, <1>3, <1>4, <1>5, <1>6 DEF Next, Payroll

-----------------------------------------------------------------------------
(* The types, with the requests': a decision is about a repayment that was *)
(* written.                                                                *)

Written ==
  \A r \in Requests :
    request[r].op \in {"APPROVE", "REJECT"} => repayment[request[r].id] # NoRepayment

Typed == TypeOK /\ Written

LEMMA RepaymentRows ==
  ASSUME Typed, NEW k \in Repayments
  PROVE  /\ repayment[k] # NoRepayment => repayment[k] \in RepaymentRow
         /\ \A row \in RepaymentRow : row # NoRepayment
         /\ \A row \in RepaymentRow : /\ row.loan \in Loans /\ row.total \in Int
                                      /\ row.status # "NONE" /\ row.approvedIn \in Nat
         /\ NoRepayment.status = "NONE"
  BY DEF Typed, TypeOK, RepaymentRow, NoRepayment

LEMMA RequestRows ==
  ASSUME Typed, NEW r \in Requests
  PROVE  /\ request[r].op \in {"CALCULATE", "CREATE"} => request[r].loan \in Loans
         /\ request[r].op = "CREATE" => request[r].total \in Int
         /\ request[r].op \in {"APPROVE", "REJECT"} =>
              request[r].id \in Repayments /\ request[r].step \in Steps
         /\ request[r].op # "IDLE" => request[r] # Idle
  BY DEF Typed, TypeOK, RequestRow, Idle

\* A decision moves the row of its repayment.
LEMMA RowMoved ==
  ASSUME NEW row \in RepaymentRow, NEW n \in Nat,
         NEW q \in {[row EXCEPT !.status = "REJECTED", !.step = NoStep],
                    [row EXCEPT !.status = "APPROVED", !.step = NoStep, !.approvedIn = n],
                    [row EXCEPT !.status = "UNDER_REVIEW_KETUA", !.step = "KETUA"]}
  PROVE  q \in RepaymentRow /\ q.loan = row.loan /\ q.total = row.total
  BY DEF RepaymentRow, Steps

\* What a decision leaves: row in place of repayment k, and d as the decision
\* on step s.
DecidedAs(r, k, row, s, d) ==
  /\ k = request[r].id /\ s = request[r].step
  /\ request[r] # Idle /\ request[r].op = (IF d = "APPROVED" THEN "APPROVE" ELSE "REJECT")
  /\ repayment[k] \in RepaymentRow
  /\ repayment' = [repayment EXCEPT ![k] = row]
  /\ row.loan = repayment[k].loan /\ row.total = repayment[k].total
  /\ row.status = (IF d = "REJECTED" THEN "REJECTED"
                   ELSE IF s = "KETUA" THEN "APPROVED" ELSE "UNDER_REVIEW_KETUA")
  /\ row.step = (IF d = "APPROVED" /\ s # "KETUA" THEN "KETUA" ELSE NoStep)
  /\ approval' = [approval EXCEPT ![k][s] = d]
  /\ Done(r)

LEMMA DecisionFacts ==
  ASSUME Typed, NEW r \in Requests, CommitReject(r) \/ CommitApprove(r)
  PROVE  \E k \in Repayments, row \in RepaymentRow, s \in Steps,
            d \in {"APPROVED", "REJECTED"} : DecidedAs(r, k, row, s, d)
  <1>1. PICK q : q = request[r]
    OBVIOUS
  <1>2. q.op \in {"APPROVE", "REJECT"} /\ Done(r)
    BY <1>1 DEF CommitReject, CommitApprove
  <1>3. PICK k \in Repayments, s \in Steps : k = q.id /\ s = q.step
    BY <1>1, <1>2, RequestRows
  <1>4. q # Idle /\ repayment[k] \in RepaymentRow /\ next \in Nat
    BY <1>1, <1>2, <1>3, RequestRows, RepaymentRows, RepaymentAssumption
       DEF Typed, Written, TypeOK
  <1>5. CASE CommitReject(r)
    <2>1. PICK row : row = [repayment[k] EXCEPT !.status = "REJECTED", !.step = NoStep]
      OBVIOUS
    <2>2. /\ row \in RepaymentRow /\ row.loan = repayment[k].loan
          /\ row.total = repayment[k].total
      BY <1>4, <2>1, RowMoved
    <2>3. row.status = "REJECTED" /\ row.step = NoStep
      BY <1>4, <2>1 DEF RepaymentRow
    <2>4. /\ repayment' = [repayment EXCEPT ![k] = row] /\ q.op = "REJECT"
          /\ approval' = [approval EXCEPT ![k][s] = "REJECTED"]
      BY <1>1, <1>3, <1>5, <2>1 DEF CommitReject, Typed, TypeOK
    <2>5. DecidedAs(r, k, row, s, "REJECTED")
      BY <1>1, <1>2, <1>3, <1>4, <2>2, <2>3, <2>4 DEF DecidedAs
    <2> QED
      BY <2>2, <2>5
  <1>6. CASE CommitApprove(r)
    <2>1. PICK row : row = IF s = "KETUA"
                           THEN [repayment[k] EXCEPT !.status = "APPROVED", !.step = NoStep,
                                                     !.approvedIn = next]
                           ELSE [repayment[k] EXCEPT !.status = "UNDER_REVIEW_KETUA",
                                                     !.step = "KETUA"]
      OBVIOUS
    <2>2. /\ row \in RepaymentRow /\ row.loan = repayment[k].loan
          /\ row.total = repayment[k].total
      BY <1>4, <2>1, RowMoved
    <2>3. /\ row.status = IF s = "KETUA" THEN "APPROVED" ELSE "UNDER_REVIEW_KETUA"
          /\ row.step = IF s = "KETUA" THEN NoStep ELSE "KETUA"
      BY <1>4, <2>1 DEF RepaymentRow
    <2>4. /\ repayment' = [repayment EXCEPT ![k] = row] /\ q.op = "APPROVE"
          /\ approval' = [approval EXCEPT ![k][s] = "APPROVED"]
      BY <1>1, <1>3, <1>6, <2>1 DEF CommitApprove, StatusForStep, Typed, TypeOK
    <2>5. DecidedAs(r, k, row, s, "APPROVED")
      BY <1>1, <1>2, <1>3, <1>4, <2>2, <2>3, <2>4 DEF DecidedAs
    <2> QED
      BY <2>2, <2>5
  <1> QED
    BY <1>5, <1>6

\* What createRepayment leaves.
CreatedAs(r, k, row) ==
  /\ request[r].op = "CREATE" /\ request[r] # Idle
  /\ repayment[k] = NoRepayment
  /\ repayment' = [repayment EXCEPT ![k] = row]
  /\ row.status = "UNDER_REVIEW_DSP" /\ row.step = "DIVISI_SIMPAN_PINJAM"
  /\ row.loan = request[r].loan /\ row.total = request[r].total
  /\ approval' = [approval EXCEPT ![k] = Undecided]
  /\ Done(r)

LEMMA CreateFacts ==
  ASSUME Typed, NEW r \in Requests, CommitCreate(r)
  PROVE  \E k \in Repayments, row \in RepaymentRow : CreatedAs(r, k, row)
  <1>1. PICK l \in Loans, t \in Int : l = request[r].loan /\ t = request[r].total
    BY RequestRows DEF CommitCreate
  <1>2. PICK row : row = [status |-> "UNDER_REVIEW_DSP", step |-> "DIVISI_SIMPAN_PINJAM",
                          loan |-> l, total |-> t, approvedIn |-> 0]
    OBVIOUS
  <1>3. row \in RepaymentRow
    BY <1>2 DEF RepaymentRow, Steps
  <1>4. PICK k \in Repayments :
          /\ repayment[k] = NoRepayment
          /\ repayment' = [repayment EXCEPT ![k] = row]
          /\ approval' = [approval EXCEPT ![k] = Undecided]
    BY <1>1, <1>2 DEF CommitCreate
  <1>5. request[r].op = "CREATE" /\ request[r] # Idle /\ Done(r)
    BY RequestRows DEF CommitCreate
  <1>6. CreatedAs(r, k, row)
    BY <1>1, <1>2, <1>4, <1>5 DEF CreatedAs
  <1> QED
    BY <1>3, <1>6

\* Payroll completes the repayments it collects and leaves the others.
LEMMA CollectedFacts ==
  ASSUME Typed, NEW p \in Periods, NEW force \in BOOLEAN, RunPayroll(p, force),
         NEW k \in Repayments
  PROVE  /\ repayment[k] = NoRepayment => repayment'[k] = NoRepayment
         /\ repayment[k] # NoRepayment =>
              /\ repayment'[k] \in RepaymentRow /\ repayment'[k] # NoRepayment
              /\ repayment'[k].loan = repayment[k].loan
              /\ repayment'[k].total = repayment[k].total
              /\ repayment'[k].step = repayment[k].step
         /\ k \notin Collectible(p) => repayment'[k] = repayment[k]
         /\ k \in Collectible(p) =>
              repayment[k].status = "APPROVED" /\ repayment'[k].status = "COMPLETED"
  <1>1. repayment'[k] = IF k \in Collectible(p)
                        THEN [repayment[k] EXCEPT !.status = "COMPLETED"] ELSE repayment[k]
    BY DEF RunPayroll
  <1>2. k \in Collectible(p) => repayment[k].status = "APPROVED"
    BY DEF Collectible
  <1>3. \A row \in RepaymentRow :
          /\ [row EXCEPT !.status = "COMPLETED"] \in RepaymentRow
          /\ [row EXCEPT !.status = "COMPLETED"].loan = row.loan
          /\ [row EXCEPT !.status = "COMPLETED"].total = row.total
          /\ [row EXCEPT !.status = "COMPLETED"].step = row.step
          /\ [row EXCEPT !.status = "COMPLETED"].status = "COMPLETED"
    BY DEF RepaymentRow
  <1>4. k \in Collectible(p) => repayment[k] # NoRepayment
    BY <1>2, RepaymentRows
  <1> QED
    BY <1>1, <1>2, <1>3, <1>4, RepaymentRows

\* What payroll takes of a loan.
LEMMA TakenTypes ==
  ASSUME Typed, NEW p \in Periods, NEW l \in Loans
  PROVE  /\ RepaidBy(p, l) \subseteq Repayments /\ IsFiniteSet(RepaidBy(p, l))
         /\ [k \in RepaidBy(p, l) |-> repayment[k].total] \in [RepaidBy(p, l) -> Int]
         /\ SumOf([k \in RepaidBy(p, l) |-> repayment[k].total]) \in Int
         /\ DueBy(p, l) \subseteq Numbers \ paid[l]
         /\ IsFiniteSet(DueBy(p, l)) /\ Cardinality(DueBy(p, l)) \in Nat
         /\ Installment \in Nat
         /\ TakenBy(p, l) \in Int
  <1>1. RepaidBy(p, l) \subseteq Repayments
    BY DEF RepaidBy, Collectible
  <1>2. IsFiniteSet(RepaidBy(p, l))
    BY <1>1, FS_Subset, RepaymentAssumption
  <1>3. \A k \in RepaidBy(p, l) : repayment[k].total \in Int
    <2> SUFFICES ASSUME NEW k \in RepaidBy(p, l)
                 PROVE  repayment[k].total \in Int
      OBVIOUS
    <2>1. k \in Repayments /\ repayment[k] # NoRepayment
      BY <1>1, RepaymentRows DEF RepaidBy, Collectible
    <2> QED
      BY <2>1, RepaymentRows
  <1>4. [k \in RepaidBy(p, l) |-> repayment[k].total] \in [RepaidBy(p, l) -> Int]
    BY <1>3
  <1>5. SumOf([k \in RepaidBy(p, l) |-> repayment[k].total]) \in Int
    BY <1>2, <1>4, SumOfInt
  <1>6. DueBy(p, l) \subseteq Numbers \ paid[l]
    BY DEF DueBy, DueIn
  <1>7. IsFiniteSet(DueBy(p, l)) /\ Cardinality(DueBy(p, l)) \in Nat
    <2>1. IsFiniteSet(Numbers)
      BY FS_Interval, RepaymentAssumption DEF Numbers
    <2>2. IsFiniteSet(DueBy(p, l))
      BY <1>6, <2>1, FS_Subset
    <2> QED
      BY <2>2, FS_CardinalityType
  <1>8. Installment \in Nat
    BY RoundedQuotientNat, RepaymentAssumption DEF Installment, MonthlyInstallment
  <1>9. Installment * Cardinality(DueBy(p, l)) \in Int
    BY <1>7, <1>8
  <1>10. TakenBy(p, l) \in Int
    BY <1>5, <1>9 DEF TakenBy
  <1> QED
    BY <1>1, <1>2, <1>4, <1>5, <1>6, <1>7, <1>8, <1>10

\* What remains of a loan is never less than what rounding leaves.
LEMMA RemainingBound ==
  ASSUME NEW l \in Loans, paid[l] \in SUBSET Numbers
  PROVE  /\ IsFiniteSet(paid[l]) /\ Cardinality(paid[l]) \in Nat
         /\ Cardinality(paid[l]) <= Tenor
         /\ paid[l] = Numbers => Cardinality(paid[l]) = Tenor
         /\ Installment \in Nat /\ Tenor \in Nat /\ Total \in Nat
         /\ Remaining(l) \in Int
         /\ -Tenor <= 2 * Remaining(l)
  <1>1. Tenor \in Nat \ {0} /\ Total \in Nat
    BY RepaymentAssumption
  <1>2. IsFiniteSet(Numbers) /\ Cardinality(Numbers) = Tenor
    BY <1>1, FS_Interval DEF Numbers
  <1>3. IsFiniteSet(paid[l]) /\ Cardinality(paid[l]) <= Tenor
    BY <1>2, FS_Subset
  <1>4. PICK c \in Nat : c = Cardinality(paid[l])
    BY <1>3, FS_CardinalityType
  <1>5. PICK i \in Nat : i = Installment
    BY <1>1, RoundedQuotientNat DEF Installment, MonthlyInstallment
  <1>6. 2 * (Tenor * i - Total) <= Tenor
    BY <1>1, <1>5, RoundedQuotientBound DEF Installment, MonthlyInstallment
  <1>7. i * c <= Tenor * i /\ i * c \in Nat /\ Tenor * i \in Nat
    <2>1. PICK d \in Nat : Tenor = c + d
      <3>1. Tenor - c \in Nat /\ Tenor = c + (Tenor - c)
        BY <1>1, <1>3, <1>4
      <3> QED
        BY <3>1
    <2>2. Tenor * i = i * c + i * d /\ i * d \in Nat /\ i * c \in Nat
      BY <2>1
    <2> QED
      BY <2>2
  <1>8. Remaining(l) = Total - i * c
    BY <1>4, <1>5 DEF Remaining
  <1>9. Remaining(l) \in Int /\ -Tenor <= 2 * Remaining(l)
    BY <1>1, <1>6, <1>7, <1>8
  <1> QED
    BY <1>1, <1>2, <1>3, <1>4, <1>5, <1>9

LEMMA InitTyped == Init => Typed
  <1>1. NotDisbursed \in LoanRow
    BY DEF NotDisbursed, LoanRow
  <1>2. 1 \in 1 .. LastPeriod + 1 /\ 0 \in 0 .. MaxOverlaps
    BY RepaymentAssumption
  <1>3. Undecided \in [Steps -> Decisions]
    BY DEF Undecided, Decisions
  <1> QED
    BY <1>1, <1>2, <1>3 DEF Init, Typed, TypeOK, Written, Idle

\* A request enters with what it has read.
LEMMA EnterTyped ==
  ASSUME Typed, NEW r \in Requests, NEW row \in RequestRow, Enter(r, row),
         row.op \in {"APPROVE", "REJECT"} => repayment[row.id] # NoRepayment
  PROVE  Typed'
  <1>1. /\ request' = [request EXCEPT ![r] = row]
        /\ UNCHANGED <<next, loanVars, repayment, approval, payrollVars>>
    BY DEF Enter
  <1>2. overlaps' \in 0 .. MaxOverlaps
    BY RepaymentAssumption DEF Enter, Typed, TypeOK
  <1>3. TypeOK'
    BY <1>1, <1>2 DEF Typed, TypeOK, loanVars, payrollVars
  <1>4. Written'
    BY <1>1 DEF Typed, TypeOK, Written
  <1> QED
    BY <1>3, <1>4 DEF Typed

LEMMA BeginTyped ==
  ASSUME Typed, NEW r \in Requests, Begin(r)
  PROVE  Typed'
  <1>1. ASSUME NEW l \in Loans, BeginCreate(r, l)
        PROVE  Typed'
    <2>1. PICK row : row = [op |-> "CALCULATE", loan |-> l]
      OBVIOUS
    <2>2. row \in RequestRow /\ row.op = "CALCULATE"
      BY <2>1 DEF RequestRow
    <2> QED
      BY <1>1, <2>1, <2>2, EnterTyped DEF BeginCreate
  <1>2. ASSUME NEW k \in Repayments, NEW op \in {"APPROVE", "REJECT"}, BeginDecision(r, k, op)
        PROVE  Typed'
    <2>1. PICK row : row = [op |-> op, id |-> k, step |-> repayment[k].step]
      OBVIOUS
    <2>2. row \in RequestRow /\ row.id = k
      BY <1>2, <2>1 DEF RequestRow, BeginDecision
    <2>3. repayment[k] # NoRepayment
      BY <1>2 DEF BeginDecision, NoRepayment, NoStep, Steps
    <2> QED
      BY <1>2, <2>1, <2>2, <2>3, EnterTyped DEF BeginDecision
  <1> QED
    BY <1>1, <1>2 DEF Begin

\* A request that ends leaves the others as they were, and no repayment is unwritten.
LEMMA DoneTyped ==
  ASSUME Typed, NEW r \in Requests, Done(r),
         repayment' \in [Repayments -> {NoRepayment} \cup RepaymentRow],
         approval' \in [Repayments -> [Steps -> Decisions]],
         \A k \in Repayments : repayment[k] # NoRepayment => repayment'[k] # NoRepayment
  PROVE  Typed'
  <1>1. /\ request' = [request EXCEPT ![r] = Idle]
        /\ UNCHANGED <<next, loan, paid, collected, replenished, processed, inTime, overlaps>>
    BY DEF Done, loanVars, payrollVars
  <1>2. TypeOK'
    BY <1>1 DEF Typed, TypeOK
  <1>3. Written'
    <2> SUFFICES ASSUME NEW s \in Requests, request'[s].op \in {"APPROVE", "REJECT"}
                 PROVE  repayment'[request'[s].id] # NoRepayment
      BY DEF Written
    <2>1. request'[s] = request[s]
      BY <1>1 DEF Typed, TypeOK, Idle
    <2> QED
      BY <2>1, RequestRows DEF Typed, Written
  <1> QED
    BY <1>2, <1>3 DEF Typed

LEMMA CommitTyped ==
  ASSUME Typed, NEW r \in Requests, Commit(r) \/ Fail(r)
  PROVE  Typed'
  <1>1. CASE Calculate(r)
    <2>1. PICK l \in Loans : l = request[r].loan
      BY <1>1, RequestRows DEF Calculate
    <2>2. Remaining(l) \in Int
      BY RemainingBound DEF Typed, TypeOK
    <2>3. PICK row : row = [op |-> "CREATE", loan |-> l, total |-> Remaining(l)]
      OBVIOUS
    <2>4. row \in RequestRow /\ row.op = "CREATE"
      BY <2>2, <2>3 DEF RequestRow
    <2>5. /\ request' = [request EXCEPT ![r] = row]
          /\ UNCHANGED <<next, loan, paid, collected, replenished, repayment, approval,
                         processed, inTime, overlaps>>
      BY <1>1, <2>1, <2>3 DEF Calculate, loanVars, payrollVars
    <2>6. TypeOK'
      BY <2>4, <2>5 DEF Typed, TypeOK
    <2>7. Written'
      BY <2>4, <2>5 DEF Typed, TypeOK, Written
    <2> QED
      BY <2>6, <2>7 DEF Typed
  <1>2. CASE CommitCreate(r)
    <2>1. PICK k \in Repayments, row \in RepaymentRow : CreatedAs(r, k, row)
      BY <1>2, CreateFacts
    <2>2. /\ repayment' = [repayment EXCEPT ![k] = row]
          /\ approval' = [approval EXCEPT ![k] = Undecided]
          /\ Done(r)
      BY <2>1 DEF CreatedAs
    <2>3. Undecided \in [Steps -> Decisions] /\ row # NoRepayment
      BY RepaymentRows DEF Undecided, Decisions
    <2>4. /\ repayment' \in [Repayments -> {NoRepayment} \cup RepaymentRow]
          /\ approval' \in [Repayments -> [Steps -> Decisions]]
          /\ \A j \in Repayments : repayment[j] # NoRepayment => repayment'[j] # NoRepayment
      BY <2>2, <2>3 DEF Typed, TypeOK
    <2> QED
      BY <2>2, <2>4, DoneTyped
  <1>3. CASE CommitReject(r) \/ CommitApprove(r)
    <2>1. PICK k \in Repayments, row \in RepaymentRow, s \in Steps,
               d \in {"APPROVED", "REJECTED"} : DecidedAs(r, k, row, s, d)
      BY <1>3, DecisionFacts
    <2>2. /\ repayment' = [repayment EXCEPT ![k] = row]
          /\ approval' = [approval EXCEPT ![k][s] = d]
          /\ Done(r)
      BY <2>1 DEF DecidedAs
    <2>3. d \in Decisions /\ row # NoRepayment
      BY RepaymentRows DEF Decisions
    <2>4. /\ repayment' \in [Repayments -> {NoRepayment} \cup RepaymentRow]
          /\ approval' \in [Repayments -> [Steps -> Decisions]]
          /\ \A j \in Repayments : repayment[j] # NoRepayment => repayment'[j] # NoRepayment
      BY <2>2, <2>3 DEF Typed, TypeOK
    <2> QED
      BY <2>2, <2>4, DoneTyped
  <1>4. CASE Fail(r)
    BY <1>4, DoneTyped DEF Fail, Typed, TypeOK
  <1> QED
    BY <1>1, <1>2, <1>3, <1>4 DEF Commit

LEMMA RunPayrollTyped ==
  ASSUME Typed, NEW p \in Periods, NEW force \in BOOLEAN, RunPayroll(p, force)
  PROVE  Typed'
  <1>1. /\ repayment' = [k \in Repayments |->
             IF k \in Collectible(p)
             THEN [repayment[k] EXCEPT !.status = "COMPLETED"] ELSE repayment[k]]
        /\ paid' = [l \in Loans |-> PaidAfter(p, l)]
        /\ loan' = [l \in Loans |->
             IF l \in Settled(p) \/ (DueBy(p, l) # {} /\ PaidAfter(p, l) = Numbers)
             THEN [loan[l] EXCEPT !.status = "COMPLETED"] ELSE loan[l]]
        /\ collected' = [l \in Loans |-> collected[l] + TakenBy(p, l)]
        /\ replenished' = replenished + ReplenishedBy(p)
        /\ processed' = processed \cup {p}
        /\ inTime' = IF p < next THEN inTime \cup {p} ELSE inTime
        /\ UNCHANGED <<next, approval, request, overlaps>>
    BY DEF RunPayroll, requestVars
  <1>2. repayment' \in [Repayments -> {NoRepayment} \cup RepaymentRow]
    <2>1. \A k \in Repayments : repayment'[k] \in {NoRepayment} \cup RepaymentRow
      BY CollectedFacts
    <2> QED
      BY <1>1, <2>1
  <1>3. paid' \in [Loans -> SUBSET Numbers]
    <2>1. \A l \in Loans : PaidAfter(p, l) \in SUBSET Numbers
      BY TakenTypes DEF PaidAfter, Typed, TypeOK
    <2> QED
      BY <1>1, <2>1
  <1>4. loan' \in [Loans -> LoanRow]
    <2>1. \A row \in LoanRow : [row EXCEPT !.status = "COMPLETED"] \in LoanRow
      BY DEF LoanRow
    <2>2. \A l \in Loans : loan'[l] \in {loan[l], [loan[l] EXCEPT !.status = "COMPLETED"]}
      BY <1>1
    <2>3. \A l \in Loans : loan[l] \in LoanRow
      BY DEF Typed, TypeOK
    <2>4. \A l \in Loans : loan'[l] \in LoanRow
      BY <2>1, <2>2, <2>3
    <2> QED
      BY <1>1, <2>4
  <1>5. collected' \in [Loans -> Int]
    <2>1. \A l \in Loans : collected[l] \in Int /\ TakenBy(p, l) \in Int
      BY TakenTypes DEF Typed, TypeOK
    <2>2. \A l \in Loans : collected[l] + TakenBy(p, l) \in Int
      BY <2>1
    <2> QED
      BY <1>1, <2>2
  <1>6. replenished' \in Int
    <2>1. IsFiniteSet(ExcessLoans)
      BY FS_Subset, RepaymentAssumption DEF ExcessLoans
    <2>2. [l \in ExcessLoans |-> TakenBy(p, l)] \in [ExcessLoans -> Int]
      BY TakenTypes DEF ExcessLoans
    <2>3. ReplenishedBy(p) \in Int
      BY <2>1, <2>2, SumOfInt DEF ReplenishedBy
    <2>4. replenished \in Int
      BY DEF Typed, TypeOK
    <2> QED
      BY <1>1, <2>3, <2>4
  <1>7. processed' \in SUBSET Periods /\ inTime' \in SUBSET Periods
    BY <1>1 DEF Typed, TypeOK
  <1>8. TypeOK'
    BY <1>1, <1>2, <1>3, <1>4, <1>5, <1>6, <1>7 DEF Typed, TypeOK
  <1>9. Written'
    <2> SUFFICES ASSUME NEW r \in Requests, request'[r].op \in {"APPROVE", "REJECT"}
                 PROVE  repayment'[request'[r].id] # NoRepayment
      BY DEF Written
    <2>1. request'[r] = request[r]
      BY <1>1
    <2>2. request[r].id \in Repayments /\ repayment[request[r].id] # NoRepayment
      BY <2>1, RequestRows DEF Typed, Written
    <2> QED
      BY <2>1, <2>2, CollectedFacts
  <1> QED
    BY <1>8, <1>9 DEF Typed

LEMMA TypedStep == Typed /\ [Next]_vars => Typed'
  <1> SUFFICES ASSUME Typed, [Next]_vars
               PROVE  Typed'
    OBVIOUS
  <1>1. CASE CutoffPasses
    <2>1. next' \in 1 .. LastPeriod + 1
      BY <1>1, RepaymentAssumption DEF CutoffPasses, Typed, TypeOK
    <2> QED
      BY <1>1, <2>1 DEF CutoffPasses, Typed, TypeOK, Written, loanVars, payrollVars, requestVars
  <1>2. ASSUME NEW l \in Loans, NEW excess \in BOOLEAN, Disburse(l, excess)
        PROVE  Typed'
    <2>1. PICK row : row = [status |-> "DISBURSED", excess |-> excess, first |-> next]
      OBVIOUS
    <2>2. row \in LoanRow
      BY <2>1, RepaymentAssumption DEF LoanRow, Typed, TypeOK
    <2>3. /\ loan' = [loan EXCEPT ![l] = row]
          /\ UNCHANGED <<next, paid, collected, replenished, repayment, approval,
                         processed, inTime, request, overlaps>>
      BY <1>2, <2>1 DEF Disburse, FirstDue, payrollVars, requestVars
    <2> QED
      BY <2>2, <2>3 DEF Typed, TypeOK, Written
  <1>3. ASSUME NEW r \in Requests, Begin(r) \/ Commit(r) \/ Fail(r)
        PROVE  Typed'
    BY <1>3, BeginTyped, CommitTyped
  <1>4. ASSUME NEW p \in Periods, NEW force \in BOOLEAN, RunPayroll(p, force)
        PROVE  Typed'
    BY <1>4, RunPayrollTyped
  <1>5. ASSUME NEW p \in Periods, DeletePeriod(p)
        PROVE  Typed'
    BY <1>5 DEF DeletePeriod, Typed, TypeOK, Written, loanVars, requestVars
  <1>6. CASE UNCHANGED vars
    BY <1>6 DEF vars, Typed, TypeOK, Written, loanVars, payrollVars, requestVars
  <1> QED
    BY <1>1, <1>2, <1>3, <1>4, <1>5, <1>6 DEF Next, Payroll

-----------------------------------------------------------------------------
(* What payroll collects and puts back, whatever requests do.              *)

Unrepaid(l) == \A k \in Repayments : repayment[k] # NoRepayment => repayment[k].loan # l

\* Nobody has asked to repay a loan that is not disbursed, and nothing was collected.
PendingUntouched ==
  \A l \in Loans :
    loan[l].status = "PENDING_AUTHORIZATION" =>
      /\ ~loan[l].excess /\ collected[l] = 0 /\ Unrepaid(l)
      /\ \A r \in Requests : request[r].op \in {"CALCULATE", "CREATE"} => request[r].loan # l

\* The amount of a repayment may be stale, but only to the cooperative's advantage.
AmountsSuffice ==
  /\ \A k \in Repayments :
       repayment[k] # NoRepayment => Remaining(repayment[k].loan) <= repayment[k].total
  /\ \A r \in Requests :
       request[r].op = "CREATE" => Remaining(request[r].loan) <= request[r].total

Charged == PendingUntouched /\ AmountsSuffice /\ InstallmentsChargedOnce /\ ExcessReplenishesFund

LEMMA InitCharged == Init => Charged
  <1> SUFFICES ASSUME Init
               PROVE  Charged
    OBVIOUS
  <1>1. PendingUntouched /\ AmountsSuffice
    BY DEF Init, PendingUntouched, AmountsSuffice, Unrepaid, NotDisbursed, Idle
  <1>2. InstallmentsChargedOnce
    <2> SUFFICES ASSUME NEW l \in Loans
                 PROVE  collected[l] = Installment * Cardinality(paid[l])
      BY DEF InstallmentsChargedOnce
    <2>1. paid[l] = {} /\ collected[l] = 0 /\ paid[l] \in SUBSET Numbers
      BY DEF Init
    <2>2. Cardinality(paid[l]) = 0 /\ Installment \in Nat
      BY <2>1, FS_EmptySet, RemainingBound
    <2> QED
      BY <2>1, <2>2
  <1>3. ExcessReplenishesFund
    <2>1. ExcessLoans = {}
      BY DEF Init, ExcessLoans, NotDisbursed
    <2>2. SumOf([l \in ExcessLoans |-> collected[l]]) = 0
      BY <2>1, SumOfNone DEF SumOf
    <2> QED
      BY <2>2 DEF Init, ExcessReplenishesFund
  <1> QED
    BY <1>1, <1>2, <1>3 DEF Charged

\* Requests collect nothing: they add repayments with the amount they have
\* calculated, of loans that are disbursed.
LEMMA RequestCharged ==
  ASSUME Typed, Charged, UNCHANGED <<loan, paid, collected, replenished>>,
         \A k \in Repayments : repayment[k] # NoRepayment =>
           /\ repayment'[k] # NoRepayment
           /\ repayment'[k].loan = repayment[k].loan /\ repayment'[k].total = repayment[k].total,
         \A k \in Repayments : repayment'[k] # NoRepayment =>
           \/ repayment[k] # NoRepayment
           \/ \E r \in Requests : /\ request[r].op = "CREATE"
                                  /\ repayment'[k].loan = request[r].loan
                                  /\ repayment'[k].total = request[r].total,
         \A r \in Requests : request'[r].op \in {"CALCULATE", "CREATE"} =>
           \/ request[r].op \in {"CALCULATE", "CREATE"} /\ request'[r].loan = request[r].loan
           \/ loan[request'[r].loan].status # "PENDING_AUTHORIZATION",
         \A r \in Requests : request'[r].op = "CREATE" =>
           \/ request'[r] = request[r]
           \/ Remaining(request'[r].loan) <= request'[r].total
  PROVE  Charged'
  <1>1. ASSUME NEW l \in Loans, Unrepaid(l)'
        PROVE  Unrepaid(l)
    BY <1>1 DEF Unrepaid
  <1>2. PendingUntouched'
    <2> SUFFICES ASSUME NEW l \in Loans, loan[l].status = "PENDING_AUTHORIZATION"
                 PROVE  /\ Unrepaid(l)'
                        /\ \A r \in Requests : request'[r].op \in {"CALCULATE", "CREATE"} =>
                             request'[r].loan # l
      BY DEF PendingUntouched, Charged
    <2>1. /\ Unrepaid(l)
          /\ \A r \in Requests : request[r].op \in {"CALCULATE", "CREATE"} => request[r].loan # l
      BY DEF Charged, PendingUntouched
    <2>2. \A r \in Requests : request'[r].op \in {"CALCULATE", "CREATE"} => request'[r].loan # l
      BY <2>1
    <2>3. Unrepaid(l)'
      BY <2>1 DEF Unrepaid
    <2> QED
      BY <2>2, <2>3
  <1>3. AmountsSuffice'
    <2>1. \A l : Remaining(l)' = Remaining(l)
      BY DEF Remaining
    <2>2. /\ \A k \in Repayments :
               repayment[k] # NoRepayment => Remaining(repayment[k].loan) <= repayment[k].total
          /\ \A r \in Requests :
               request[r].op = "CREATE" => Remaining(request[r].loan) <= request[r].total
      BY DEF Charged, AmountsSuffice
    <2>3. \A k \in Repayments :
            repayment'[k] # NoRepayment => Remaining(repayment'[k].loan) <= repayment'[k].total
      BY <2>2
    <2>4. \A r \in Requests :
            request'[r].op = "CREATE" => Remaining(request'[r].loan) <= request'[r].total
      BY <2>2
    <2> QED
      BY <2>1, <2>3, <2>4 DEF AmountsSuffice, Remaining
  <1>4. InstallmentsChargedOnce'
    BY <1>1 DEF Charged, InstallmentsChargedOnce, Unrepaid
  <1>5. ExcessReplenishesFund'
    BY DEF Charged, ExcessReplenishesFund, ExcessLoans
  <1> QED
    BY <1>2, <1>3, <1>4, <1>5 DEF Charged

LEMMA RequestsCharged ==
  ASSUME Typed, Charged, NEW r \in Requests, Begin(r) \/ Commit(r) \/ Fail(r)
  PROVE  Charged'
  <1>1. UNCHANGED <<loan, paid, collected, replenished>>
    BY DEF Begin, BeginCreate, BeginDecision, Enter, Commit, Calculate, CommitCreate,
           CommitReject, CommitApprove, Fail, Done, loanVars
  <1>2. ASSUME NEW row, request' = [request EXCEPT ![r] = row], repayment' = repayment,
               row.op \in {"CALCULATE", "CREATE"} =>
                 loan[row.loan].status # "PENDING_AUTHORIZATION",
               row.op = "CREATE" => Remaining(row.loan) <= row.total
        PROVE  Charged'
    <2>1. \A s \in Requests : request'[s] = IF s = r THEN row ELSE request[s]
      BY <1>2 DEF Typed, TypeOK
    <2> QED
      BY <1>1, <1>2, <2>1, RequestCharged
  <1>3. ASSUME NEW l \in Loans, BeginCreate(r, l)
        PROVE  Charged'
    <2>1. PICK row : row = [op |-> "CALCULATE", loan |-> l]
      OBVIOUS
    <2>2. row.op = "CALCULATE" /\ row.loan = l
      BY <2>1
    <2>3. /\ request' = [request EXCEPT ![r] = row] /\ repayment' = repayment
          /\ loan[l].status # "PENDING_AUTHORIZATION"
      BY <1>3, <2>1 DEF BeginCreate, Enter
    <2> QED
      BY <1>2, <2>2, <2>3
  <1>4. ASSUME NEW k \in Repayments, NEW op \in {"APPROVE", "REJECT"}, BeginDecision(r, k, op)
        PROVE  Charged'
    <2>1. PICK row : row = [op |-> op, id |-> k, step |-> repayment[k].step]
      OBVIOUS
    <2>2. row.op \notin {"CALCULATE", "CREATE"}
      BY <2>1
    <2>3. request' = [request EXCEPT ![r] = row] /\ repayment' = repayment
      BY <1>4, <2>1 DEF BeginDecision, Enter
    <2> QED
      BY <1>2, <2>2, <2>3
  <1>5. CASE Calculate(r)
    <2>1. PICK l \in Loans : l = request[r].loan
      BY <1>5, RequestRows DEF Calculate
    <2>2. PICK row : row = [op |-> "CREATE", loan |-> l, total |-> Remaining(l)]
      OBVIOUS
    <2>3. row.op = "CREATE" /\ row.loan = l /\ row.total = Remaining(l) /\ Remaining(l) \in Int
      BY <2>2, RemainingBound DEF Typed, TypeOK
    <2>4. loan[l].status # "PENDING_AUTHORIZATION"
      BY <1>5, <2>1 DEF Calculate, Charged, PendingUntouched
    <2>5. request' = [request EXCEPT ![r] = row] /\ repayment' = repayment
      BY <1>5, <2>1, <2>2 DEF Calculate
    <2>6. Remaining(row.loan) <= row.total
      BY <2>3
    <2> QED
      BY <1>2, <2>3, <2>4, <2>5, <2>6
  <1>6. ASSUME Done(r)
        PROVE  \A s \in Requests : request'[s] = IF s = r THEN Idle ELSE request[s]
    BY <1>6 DEF Done, Typed, TypeOK
  <1>7. Idle.op \notin {"CALCULATE", "CREATE"}
    BY DEF Idle
  <1>8. CASE CommitCreate(r)
    <2>1. PICK k \in Repayments, row \in RepaymentRow : CreatedAs(r, k, row)
      BY <1>8, CreateFacts
    <2>2. /\ request[r].op = "CREATE" /\ repayment[k] = NoRepayment
          /\ row.loan = request[r].loan /\ row.total = request[r].total
          /\ \A j \in Repayments : repayment'[j] = IF j = k THEN row ELSE repayment[j]
          /\ Done(r)
      BY <2>1 DEF CreatedAs, Typed, TypeOK
    <2> QED
      BY <1>1, <1>6, <1>7, <2>2, RequestCharged
  <1>9. CASE CommitReject(r) \/ CommitApprove(r)
    <2>1. PICK k \in Repayments, row \in RepaymentRow, s \in Steps,
               d \in {"APPROVED", "REJECTED"} : DecidedAs(r, k, row, s, d)
      BY <1>9, DecisionFacts
    <2>2. /\ row.loan = repayment[k].loan /\ row.total = repayment[k].total
          /\ \A j \in Repayments : repayment'[j] = IF j = k THEN row ELSE repayment[j]
          /\ Done(r)
      BY <2>1 DEF DecidedAs, Typed, TypeOK
    <2>3. row # NoRepayment /\ repayment[k] # NoRepayment
      BY <2>1, RepaymentRows DEF DecidedAs
    <2> QED
      BY <1>1, <1>6, <1>7, <2>2, <2>3, RequestCharged
  <1>10. CASE Fail(r)
    BY <1>1, <1>6, <1>7, <1>10, RequestCharged DEF Fail
  <1> QED
    BY <1>3, <1>4, <1>5, <1>8, <1>9, <1>10 DEF Begin, Commit

LEMMA DisburseCharged ==
  ASSUME Typed, Charged, NEW l \in Loans, NEW excess \in BOOLEAN, Disburse(l, excess)
  PROVE  Charged'
  <1>1. /\ loan[l].status = "PENDING_AUTHORIZATION"
        /\ loan' = [loan EXCEPT ![l] = [status |-> "DISBURSED", excess |-> excess,
                                        first |-> next]]
        /\ UNCHANGED <<paid, collected, replenished, repayment, request>>
    BY DEF Disburse, FirstDue, requestVars
  <1>2. /\ loan'[l].status = "DISBURSED" /\ loan'[l].excess = excess
        /\ \A n \in Loans \ {l} : loan'[n] = loan[n]
    BY <1>1 DEF Typed, TypeOK
  <1>3. ~loan[l].excess /\ collected[l] = 0
    BY <1>1 DEF Charged, PendingUntouched
  <1>4. PendingUntouched'
    BY <1>1, <1>2 DEF Charged, PendingUntouched, Unrepaid
  <1>5. AmountsSuffice'
    BY <1>1 DEF Charged, AmountsSuffice, Remaining
  <1>6. InstallmentsChargedOnce'
    BY <1>1 DEF Charged, InstallmentsChargedOnce
  <1>7. SumOf([n \in ExcessLoans' |-> collected[n]]) = SumOf([n \in ExcessLoans |-> collected[n]])
    <2>1. CASE ~excess
      <3>1. ExcessLoans' = ExcessLoans
        BY <1>2, <1>3, <2>1 DEF ExcessLoans
      <3> QED
        BY <3>1
    <2>2. CASE excess
      <3>1. ExcessLoans' = ExcessLoans \cup {l} /\ l \notin ExcessLoans
        BY <1>2, <1>3, <2>2 DEF ExcessLoans
      <3>2. IsFiniteSet(ExcessLoans)
        BY FS_Subset, RepaymentAssumption DEF ExcessLoans
      <3>3. PICK S, f, e : /\ S = ExcessLoans
                           /\ f = [n \in ExcessLoans |-> collected[n]]
                           /\ e = [n \in ExcessLoans' |-> collected[n]]
        OBVIOUS
      <3>4. \A n \in Loans : collected[n] \in Int
        BY DEF Typed, TypeOK
      <3>5. f \in [S -> Int] /\ e \in [S \cup {l} -> Int]
        BY <3>1, <3>3, <3>4 DEF ExcessLoans
      <3>6. \A n \in S : e[n] = f[n]
        BY <3>1, <3>3
      <3>7. SumOf(e) = SumOf(f) + e[l]
        BY <3>1, <3>2, <3>3, <3>5, <3>6, SumOfExtended
      <3>8. e[l] = 0 /\ SumOf(f) \in Int
        BY <1>3, <3>1, <3>2, <3>3, <3>5, SumOfInt
      <3> QED
        BY <3>3, <3>7, <3>8
    <2> QED
      BY <2>1, <2>2
  <1>8. ExcessReplenishesFund'
    BY <1>1, <1>7 DEF Charged, ExcessReplenishesFund
  <1> QED
    BY <1>4, <1>5, <1>6, <1>8 DEF Charged

\* What one run of payroll does to one loan.
ChargedAs(p, l) ==
  /\ collected'[l] = collected[l] + TakenBy(p, l)
  /\ paid'[l] = PaidAfter(p, l) /\ paid'[l] \in SUBSET Numbers
  /\ paid[l] \subseteq paid'[l]
  /\ loan'[l] \in LoanRow /\ loan'[l].excess = loan[l].excess
  /\ loan'[l].status = IF l \in Settled(p) \/ (DueBy(p, l) # {} /\ PaidAfter(p, l) = Numbers)
                       THEN "COMPLETED" ELSE loan[l].status
  /\ l \notin Settled(p) =>
       /\ Cardinality(paid'[l]) = Cardinality(paid[l]) + Cardinality(DueBy(p, l))
       /\ TakenBy(p, l) = Installment * Cardinality(DueBy(p, l))

LEMMA ChargeFacts ==
  ASSUME Typed, NEW p \in Periods, NEW force \in BOOLEAN, RunPayroll(p, force), NEW l \in Loans
  PROVE  ChargedAs(p, l)
  <1> DEFINE done == l \in Settled(p) \/ (DueBy(p, l) # {} /\ PaidAfter(p, l) = Numbers)
  <1>1. /\ collected'[l] = collected[l] + TakenBy(p, l)
        /\ paid'[l] = PaidAfter(p, l)
        /\ loan'[l] = IF done THEN [loan[l] EXCEPT !.status = "COMPLETED"] ELSE loan[l]
    BY DEF RunPayroll
  <1>2. paid[l] \in SUBSET Numbers /\ loan[l] \in LoanRow
    BY DEF Typed, TypeOK
  <1>3. DueBy(p, l) \subseteq Numbers \ paid[l] /\ IsFiniteSet(DueBy(p, l))
    BY TakenTypes
  <1>4. PaidAfter(p, l) \in SUBSET Numbers /\ paid[l] \subseteq PaidAfter(p, l)
    BY <1>2, <1>3 DEF PaidAfter
  <1> HIDE DEF done
  <1>5. /\ loan'[l] \in LoanRow /\ loan'[l].excess = loan[l].excess
        /\ loan'[l].status = IF done THEN "COMPLETED" ELSE loan[l].status
    <2>1. PICK row : row = [loan[l] EXCEPT !.status = "COMPLETED"]
      OBVIOUS
    <2>2. row \in LoanRow /\ row.excess = loan[l].excess /\ row.status = "COMPLETED"
      BY <1>2, <2>1 DEF LoanRow
    <2> QED
      BY <1>1, <1>2, <2>1, <2>2
  <1>6. ASSUME l \notin Settled(p)
        PROVE  /\ Cardinality(paid'[l]) = Cardinality(paid[l]) + Cardinality(DueBy(p, l))
               /\ TakenBy(p, l) = Installment * Cardinality(DueBy(p, l))
    <2>1. paid'[l] = paid[l] \cup DueBy(p, l) /\ paid[l] \cap DueBy(p, l) = {}
      BY <1>1, <1>3, <1>6 DEF PaidAfter
    <2>2. IsFiniteSet(paid[l]) /\ Cardinality(paid[l]) \in Nat
      BY <1>2, RemainingBound
    <2>3. Cardinality(DueBy(p, l)) \in Nat /\ Installment \in Nat
      BY TakenTypes
    <2>4. Cardinality(paid[l] \cup DueBy(p, l))
            = Cardinality(paid[l]) + Cardinality(DueBy(p, l)) - Cardinality({})
      BY <1>3, <2>1, <2>2, FS_Union
    <2>5. Cardinality(paid'[l]) = Cardinality(paid[l]) + Cardinality(DueBy(p, l))
      BY <2>1, <2>2, <2>3, <2>4, FS_EmptySet
    <2>6. RepaidBy(p, l) = {}
      BY <1>6 DEF Settled
    <2>7. SumOf([k \in RepaidBy(p, l) |-> repayment[k].total]) = 0
      BY <2>6, SumOfNone DEF SumOf
    <2>8. Installment * Cardinality(DueBy(p, l)) \in Int
      BY <2>3
    <2>9. TakenBy(p, l) = 0 + Installment * Cardinality(DueBy(p, l))
      BY <2>7 DEF TakenBy
    <2> QED
      BY <2>5, <2>8, <2>9
  <1> QED
    BY <1>1, <1>4, <1>5, <1>6 DEF ChargedAs, done

\* What is taken does not make more remain.
LEMMA LessRemains ==
  ASSUME NEW l \in Loans, NEW P \in SUBSET Numbers, NEW Q \in SUBSET P
  PROVE  Total - Installment * Cardinality(P) <= Total - Installment * Cardinality(Q)
  <1>1. Tenor \in Nat \ {0} /\ Total \in Nat
    BY RepaymentAssumption
  <1>2. IsFiniteSet(Numbers)
    BY <1>1, FS_Interval DEF Numbers
  <1>3. IsFiniteSet(P)
    BY <1>2, FS_Subset
  <1>4. IsFiniteSet(Q) /\ Cardinality(Q) <= Cardinality(P)
    BY <1>3, FS_Subset
  <1>5. PICK c \in Nat, d \in Nat : c = Cardinality(P) /\ d = Cardinality(Q)
    BY <1>3, <1>4, FS_CardinalityType
  <1>6. PICK i \in Nat : i = Installment
    BY <1>1, RoundedQuotientNat DEF Installment, MonthlyInstallment
  <1>7. PICK e \in Nat : c = d + e
    <2>1. c - d \in Nat /\ c = d + (c - d)
      BY <1>4, <1>5
    <2> QED
      BY <2>1
  <1>8. i * c = i * d + i * e /\ i * d \in Nat /\ i * e \in Nat
    BY <1>7
  <1> QED
    BY <1>1, <1>5, <1>6, <1>8

LEMMA RunPayrollCharged ==
  ASSUME Typed, Charged, NEW p \in Periods, NEW force \in BOOLEAN, RunPayroll(p, force)
  PROVE  Charged'
  <1>1. request' = request /\ replenished' = replenished + ReplenishedBy(p)
    BY DEF RunPayroll, requestVars
  <1>2. ASSUME NEW l \in Loans
        PROVE  /\ ChargedAs(p, l)
               /\ Remaining(l)' <= Remaining(l)
               /\ Remaining(l) \in Int /\ Remaining(l)' \in Int
    <2>1. ChargedAs(p, l)
      BY ChargeFacts
    <2>2. paid[l] \in SUBSET Numbers /\ paid'[l] \in SUBSET Numbers /\ paid[l] \in SUBSET paid'[l]
      BY <2>1 DEF ChargedAs, Typed, TypeOK
    <2>3. Remaining(l)' <= Remaining(l)
      BY <2>2, LessRemains DEF Remaining
    <2>4. IsFiniteSet(Numbers)
      BY FS_Interval, RepaymentAssumption DEF Numbers
    <2>5. Cardinality(paid'[l]) \in Nat /\ Cardinality(paid[l]) \in Nat
      BY <2>2, <2>4, FS_Subset, FS_CardinalityType
    <2>6. Installment \in Nat /\ Total \in Nat
      BY TakenTypes, RepaymentAssumption
    <2>7. Remaining(l) \in Int /\ Remaining(l)' \in Int
      BY <2>5, <2>6 DEF Remaining
    <2> QED
      BY <2>1, <2>3, <2>7
  <1>3. ASSUME NEW l \in Loans, Unrepaid(l)
        PROVE  Unrepaid(l)' /\ l \notin Settled(p)
    <2>1. Unrepaid(l)'
      BY <1>3, CollectedFacts DEF Unrepaid
    <2>2. \A k \in Collectible(p) : k \in Repayments /\ repayment[k] # NoRepayment
      BY RepaymentRows DEF Collectible
    <2>3. RepaidBy(p, l) = {}
      BY <1>3, <2>2 DEF Unrepaid, RepaidBy
    <2> QED
      BY <2>1, <2>3 DEF Settled
  <1>4. PendingUntouched'
    <2> SUFFICES ASSUME NEW l \in Loans, loan'[l].status = "PENDING_AUTHORIZATION"
                 PROVE  /\ ~loan'[l].excess /\ collected'[l] = 0 /\ Unrepaid(l)'
                        /\ \A r \in Requests : request[r].op \in {"CALCULATE", "CREATE"} =>
                             request[r].loan # l
      BY <1>1 DEF PendingUntouched
    <2>1. ChargedAs(p, l)
      BY <1>2
    <2>2. loan[l].status = "PENDING_AUTHORIZATION" /\ l \notin Settled(p)
      BY <2>1 DEF ChargedAs
    <2>3. /\ ~loan[l].excess /\ collected[l] = 0 /\ Unrepaid(l)
          /\ \A r \in Requests : request[r].op \in {"CALCULATE", "CREATE"} => request[r].loan # l
      BY <2>2 DEF Charged, PendingUntouched
    <2>4. DueBy(p, l) = {}
      BY <2>2 DEF DueBy
    <2>5. Cardinality(DueBy(p, l)) = 0 /\ Installment \in Nat
      BY <2>4, FS_EmptySet, TakenTypes
    <2>6. TakenBy(p, l) = Installment * Cardinality(DueBy(p, l))
      BY <2>1, <2>2 DEF ChargedAs
    <2>7. collected'[l] = collected[l] + TakenBy(p, l) /\ loan'[l].excess = loan[l].excess
      BY <2>1 DEF ChargedAs
    <2>8. collected'[l] = 0
      BY <2>3, <2>5, <2>6, <2>7
    <2> QED
      BY <1>3, <2>3, <2>7, <2>8
  <1>5. AmountsSuffice'
    <2>1. ASSUME NEW k \in Repayments, repayment'[k] # NoRepayment
          PROVE  Total - Installment * Cardinality(paid'[repayment'[k].loan]) <= repayment'[k].total
      <3>1. /\ repayment[k] # NoRepayment /\ repayment'[k].loan = repayment[k].loan
            /\ repayment'[k].total = repayment[k].total
        BY <2>1, CollectedFacts
      <3>2. PICK l \in Loans, t \in Int : l = repayment[k].loan /\ t = repayment[k].total
        BY <3>1, RepaymentRows
      <3>3. Remaining(l) <= t
        BY <3>1, <3>2 DEF Charged, AmountsSuffice
      <3>4. Remaining(l)' <= t
        BY <1>2, <3>2, <3>3
      <3> QED
        BY <3>1, <3>2, <3>4 DEF Remaining
    <2>2. ASSUME NEW r \in Requests, request'[r].op = "CREATE"
          PROVE  Total - Installment * Cardinality(paid'[request'[r].loan]) <= request'[r].total
      <3>1. request'[r] = request[r] /\ request[r].op = "CREATE"
        BY <1>1, <2>2
      <3>2. PICK l \in Loans, t \in Int : l = request[r].loan /\ t = request[r].total
        BY <3>1, RequestRows
      <3>3. Remaining(l) <= t
        BY <3>1, <3>2 DEF Charged, AmountsSuffice
      <3>4. Remaining(l)' <= t
        BY <1>2, <3>2, <3>3
      <3> QED
        BY <3>1, <3>2, <3>4 DEF Remaining
    <2> QED
      BY <2>1, <2>2 DEF AmountsSuffice, Remaining
  <1>6. InstallmentsChargedOnce'
    <2> SUFFICES ASSUME NEW l \in Loans, Unrepaid(l)'
                 PROVE  collected'[l] = Installment * Cardinality(paid'[l])
      BY DEF InstallmentsChargedOnce, Unrepaid
    <2>1. Unrepaid(l)
      BY CollectedFacts DEF Unrepaid
    <2>2. collected[l] = Installment * Cardinality(paid[l])
      BY <2>1 DEF Charged, InstallmentsChargedOnce, Unrepaid
    <2>3. /\ Cardinality(paid'[l]) = Cardinality(paid[l]) + Cardinality(DueBy(p, l))
          /\ collected'[l] = collected[l] + Installment * Cardinality(DueBy(p, l))
      BY <1>2, <1>3, <2>1 DEF ChargedAs
    <2>4. PICK c \in Nat, d \in Nat, i \in Nat :
            c = Cardinality(paid[l]) /\ d = Cardinality(DueBy(p, l)) /\ i = Installment
      BY TakenTypes, RemainingBound DEF Typed, TypeOK
    <2>5. i * (c + d) = i * c + i * d
      BY <2>4
    <2> QED
      BY <2>2, <2>3, <2>4, <2>5
  <1>7. ExcessReplenishesFund'
    <2>1. ExcessLoans' = ExcessLoans
      BY <1>2 DEF ExcessLoans, ChargedAs
    <2>2. IsFiniteSet(ExcessLoans) /\ ExcessLoans \subseteq Loans
      BY FS_Subset, RepaymentAssumption DEF ExcessLoans
    <2>3. PICK S, f, e, h :
            /\ S = ExcessLoans
            /\ f = [l \in ExcessLoans |-> collected[l]]
            /\ e = [l \in ExcessLoans |-> TakenBy(p, l)]
            /\ h = [l \in ExcessLoans |-> collected'[l]]
      OBVIOUS
    <2>4. \A l \in Loans : collected[l] \in Int /\ TakenBy(p, l) \in Int
                           /\ collected'[l] = collected[l] + TakenBy(p, l)
      BY <1>2, TakenTypes DEF ChargedAs, Typed, TypeOK
    <2>5. \A l \in Loans : collected'[l] \in Int
      BY <2>4
    <2>6. f \in [S -> Int] /\ e \in [S -> Int] /\ h \in [S -> Int]
      BY <2>2, <2>3, <2>4, <2>5
    <2>7. \A l \in S : h[l] = f[l] + e[l]
      BY <2>2, <2>3, <2>4
    <2>8. SumOf(h) = SumOf(f) + SumOf(e)
      BY <2>2, <2>3, <2>6, <2>7, SumOfAdded
    <2>9. replenished = SumOf(f) /\ ReplenishedBy(p) = SumOf(e)
      BY <2>3 DEF Charged, ExcessReplenishesFund, ReplenishedBy
    <2>10. SumOf([l \in ExcessLoans' |-> collected'[l]]) = SumOf(h)
      BY <2>1, <2>3
    <2> QED
      BY <1>1, <2>8, <2>9, <2>10 DEF ExcessReplenishesFund
  <1> QED
    BY <1>4, <1>5, <1>6, <1>7 DEF Charged

LEMMA ChargedStep == Typed /\ Charged /\ [Next]_vars => Charged'
  <1> SUFFICES ASSUME Typed, Charged, [Next]_vars
               PROVE  Charged'
    OBVIOUS
  <1>1. ASSUME UNCHANGED <<loan, paid, collected, replenished, repayment, request>>
        PROVE  Charged'
    BY <1>1 DEF Charged, PendingUntouched, Unrepaid, AmountsSuffice, Remaining,
                InstallmentsChargedOnce, ExcessReplenishesFund, ExcessLoans
  <1>2. CASE CutoffPasses
    BY <1>1, <1>2 DEF CutoffPasses, loanVars, requestVars
  <1>3. ASSUME NEW p \in Periods, DeletePeriod(p)
        PROVE  Charged'
    BY <1>1, <1>3 DEF DeletePeriod, loanVars, requestVars
  <1>4. CASE UNCHANGED vars
    BY <1>1, <1>4 DEF vars, loanVars, requestVars
  <1> QED
    BY <1>2, <1>3, <1>4, RequestsCharged, DisburseCharged, RunPayrollCharged DEF Next, Payroll

-----------------------------------------------------------------------------
(* One request after the other, with payroll at any time.                  *)

RowSigned(row, a) ==
  /\ row.status = "UNDER_REVIEW_KETUA" => a["DIVISI_SIMPAN_PINJAM"] = "APPROVED"
  /\ row.status \in {"APPROVED", "COMPLETED"} => \A s \in Steps : a[s] = "APPROVED"

\* The request decides the step that its repayment waits for.
Fits(q, row) == row.step = q.step /\ row.status = StatusForStep(q.step)

OneRequest == \A r, s \in Requests : request[r] # Idle /\ request[s] # Idle => r = s

SignedInOrder == \A k \in Repayments : RowSigned(repayment[k], approval[k])

RequestsCurrent ==
  \A r \in Requests :
    /\ request[r].op \in {"CALCULATE", "CREATE"} => UnderReview(request[r].loan) = {}
    /\ request[r].op \in {"APPROVE", "REJECT"} => Fits(request[r], repayment[request[r].id])

UnderReviewOnce == \A l \in Loans : \A j, k \in UnderReview(l) : j = k

SerialOrder == OneRequest /\ SignedInOrder /\ RequestsCurrent /\ UnderReviewOnce

\* As long as a loan is not completed, only installments were collected for it.
OpenByInstallments(l) ==
  Settlements(l) = {} /\ collected[l] = Installment * Cardinality(paid[l])

CoveredUpToRounding(l) ==
  2 * collected[l] >= 2 * Total - Tenor * (1 + Cardinality(Settlements(l)))

Covered ==
  \A l \in Loans :
    IF loan[l].status = "COMPLETED" THEN CoveredUpToRounding(l) ELSE OpenByInstallments(l)

Serial == SerialOrder /\ Covered

SerialInv == ~overlapped => Serial

LEMMA InitSerial == Init => SerialInv
  <1> SUFFICES ASSUME Init
               PROVE  Serial
    BY DEF SerialInv
  <1>1. SerialOrder
    BY DEF Init, SerialOrder, OneRequest, SignedInOrder, RowSigned, RequestsCurrent,
           UnderReviewOnce, UnderReview, NoRepayment, Idle
  <1>2. ASSUME NEW l \in Loans
        PROVE  loan[l].status # "COMPLETED" /\ OpenByInstallments(l)
    <2>1. Settlements(l) = {}
      BY DEF Init, Settlements, NoRepayment
    <2>2. paid[l] = {} /\ collected[l] = 0 /\ paid[l] \in SUBSET Numbers
      BY DEF Init
    <2>3. Cardinality(paid[l]) = 0 /\ Installment \in Nat
      BY <2>2, FS_EmptySet, RemainingBound
    <2>4. loan[l].status # "COMPLETED"
      BY DEF Init, NotDisbursed
    <2> QED
      BY <2>1, <2>2, <2>3, <2>4 DEF OpenByInstallments
  <1> QED
    BY <1>1, <1>2 DEF Serial, Covered

\* A request that enters alone finds all others idle.
LEMMA EnterOrder ==
  ASSUME Typed, SerialOrder, NEW r \in Requests, NEW row \in RequestRow, Enter(r, row),
         ~overlapped',
         row.op \in {"CALCULATE", "CREATE"} => UnderReview(row.loan) = {},
         row.op \in {"APPROVE", "REJECT"} => Fits(row, repayment[row.id])
  PROVE  SerialOrder'
  <1>1. \A s \in Requests : request[s] = Idle
    <2>1. overlaps \in Nat /\ ~(overlaps' > 0)
      BY RepaymentAssumption DEF Typed, TypeOK, overlapped
    <2>2. overlaps' = IF \A s \in Requests : request[s] = Idle THEN overlaps ELSE overlaps + 1
      BY DEF Enter
    <2> QED
      BY <2>1, <2>2
  <1>2. /\ request' = [request EXCEPT ![r] = row]
        /\ UNCHANGED <<repayment, approval>>
    BY DEF Enter
  <1>3. \A s \in Requests : request'[s] = IF s = r THEN row ELSE Idle
    BY <1>1, <1>2 DEF Typed, TypeOK
  <1>4. OneRequest'
    BY <1>3 DEF OneRequest
  <1>5. SignedInOrder' /\ UnderReviewOnce'
    BY <1>2 DEF SerialOrder, SignedInOrder, UnderReviewOnce, UnderReview
  <1>6. RequestsCurrent'
    <2>1. Idle.op \notin {"CALCULATE", "CREATE", "APPROVE", "REJECT"}
      BY DEF Idle
    <2>2. \A l : UnderReview(l)' = UnderReview(l)
      BY <1>2 DEF UnderReview
    <2> QED
      BY <1>2, <1>3, <2>1, <2>2 DEF RequestsCurrent, UnderReview
  <1> QED
    BY <1>4, <1>5, <1>6 DEF SerialOrder

\* When the one request ends none is left.
LEMMA DoneOrder ==
  ASSUME Typed, SerialOrder, NEW r \in Requests, request[r] # Idle, Done(r),
         SignedInOrder', UnderReviewOnce'
  PROVE  SerialOrder'
  <1>1. \A s \in Requests : request'[s] = Idle
    BY DEF Done, Typed, TypeOK, SerialOrder, OneRequest
  <1>2. OneRequest'
    BY <1>1 DEF OneRequest
  <1>3. RequestsCurrent'
    BY <1>1 DEF RequestsCurrent, Idle
  <1> QED
    BY <1>2, <1>3 DEF SerialOrder

\* Nothing is collected.
LEMMA SameCovered ==
  ASSUME Covered, UNCHANGED <<paid, collected>>,
         \A l \in Loans : loan'[l].status = "COMPLETED" <=> loan[l].status = "COMPLETED",
         \A l \in Loans : Settlements(l)' = Settlements(l)
  PROVE  Covered'
  BY DEF Covered, CoveredUpToRounding, OpenByInstallments

LEMMA BeginSerial ==
  ASSUME Typed, Serial, NEW r \in Requests, Begin(r), ~overlapped'
  PROVE  Serial'
  <1>1. UNCHANGED <<loan, paid, collected, repayment>>
    BY DEF Begin, BeginCreate, BeginDecision, Enter, loanVars
  <1>2. Covered'
    BY <1>1, SameCovered DEF Serial, Settlements
  <1>3. ASSUME NEW l \in Loans, BeginCreate(r, l)
        PROVE  SerialOrder'
    <2>1. PICK row : row = [op |-> "CALCULATE", loan |-> l]
      OBVIOUS
    <2>2. row \in RequestRow /\ row.op = "CALCULATE" /\ row.loan = l
      BY <2>1 DEF RequestRow
    <2>3. Enter(r, row) /\ UnderReview(l) = {}
      BY <1>3, <2>1 DEF BeginCreate
    <2> QED
      BY <2>2, <2>3, EnterOrder DEF Serial
  <1>4. ASSUME NEW k \in Repayments, NEW op \in {"APPROVE", "REJECT"}, BeginDecision(r, k, op)
        PROVE  SerialOrder'
    <2>1. PICK row : row = [op |-> op, id |-> k, step |-> repayment[k].step]
      OBVIOUS
    <2>2. /\ row \in RequestRow /\ row.id = k /\ row.op \in {"APPROVE", "REJECT"}
          /\ row.step = repayment[k].step
      BY <1>4, <2>1 DEF RequestRow, BeginDecision
    <2>3. Enter(r, row) /\ repayment[k].status = StatusForStep(repayment[k].step)
      BY <1>4, <2>1 DEF BeginDecision
    <2>4. Fits(row, repayment[row.id])
      BY <2>2, <2>3 DEF Fits
    <2> QED
      BY <2>2, <2>3, <2>4, EnterOrder DEF Serial
  <1> QED
    BY <1>2, <1>3, <1>4 DEF Begin, Serial

LEMMA CommitSerial ==
  ASSUME Typed, Serial, NEW r \in Requests, Commit(r) \/ Fail(r)
  PROVE  Serial'
  <1>1. UNCHANGED <<loan, paid, collected>>
    BY DEF Commit, Calculate, CommitCreate, CommitReject, CommitApprove, Fail, Done, loanVars
  <1>2. CASE Calculate(r)
    <2>1. PICK l \in Loans : l = request[r].loan /\ request[r].op = "CALCULATE"
      BY <1>2, RequestRows DEF Calculate
    <2>2. PICK row : row = [op |-> "CREATE", loan |-> l, total |-> Remaining(l)]
      OBVIOUS
    <2>3. row.op = "CREATE" /\ row.loan = l
      BY <2>2
    <2>4. /\ request' = [request EXCEPT ![r] = row] /\ UNCHANGED <<repayment, approval>>
          /\ request[r] # Idle
      BY <1>2, <2>1, <2>2, RequestRows DEF Calculate
    <2>5. \A s \in Requests : request'[s] = IF s = r THEN row ELSE Idle
      BY <2>4 DEF Serial, SerialOrder, OneRequest, Typed, TypeOK
    <2>6. OneRequest'
      BY <2>5 DEF OneRequest
    <2>7. SignedInOrder' /\ UnderReviewOnce'
      BY <2>4 DEF Serial, SerialOrder, SignedInOrder, UnderReviewOnce, UnderReview
    <2>8. RequestsCurrent'
      <3>1. Idle.op \notin {"CALCULATE", "CREATE", "APPROVE", "REJECT"}
        BY DEF Idle
      <3>2. UnderReview(l)' = {}
        BY <2>1, <2>4 DEF UnderReview, Serial, SerialOrder, RequestsCurrent
      <3> QED
        BY <2>3, <2>5, <3>1, <3>2 DEF RequestsCurrent, UnderReview
    <2>9. Covered'
      BY <1>1, <2>4, SameCovered DEF Serial, Settlements
    <2> QED
      BY <2>6, <2>7, <2>8, <2>9 DEF Serial, SerialOrder
  <1>3. CASE CommitCreate(r)
    <2>1. PICK k \in Repayments, row \in RepaymentRow : CreatedAs(r, k, row)
      BY <1>3, CreateFacts
    <2>2. /\ request[r].op = "CREATE" /\ request[r] # Idle /\ repayment[k] = NoRepayment
          /\ row.loan = request[r].loan /\ row.status = "UNDER_REVIEW_DSP"
          /\ Done(r)
      BY <2>1 DEF CreatedAs
    <2>3. \A j \in Repayments : /\ repayment'[j] = IF j = k THEN row ELSE repayment[j]
                                /\ approval'[j] = IF j = k THEN Undecided ELSE approval[j]
      BY <2>1 DEF CreatedAs, Typed, TypeOK
    <2>4. UnderReview(row.loan) = {} /\ repayment[k].status = "NONE"
      BY <2>2 DEF Serial, SerialOrder, RequestsCurrent, NoRepayment
    <2>5. SignedInOrder'
      BY <2>2, <2>3 DEF Serial, SerialOrder, SignedInOrder, RowSigned
    <2>6. UnderReviewOnce'
      BY <2>2, <2>3, <2>4 DEF Serial, SerialOrder, UnderReviewOnce, UnderReview
    <2>7. \A l \in Loans : Settlements(l)' = Settlements(l)
      BY <2>2, <2>3, <2>4 DEF Settlements
    <2> QED
      BY <1>1, <2>2, <2>5, <2>6, <2>7, DoneOrder, SameCovered DEF Serial
  <1>4. CASE CommitReject(r) \/ CommitApprove(r)
    <2>1. PICK k \in Repayments, row \in RepaymentRow, s \in Steps,
               d \in {"APPROVED", "REJECTED"} : DecidedAs(r, k, row, s, d)
      BY <1>4, DecisionFacts
    <2>2. /\ request[r].op \in {"APPROVE", "REJECT"} /\ request[r] # Idle
          /\ request[r].id = k /\ request[r].step = s
          /\ row.loan = repayment[k].loan
          /\ row.status = (IF d = "REJECTED" THEN "REJECTED"
                           ELSE IF s = "KETUA" THEN "APPROVED" ELSE "UNDER_REVIEW_KETUA")
          /\ Done(r)
      BY <2>1 DEF DecidedAs
    <2>3. \A j \in Repayments : repayment'[j] = IF j = k THEN row ELSE repayment[j]
      BY <2>1 DEF DecidedAs, Typed, TypeOK
    <2>4. \A j \in Repayments \ {k} : approval'[j] = approval[j]
      BY <2>1 DEF DecidedAs, Typed, TypeOK
    <2>5. approval'[k][s] = d /\ \A t \in Steps \ {s} : approval'[k][t] = approval[k][t]
      BY <2>1 DEF DecidedAs, Typed, TypeOK
    <2>6. repayment[k].status = StatusForStep(s)
      BY <2>2 DEF Serial, SerialOrder, RequestsCurrent, Fits
    <2>7. RowSigned(repayment[k], approval[k])
      BY DEF Serial, SerialOrder, SignedInOrder
    <2>8. RowSigned(row, approval'[k])
      <3>1. CASE d = "REJECTED"
        BY <2>2, <3>1 DEF RowSigned
      <3>2. CASE d = "APPROVED" /\ s = "DIVISI_SIMPAN_PINJAM"
        BY <2>2, <2>5, <3>2 DEF RowSigned
      <3>3. CASE d = "APPROVED" /\ s = "KETUA"
        BY <2>2, <2>5, <2>6, <2>7, <3>3 DEF RowSigned, StatusForStep, Steps
      <3> QED
        BY <3>1, <3>2, <3>3 DEF Steps
    <2>9. SignedInOrder'
      BY <2>3, <2>4, <2>8 DEF Serial, SerialOrder, SignedInOrder
    <2>10. repayment[k].status \in {"UNDER_REVIEW_DSP", "UNDER_REVIEW_KETUA"}
      BY <2>6 DEF StatusForStep
    <2>11. \A l \in Loans : UnderReview(l)' \subseteq UnderReview(l)
      BY <2>2, <2>3, <2>10 DEF UnderReview
    <2>12. UnderReviewOnce'
      BY <2>11 DEF Serial, SerialOrder, UnderReviewOnce
    <2>13. \A l \in Loans : Settlements(l)' = Settlements(l)
      BY <2>2, <2>3, <2>10 DEF Settlements
    <2> QED
      BY <1>1, <2>2, <2>9, <2>12, <2>13, DoneOrder, SameCovered DEF Serial
  <1>5. CASE Fail(r)
    <2>1. UNCHANGED <<repayment, approval>> /\ Done(r) /\ request[r] # Idle
      BY <1>5 DEF Fail
    <2>2. SignedInOrder' /\ UnderReviewOnce'
      BY <2>1 DEF Serial, SerialOrder, SignedInOrder, UnderReviewOnce, UnderReview
    <2> QED
      BY <1>1, <2>1, <2>2, DoneOrder, SameCovered DEF Serial, Settlements
  <1> QED
    BY <1>2, <1>3, <1>4, <1>5 DEF Commit

\* Payroll completes what is signed; what is under review stays.
LEMMA RunPayrollOrder ==
  ASSUME Typed, SerialOrder, NEW p \in Periods, NEW force \in BOOLEAN, RunPayroll(p, force)
  PROVE  SerialOrder'
  <1>1. UNCHANGED <<request, approval>>
    BY DEF RunPayroll, requestVars
  <1>2. ASSUME NEW k \in Repayments
        PROVE  /\ k \notin Collectible(p) => repayment'[k] = repayment[k]
               /\ k \in Collectible(p) => repayment[k].status = "APPROVED"
                                          /\ repayment'[k].status = "COMPLETED"
    BY CollectedFacts
  <1>3. OneRequest'
    BY <1>1 DEF SerialOrder, OneRequest
  <1>4. SignedInOrder'
    BY <1>1, <1>2 DEF SerialOrder, SignedInOrder, RowSigned
  <1>5. \A l : UnderReview(l)' = UnderReview(l)
    BY <1>2 DEF UnderReview
  <1>6. UnderReviewOnce'
    BY <1>5 DEF SerialOrder, UnderReviewOnce
  <1>7. RequestsCurrent'
    <2> SUFFICES ASSUME NEW r \in Requests
                 PROVE  /\ request[r].op \in {"CALCULATE", "CREATE"} =>
                             UnderReview(request[r].loan)' = {}
                        /\ request[r].op \in {"APPROVE", "REJECT"} =>
                             Fits(request[r], repayment'[request[r].id])
      BY <1>1 DEF RequestsCurrent, UnderReview
    <2>1. request[r].op \in {"CALCULATE", "CREATE"} => UnderReview(request[r].loan)' = {}
      BY <1>1, <1>5 DEF SerialOrder, RequestsCurrent
    <2>2. ASSUME request[r].op \in {"APPROVE", "REJECT"}
          PROVE  Fits(request[r], repayment'[request[r].id])
      <3>1. PICK k \in Repayments : k = request[r].id
        BY <2>2, RequestRows
      <3>2. Fits(request[r], repayment[k])
        BY <2>2, <3>1 DEF SerialOrder, RequestsCurrent
      <3>3. repayment'[k] = repayment[k]
        BY <1>2, <3>2 DEF Fits, StatusForStep
      <3> QED
        BY <3>1, <3>2, <3>3
    <2> QED
      BY <2>1, <2>2
  <1> QED
    BY <1>3, <1>4, <1>6, <1>7 DEF SerialOrder

\* n repayments of at least rest each bring what is left, up to rounding: the
\* first all of it, and those that come later little less than nothing.
LEMMA SettlementCovers ==
  ASSUME NEW n \in Nat, NEW tenor \in Nat, NEW rest \in Int, NEW taken \in Int,
         n * rest <= taken, -tenor <= 2 * rest
  PROVE  /\ -(tenor * n) <= 2 * taken
         /\ n # 0 => 2 * rest - tenor * n <= 2 * taken
  <1>1. PICK u \in Nat : u = 2 * rest + tenor
    OBVIOUS
  <1>2. n * u \in Nat /\ n * u = 2 * (n * rest) + tenor * n
    BY <1>1
  <1>3. -(tenor * n) <= 2 * taken
    BY <1>2
  <1>4. ASSUME n # 0
        PROVE  2 * rest - tenor * n <= 2 * taken
    <2>1. PICK m \in Nat : n = m + 1
      <3>1. n - 1 \in Nat /\ n = (n - 1) + 1
        BY <1>4
      <3> QED
        BY <3>1
    <2>2. m * u \in Nat /\ m * u = 2 * (m * rest) + tenor * m
      BY <1>1
    <2>3. n * rest = m * rest + rest /\ tenor * n = tenor * m + tenor
      BY <2>1
    <2>4. m * rest \in Int /\ tenor * m \in Int
      OBVIOUS
    <2> QED
      BY <2>2, <2>3, <2>4
  <1> QED
    BY <1>3, <1>4

\* The repayments that a run collects bring each at least what remains.
LEMMA SettlementTakes ==
  ASSUME Typed, Charged, NEW p \in Periods, NEW l \in Loans, l \in Settled(p)
  PROVE  /\ Cardinality(RepaidBy(p, l)) \in Nat \ {0}
         /\ Cardinality(RepaidBy(p, l)) * Remaining(l) <= TakenBy(p, l)
  <1>1. PICK S, f : S = RepaidBy(p, l) /\ f = [k \in RepaidBy(p, l) |-> repayment[k].total]
    OBVIOUS
  <1>2. S \subseteq Repayments /\ IsFiniteSet(S) /\ f \in [S -> Int] /\ SumOf(f) \in Int
    BY <1>1, TakenTypes
  <1>3. S # {} /\ Cardinality(S) \in Nat \ {0}
    BY <1>1, <1>2, FS_CardinalityType, FS_EmptySet DEF Settled
  <1>4. PICK b \in Int : b = Remaining(l)
    BY RemainingBound DEF Typed, TypeOK
  <1>5. ASSUME NEW k \in S
        PROVE  b <= f[k]
    <2>1. k \in Repayments /\ repayment[k].loan = l /\ repayment[k].status = "APPROVED"
      BY <1>1, <1>5 DEF RepaidBy, Collectible
    <2>2. repayment[k] # NoRepayment
      BY <2>1, RepaymentRows
    <2>3. Remaining(l) <= repayment[k].total
      BY <2>1, <2>2 DEF Charged, AmountsSuffice
    <2>4. f[k] = repayment[k].total
      BY <1>1
    <2> QED
      BY <1>4, <2>3, <2>4
  <1>6. Cardinality(S) * b <= SumOf(f)
    BY <1>2, <1>4, <1>5, SumOfAtLeast
  <1>7. DueBy(p, l) = {} /\ Installment \in Nat
    BY TakenTypes DEF DueBy
  <1>8. Installment * Cardinality(DueBy(p, l)) = 0
    BY <1>7, FS_EmptySet
  <1>9. TakenBy(p, l) = SumOf(f)
    BY <1>1, <1>2, <1>8 DEF TakenBy
  <1> QED
    BY <1>1, <1>3, <1>4, <1>6, <1>9

\* What a run collects is completed, and what was completed stays.
LEMMA SettlementsGrow ==
  ASSUME Typed, NEW p \in Periods, NEW force \in BOOLEAN, RunPayroll(p, force), NEW l \in Loans
  PROVE  /\ Settlements(l)' = Settlements(l) \cup RepaidBy(p, l)
         /\ Cardinality(Settlements(l)) \in Nat
         /\ Cardinality(Settlements(l)') =
              Cardinality(Settlements(l)) + Cardinality(RepaidBy(p, l))
  <1>1. ASSUME NEW k \in Repayments
        PROVE  k \in Settlements(l)' <=> k \in Settlements(l) \/ k \in RepaidBy(p, l)
    <2>1. CASE k \in Collectible(p)
      <3>1. /\ repayment[k].status = "APPROVED" /\ repayment'[k].status = "COMPLETED"
            /\ repayment[k] # NoRepayment /\ repayment'[k].loan = repayment[k].loan
        BY <2>1, CollectedFacts, RepaymentRows
      <3> QED
        BY <2>1, <3>1 DEF Settlements, RepaidBy
    <2>2. CASE k \notin Collectible(p)
      BY <2>2, CollectedFacts DEF Settlements, RepaidBy
    <2> QED
      BY <2>1, <2>2
  <1>2. Settlements(l)' = Settlements(l) \cup RepaidBy(p, l)
    <2>1. Settlements(l)' \subseteq Repayments /\ Settlements(l) \subseteq Repayments
      BY DEF Settlements
    <2>2. RepaidBy(p, l) \subseteq Repayments
      BY TakenTypes
    <2> QED
      BY <1>1, <2>1, <2>2
  <1>3. Settlements(l) \cap RepaidBy(p, l) = {}
    BY DEF Settlements, RepaidBy, Collectible
  <1>4. IsFiniteSet(Settlements(l)) /\ IsFiniteSet(RepaidBy(p, l))
    BY FS_Subset, TakenTypes, RepaymentAssumption DEF Settlements
  <1>5. Cardinality(Settlements(l)) \in Nat /\ Cardinality(RepaidBy(p, l)) \in Nat
    BY <1>4, FS_CardinalityType
  <1>6. Cardinality(Settlements(l) \cup RepaidBy(p, l))
          = Cardinality(Settlements(l)) + Cardinality(RepaidBy(p, l)) - Cardinality({})
    BY <1>3, <1>4, FS_Union
  <1> QED
    BY <1>2, <1>5, <1>6, FS_EmptySet

LEMMA RunPayrollCovered ==
  ASSUME Typed, Charged, Covered, NEW p \in Periods, NEW force \in BOOLEAN, RunPayroll(p, force)
  PROVE  Covered'
  <1> SUFFICES ASSUME NEW l \in Loans
               PROVE  IF loan'[l].status = "COMPLETED" THEN CoveredUpToRounding(l)'
                      ELSE OpenByInstallments(l)'
    BY DEF Covered
  <1>1. ChargedAs(p, l)
    BY ChargeFacts
  <1>2. IF loan[l].status = "COMPLETED" THEN CoveredUpToRounding(l) ELSE OpenByInstallments(l)
    BY DEF Covered
  <1>3. PICK c \in Nat, i \in Nat, rest \in Int :
          /\ c = Cardinality(paid[l]) /\ i = Installment /\ rest = Remaining(l)
          /\ -Tenor <= 2 * rest
    BY RemainingBound DEF Typed, TypeOK
  <1>4. rest = Total - i * c /\ Total \in Nat /\ Tenor \in Nat \ {0} /\ i * c \in Nat
    BY <1>3, RepaymentAssumption DEF Remaining
  <1>5. PICK x \in Int, t \in Int : x = collected[l] /\ t = TakenBy(p, l) /\ collected'[l] = x + t
    BY <1>1, TakenTypes DEF ChargedAs, Typed, TypeOK
  <1>6. CASE l \in Settled(p)
    <2>1. PICK n \in Nat \ {0} : n = Cardinality(RepaidBy(p, l)) /\ n * rest <= t
      BY <1>3, <1>5, <1>6, SettlementTakes
    <2>2. -(Tenor * n) <= 2 * t /\ 2 * rest - Tenor * n <= 2 * t
      BY <1>3, <1>4, <2>1, SettlementCovers
    <2>3. PICK s \in Nat : s = Cardinality(Settlements(l)) /\ Cardinality(Settlements(l)') = s + n
      BY <2>1, SettlementsGrow
    <2>4. loan'[l].status = "COMPLETED"
      BY <1>1, <1>6 DEF ChargedAs
    <2>5. Tenor * n \in Int /\ Tenor * s \in Int /\ Tenor * (1 + s) = Tenor + Tenor * s
          /\ Tenor * (1 + (s + n)) = Tenor + Tenor * s + Tenor * n
      BY <1>4, <2>1, <2>3
    <2>6. 2 * (x + t) >= 2 * Total - Tenor * (1 + (s + n))
      <3>1. CASE loan[l].status = "COMPLETED"
        <4>1. 2 * x >= 2 * Total - Tenor * (1 + s)
          BY <1>2, <1>5, <2>3, <3>1 DEF CoveredUpToRounding
        <4> QED
          BY <1>4, <1>5, <2>2, <2>5, <4>1
      <3>2. CASE loan[l].status # "COMPLETED"
        <4>1. x = i * c /\ Settlements(l) = {}
          BY <1>2, <1>3, <1>5, <3>2 DEF OpenByInstallments
        <4>2. s = 0
          BY <2>3, <4>1, FS_EmptySet
        <4> QED
          BY <1>4, <1>5, <2>2, <2>5, <4>1, <4>2
      <3> QED
        BY <3>1, <3>2
    <2>7. CoveredUpToRounding(l)'
      BY <1>5, <2>3, <2>6 DEF CoveredUpToRounding
    <2> QED
      BY <2>4, <2>7
  <1>7. CASE l \notin Settled(p)
    <2>1. Settlements(l)' = Settlements(l)
      BY <1>7, SettlementsGrow DEF Settled
    <2>2. PICK d \in Nat : /\ d = Cardinality(DueBy(p, l)) /\ t = i * d
                           /\ Cardinality(paid'[l]) = c + d
      BY <1>1, <1>3, <1>5, <1>7, TakenTypes DEF ChargedAs
    <2>3. i * (c + d) = i * c + i * d
      BY <1>3, <2>2
    <2>4. CASE loan[l].status = "COMPLETED"
      <3>1. DueBy(p, l) = {}
        BY <2>4 DEF DueBy
      <3>2. d = 0
        BY <2>2, <3>1, FS_EmptySet
      <3>3. collected'[l] = collected[l]
        BY <1>3, <1>5, <2>2, <3>2
      <3>4. loan'[l].status = "COMPLETED"
        BY <1>1, <2>4 DEF ChargedAs
      <3> QED
        BY <1>2, <2>1, <2>4, <3>3, <3>4 DEF CoveredUpToRounding
    <2>5. CASE loan[l].status # "COMPLETED"
      <3>1. x = i * c /\ Settlements(l) = {}
        BY <1>2, <1>3, <1>5, <2>5 DEF OpenByInstallments
      <3>2. collected'[l] = i * (c + d)
        BY <1>5, <2>2, <2>3, <3>1
      <3>3. CASE loan'[l].status # "COMPLETED"
        BY <1>3, <2>1, <2>2, <3>1, <3>2, <3>3 DEF OpenByInstallments
      <3>4. CASE loan'[l].status = "COMPLETED"
        <4>1. paid'[l] = Numbers
          BY <1>1, <1>7, <2>5, <3>4 DEF ChargedAs
        <4>2. c + d = Tenor
          BY <1>4, <2>2, <4>1, FS_Interval DEF Numbers
        <4>3. -Tenor <= 2 * (Tenor * i - Total)
          BY <1>3, <1>4, RoundedQuotientBound DEF Installment, MonthlyInstallment
        <4>4. Cardinality(Settlements(l)') = 0
          BY <2>1, <3>1, FS_EmptySet
        <4>5. 2 * (i * (c + d)) >= 2 * Total - Tenor * (1 + 0)
          BY <1>3, <1>4, <4>2, <4>3
        <4>6. CoveredUpToRounding(l)'
          BY <3>2, <4>4, <4>5 DEF CoveredUpToRounding
        <4> QED
          BY <3>4, <4>6
      <3> QED
        BY <3>3, <3>4
    <2> QED
      BY <2>4, <2>5
  <1> QED
    BY <1>6, <1>7

LEMMA SerialStep == Typed /\ Charged /\ SerialInv /\ [Next]_vars => SerialInv'
  <1> SUFFICES ASSUME Typed, Charged, SerialInv, [Next]_vars, ~overlapped'
               PROVE  Serial'
    BY DEF SerialInv
  <1>1. overlaps' \in Nat /\ overlaps \in Nat /\ overlaps' >= overlaps
    <2>1. overlaps \in Nat
      BY RepaymentAssumption DEF Typed, TypeOK
    <2>2. overlaps' = overlaps \/ overlaps' = overlaps + 1
      BY DEF Next, CutoffPasses, Disburse, Begin, BeginCreate, BeginDecision, Enter, Commit,
             Calculate, CommitCreate, CommitReject, CommitApprove, Fail, Done, Payroll,
             RunPayroll, DeletePeriod, requestVars, vars
    <2> QED
      BY <2>1, <2>2
  <1>2. Serial
    BY <1>1 DEF SerialInv, overlapped
  <1>3. ASSUME UNCHANGED <<paid, collected, repayment, approval, request>>,
               \A l \in Loans : loan'[l].status = "COMPLETED" <=> loan[l].status = "COMPLETED"
        PROVE  Serial'
    <2>1. SerialOrder'
      BY <1>2, <1>3 DEF Serial, SerialOrder, OneRequest, SignedInOrder, RequestsCurrent,
                        UnderReviewOnce, UnderReview
    <2>2. Covered'
      BY <1>2, <1>3, SameCovered DEF Serial, Settlements
    <2> QED
      BY <2>1, <2>2 DEF Serial
  <1>4. CASE CutoffPasses
    BY <1>3, <1>4 DEF CutoffPasses, loanVars, requestVars
  <1>5. ASSUME NEW l \in Loans, NEW excess \in BOOLEAN, Disburse(l, excess)
        PROVE  Serial'
    <2>1. /\ loan[l].status = "PENDING_AUTHORIZATION"
          /\ loan' = [loan EXCEPT ![l] = [status |-> "DISBURSED", excess |-> excess,
                                          first |-> next]]
          /\ UNCHANGED <<paid, collected, repayment, approval, request>>
      BY <1>5 DEF Disburse, FirstDue, requestVars
    <2>2. loan'[l].status = "DISBURSED" /\ \A n \in Loans \ {l} : loan'[n] = loan[n]
      BY <2>1 DEF Typed, TypeOK
    <2> QED
      BY <1>3, <2>1, <2>2
  <1>6. ASSUME NEW r \in Requests, Begin(r) \/ Commit(r) \/ Fail(r)
        PROVE  Serial'
    BY <1>2, <1>6, BeginSerial, CommitSerial
  <1>7. ASSUME NEW p \in Periods, NEW force \in BOOLEAN, RunPayroll(p, force)
        PROVE  Serial'
    BY <1>2, <1>7, RunPayrollOrder, RunPayrollCovered DEF Serial
  <1>8. ASSUME NEW p \in Periods, DeletePeriod(p)
        PROVE  Serial'
    BY <1>3, <1>8 DEF DeletePeriod, loanVars, requestVars
  <1>9. CASE UNCHANGED vars
    BY <1>3, <1>9 DEF vars, loanVars, requestVars
  <1> QED
    BY <1>4, <1>5, <1>6, <1>7, <1>8, <1>9 DEF Next, Payroll

\* What the serial invariant says of every state.
LEMMA SerialCovers == Typed /\ SerialInv => RepaymentsCover
  <1> SUFFICES ASSUME Typed, SerialInv
               PROVE  RepaymentsCover
    OBVIOUS
  <1>1. OneUnderReview
    <2> SUFFICES ASSUME Serial, NEW l \in Loans
                 PROVE  Cardinality(UnderReview(l)) <= 1
      BY DEF OneUnderReview, SerialInv
    <2>1. CASE UnderReview(l) = {}
      BY <2>1, FS_EmptySet
    <2>2. CASE UnderReview(l) # {}
      <3>1. PICK k : k \in UnderReview(l)
        BY <2>2
      <3>2. \A j \in UnderReview(l) : j = k
        BY <3>1 DEF Serial, SerialOrder, UnderReviewOnce
      <3>3. UnderReview(l) = {k}
        BY <3>1, <3>2
      <3>4. Cardinality({k}) = 1
        BY FS_Singleton
      <3> QED
        BY <3>3, <3>4
    <2> QED
      BY <2>1, <2>2
  <1>2. RepaidIsSigned
    BY DEF RepaidIsSigned, SerialInv, Serial, SerialOrder, SignedInOrder, RowSigned
  <1>3. CompletedIsCovered
    BY DEF CompletedIsCovered, SerialInv, Serial, Covered, CoveredUpToRounding
  <1> QED
    BY <1>1, <1>2, <1>3 DEF RepaymentsCover

-----------------------------------------------------------------------------
\* Repayments, approvals, installments and requests always have their types.
THEOREM RepaymentTypes == Spec => []TypeOK
  <1>1. Typed => TypeOK
    BY DEF Typed
  <1> QED
    BY <1>1, InitTyped, TypedStep, PTL DEF Spec

\* However requests overlap and months are run: members are charged each
\* installment once, and excess loans bring back to the fund what they bring back.
THEOREM MoneyIsAccounted == Spec => []MoneyAccounted
  <1>1. Charged => MoneyAccounted
    BY DEF Charged, MoneyAccounted
  <1> QED
    BY <1>1, InitTyped, TypedStep, InitCharged, ChargedStep, PTL DEF Spec

\* While no requests overlap, one repayment of a loan is under review, payroll
\* collects what both officers have signed, and a completed loan has brought
\* back all of it up to rounding, for any amounts and tenors.
THEOREM RepaymentsCoverLoans == Spec => []RepaymentsCover
  BY InitTyped, TypedStep, InitCharged, ChargedStep, InitSerial, SerialStep, SerialCovers,
     PTL DEF Spec

\* A loan is completed exactly when none of its installments is open, however
\* often months are forced, deleted and run again, and whatever repayments
\* settle meanwhile.
THEOREM LoansCompletedWhenPaid == Spec => []CompletedIffPaid
  <1>1. Inv => CompletedIffPaid
    BY DEF Inv
  <1> QED
    BY <1>1, InitInv, StepInv, PTL DEF Spec

\* What is due in a month that payroll ran after the month's cutoff is taken,
\* also of loans that were disbursed while months went by.
THEOREM DueInstallmentsCollected == Spec => []DueIsCollected
  <1>1. Inv => DueIsCollected
    BY DEF Inv
  <1> QED
    BY <1>1, InitInv, StepInv, PTL DEF Spec

=============================================================================
