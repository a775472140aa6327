------------------------ MODULE LoanLifecycleProofs ------------------------
(***************************************************************************)
(* Proofs about LoanLifecycle, for any set of loans, any amounts, tenors   *)
(* and initial balance of the social fund: first what holds for any set of *)
(* overlapping requests, then what holds when requests come one after      *)
(* another, among it that the loan services implement LoanWorkflow.        *)
(***************************************************************************)
EXTENDS LoanLifecycle, SequenceTheorems, FiniteSetTheorems, TLAPS

\* What a request in flight has established for the type of what it writes.
RequestsTyped ==
  \A r \in Requests : request[r] # Idle =>
    LET q == request[r]
    IN  /\ q.op = "REVISE" => q.amount \in Amounts /\ q.tenor \in Tenors
        /\ q.op \in {"APPROVE", "REJECT"} => q.seen.currentStep \in Steps
        /\ q.fundRead # NoFundRead => q.seen.amount <= q.fundRead

TypeInv == TypeOK /\ RequestsTyped

LEMMA Difference == \A m, n \in Nat : n <= m => m - n \in Nat
  BY SMT

LEMMA AmountsNat == \A a \in Amounts \cup {0} : a \in Nat
  BY ConstantsAssumption

LEMMA SnapshotTyped ==
  ASSUME TypeOK, NEW r \in Requests, NEW l \in Loans, NEW op \in Ops \ {"IDLE"},
         NEW b \in Nat, NEW a \in Amounts \cup {0}, NEW t \in Tenors \cup {0},
         Enter(r, op, l, b, a, t)
  PROVE  /\ TypeOK'
         /\ request'[r] = [op |-> op, loan |-> l, seen |-> loan[l], batch |-> b,
                           amount |-> a, tenor |-> t, fundRead |-> NoFundRead]
         /\ \A s \in Requests \ {r} : request'[s] = request[s]
<1>1. [op |-> op, loan |-> l, seen |-> loan[l], batch |-> b, amount |-> a,
       tenor |-> t, fundRead |-> NoFundRead] \in RequestRow
  BY DEF RequestRow, TypeOK
<1>2. QED
  BY <1>1 DEF Enter, TypeOK, rows

LEMMA BatchDecided ==
  ASSUME NEW a \in Seq(ApprovalBatch), NEW b, NEW s \in Steps, NEW d \in Decisions
  PROVE  [a EXCEPT ![b][s] = d] \in Seq(ApprovalBatch)
<1>1. CASE b \in DOMAIN a
  <2>1. a[b] \in ApprovalBatch
    BY <1>1, ElementOfSeq
  <2>2. [a[b] EXCEPT ![s] = d] \in ApprovalBatch
    BY <2>1 DEF ApprovalBatch
  <2>3. b \in 1 .. Len(a)
    BY <1>1
  <2>4. QED
    BY <2>2, <2>3, ExceptSeq
<1>2. CASE b \notin DOMAIN a
  <2>1. a \in [1 .. Len(a) -> ApprovalBatch]
    OBVIOUS
  <2>2. [a EXCEPT ![b][s] = d] = a
    BY <1>2, <2>1
  <2>3. QED
    BY <2>2
<1>3. QED
  BY <1>1, <1>2

LEMMA RunningRequest ==
  ASSUME TypeOK, NEW r \in Requests, NEW op \in Ops \ {"IDLE"}, Running(r, op)
  PROVE  /\ request[r] \in RequestRow
         /\ request[r] # Idle
         /\ request[r].loan \in Loans
         /\ loan[request[r].loan] \in LoanRow
<1>1. request[r] # Idle
  BY DEF Running, Idle, Ops
<1>2. request[r] \in RequestRow
  BY <1>1 DEF TypeOK
<1>3. QED
  BY <1>1, <1>2 DEF TypeOK, RequestRow

LEMMA RequestDone ==
  ASSUME TypeInv, NEW r \in Requests, Done(r)
  PROVE  /\ request' \in [Requests -> {Idle} \cup RequestRow]
         /\ RequestsTyped'
         /\ request'[r] = Idle
         /\ \A s \in Requests \ {r} : request'[s] = request[s]
  BY DEF TypeInv, TypeOK, RequestsTyped, Done

\* Every step keeps the types, whatever requests overlap.
LEMMA TypeInvInductive == TypeInv /\ [Next]_vars => TypeInv'
<1> SUFFICES ASSUME TypeInv, [Next]_vars
             PROVE  TypeInv'
  OBVIOUS
<1> USE ConstantsAssumption
<1>1. CASE UNCHANGED vars
  BY <1>1 DEF TypeInv, TypeOK, RequestsTyped, vars
<1>2. ASSUME NEW l \in Loans, NEW type \in LoanTypes, NEW a \in Amounts,
             NEW t \in Tenors, CreateDraft(l, type, a, t)
      PROVE  TypeInv'
  <2>1. loan' \in [Loans -> LoanRow]
    BY <1>2 DEF TypeInv, TypeOK, CreateDraft, LoanRow, Installment,
                NoInstallment, Statuses
  <2>2. QED
    BY <1>2, <2>1 DEF TypeInv, TypeOK, RequestsTyped, CreateDraft
<1>3. ASSUME NEW r \in Requests, Begin(r)
      PROVE  TypeInv'
  <2> USE DEF TypeInv
  <2>0. Amounts \subseteq Amounts \cup {0} /\ Tenors \subseteq Tenors \cup {0}
        /\ NotGiven \in Amounts \cup {0} /\ NotGiven \in Tenors \cup {0} /\ 0 \in Nat
    BY DEF NotGiven
  <2>1. \E l \in Loans, op \in Ops \ {"IDLE"}, b \in Nat, a \in Amounts \cup {0},
           t \in Tenors \cup {0} :
          /\ Enter(r, op, l, b, a, t)
          /\ op = "REVISE" => a \in Amounts /\ t \in Tenors
          /\ op \in {"APPROVE", "REJECT"} => loan[l].currentStep \in Steps
    <3>1. PICK l \in Loans :
            \/ \E a \in Amounts \cup {NotGiven}, t \in Tenors \cup {NotGiven} :
                 BeginUpdate(r, l, a, t)
            \/ BeginDelete(r, l)
            \/ BeginSubmit(r, l)
            \/ \E b \in DOMAIN approvals[l], a \in Amounts, t \in Tenors :
                 BeginRevise(r, l, b, a, t)
            \/ \E b \in DOMAIN approvals[l], op \in {"APPROVE", "REJECT"} :
                 BeginDecision(r, l, b, op)
            \/ BeginDisburse(r, l)
            \/ BeginAuthorize(r, l)
      BY <1>3 DEF Begin
    <3>2. \A b \in DOMAIN approvals[l] : b \in Nat
      BY DEF TypeOK
    <3>3. CASE \E a \in Amounts \cup {NotGiven}, t \in Tenors \cup {NotGiven} :
                 BeginUpdate(r, l, a, t)
      BY <3>3, <2>0 DEF BeginUpdate, NotGiven, Ops
    <3>4. CASE BeginDelete(r, l)
      BY <3>4, <2>0 DEF BeginDelete, Ops
    <3>5. CASE BeginSubmit(r, l)
      BY <3>5, <2>0 DEF BeginSubmit, Ops
    <3>6. CASE \E b \in DOMAIN approvals[l], a \in Amounts, t \in Tenors :
                 BeginRevise(r, l, b, a, t)
      BY <3>6, <2>0, <3>2 DEF BeginRevise, Ops
    <3>7. CASE \E b \in DOMAIN approvals[l], op \in {"APPROVE", "REJECT"} :
                 BeginDecision(r, l, b, op)
      BY <3>7, <2>0, <3>2 DEF BeginDecision, MayDecide, Ops
    <3>8. CASE BeginDisburse(r, l)
      BY <3>8, <2>0 DEF BeginDisburse, Ops
    <3>9. CASE BeginAuthorize(r, l)
      BY <3>9, <2>0 DEF BeginAuthorize, Ops
    <3>10. QED
      BY <3>1, <3>3, <3>4, <3>5, <3>6, <3>7, <3>8, <3>9
  <2>2. PICK l \in Loans, op \in Ops \ {"IDLE"}, b \in Nat, a \in Amounts \cup {0},
             t \in Tenors \cup {0} :
          /\ Enter(r, op, l, b, a, t)
          /\ op = "REVISE" => a \in Amounts /\ t \in Tenors
          /\ op \in {"APPROVE", "REJECT"} => loan[l].currentStep \in Steps
    BY <2>1
  <2>3. /\ TypeOK'
        /\ request'[r] = [op |-> op, loan |-> l, seen |-> loan[l], batch |-> b,
                          amount |-> a, tenor |-> t, fundRead |-> NoFundRead]
        /\ \A s \in Requests \ {r} : request'[s] = request[s]
    BY <2>2, SnapshotTyped
  <2>4. RequestsTyped'
    BY <2>2, <2>3 DEF RequestsTyped
  <2>5. QED
    BY <2>3, <2>4
<1>4. ASSUME NEW r \in Requests, Commit(r)
      PROVE  TypeInv'
  <2> DEFINE q == request[r]
  <2>1. CASE CommitUpdate(r)
    <3>1. /\ q \in RequestRow /\ loan[q.loan] \in LoanRow /\ Done(r)
      BY <2>1, RunningRequest DEF CommitUpdate, TypeInv, Ops
    <3>2. UpdatedAmount(q) \in Amounts \cup {0}
      BY <3>1 DEF UpdatedAmount, RequestRow, LoanRow
    <3>3. UpdatedInstallment(q) \in Installment
      BY <3>1 DEF UpdatedInstallment, RequestRow, LoanRow, Installment
    <3>4. loan' \in [Loans -> LoanRow]
      BY <2>1, <3>1, <3>2, <3>3
         DEF CommitUpdate, TypeInv, TypeOK, RequestRow, LoanRow, NotGiven
    <3>5. QED
      BY <2>1, <3>1, <3>4, RequestDone DEF CommitUpdate, TypeInv, TypeOK
  <2>2. CASE CommitDelete(r)
    <3>1. /\ q \in RequestRow /\ q.loan \in Loans /\ Done(r)
      BY <2>2, RunningRequest DEF CommitDelete, TypeInv, Ops
    <3>2. [NoLoan EXCEPT !.status = "DELETED"] \in LoanRow
      BY DEF NoLoan, LoanRow, AllTypes, Statuses, Tenors, Installment, NoInstallment
    <3>3. NoSchedule \in ScheduleRow
      BY DEF NoSchedule, ScheduleRow, NoInstallment, Installment
    <3>4. QED
      BY <2>2, <3>1, <3>2, <3>3, RequestDone DEF CommitDelete, TypeInv, TypeOK
  <2>3. CASE CommitSubmit(r)
    <3>1. /\ q \in RequestRow /\ q.loan \in Loans /\ Done(r) /\ loan[q.loan] \in LoanRow
      BY <2>3, RunningRequest DEF CommitSubmit, TypeInv, Ops
    <3>2. loan' \in [Loans -> LoanRow]
      BY <2>3, <3>1 DEF CommitSubmit, TypeInv, TypeOK, LoanRow, Statuses, Steps
    <3>3. approvals' \in [Loans -> Seq(ApprovalBatch)]
      <4>1. [s \in Steps |-> "NONE"] \in ApprovalBatch
        BY DEF ApprovalBatch, Decisions
      <4>2. Append(approvals[q.loan], [s \in Steps |-> "NONE"]) \in Seq(ApprovalBatch)
        BY <3>1, <4>1, AppendProperties DEF TypeInv, TypeOK
      <4>3. QED
        BY <2>3, <3>1, <4>2 DEF CommitSubmit, TypeInv, TypeOK
    <3>4. history' \in [Loans -> SUBSET HistoryRow]
      BY <2>3, <3>1 DEF CommitSubmit, TypeInv, TypeOK, HistoryRow, Statuses
    <3>5. QED
      BY <2>3, <3>1, <3>2, <3>3, <3>4, RequestDone DEF CommitSubmit, TypeInv, TypeOK
  <2>4. CASE CommitRevise(r)
    <3>1. /\ q \in RequestRow /\ q.loan \in Loans /\ Done(r) /\ loan[q.loan] \in LoanRow
          /\ q # Idle /\ q.op = "REVISE"
      BY <2>4, RunningRequest DEF CommitRevise, TypeInv, Ops, Running
    <3>2. q.amount \in Amounts /\ q.tenor \in Tenors
      BY <3>1 DEF TypeInv, RequestsTyped
    <3>3. loan' \in [Loans -> LoanRow]
      BY <2>4, <3>1, <3>2
         DEF CommitRevise, TypeInv, TypeOK, LoanRow, Installment, RequestRow
    <3>4. approvals' \in [Loans -> Seq(ApprovalBatch)]
      <4>1. [approvals[q.loan] EXCEPT ![q.batch]["DIVISI_SIMPAN_PINJAM"] = "REVISED"]
              \in Seq(ApprovalBatch)
        BY <3>1, BatchDecided DEF TypeInv, TypeOK, Decisions, Steps
      <4>2. QED
        BY <2>4, <4>1 DEF CommitRevise, TypeInv, TypeOK
    <3>5. history' \in [Loans -> SUBSET HistoryRow]
      BY <2>4, <3>1 DEF CommitRevise, TypeInv, TypeOK, HistoryRow, Statuses, AddHistory
    <3>6. QED
      BY <2>4, <3>1, <3>3, <3>4, <3>5, RequestDone DEF CommitRevise, TypeInv, TypeOK
  <2>5. CASE CommitReject(r)
    <3>1. /\ q \in RequestRow /\ q.loan \in Loans /\ Done(r) /\ loan[q.loan] \in LoanRow
          /\ q # Idle /\ q.op = "REJECT"
      BY <2>5, RunningRequest DEF CommitReject, TypeInv, Ops, Running
    <3>2. q.seen.currentStep \in Steps
      BY <3>1 DEF TypeInv, RequestsTyped
    <3>3. loan' \in [Loans -> LoanRow]
      BY <2>5, <3>1 DEF CommitReject, TypeInv, TypeOK, LoanRow, Statuses
    <3>4. approvals' \in [Loans -> Seq(ApprovalBatch)]
      <4>1. [approvals[q.loan] EXCEPT ![q.batch][q.seen.currentStep] = "REJECTED"]
              \in Seq(ApprovalBatch)
        BY <3>1, <3>2, BatchDecided DEF TypeInv, TypeOK, Decisions
      <4>2. QED
        BY <2>5, <4>1 DEF CommitReject, TypeInv, TypeOK
    <3>5. history' \in [Loans -> SUBSET HistoryRow]
      BY <2>5, <3>1 DEF CommitReject, TypeInv, TypeOK, HistoryRow, Statuses, AddHistory
    <3>6. QED
      BY <2>5, <3>1, <3>3, <3>4, <3>5, RequestDone DEF CommitReject, TypeInv, TypeOK
  <2>6. CASE CommitApprove(r)
    <3>1. /\ q \in RequestRow /\ q.loan \in Loans /\ Done(r) /\ loan[q.loan] \in LoanRow
          /\ q # Idle /\ q.op = "APPROVE"
      BY <2>6, RunningRequest DEF CommitApprove, TypeInv, Ops, Running
    <3>2. q.seen.currentStep \in Steps
      BY <3>1 DEF TypeInv, RequestsTyped
    <3>3. /\ StatusAfter(q.seen.currentStep) \in Statuses
          /\ NextStep(q.seen.currentStep) \in Steps \cup {NoStep}
      BY <3>2 DEF StatusAfter, NextStep, StatusForStep, Steps, Statuses
    <3>4. loan' \in [Loans -> LoanRow]
      BY <2>6, <3>1, <3>3 DEF CommitApprove, TypeInv, TypeOK, LoanRow
    <3>5. approvals' \in [Loans -> Seq(ApprovalBatch)]
      <4>1. [approvals[q.loan] EXCEPT ![q.batch][q.seen.currentStep] = "APPROVED"]
              \in Seq(ApprovalBatch)
        BY <3>1, <3>2, BatchDecided DEF TypeInv, TypeOK, Decisions
      <4>2. QED
        BY <2>6, <4>1 DEF CommitApprove, TypeInv, TypeOK
    <3>6. history' \in [Loans -> SUBSET HistoryRow]
      BY <2>6, <3>1, <3>3 DEF CommitApprove, TypeInv, TypeOK, HistoryRow, AddHistory
    <3>7. QED
      BY <2>6, <3>1, <3>4, <3>5, <3>6, RequestDone DEF CommitApprove, TypeInv, TypeOK
  <2>7. CASE CommitDisburse(r)
    <3>1. /\ q \in RequestRow /\ q.loan \in Loans /\ Done(r) /\ loan[q.loan] \in LoanRow
      BY <2>7, RunningRequest DEF CommitDisburse, TypeInv, Ops
    <3>2. loan' \in [Loans -> LoanRow]
      BY <2>7, <3>1 DEF CommitDisburse, TypeInv, TypeOK, LoanRow, Statuses
    <3>3. history' \in [Loans -> SUBSET HistoryRow]
      BY <2>7, <3>1 DEF CommitDisburse, TypeInv, TypeOK, HistoryRow, Statuses, AddHistory
    <3>4. QED
      BY <2>7, <3>1, <3>2, <3>3, RequestDone DEF CommitDisburse, TypeInv, TypeOK
  <2>8. CASE ReadFund(r)
    <3>1. /\ q \in RequestRow /\ q # Idle /\ q.op = "AUTHORIZE"
      BY <2>8, RunningRequest DEF ReadFund, TypeInv, Ops, Running
    <3>2. [q EXCEPT !.fundRead = fund] \in RequestRow
      BY <3>1 DEF RequestRow, TypeInv, TypeOK
    <3>3. TypeOK'
      BY <2>8, <3>2 DEF ReadFund, TypeInv, TypeOK, rows
    <3>4. RequestsTyped'
      BY <2>8, <3>1 DEF ReadFund, TypeInv, TypeOK, RequestsTyped, RequestRow
    <3>5. QED
      BY <3>3, <3>4 DEF TypeInv
  <2>9. CASE CommitAuthorize(r)
    <3>1. /\ q \in RequestRow /\ q.loan \in Loans /\ Done(r) /\ loan[q.loan] \in LoanRow
          /\ q # Idle /\ q.op = "AUTHORIZE"
      BY <2>9, RunningRequest DEF CommitAuthorize, TypeInv, Ops, Running
    <3>2. loan' \in [Loans -> LoanRow]
      BY <2>9, <3>1 DEF CommitAuthorize, TypeInv, TypeOK, LoanRow, Statuses
    <3>3. history' \in [Loans -> SUBSET HistoryRow]
      BY <2>9, <3>1 DEF CommitAuthorize, TypeInv, TypeOK, HistoryRow, Statuses, AddHistory
    <3>4. schedule' \in [Loans -> ScheduleRow]
      <4>1. [count |-> loan[q.loan].tenor, each |-> loan[q.loan].installment] \in ScheduleRow
        BY <3>1 DEF LoanRow, ScheduleRow
      <4>2. QED
        BY <2>9, <3>1, <4>1 DEF CommitAuthorize, TypeInv, TypeOK, GenerateSchedule
    <3>5. /\ fund' \in Nat
          /\ fundLog' \in Seq([loan: Loans, amount: Amounts \cup {0}, balanceAfter: Nat])
      <4>1. CASE q.seen.type # "EXCESS_LOAN"
        BY <2>9, <4>1 DEF CommitAuthorize, DeductFund, TypeInv, TypeOK
      <4>2. CASE q.seen.type = "EXCESS_LOAN"
        <5>1. /\ q.fundRead # NoFundRead
              /\ fund' = q.fundRead - q.seen.amount
              /\ fundLog' = Append(fundLog, [loan |-> q.loan,
                                             amount |-> q.seen.amount,
                                             balanceAfter |-> q.fundRead - q.seen.amount])
          BY <2>9, <4>2 DEF CommitAuthorize, DeductFund
        <5>2. /\ q.seen.amount <= q.fundRead /\ q.fundRead \in Nat
              /\ q.seen.amount \in Amounts \cup {0}
          BY <3>1, <5>1 DEF TypeInv, RequestsTyped, RequestRow, LoanRow
        <5>3. q.fundRead - q.seen.amount \in Nat
          <6>1. q.fundRead \in Nat
            BY <5>2
          <6>2. q.seen.amount \in Nat
            BY <5>2, AmountsNat
          <6>3. QED
            BY <5>2, <6>1, <6>2, Difference
        <5>4. [loan |-> q.loan, amount |-> q.seen.amount,
               balanceAfter |-> q.fundRead - q.seen.amount]
                \in [loan: Loans, amount: Amounts \cup {0}, balanceAfter: Nat]
          BY <3>1, <5>2, <5>3
        <5>5. fundLog \in Seq([loan: Loans, amount: Amounts \cup {0}, balanceAfter: Nat])
          BY DEF TypeInv, TypeOK
        <5>6. QED
          BY <5>1, <5>3, <5>4, <5>5, AppendProperties
      <4>3. QED
        BY <4>1, <4>2
    <3>6. authorized' \in SUBSET Loans
      BY <2>9, <3>1 DEF CommitAuthorize, TypeInv, TypeOK
    <3>7. QED
      BY <2>9, <3>1, <3>2, <3>3, <3>4, <3>5, <3>6, RequestDone
         DEF CommitAuthorize, TypeInv, TypeOK
  <2>10. QED
    BY <1>4, <2>1, <2>2, <2>3, <2>4, <2>5, <2>6, <2>7, <2>8, <2>9 DEF Commit
<1>5. ASSUME NEW r \in Requests, Fail(r)
      PROVE  TypeInv'
  BY <1>5, RequestDone DEF Fail, rows, TypeInv, TypeOK
<1>6. QED
  BY <1>1, <1>2, <1>3, <1>4, <1>5 DEF Next

\* The rows of the loan services and what their requests carry always have
\* their types; in particular the social fund never goes below zero.
THEOREM TypeCorrect == Spec => []TypeOK
<1>1. Init => TypeInv
  BY ConstantsAssumption
     DEF Init, TypeInv, TypeOK, RequestsTyped, NoLoan, LoanRow, AllTypes, Statuses,
         Tenors, Installment, NoInstallment, NoSchedule, ScheduleRow
<1>2. TypeInv => TypeOK
  BY DEF TypeInv
<1>3. QED
  BY <1>1, <1>2, TypeInvInductive, PTL DEF Spec

-----------------------------------------------------------------------------
(* Signatures before money, whatever requests overlap.                     *)

Signed(l) == \A s \in Steps : Approved(s) \in history[l]

SignedBefore(l, s) == \A e \in StepsBefore(s) : Approved(e) \in history[l]

PaymentStatuses ==
  {"APPROVED_PENDING_DISBURSEMENT", "PENDING_AUTHORIZATION", "DISBURSED"}

\* Where a loan stands is backed by its history.
LoanBacked(l) ==
  /\ loan[l].currentStep \in Steps => SignedBefore(l, loan[l].currentStep)
  /\ loan[l].status \in PaymentStatuses => Signed(l)
  /\ l \in disbursed => Signed(l)
  /\ l \in authorized => l \in disbursed
  /\ loan[l].status \in {"NONE", "DELETED"} => l \notin disbursed

\* What a request in flight saw is still backed, however stale it is: rows of
\* the history are only added, as long as the loan is not deleted.
RequestBacked(q) ==
  /\ loan[q.loan].status # "NONE"
  /\ loan[q.loan].status # "DELETED" =>
       /\ q.seen.currentStep \in Steps => SignedBefore(q.loan, q.seen.currentStep)
       /\ q.seen.status \in PaymentStatuses => Signed(q.loan)
       /\ q.op = "DISBURSE" => q.seen.status \in PaymentStatuses
       /\ q.op = "AUTHORIZE" => q.loan \in disbursed

SignedInv ==
  /\ TypeInv
  /\ \A l \in Loans : LoanBacked(l)
  /\ \A r \in Requests : request[r] # Idle => RequestBacked(request[r])

\* A step leaves every row of loan m alone.
SameRows(m) ==
  /\ loan'[m] = loan[m]
  /\ history'[m] = history[m]
  /\ m \in disbursed' <=> m \in disbursed
  /\ m \in authorized' <=> m \in authorized

\* A step of loan m that forgets nothing its requests may rely on.
Keeps(m) ==
  /\ loan'[m].status # "NONE"
  /\ loan'[m].status # "DELETED" =>
       /\ loan[m].status # "DELETED"
       /\ history[m] \subseteq history'[m]
       /\ m \in disbursed => m \in disbursed'

LEMMA OthersBacked ==
  ASSUME NEW m \in Loans, LoanBacked(m), SameRows(m)
  PROVE  LoanBacked(m)'
  BY DEF LoanBacked, SameRows, SignedBefore, Signed

LEMMA RequestStaysBacked ==
  ASSUME NEW q, RequestBacked(q), Keeps(q.loan) \/ SameRows(q.loan)
  PROVE  RequestBacked(q)'
<1>1. CASE Keeps(q.loan)
  BY <1>1 DEF RequestBacked, Keeps, SignedBefore, Signed
<1>2. CASE SameRows(q.loan)
  BY <1>2 DEF RequestBacked, SameRows, SignedBefore, Signed
<1>3. QED
  BY <1>1, <1>2

\* A transaction of request r writes its own loan only; it remains to show
\* that this loan is backed, and that nothing of it was forgotten.
LEMMA CommitBacked ==
  ASSUME SignedInv, TypeInv', NEW r \in Requests, NEW l \in Loans,
         request[r] # Idle, l = request[r].loan,
         Done(r),
         \A m \in Loans \ {l} : SameRows(m),
         Keeps(l), LoanBacked(l)'
  PROVE  SignedInv'
<1>1. ASSUME NEW m \in Loans
      PROVE  LoanBacked(m)'
  BY OthersBacked DEF SignedInv
<1>2. ASSUME NEW s \in Requests, request'[s] # Idle
      PROVE  RequestBacked(request[s])'
  <2>1. s # r /\ request'[s] = request[s]
    BY <1>2, RequestDone DEF SignedInv
  <2>2. PICK q \in RequestRow : q = request[s]
    BY <1>2, <2>1 DEF SignedInv, TypeInv, TypeOK
  <2>3. RequestBacked(q) /\ q.loan \in Loans
    BY <1>2, <2>1, <2>2 DEF SignedInv, RequestRow
  <2>4. RequestBacked(q)'
    BY <2>3, RequestStaysBacked
  <2>5. QED
    BY <2>1, <2>2, <2>4 DEF RequestBacked, SignedBefore, Signed
<1>3. QED
  BY <1>1, <1>2 DEF SignedInv

\* The history row an approval adds is what the next step relies on.
LEMMA ApprovalSigns ==
  ASSUME NEW s \in Steps
  PROVE  /\ NextStep(s) \in Steps => StepsBefore(NextStep(s)) = StepsBefore(s) \cup {s}
         /\ StatusAfter(s) \in PaymentStatuses => Steps = StepsBefore(s) \cup {s}
         /\ StatusAfter(s) \notin {"NONE", "DELETED"}
        /\ Approved(s) = [action |-> "APPROVED", status |-> StatusAfter(s)]
  BY DEF NextStep, StepsBefore, StatusAfter, StatusForStep, PaymentStatuses, Steps,
         NoStep, Approved

LEMMA CommitKeepsSigned ==
  ASSUME SignedInv, TypeInv', NEW r \in Requests, NEW q, q = request[r], Commit(r)
  PROVE  SignedInv'
<1> USE DEF AddHistory
<1>1. \A op \in Ops \ {"IDLE"} : Running(r, op) =>
        /\ q \in RequestRow /\ q # Idle /\ q.loan \in Loans /\ q.op = op
        /\ loan[q.loan] \in LoanRow
        /\ loan[q.loan].status \notin {"NONE", "DELETED"}
        /\ LoanBacked(q.loan) /\ RequestBacked(q)
  BY RunningRequest DEF SignedInv, TypeInv, Running, RequestBacked
<1>0. q = request[r]
  OBVIOUS
<1>2. /\ history \in [Loans -> SUBSET HistoryRow]
      /\ loan \in [Loans -> LoanRow]
      /\ disbursed \subseteq Loans /\ authorized \subseteq Loans
  BY DEF SignedInv, TypeInv, TypeOK
<1>3. CASE CommitUpdate(r)
  <2>1. /\ q # Idle /\ q.loan \in Loans /\ Done(r) /\ LoanBacked(q.loan)
        /\ loan[q.loan].status \notin {"NONE", "DELETED"}
    BY <1>0, <1>1, <1>3 DEF CommitUpdate, Ops
  <2>2. \A m \in Loans \ {q.loan} : SameRows(m)
    BY <1>0, <1>2, <1>3, <2>1 DEF CommitUpdate, SameRows
  <2>3. /\ loan'[q.loan].status = loan[q.loan].status
        /\ loan'[q.loan].currentStep = loan[q.loan].currentStep
        /\ UNCHANGED <<history, disbursed, authorized>>
    BY <1>0, <1>2, <1>3, <2>1 DEF CommitUpdate, LoanRow
  <2>4. Keeps(q.loan) /\ LoanBacked(q.loan)'
    BY <2>1, <2>3 DEF Keeps, LoanBacked, SignedBefore, Signed
  <2>5. QED
    BY <1>0, <2>1, <2>2, <2>4, CommitBacked
<1>4. CASE CommitDelete(r)
  <2>1. /\ q # Idle /\ q.loan \in Loans /\ Done(r)
    BY <1>0, <1>1, <1>4 DEF CommitDelete, Ops
  <2>2. \A m \in Loans \ {q.loan} : SameRows(m)
    BY <1>0, <1>2, <1>4, <2>1 DEF CommitDelete, SameRows
  <2>3. /\ loan'[q.loan].status = "DELETED" /\ loan'[q.loan].currentStep = NoStep
        /\ q.loan \notin disbursed' /\ q.loan \notin authorized'
    BY <1>0, <1>2, <1>4, <2>1 DEF CommitDelete, NoLoan
  <2>4. Keeps(q.loan) /\ LoanBacked(q.loan)'
    BY <2>3 DEF Keeps, LoanBacked, Steps, NoStep, PaymentStatuses
  <2>5. QED
    BY <1>0, <2>1, <2>2, <2>4, CommitBacked
<1>5. CASE CommitSubmit(r)
  <2>1. /\ q # Idle /\ q.loan \in Loans /\ Done(r) /\ LoanBacked(q.loan)
        /\ loan[q.loan].status \notin {"NONE", "DELETED"}
    BY <1>0, <1>1, <1>5 DEF CommitSubmit, Ops
  <2>2. \A m \in Loans \ {q.loan} : SameRows(m)
    BY <1>0, <1>2, <1>5, <2>1 DEF CommitSubmit, SameRows
  <2>3. /\ loan'[q.loan].status = "UNDER_REVIEW_DSP"
        /\ loan'[q.loan].currentStep = "DIVISI_SIMPAN_PINJAM"
        /\ history[q.loan] \subseteq history'[q.loan]
        /\ UNCHANGED <<disbursed, authorized>>
    BY <1>0, <1>2, <1>5, <2>1 DEF CommitSubmit, LoanRow
  <2>4. Keeps(q.loan) /\ LoanBacked(q.loan)'
    BY <2>1, <2>3 DEF Keeps, LoanBacked, SignedBefore, StepsBefore, Signed, PaymentStatuses
  <2>5. QED
    BY <1>0, <2>1, <2>2, <2>4, CommitBacked
<1>6. CASE CommitRevise(r)
  <2>1. /\ q # Idle /\ q.loan \in Loans /\ Done(r) /\ LoanBacked(q.loan)
        /\ loan[q.loan].status \notin {"NONE", "DELETED"}
    BY <1>0, <1>1, <1>6 DEF CommitRevise, Ops
  <2>2. \A m \in Loans \ {q.loan} : SameRows(m)
    BY <1>0, <1>2, <1>6, <2>1 DEF CommitRevise, SameRows
  <2>3. /\ loan'[q.loan].status = loan[q.loan].status
        /\ loan'[q.loan].currentStep = loan[q.loan].currentStep
        /\ history[q.loan] \subseteq history'[q.loan]
        /\ UNCHANGED <<disbursed, authorized>>
    BY <1>0, <1>2, <1>6, <2>1 DEF CommitRevise, LoanRow
  <2>4. Keeps(q.loan) /\ LoanBacked(q.loan)'
    BY <2>1, <2>3 DEF Keeps, LoanBacked, SignedBefore, Signed
  <2>5. QED
    BY <1>0, <2>1, <2>2, <2>4, CommitBacked
<1>7. CASE CommitReject(r)
  <2>1. /\ q # Idle /\ q.loan \in Loans /\ Done(r) /\ LoanBacked(q.loan)
        /\ loan[q.loan].status \notin {"NONE", "DELETED"}
    BY <1>0, <1>1, <1>7 DEF CommitReject, Ops
  <2>2. \A m \in Loans \ {q.loan} : SameRows(m)
    BY <1>0, <1>2, <1>7, <2>1 DEF CommitReject, SameRows
  <2>3. /\ loan'[q.loan].status = "REJECTED" /\ loan'[q.loan].currentStep = NoStep
        /\ history[q.loan] \subseteq history'[q.loan]
        /\ UNCHANGED <<disbursed, authorized>>
    BY <1>0, <1>2, <1>7, <2>1 DEF CommitReject, LoanRow
  <2>4. Keeps(q.loan) /\ LoanBacked(q.loan)'
    BY <2>1, <2>3 DEF Keeps, LoanBacked, Signed, Steps, NoStep, PaymentStatuses
  <2>5. QED
    BY <1>0, <2>1, <2>2, <2>4, CommitBacked
<1>8. CASE CommitApprove(r)
  <2> DEFINE s == q.seen.currentStep
  <2>1. /\ q # Idle /\ q.loan \in Loans /\ Done(r) /\ LoanBacked(q.loan)
        /\ loan[q.loan].status \notin {"NONE", "DELETED"}
        /\ RequestBacked(q) /\ q.op = "APPROVE"
    BY <1>0, <1>1, <1>8 DEF CommitApprove, Ops
  <2>2. \A m \in Loans \ {q.loan} : SameRows(m)
    BY <1>0, <1>2, <1>8, <2>1 DEF CommitApprove, SameRows
  <2>3. s \in Steps /\ SignedBefore(q.loan, s)
    BY <1>0, <2>1 DEF SignedInv, TypeInv, RequestsTyped, RequestBacked
  <2>4. /\ loan'[q.loan].status = StatusAfter(s)
        /\ loan'[q.loan].currentStep = NextStep(s)
        /\ history'[q.loan] = history[q.loan] \cup {Approved(s)}
        /\ UNCHANGED <<disbursed, authorized>>
    BY <1>0, <1>2, <1>8, <2>1, <2>3, ApprovalSigns DEF CommitApprove, LoanRow
  <2>5. Keeps(q.loan)
    BY <2>1, <2>3, <2>4, ApprovalSigns DEF Keeps
  <2>6. \A e \in StepsBefore(s) \cup {s} : Approved(e) \in history'[q.loan]
    BY <2>3, <2>4 DEF SignedBefore
  <2>7. NextStep(s) \in Steps => SignedBefore(q.loan, NextStep(s))'
    <3>1. NextStep(s) \in Steps =>
            \A e \in StepsBefore(NextStep(s)) : Approved(e) \in history'[q.loan]
      BY <2>3, <2>6, ApprovalSigns
    <3>2. QED
      BY <1>0, <3>1 DEF SignedBefore
  <2>8. StatusAfter(s) \in PaymentStatuses =>
          \A e \in Steps : Approved(e) \in history'[q.loan]
    BY <2>3, <2>6, ApprovalSigns
  <2>9. q.loan \in disbursed => \A e \in Steps : Approved(e) \in history'[q.loan]
    BY <2>1, <2>4 DEF LoanBacked, Signed
  <2>10. LoanBacked(q.loan)'
    BY <2>1, <2>3, <2>4, <2>6, <2>7, <2>8, <2>9, ApprovalSigns
       DEF LoanBacked, SignedBefore, Signed
  <2>11. QED
    BY <1>0, <2>1, <2>2, <2>5, <2>10, CommitBacked
<1>9. CASE CommitDisburse(r)
  <2>1. /\ q # Idle /\ q.loan \in Loans /\ Done(r) /\ LoanBacked(q.loan)
        /\ loan[q.loan].status \notin {"NONE", "DELETED"}
        /\ RequestBacked(q) /\ q.op = "DISBURSE"
    BY <1>0, <1>1, <1>9 DEF CommitDisburse, Ops
  <2>2. \A m \in Loans \ {q.loan} : SameRows(m)
    BY <1>0, <1>2, <1>9, <2>1 DEF CommitDisburse, SameRows
  <2>3. /\ loan'[q.loan].status = "PENDING_AUTHORIZATION"
        /\ loan'[q.loan].currentStep = loan[q.loan].currentStep
        /\ history[q.loan] \subseteq history'[q.loan]
        /\ q.loan \in disbursed' /\ UNCHANGED authorized
    BY <1>0, <1>2, <1>9, <2>1 DEF CommitDisburse, LoanRow
  <2>4. Signed(q.loan)
    BY <2>1 DEF RequestBacked
  <2>5. Keeps(q.loan) /\ LoanBacked(q.loan)'
    BY <2>1, <2>3, <2>4 DEF Keeps, LoanBacked, SignedBefore, Signed
  <2>6. QED
    BY <1>0, <2>1, <2>2, <2>5, CommitBacked
<1>10. CASE ReadFund(r)
  <2>1. /\ q # Idle /\ q \in RequestRow /\ RequestBacked(q)
    BY <1>0, <1>1, <1>10 DEF ReadFund, Ops
  <2>2. /\ UNCHANGED rows
        /\ request' = [request EXCEPT ![r] = [q EXCEPT !.fundRead = fund]]
    BY <1>0, <1>10 DEF ReadFund
  <2>3. RequestBacked([q EXCEPT !.fundRead = fund])'
    BY <1>0, <2>1, <2>2 DEF RequestBacked, RequestRow, rows, SignedBefore, Signed
  <2>4. QED
    BY <1>0, <2>2, <2>3 DEF SignedInv, TypeInv, TypeOK, rows, LoanBacked, RequestBacked,
                      SignedBefore, Signed
<1>11. CASE CommitAuthorize(r)
  <2>1. /\ q # Idle /\ q.loan \in Loans /\ Done(r) /\ LoanBacked(q.loan)
        /\ loan[q.loan].status \notin {"NONE", "DELETED"}
        /\ RequestBacked(q) /\ q.op = "AUTHORIZE"
    BY <1>0, <1>1, <1>11 DEF CommitAuthorize, Ops
  <2>2. \A m \in Loans \ {q.loan} : SameRows(m)
    BY <1>0, <1>2, <1>11, <2>1 DEF CommitAuthorize, SameRows
  <2>3. /\ loan'[q.loan].status = "DISBURSED"
        /\ loan'[q.loan].currentStep = loan[q.loan].currentStep
        /\ history[q.loan] \subseteq history'[q.loan]
        /\ UNCHANGED disbursed
    BY <1>0, <1>2, <1>11, <2>1 DEF CommitAuthorize, LoanRow
  <2>4. q.loan \in disbursed /\ Signed(q.loan)
    BY <2>1 DEF RequestBacked, LoanBacked
  <2>5. Keeps(q.loan) /\ LoanBacked(q.loan)'
    BY <2>1, <2>3, <2>4 DEF Keeps, LoanBacked, SignedBefore, Signed
  <2>6. QED
    BY <1>0, <2>1, <2>2, <2>5, CommitBacked
<1>12. QED
  BY <1>3, <1>4, <1>5, <1>6, <1>7, <1>8, <1>9, <1>10, <1>11 DEF Commit

LEMMA BeginKeepsSigned ==
  ASSUME SignedInv, TypeInv', NEW r \in Requests, Begin(r)
  PROVE  SignedInv'
<1>1. \E l \in Loans, op \in Ops \ {"IDLE"} : \E b, a, t :
        /\ Enter(r, op, l, b, a, t)
        /\ loan[l].status \notin {"NONE", "DELETED"}
        /\ op = "DISBURSE" => loan[l].status \in PaymentStatuses
        /\ op = "AUTHORIZE" => l \in disbursed
  <2>1. PICK l \in Loans :
          \/ \E a \in Amounts \cup {NotGiven}, t \in Tenors \cup {NotGiven} :
               BeginUpdate(r, l, a, t)
          \/ BeginDelete(r, l)
          \/ BeginSubmit(r, l)
          \/ \E b \in DOMAIN approvals[l], a \in Amounts, t \in Tenors :
               BeginRevise(r, l, b, a, t)
          \/ \E b \in DOMAIN approvals[l], op \in {"APPROVE", "REJECT"} :
               BeginDecision(r, l, b, op)
          \/ BeginDisburse(r, l)
          \/ BeginAuthorize(r, l)
    BY DEF Begin
  <2>2. CASE \E a \in Amounts \cup {NotGiven}, t \in Tenors \cup {NotGiven} :
               BeginUpdate(r, l, a, t)
    BY <2>2 DEF BeginUpdate, Ops
  <2>3. CASE BeginDelete(r, l)
    BY <2>3 DEF BeginDelete, Ops
  <2>4. CASE BeginSubmit(r, l)
    BY <2>4 DEF BeginSubmit, Ops
  <2>5. CASE \E b \in DOMAIN approvals[l], a \in Amounts, t \in Tenors :
               BeginRevise(r, l, b, a, t)
    BY <2>5 DEF BeginRevise, Ops
  <2>6. CASE \E b \in DOMAIN approvals[l], op \in {"APPROVE", "REJECT"} :
               BeginDecision(r, l, b, op)
    BY <2>6 DEF BeginDecision, MayDecide, StatusForStep, Steps, Ops
  <2>7. CASE BeginDisburse(r, l)
    BY <2>7 DEF BeginDisburse, PaymentStatuses, Ops
  <2>8. CASE BeginAuthorize(r, l)
    BY <2>8 DEF BeginAuthorize, Ops
  <2>9. QED
    BY <2>1, <2>2, <2>3, <2>4, <2>5, <2>6, <2>7, <2>8
<1>2. PICK l \in Loans, op \in Ops \ {"IDLE"} :
        /\ \E b, a, t : Enter(r, op, l, b, a, t)
        /\ loan[l].status \notin {"NONE", "DELETED"}
        /\ op = "DISBURSE" => loan[l].status \in PaymentStatuses
        /\ op = "AUTHORIZE" => l \in disbursed
  BY <1>1
<1>3. PICK b, a, t : Enter(r, op, l, b, a, t)
  BY <1>2
<1> DEFINE new == [op |-> op, loan |-> l, seen |-> loan[l], batch |-> b,
                   amount |-> a, tenor |-> t, fundRead |-> NoFundRead]
<1>4. /\ UNCHANGED rows
      /\ request'[r] = new
      /\ \A s \in Requests \ {r} : request'[s] = request[s]
  BY <1>3 DEF Enter, SignedInv, TypeInv, TypeOK
<1>5. RequestBacked(new)
  BY <1>2 DEF RequestBacked, SignedInv, LoanBacked
<1>6. \A q : RequestBacked(q) => RequestBacked(q)'
  BY <1>4 DEF RequestBacked, rows, SignedBefore, Signed
<1>7. \A m \in Loans : LoanBacked(m)'
  BY <1>4 DEF SignedInv, LoanBacked, rows, SignedBefore, Signed
<1>8. ASSUME NEW s \in Requests, request'[s] # Idle
      PROVE  RequestBacked(request[s])'
  <2>1. CASE s = r
    <3>1. PICK n : n = new
      OBVIOUS
    <3>2. RequestBacked(n)'
      BY <1>5, <1>6, <3>1
    <3>3. request'[s] = n
      BY <1>4, <2>1, <3>1
    <3>4. QED
      BY <3>2, <3>3 DEF RequestBacked, SignedBefore, Signed
  <2>2. CASE s # r
    <3>1. PICK n : n = request[s]
      OBVIOUS
    <3>2. RequestBacked(n)'
      BY <1>4, <1>6, <1>8, <2>2, <3>1 DEF SignedInv
    <3>3. request'[s] = n
      BY <1>4, <2>2, <3>1
    <3>4. QED
      BY <3>2, <3>3 DEF RequestBacked, SignedBefore, Signed
  <2>3. QED
    BY <2>1, <2>2
<1>9. QED
  BY <1>7, <1>8 DEF SignedInv

LEMMA SignedInvInductive == SignedInv /\ [Next]_vars => SignedInv'
<1> SUFFICES ASSUME SignedInv, [Next]_vars
             PROVE  SignedInv'
  OBVIOUS
<1>1. TypeInv'
  BY TypeInvInductive DEF SignedInv
<1>2. \A q : RequestBacked(q) /\ UNCHANGED rows => RequestBacked(q)'
  BY DEF RequestBacked, rows, SignedBefore, Signed
<1>3. UNCHANGED rows => \A m \in Loans : LoanBacked(m)'
  BY DEF SignedInv, LoanBacked, rows, SignedBefore, Signed
<1>4. CASE UNCHANGED vars
  BY <1>1, <1>4 DEF SignedInv, vars, LoanBacked, RequestBacked, SignedBefore, Signed
<1>5. ASSUME NEW l \in Loans, NEW type \in LoanTypes, NEW a \in Amounts,
             NEW t \in Tenors, CreateDraft(l, type, a, t)
      PROVE  SignedInv'
  <2>1. \A m \in Loans \ {l} : SameRows(m)
    BY <1>5 DEF CreateDraft, SameRows, SignedInv, TypeInv, TypeOK
  <2>2. /\ loan[l].status = "NONE" /\ loan'[l].status = "DRAFT"
        /\ loan'[l].currentStep = NoStep
        /\ UNCHANGED <<history, disbursed, authorized, request>>
    BY <1>5 DEF CreateDraft, SignedInv, TypeInv, TypeOK
  <2>3. LoanBacked(l)'
    BY <2>2 DEF SignedInv, LoanBacked, PaymentStatuses, Steps, NoStep, Signed, SignedBefore
  <2>4. \A m \in Loans : LoanBacked(m)'
    BY <2>1, <2>3, OthersBacked DEF SignedInv
  <2>5. ASSUME NEW s \in Requests, request'[s] # Idle
        PROVE  RequestBacked(request[s])'
    <3>1. PICK q \in RequestRow : q = request[s]
      BY <2>2, <2>5 DEF SignedInv, TypeInv, TypeOK
    <3>2. RequestBacked(q) /\ q.loan \in Loans
      BY <2>2, <2>5, <3>1 DEF SignedInv, RequestRow
    <3>3. q.loan # l
      BY <2>2, <3>2 DEF RequestBacked
    <3>4. RequestBacked(q)'
      BY <2>1, <3>2, <3>3, RequestStaysBacked
    <3>5. request'[s] = q
      BY <2>2, <3>1
    <3>6. QED
      BY <3>4, <3>5 DEF RequestBacked, SignedBefore, Signed
  <2>6. QED
    BY <1>1, <2>4, <2>5 DEF SignedInv
<1>6. ASSUME NEW r \in Requests, Begin(r)
      PROVE  SignedInv'
  BY <1>1, <1>6, BeginKeepsSigned
<1>7. ASSUME NEW r \in Requests, Commit(r)
      PROVE  SignedInv'
  <2>1. PICK q : q = request[r]
    OBVIOUS
  <2>2. QED
    BY <1>1, <1>7, <2>1, CommitKeepsSigned
<1>8. ASSUME NEW r \in Requests, Fail(r)
      PROVE  SignedInv'
  <2>1. UNCHANGED rows /\ Done(r)
    BY <1>8 DEF Fail
  <2>2. ASSUME NEW s \in Requests, request'[s] # Idle
        PROVE  RequestBacked(request[s])'
    <3>1. PICK q : q = request[s]
      OBVIOUS
    <3>2. request'[s] = q /\ q # Idle
      BY <2>1, <2>2, <3>1, RequestDone DEF SignedInv
    <3>3. RequestBacked(q)'
      BY <1>2, <2>1, <3>1, <3>2 DEF SignedInv
    <3>4. QED
      BY <3>2, <3>3 DEF RequestBacked, SignedBefore, Signed
  <2>3. QED
    BY <1>1, <1>3, <2>1, <2>2 DEF SignedInv
<1>9. QED
  BY <1>4, <1>5, <1>6, <1>7, <1>8 DEF Next

\* No loan is booked or paid out without the three signatures and the booking,
\* however many requests overlap.
THEOREM SignedBeforePayout == Spec => []PayoutIsSigned
<1>1. Init => SignedInv
  <2>1. Init => TypeInv
    BY ConstantsAssumption
       DEF Init, TypeInv, TypeOK, RequestsTyped, NoLoan, LoanRow, AllTypes, Statuses,
           Tenors, Installment, NoInstallment, NoSchedule, ScheduleRow
  <2>2. QED
    BY <2>1 DEF Init, SignedInv, LoanBacked, NoLoan, Steps, NoStep, PaymentStatuses
<1>2. SignedInv => PayoutIsSigned
  BY DEF SignedInv, TypeInv, TypeOK, LoanBacked, Signed, PayoutIsSigned
<1>3. QED
  BY <1>1, <1>2, SignedInvInductive, PTL DEF Spec

-----------------------------------------------------------------------------
(* The pay-out happens once, whatever requests overlap.                    *)

PayoutInv == TypeInv /\ PaidOutOnce /\ ScheduleIffAuthorized

\* No step takes an authorization back or a deletion back, except that a
\* deletion takes the authorization along.
PaidOrDeletedStays ==
  \A l \in Loans : l \in authorized \/ loan[l].status = "DELETED"
                    => l \in authorized' \/ loan'[l].status = "DELETED"

LEMMA LedgerLoans ==
  ASSUME TypeOK, NEW i \in DOMAIN fundLog
  PROVE  fundLog[i].loan \in Loans
<1> DEFINE Entry == [loan: Loans, amount: Amounts \cup {0}, balanceAfter: Nat]
<1>1. fundLog \in Seq(Entry) /\ i \in 1 .. Len(fundLog)
  BY DEF TypeOK
<1>2. fundLog[i] \in Entry
  BY <1>1, ElementOfSeq
<1>3. QED
  BY <1>2

LEMMA PayoutStays ==
  ASSUME PayoutInv, TypeInv', PaidOrDeletedStays, UNCHANGED fundLog,
         ScheduleIffAuthorized'
  PROVE  PayoutInv'
<1>1. \A i \in DOMAIN fundLog : fundLog[i].loan \in Loans
  BY LedgerLoans DEF PayoutInv, TypeInv
<1>2. QED
  BY <1>1 DEF PayoutInv, PaidOutOnce, PaidOrDeletedStays

LEMMA PayoutInvInductive == PayoutInv /\ [Next]_vars => PayoutInv'
<1> SUFFICES ASSUME PayoutInv, [Next]_vars
             PROVE  PayoutInv'
  OBVIOUS
<1>0. /\ TypeInv /\ TypeInv'
      /\ loan \in [Loans -> LoanRow] /\ schedule \in [Loans -> ScheduleRow]
      /\ authorized \subseteq Loans
  BY TypeInvInductive DEF PayoutInv, TypeInv, TypeOK
<1>1. ASSUME UNCHANGED <<authorized, schedule, fundLog>>, PaidOrDeletedStays
      PROVE  PayoutInv'
  BY <1>0, <1>1, PayoutStays DEF PayoutInv, ScheduleIffAuthorized
<1>2. \A r \in Requests, op \in Ops \ {"IDLE"} : Running(r, op) =>
        /\ request[r] \in RequestRow /\ request[r].loan \in Loans
        /\ loan[request[r].loan].status # "DELETED"
  BY <1>0, RunningRequest DEF TypeInv, Running
<1>3. CASE UNCHANGED vars
  BY <1>1, <1>3 DEF vars, PaidOrDeletedStays
<1>4. ASSUME NEW l \in Loans, NEW type \in LoanTypes, NEW a \in Amounts,
             NEW t \in Tenors, CreateDraft(l, type, a, t)
      PROVE  PayoutInv'
  BY <1>0, <1>1, <1>4 DEF CreateDraft, PaidOrDeletedStays
<1>5. ASSUME NEW r \in Requests, Begin(r)
      PROVE  PayoutInv'
  BY <1>1, <1>5 DEF Begin, BeginUpdate, BeginDelete, BeginSubmit, BeginRevise,
    BeginDecision, BeginDisburse, BeginAuthorize, Enter, rows, PaidOrDeletedStays
<1>6. ASSUME NEW r \in Requests, Fail(r)
      PROVE  PayoutInv'
  BY <1>1, <1>6 DEF Fail, rows, PaidOrDeletedStays
<1>7. ASSUME NEW r \in Requests, Commit(r)
      PROVE  PayoutInv'
  <2>1. CASE CommitUpdate(r)
    <3>1. Running(r, "UPDATE") /\ "UPDATE" \in Ops \ {"IDLE"}
      BY <2>1 DEF CommitUpdate, Ops
    <3>2. PaidOrDeletedStays
      BY <1>0, <1>2, <2>1, <3>1 DEF CommitUpdate, PaidOrDeletedStays
    <3>3. QED
      BY <1>1, <2>1, <3>2 DEF CommitUpdate
  <2>2. CASE CommitDelete(r)
    <3>1. Running(r, "DELETE") /\ "DELETE" \in Ops \ {"IDLE"}
      BY <2>2 DEF CommitDelete, Ops
    <3>2. PaidOrDeletedStays
      BY <1>0, <1>2, <2>2, <3>1 DEF CommitDelete, PaidOrDeletedStays, NoLoan
    <3>3. ScheduleIffAuthorized'
      BY <1>0, <1>2, <2>2, <3>1 DEF CommitDelete, PayoutInv, ScheduleIffAuthorized
    <3>4. QED
      BY <1>0, <2>2, <3>2, <3>3, PayoutStays DEF CommitDelete
  <2>3. CASE CommitSubmit(r)
    <3>1. Running(r, "SUBMIT") /\ "SUBMIT" \in Ops \ {"IDLE"}
      BY <2>3 DEF CommitSubmit, Ops
    <3>2. PaidOrDeletedStays
      BY <1>0, <1>2, <2>3, <3>1 DEF CommitSubmit, PaidOrDeletedStays
    <3>3. QED
      BY <1>1, <2>3, <3>2 DEF CommitSubmit
  <2>4. CASE CommitRevise(r)
    <3>1. Running(r, "REVISE") /\ "REVISE" \in Ops \ {"IDLE"}
      BY <2>4 DEF CommitRevise, Ops
    <3>2. PaidOrDeletedStays
      BY <1>0, <1>2, <2>4, <3>1 DEF CommitRevise, PaidOrDeletedStays
    <3>3. QED
      BY <1>1, <2>4, <3>2 DEF CommitRevise
  <2>5. CASE CommitReject(r)
    <3>1. Running(r, "REJECT") /\ "REJECT" \in Ops \ {"IDLE"}
      BY <2>5 DEF CommitReject, Ops
    <3>2. PaidOrDeletedStays
      BY <1>0, <1>2, <2>5, <3>1 DEF CommitReject, PaidOrDeletedStays
    <3>3. QED
      BY <1>1, <2>5, <3>2 DEF CommitReject
  <2>6. CASE CommitApprove(r)
    <3>1. Running(r, "APPROVE") /\ "APPROVE" \in Ops \ {"IDLE"}
      BY <2>6 DEF CommitApprove, Ops
    <3>2. PaidOrDeletedStays
      BY <1>0, <1>2, <2>6, <3>1 DEF CommitApprove, PaidOrDeletedStays
    <3>3. QED
      BY <1>1, <2>6, <3>2 DEF CommitApprove
  <2>7. CASE CommitDisburse(r)
    <3>1. Running(r, "DISBURSE") /\ "DISBURSE" \in Ops \ {"IDLE"}
      BY <2>7 DEF CommitDisburse, Ops
    <3>2. PaidOrDeletedStays
      BY <1>0, <1>2, <2>7, <3>1 DEF CommitDisburse, PaidOrDeletedStays
    <3>3. QED
      BY <1>1, <2>7, <3>2 DEF CommitDisburse
  <2>8. CASE ReadFund(r)
    BY <1>1, <2>8 DEF ReadFund, rows, PaidOrDeletedStays
  <2>9. CASE CommitAuthorize(r)
    <3>1. PICK q : q = request[r]
      OBVIOUS
    <3>2. /\ q \in RequestRow /\ q.loan \in Loans /\ q.loan \notin authorized
          /\ loan[q.loan] \in LoanRow /\ loan[q.loan].status # "DELETED"
      BY <1>0, <1>2, <2>9, <3>1 DEF CommitAuthorize, Ops
    <3>3. /\ authorized' = authorized \cup {q.loan}
          /\ \A m \in Loans \ {q.loan} : loan'[m] = loan[m]
          /\ schedule' = [schedule EXCEPT ![q.loan] =
               IF @ # NoSchedule THEN @
               ELSE [count |-> loan[q.loan].tenor, each |-> loan[q.loan].installment]]
          /\ DeductFund(q)
      BY <1>0, <2>9, <3>1, <3>2 DEF CommitAuthorize, GenerateSchedule
    <3>4. PaidOrDeletedStays
      BY <3>3 DEF PaidOrDeletedStays
    <3>5. ScheduleIffAuthorized'
      <4>1. [count |-> loan[q.loan].tenor, each |-> loan[q.loan].installment] # NoSchedule
        BY <3>2, ConstantsAssumption DEF LoanRow, Tenors, NoSchedule
      <4>2. QED
        BY <1>0, <3>2, <3>3, <4>1 DEF PayoutInv, ScheduleIffAuthorized
    <3>6. CASE UNCHANGED fundLog
      BY <1>0, <3>4, <3>5, <3>6, PayoutStays
    <3>7. CASE fundLog' # fundLog
      <4>1. PICK e : fundLog' = Append(fundLog, e) /\ e.loan = q.loan
        BY <3>3, <3>7 DEF DeductFund
      <4>2. /\ \A i \in DOMAIN fundLog : /\ fundLog[i].loan \in Loans
                                         /\ fundLog[i].loan # q.loan
            /\ fundLog \in Seq([loan: Loans, amount: Amounts \cup {0},
                                balanceAfter: Nat])
        <5>1. \A i \in DOMAIN fundLog : fundLog[i].loan \in Loans
          BY LedgerLoans DEF PayoutInv, TypeInv
        <5>2. \A i \in DOMAIN fundLog :
                fundLog[i].loan \in authorized \/ loan[fundLog[i].loan].status = "DELETED"
          BY DEF PayoutInv, PaidOutOnce
        <5>3. \A i \in DOMAIN fundLog : fundLog[i].loan # q.loan
          BY <3>2, <5>2
        <5>4. QED
          BY <5>1, <5>3 DEF PayoutInv, TypeInv, TypeOK
      <4>3. /\ DOMAIN fundLog' = DOMAIN fundLog \cup {Len(fundLog) + 1}
            /\ \A i \in DOMAIN fundLog : fundLog'[i] = fundLog[i]
            /\ fundLog'[Len(fundLog) + 1].loan = q.loan
        BY <4>1, <4>2
      <4>4. PaidOutOnce'
        BY <3>3, <3>4, <4>2, <4>3 DEF PayoutInv, PaidOutOnce, PaidOrDeletedStays
      <4>5. QED
        BY <1>0, <3>5, <4>4 DEF PayoutInv
    <3>8. QED
      BY <3>6, <3>7
  <2>10. QED
    BY <1>7, <2>1, <2>2, <2>3, <2>4, <2>5, <2>6, <2>7, <2>8, <2>9 DEF Commit
<1>8. QED
  BY <1>3, <1>4, <1>5, <1>6, <1>7 DEF Next

LEMMA PayoutInvInitially == Init => PayoutInv
<1>1. Init => TypeInv
  BY ConstantsAssumption
     DEF Init, TypeInv, TypeOK, RequestsTyped, NoLoan, LoanRow, AllTypes, Statuses,
         Tenors, Installment, NoInstallment, NoSchedule, ScheduleRow
<1>2. QED
  BY <1>1 DEF Init, PayoutInv, PaidOutOnce, ScheduleIffAuthorized

\* The social fund pays for a loan at most once, and never for a loan that was
\* neither authorized nor, later, deleted.
THEOREM PaidAtMostOnce == Spec => []PaidOutOnce
<1>1. PayoutInv => PaidOutOnce
  BY DEF PayoutInv
<1>2. QED
  BY <1>1, PayoutInvInitially, PayoutInvInductive, PTL DEF Spec

\* Installments exist for exactly the authorized loans.
THEOREM ScheduledWhenAuthorized == Spec => []ScheduleIffAuthorized
<1>1. PayoutInv => ScheduleIffAuthorized
  BY DEF PayoutInv
<1>2. QED
  BY <1>1, PayoutInvInitially, PayoutInvInductive, PTL DEF Spec

-----------------------------------------------------------------------------
(* Requests that come one after another: one slot.                         *)

\* What a request reads is still so when it writes.
Serial == \A r, s \in Requests : r = s

OneBatch(l) == DOMAIN approvals[l] = {1} /\ approvals[l][1] \in ApprovalBatch

\* The three rows of a loan under review say what its status says.
ReviewTold(l) ==
  LET s == loan[l].currentStep
  IN  /\ loan[l].status = StatusForStep(s)
      /\ OneBatch(l)
      /\ approvals[l][1][s] \in {"NONE", "REVISED"}
      /\ \A e \in Steps \ {s} :
           approvals[l][1][e] = IF e \in StepsBefore(s) THEN "APPROVED" ELSE "NONE"

\* The status of a loan tells all of its rows.
LoanOrdered(l) ==
  /\ loan[l].currentStep \in Steps => ReviewTold(l)
  /\ loan[l].currentStep \notin Steps =>
       loan[l].status \in {"NONE", "DRAFT", "DELETED", "REJECTED"} \cup PaymentStatuses
  /\ loan[l].status \in {"NONE", "DRAFT", "DELETED"} => approvals[l] = <<>>
  /\ loan[l].status \in PaymentStatuses =>
       OneBatch(l) /\ \A e \in Steps : approvals[l][1][e] = "APPROVED"
  /\ loan[l].status # "DISBURSED" => schedule[l] = NoSchedule
  /\ loan[l].status \notin {"NONE", "DELETED"} =>
       loan[l].installment.amount = loan[l].amount

\* What request q has read is what is there, and allows what it writes.
RequestCurrent(q) ==
  /\ q.seen = loan[q.loan]
  /\ loan[q.loan].status \notin {"NONE", "DELETED"}
  /\ q.op \in {"UPDATE", "DELETE", "SUBMIT"} => loan[q.loan].status = "DRAFT"
  /\ q.op = "UPDATE" => q.amount = NotGiven \/ loan[q.loan].type # "GOODS_PHONE"
  /\ q.op = "REVISE" => loan[q.loan].currentStep = "DIVISI_SIMPAN_PINJAM"
  /\ q.op \in {"APPROVE", "REJECT"} => loan[q.loan].currentStep \in Steps
  /\ q.op \in {"REVISE", "APPROVE", "REJECT"} => q.batch \in DOMAIN approvals[q.loan]
  /\ q.op = "DISBURSE" => loan[q.loan].status = "APPROVED_PENDING_DISBURSEMENT"
  /\ q.op = "AUTHORIZE" => loan[q.loan].status = "PENDING_AUTHORIZATION"

SerialInv ==
  /\ TypeInv
  /\ \A l \in Loans : LoanOrdered(l)
  /\ \A r \in Requests : request[r] # Idle => RequestCurrent(request[r])

-----------------------------------------------------------------------------
(* The steps of the workflow, seen on one loan.                            *)

Signatures(l) == Cardinality(ApprovedSteps(l))

Debt(l) == [amount |-> schedule[l].each.amount, tenor |-> schedule[l].count]

\* A step leaves every row of loan m that the workflow or the order of m
\* depends on.
SameLoan(m) ==
  /\ loan'[m] = loan[m]
  /\ approvals'[m] = approvals[m]
  /\ schedule'[m] = schedule[m]

\* A step of loan l changes nothing that the workflow sees of other loans.
OnlyLoan(l) ==
  \A m \in Loans \ {l} :
    /\ StageOf(loan'[m].status) = StageOf(loan[m].status)
    /\ Signatures(m)' = Signatures(m)
    /\ TermsOf(m)' = TermsOf(m)
    /\ Debt(m)' = Debt(m)

\* Other loans look the same to the workflow when their rows are.
LEMMA OnlyThisLoan ==
  ASSUME NEW l \in Loans, \A m \in Loans \ {l} : SameLoan(m)
  PROVE  OnlyLoan(l)
  BY DEF OnlyLoan, SameLoan, Signatures, ApprovedSteps, TermsOf, Debt

\* A step that looks like a step of the workflow on l, and leaves the rest, is one.
LEMMA SignStep ==
  ASSUME NEW l \in Loans, OnlyLoan(l),
         StageOf(loan[l].status) = "review", StageOf(loan'[l].status) = "review",
         Signatures(l) < 3, Signatures(l)' = Signatures(l) + 1,
         TermsOf(l)' = TermsOf(l), Debt(l)' = Debt(l)
  PROVE  Workflow!Sign(l)
  BY DEF Workflow!Sign, OnlyLoan, Signatures, Debt

LEMMA ProposeStep ==
  ASSUME NEW l \in Loans, OnlyLoan(l),
         StageOf(loan[l].status) = "absent", StageOf(loan'[l].status) = "draft",
         Signatures(l)' = Signatures(l), Debt(l)' = Debt(l),
         TermsOf(l)' \in [amount: Amounts \cup {0}, tenor: Tenors]
  PROVE  Workflow!Propose(l)
  BY DEF Workflow!Propose, Workflow!Move, OnlyLoan, Signatures, Debt

LEMMA ChangeTermsStep ==
  ASSUME NEW l \in Loans, OnlyLoan(l),
         StageOf(loan[l].status) \in {"draft", "review"}, Signatures(l) = 0,
         StageOf(loan'[l].status) = StageOf(loan[l].status),
         Signatures(l)' = Signatures(l), Debt(l)' = Debt(l),
         TermsOf(l)' \in [amount: Amounts \cup {0}, tenor: Tenors]
  PROVE  Workflow!ChangeTerms(l)
  BY DEF Workflow!ChangeTerms, OnlyLoan, Signatures, Debt

LEMMA WithdrawStep ==
  ASSUME NEW l \in Loans, OnlyLoan(l),
         StageOf(loan[l].status) = "draft", StageOf(loan'[l].status) = "withdrawn",
         Signatures(l)' = Signatures(l), Debt(l)' = Debt(l), TermsOf(l)' = NoTerms
  PROVE  Workflow!Withdraw(l)
  BY DEF Workflow!Withdraw, Workflow!Move, OnlyLoan, Signatures, Debt

LEMMA SubmitStep ==
  ASSUME NEW l \in Loans, OnlyLoan(l),
         StageOf(loan[l].status) = "draft", StageOf(loan'[l].status) = "review",
         Signatures(l)' = Signatures(l), Debt(l)' = Debt(l),
         TermsOf(l)' = TermsOf(l)
  PROVE  Workflow!Submit(l)
  BY DEF Workflow!Submit, Workflow!Move, OnlyLoan, Signatures, Debt

LEMMA RefuseStep ==
  ASSUME NEW l \in Loans, OnlyLoan(l), Signatures(l) < 3,
         StageOf(loan[l].status) = "review", StageOf(loan'[l].status) = "rejected",
         Signatures(l)' = Signatures(l), Debt(l)' = Debt(l),
         TermsOf(l)' = TermsOf(l)
  PROVE  Workflow!Refuse(l)
  BY DEF Workflow!Refuse, Workflow!Move, OnlyLoan, Signatures, Debt

LEMMA BookStep ==
  ASSUME NEW l \in Loans, OnlyLoan(l), Signatures(l) = 3,
         StageOf(loan[l].status) = "review", StageOf(loan'[l].status) = "booked",
         Signatures(l)' = Signatures(l), Debt(l)' = Debt(l),
         TermsOf(l)' = TermsOf(l)
  PROVE  Workflow!Book(l)
  BY DEF Workflow!Book, Workflow!Move, OnlyLoan, Signatures, Debt

LEMMA PayStep ==
  ASSUME NEW l \in Loans, OnlyLoan(l),
         StageOf(loan[l].status) = "booked", StageOf(loan'[l].status) = "paid",
         Signatures(l)' = Signatures(l), Debt(l)' = TermsOf(l),
         TermsOf(l)' = TermsOf(l)
  PROVE  Workflow!Pay(l)
  BY DEF Workflow!Pay, Workflow!Move, OnlyLoan, Signatures, Debt

\* How many officers have signed when it is the turn of the next one.
LEMMA SignaturesCounted ==
  /\ Cardinality({}) = 0
  /\ \A s \in Steps : /\ Cardinality(StepsBefore(s)) \in 0 .. 2
                      /\ s \notin StepsBefore(s)
                      /\ Cardinality(StepsBefore(s) \cup {s}) =
                           Cardinality(StepsBefore(s)) + 1
  /\ Cardinality(StepsBefore("DIVISI_SIMPAN_PINJAM")) = 0
  /\ Cardinality(Steps) = 3
<1>1. IsFiniteSet({}) /\ Cardinality({}) = 0
  BY FS_EmptySet
<1>2. /\ IsFiniteSet({"DIVISI_SIMPAN_PINJAM"})
      /\ Cardinality({"DIVISI_SIMPAN_PINJAM"}) = 1
  BY FS_Singleton
<1>3. {"DIVISI_SIMPAN_PINJAM", "KETUA"} = {"DIVISI_SIMPAN_PINJAM"} \cup {"KETUA"}
  OBVIOUS
<1>4. /\ IsFiniteSet({"DIVISI_SIMPAN_PINJAM", "KETUA"})
      /\ Cardinality({"DIVISI_SIMPAN_PINJAM", "KETUA"}) = 2
  BY <1>2, <1>3, FS_AddElement
<1>5. Steps = {"DIVISI_SIMPAN_PINJAM", "KETUA"} \cup {"PENGAWAS"}
  BY DEF Steps
<1>6. Cardinality(Steps) = 3
  BY <1>4, <1>5, FS_AddElement
<1>7. ASSUME NEW s \in Steps
      PROVE  /\ Cardinality(StepsBefore(s)) \in 0 .. 2
             /\ s \notin StepsBefore(s)
             /\ IsFiniteSet(StepsBefore(s))
  BY <1>1, <1>2, <1>4 DEF StepsBefore, Steps
<1>8. QED
  BY <1>1, <1>6, <1>7, FS_AddElement DEF StepsBefore

\* What the approval rows say in each part of a loan's life.
LEMMA SignaturesTold ==
  ASSUME NEW l \in Loans, LoanOrdered(l)
  PROVE  /\ loan[l].status \in {"NONE", "DRAFT", "DELETED"} => Signatures(l) = 0
         /\ loan[l].currentStep \in Steps =>
              ApprovedSteps(l) = StepsBefore(loan[l].currentStep)
         /\ loan[l].status \in PaymentStatuses => Signatures(l) = 3
<1>1. ASSUME loan[l].status \in {"NONE", "DRAFT", "DELETED"}
      PROVE  ApprovedSteps(l) = {}
  BY <1>1 DEF LoanOrdered, ApprovedSteps
<1>2. ASSUME loan[l].currentStep \in Steps
      PROVE  ApprovedSteps(l) = StepsBefore(loan[l].currentStep)
  <2>1. \A e \in Steps :
          e \in ApprovedSteps(l) <=> approvals[l][1][e] = "APPROVED"
    BY <1>2 DEF LoanOrdered, ReviewTold, OneBatch, ApprovedSteps
  <2>2. ApprovedSteps(l) \subseteq Steps /\ StepsBefore(loan[l].currentStep) \subseteq Steps
    BY <1>2 DEF ApprovedSteps, StepsBefore, Steps
  <2>3. \A e \in Steps : approvals[l][1][e] = "APPROVED" <=>
                           e \in StepsBefore(loan[l].currentStep)
    BY <1>2, SignaturesCounted DEF LoanOrdered, ReviewTold
  <2>4. QED
    BY <2>1, <2>2, <2>3
<1>3. ASSUME loan[l].status \in PaymentStatuses
      PROVE  ApprovedSteps(l) = Steps
  BY <1>3 DEF LoanOrdered, OneBatch, ApprovedSteps
<1>4. QED
  BY <1>1, <1>2, <1>3, SignaturesCounted DEF Signatures

\* A loan nobody writes stays in order.
LEMMA OthersOrdered ==
  ASSUME NEW m \in Loans, LoanOrdered(m), SameLoan(m)
  PROVE  LoanOrdered(m)'
  BY DEF LoanOrdered, SameLoan, ReviewTold, OneBatch

\* A transaction in flight is the only one, and has read what is there.
LEMMA RunsAlone ==
  ASSUME SerialInv, NEW r \in Requests, NEW op \in Ops \ {"IDLE"}, Running(r, op),
         NEW q, q = request[r]
  PROVE  /\ q \in RequestRow /\ q.loan \in Loans /\ q.op = op
         /\ loan[q.loan] \in LoanRow
         /\ approvals[q.loan] \in Seq(ApprovalBatch)
         /\ LoanOrdered(q.loan)
         /\ RequestCurrent(q)
<1>1. q # Idle /\ q \in RequestRow /\ q.loan \in Loans /\ loan[q.loan] \in LoanRow
  BY RunningRequest DEF SerialInv, TypeInv
<1>2. QED
  BY <1>1 DEF SerialInv, TypeInv, TypeOK, Running

\* Each transaction leaves the rows of its loan in order, touches no other
\* loan, and is the step of the workflow it stands for.
Implemented(l) ==
  /\ \A m \in Loans \ {l} : SameLoan(m)
  /\ LoanOrdered(l)'
  /\ Workflow!WNext

LEMMA UpdateImplemented ==
  ASSUME SerialInv, TypeInv', NEW r \in Requests, CommitUpdate(r), NEW q, q = request[r]
  PROVE  Implemented(q.loan)
<1>1. /\ q \in RequestRow /\ q.loan \in Loans /\ loan[q.loan] \in LoanRow
      /\ LoanOrdered(q.loan) /\ RequestCurrent(q) /\ q.op = "UPDATE"
  BY RunsAlone DEF CommitUpdate, Ops
<1>2. loan[q.loan].status = "DRAFT" /\ q.seen = loan[q.loan]
  BY <1>1 DEF RequestCurrent
<1>3. PICK a, t, p, i :
        /\ a = UpdatedAmount(q) /\ i = UpdatedInstallment(q)
        /\ loan' = [loan EXCEPT ![q.loan].amount = a, ![q.loan].tenor = t,
                                ![q.loan].itemPrice = p, ![q.loan].installment = i]
  BY DEF CommitUpdate
<1>4. loan \in [Loans -> LoanRow] /\ UNCHANGED <<approvals, schedule>>
  BY DEF SerialInv, TypeInv, TypeOK, CommitUpdate
<1>5. /\ loan'[q.loan].status = "DRAFT"
      /\ loan'[q.loan].currentStep = loan[q.loan].currentStep
      /\ loan'[q.loan].amount = a /\ loan'[q.loan].installment = i
      /\ \A m \in Loans \ {q.loan} : SameLoan(m)
  BY <1>1, <1>2, <1>3, <1>4 DEF LoanRow, SameLoan
<1>6. i.amount = a
  <2>1. loan[q.loan].installment.amount = loan[q.loan].amount
    BY <1>1, <1>2 DEF LoanOrdered
  <2>2. q.amount = NotGiven \/ loan[q.loan].type # "GOODS_PHONE"
    BY <1>1 DEF RequestCurrent
  <2>3. QED
    BY <1>2, <1>3, <2>1, <2>2 DEF UpdatedAmount, UpdatedInstallment
<1>7. LoanOrdered(q.loan)'
  <2>1. loan[q.loan].currentStep \notin Steps
    BY <1>1, <1>2 DEF LoanOrdered, ReviewTold, StatusForStep, Steps
  <2>2. QED
    BY <1>1, <1>2, <1>4, <1>5, <1>6, <2>1 DEF LoanOrdered, PaymentStatuses
<1>8. Workflow!ChangeTerms(q.loan)
  <2>1. Signatures(q.loan) = 0
    BY <1>1, <1>2, SignaturesTold
  <2>2. Signatures(q.loan)' = Signatures(q.loan) /\ Debt(q.loan)' = Debt(q.loan)
    BY <1>4 DEF Signatures, ApprovedSteps, Debt
  <2>3. loan'[q.loan] \in LoanRow
    BY <1>1 DEF TypeInv, TypeOK
  <2>4. TermsOf(q.loan)' \in [amount: Amounts \cup {0}, tenor: Tenors]
    BY <1>5, <2>3 DEF TermsOf, LoanRow
  <2>5. StageOf("DRAFT") = "draft"
    BY DEF StageOf
  <2>6. QED
    BY <1>1, <1>2, <1>5, <2>1, <2>2, <2>4, <2>5, ChangeTermsStep, OnlyThisLoan
<1>9. QED
  BY <1>1, <1>5, <1>7, <1>8 DEF Implemented, Workflow!WNext

LEMMA DeleteImplemented ==
  ASSUME SerialInv, TypeInv', NEW r \in Requests, CommitDelete(r), NEW q, q = request[r]
  PROVE  Implemented(q.loan)
<1>1. /\ q \in RequestRow /\ q.loan \in Loans /\ LoanOrdered(q.loan)
      /\ RequestCurrent(q) /\ q.op = "DELETE"
  BY RunsAlone DEF CommitDelete, Ops
<1>2. loan[q.loan].status = "DRAFT"
  BY <1>1 DEF RequestCurrent
<1>3. /\ loan \in [Loans -> LoanRow] /\ approvals \in [Loans -> Seq(ApprovalBatch)]
      /\ schedule \in [Loans -> ScheduleRow]
  BY DEF SerialInv, TypeInv, TypeOK
<1>4. /\ loan'[q.loan].status = "DELETED" /\ loan'[q.loan].currentStep = NoStep
      /\ approvals'[q.loan] = <<>> /\ schedule'[q.loan] = NoSchedule
      /\ \A m \in Loans \ {q.loan} : SameLoan(m)
  BY <1>1, <1>3 DEF CommitDelete, NoLoan, SameLoan
<1>5. LoanOrdered(q.loan)'
  BY <1>4 DEF LoanOrdered, PaymentStatuses, Steps, NoStep
<1>6. approvals[q.loan] = <<>> /\ schedule[q.loan] = NoSchedule
  BY <1>1, <1>2 DEF LoanOrdered
<1>7. Workflow!Withdraw(q.loan)
  <2>1. Signatures(q.loan)' = Signatures(q.loan) /\ Debt(q.loan)' = Debt(q.loan)
    BY <1>4, <1>6 DEF Signatures, ApprovedSteps, Debt
  <2>2. TermsOf(q.loan)' = NoTerms
    BY <1>4 DEF TermsOf
  <2>3. StageOf("DRAFT") = "draft" /\ StageOf("DELETED") = "withdrawn"
    BY DEF StageOf
  <2>4. QED
    BY <1>1, <1>2, <1>4, <2>1, <2>2, <2>3, WithdrawStep, OnlyThisLoan
<1>8. QED
  BY <1>1, <1>4, <1>5, <1>7 DEF Implemented, Workflow!WNext

LEMMA SubmitImplemented ==
  ASSUME SerialInv, TypeInv', NEW r \in Requests, CommitSubmit(r), NEW q, q = request[r]
  PROVE  Implemented(q.loan)
<1>1. /\ q \in RequestRow /\ q.loan \in Loans /\ loan[q.loan] \in LoanRow
      /\ LoanOrdered(q.loan) /\ RequestCurrent(q) /\ q.op = "SUBMIT"
  BY RunsAlone DEF CommitSubmit, Ops
<1>2. /\ loan[q.loan].status = "DRAFT" /\ approvals[q.loan] = <<>>
      /\ schedule[q.loan] = NoSchedule
  BY <1>1 DEF RequestCurrent, LoanOrdered
<1>3. /\ loan \in [Loans -> LoanRow] /\ approvals \in [Loans -> Seq(ApprovalBatch)]
      /\ UNCHANGED schedule
  BY DEF SerialInv, TypeInv, TypeOK, CommitSubmit
<1> DEFINE batch == [s \in Steps |-> "NONE"]
<1>4. approvals'[q.loan] = <<batch>>
  BY <1>1, <1>2, <1>3 DEF CommitSubmit
<1>5. /\ loan'[q.loan].status = "UNDER_REVIEW_DSP"
      /\ loan'[q.loan].currentStep = "DIVISI_SIMPAN_PINJAM"
      /\ loan'[q.loan].amount = loan[q.loan].amount
      /\ loan'[q.loan].tenor = loan[q.loan].tenor
      /\ loan'[q.loan].installment = loan[q.loan].installment
      /\ \A m \in Loans \ {q.loan} : SameLoan(m)
  BY <1>1, <1>3 DEF CommitSubmit, LoanRow, SameLoan
<1>6. /\ DOMAIN approvals'[q.loan] = {1}
      /\ approvals'[q.loan][1] \in ApprovalBatch
      /\ \A s \in Steps : approvals'[q.loan][1][s] = "NONE"
  BY <1>4 DEF ApprovalBatch, Decisions
<1>7. LoanOrdered(q.loan)'
  <2>1. ReviewTold(q.loan)'
    BY <1>5, <1>6 DEF ReviewTold, OneBatch, StatusForStep, StepsBefore, Steps
  <2>2. loan'[q.loan].installment.amount = loan'[q.loan].amount
    BY <1>1, <1>2, <1>5 DEF LoanOrdered
  <2>3. QED
    BY <1>2, <1>3, <1>5, <2>1, <2>2 DEF LoanOrdered, PaymentStatuses, Steps
<1>8. Workflow!Submit(q.loan)
  <2>1. ApprovedSteps(q.loan)' = {} /\ ApprovedSteps(q.loan) = {}
    BY <1>2, <1>6 DEF ApprovedSteps
  <2>2. Signatures(q.loan)' = Signatures(q.loan) /\ Debt(q.loan)' = Debt(q.loan)
    BY <1>3, <2>1 DEF Signatures, Debt
  <2>3. TermsOf(q.loan)' = TermsOf(q.loan)
    BY <1>2, <1>5 DEF TermsOf
  <2>4. StageOf("DRAFT") = "draft" /\ StageOf("UNDER_REVIEW_DSP") = "review"
    BY DEF StageOf
  <2>5. QED
    BY <1>1, <1>2, <1>5, <2>2, <2>3, <2>4, SubmitStep, OnlyThisLoan
<1>9. QED
  BY <1>1, <1>5, <1>7, <1>8 DEF Implemented, Workflow!WNext

LEMMA ReviseImplemented ==
  ASSUME SerialInv, TypeInv', NEW r \in Requests, CommitRevise(r), NEW q, q = request[r]
  PROVE  Implemented(q.loan)
<1> DEFINE dsp == "DIVISI_SIMPAN_PINJAM"
<1>1. /\ q \in RequestRow /\ q.loan \in Loans /\ loan[q.loan] \in LoanRow
      /\ LoanOrdered(q.loan) /\ RequestCurrent(q) /\ q.op = "REVISE"
  BY RunsAlone DEF CommitRevise, Ops
<1>2. /\ loan[q.loan].currentStep = dsp /\ q.batch \in DOMAIN approvals[q.loan]
      /\ dsp \in Steps
  BY <1>1 DEF RequestCurrent, Steps
<1>3. ReviewTold(q.loan) /\ loan[q.loan].status = "UNDER_REVIEW_DSP"
  BY <1>1, <1>2 DEF LoanOrdered, ReviewTold, StatusForStep
<1>4. /\ loan \in [Loans -> LoanRow] /\ approvals \in [Loans -> Seq(ApprovalBatch)]
      /\ UNCHANGED schedule
      /\ approvals' = [approvals EXCEPT ![q.loan][q.batch][dsp] = "REVISED"]
  BY DEF SerialInv, TypeInv, TypeOK, CommitRevise
<1>5. PICK p, i :
        /\ i = [amount |-> q.amount, tenor |-> q.tenor]
        /\ loan' = [loan EXCEPT ![q.loan].amount = q.amount,
                                ![q.loan].tenor = q.tenor,
                                ![q.loan].itemPrice = p, ![q.loan].installment = i]
  BY DEF CommitRevise
<1>6. /\ loan'[q.loan].status = "UNDER_REVIEW_DSP"
      /\ loan'[q.loan].currentStep = dsp
      /\ loan'[q.loan].installment = i /\ loan'[q.loan].amount = q.amount
      /\ \A m \in Loans \ {q.loan} : loan'[m] = loan[m]
  BY <1>1, <1>2, <1>3, <1>4, <1>5 DEF LoanRow
<1>7. /\ DOMAIN approvals'[q.loan] = {1}
      /\ approvals'[q.loan][1][dsp] = "REVISED"
      /\ \A e \in Steps \ {dsp} : approvals'[q.loan][1][e] = approvals[q.loan][1][e]
  <2>1. DOMAIN approvals[q.loan] = {1}
    BY <1>3 DEF ReviewTold, OneBatch
  <2>2. q.batch = 1 /\ approvals[q.loan][1] \in [Steps -> Decisions]
    BY <1>2, <1>3, <2>1 DEF ReviewTold, OneBatch, ApprovalBatch
  <2>3. approvals'[q.loan] =
          [approvals[q.loan] EXCEPT ![1] = [approvals[q.loan][1] EXCEPT ![dsp] = "REVISED"]]
    BY <1>1, <1>4, <2>2
  <2>4. /\ DOMAIN approvals'[q.loan] = {1}
        /\ approvals'[q.loan][1] = [approvals[q.loan][1] EXCEPT ![dsp] = "REVISED"]
    BY <2>1, <2>3
  <2>5. QED
    BY <1>2, <2>2, <2>4
<1>8. \A m \in Loans \ {q.loan} : SameLoan(m)
  BY <1>4, <1>6 DEF SameLoan
<1>9. approvals'[q.loan][1] \in ApprovalBatch
  <2>1. approvals'[q.loan] \in Seq(ApprovalBatch)
    BY <1>1 DEF TypeInv, TypeOK
  <2>2. QED
    BY <1>7, <2>1
<1>10. LoanOrdered(q.loan)'
  <2>1. ReviewTold(q.loan)'
    BY <1>2, <1>3, <1>6, <1>7, <1>9 DEF ReviewTold, OneBatch, StatusForStep
  <2>2. schedule[q.loan] = NoSchedule
    BY <1>1, <1>3 DEF LoanOrdered
  <2>3. i.amount = q.amount
    BY <1>5
  <2>4. QED
    BY <1>2, <1>4, <1>6, <2>1, <2>2, <2>3 DEF LoanOrdered, PaymentStatuses
<1>11. Workflow!ChangeTerms(q.loan)
  <2>1. Signatures(q.loan) = 0 /\ Signatures(q.loan)' = 0
    <3>1. Signatures(q.loan) = 0
      BY <1>1, <1>2, SignaturesTold, SignaturesCounted DEF Signatures
    <3>2. ApprovedSteps(q.loan)' = ApprovedSteps(q.loan)
      BY <1>2, <1>3, <1>7 DEF ApprovedSteps, ReviewTold, OneBatch
    <3>3. QED
      BY <3>1, <3>2 DEF Signatures
  <2>2. Debt(q.loan)' = Debt(q.loan)
    BY <1>4 DEF Debt
  <2>3. loan'[q.loan] \in LoanRow
    BY <1>1 DEF TypeInv, TypeOK
  <2>4. TermsOf(q.loan)' \in [amount: Amounts \cup {0}, tenor: Tenors]
    BY <1>6, <2>3 DEF TermsOf, LoanRow
  <2>5. StageOf("UNDER_REVIEW_DSP") = "review"
    BY DEF StageOf
  <2>6. QED
    BY <1>1, <1>3, <1>6, <1>8, <2>1, <2>2, <2>4, <2>5, ChangeTermsStep, OnlyThisLoan
<1>12. QED
  BY <1>1, <1>8, <1>10, <1>11 DEF Implemented, Workflow!WNext

\* A loan whose next step is open is under review with fewer than three
\* signatures.
LEMMA OpenReview ==
  ASSUME NEW l \in Loans, LoanOrdered(l), loan[l].currentStep \in Steps
  PROVE  /\ StageOf(loan[l].status) = "review"
         /\ loan[l].status \notin {"NONE", "DRAFT", "DELETED"} \cup PaymentStatuses
         /\ schedule[l] = NoSchedule
         /\ Signatures(l) \in 0 .. 2
         /\ Cardinality(ApprovedSteps(l) \cup {loan[l].currentStep}) = Signatures(l) + 1
<1>1. ReviewTold(l)
  BY DEF LoanOrdered
<1>2. loan[l].status \in {"UNDER_REVIEW_DSP", "UNDER_REVIEW_KETUA",
                          "UNDER_REVIEW_PENGAWAS"}
  BY <1>1 DEF ReviewTold, StatusForStep, Steps
<1>3. ApprovedSteps(l) = StepsBefore(loan[l].currentStep)
  BY SignaturesTold
<1>4. QED
  BY <1>2, <1>3, SignaturesCounted DEF StageOf, LoanOrdered, PaymentStatuses, Signatures

LEMMA RejectImplemented ==
  ASSUME SerialInv, TypeInv', NEW r \in Requests, CommitReject(r), NEW q, q = request[r]
  PROVE  Implemented(q.loan)
<1> DEFINE s == loan[q.loan].currentStep
<1>1. /\ q \in RequestRow /\ q.loan \in Loans /\ loan[q.loan] \in LoanRow
      /\ LoanOrdered(q.loan) /\ RequestCurrent(q) /\ q.op = "REJECT"
  BY RunsAlone DEF CommitReject, Ops
<1>2. s \in Steps /\ q.batch \in DOMAIN approvals[q.loan] /\ q.seen.currentStep = s
  BY <1>1 DEF RequestCurrent
<1>3. /\ loan \in [Loans -> LoanRow] /\ approvals \in [Loans -> Seq(ApprovalBatch)]
      /\ UNCHANGED schedule
      /\ approvals' = [approvals EXCEPT ![q.loan][q.batch][s] = "REJECTED"]
  BY <1>2 DEF SerialInv, TypeInv, TypeOK, CommitReject
<1>4. /\ loan'[q.loan].status = "REJECTED" /\ loan'[q.loan].currentStep = NoStep
      /\ loan'[q.loan].amount = loan[q.loan].amount
      /\ loan'[q.loan].tenor = loan[q.loan].tenor
      /\ loan'[q.loan].installment = loan[q.loan].installment
      /\ \A m \in Loans \ {q.loan} : loan'[m] = loan[m]
  BY <1>1, <1>3 DEF CommitReject, LoanRow
<1>5. \A m \in Loans \ {q.loan} : SameLoan(m)
  BY <1>3, <1>4 DEF SameLoan
<1>6. /\ StageOf(loan[q.loan].status) = "review" /\ Signatures(q.loan) \in 0 .. 2
      /\ loan[q.loan].status \notin {"NONE", "DRAFT", "DELETED"}
      /\ schedule[q.loan] = NoSchedule
  BY <1>1, <1>2, OpenReview
<1>7. LoanOrdered(q.loan)'
  BY <1>1, <1>3, <1>4, <1>6 DEF LoanOrdered, PaymentStatuses, Steps, NoStep
<1>8. Workflow!Refuse(q.loan)
  <2>1. /\ ReviewTold(q.loan) /\ DOMAIN approvals[q.loan] = {1} /\ q.batch = 1
        /\ approvals[q.loan][1] \in [Steps -> Decisions]
    BY <1>1, <1>2 DEF LoanOrdered, ReviewTold, OneBatch, ApprovalBatch
  <2>2. /\ DOMAIN approvals'[q.loan] = {1}
        /\ approvals'[q.loan][1][s] = "REJECTED"
        /\ \A e \in Steps \ {s} : approvals'[q.loan][1][e] = approvals[q.loan][1][e]
    <3>1. approvals'[q.loan] =
            [approvals[q.loan] EXCEPT ![1] = [approvals[q.loan][1] EXCEPT ![s] = "REJECTED"]]
      BY <1>1, <1>3, <2>1
    <3>2. /\ DOMAIN approvals'[q.loan] = {1}
          /\ approvals'[q.loan][1] = [approvals[q.loan][1] EXCEPT ![s] = "REJECTED"]
      BY <2>1, <3>1
    <3>3. QED
      BY <1>2, <2>1, <3>2
  <2>3. ApprovedSteps(q.loan)' = ApprovedSteps(q.loan)
    BY <1>2, <2>1, <2>2 DEF ApprovedSteps, ReviewTold, OneBatch
  <2>4. Signatures(q.loan)' = Signatures(q.loan) /\ Debt(q.loan)' = Debt(q.loan)
    BY <1>3, <2>3 DEF Signatures, Debt
  <2>5. TermsOf(q.loan)' = TermsOf(q.loan)
    BY <1>4, <1>6 DEF TermsOf
  <2>6. StageOf("REJECTED") = "rejected"
    BY DEF StageOf
  <2>7. QED
    BY <1>1, <1>4, <1>5, <1>6, <2>4, <2>5, <2>6, RefuseStep, OnlyThisLoan
<1>9. QED
  BY <1>1, <1>5, <1>7, <1>8 DEF Implemented, Workflow!WNext

\* The turn passes to the next officer, or to the disbursement.
LEMMA TurnPasses ==
  ASSUME NEW s \in Steps
  PROVE  /\ NextStep(s) \in Steps =>
              /\ StatusAfter(s) = StatusForStep(NextStep(s))
              /\ StatusAfter(s) \notin {"NONE", "DRAFT", "DELETED"} \cup PaymentStatuses
              /\ StepsBefore(NextStep(s)) = StepsBefore(s) \cup {s}
              /\ NextStep(s) \notin StepsBefore(s) \cup {s}
         /\ NextStep(s) \notin Steps =>
              /\ StatusAfter(s) = "APPROVED_PENDING_DISBURSEMENT"
              /\ Steps = StepsBefore(s) \cup {s}
         /\ StageOf(StatusAfter(s)) = "review"
         /\ StatusAfter(s) # "DISBURSED"
  BY DEF NextStep, StatusAfter, StatusForStep, StepsBefore, Steps, NoStep,
         PaymentStatuses, StageOf

LEMMA ApproveImplemented ==
  ASSUME SerialInv, TypeInv', NEW r \in Requests, CommitApprove(r), NEW q, q = request[r]
  PROVE  Implemented(q.loan)
<1>0. PICK s : s = loan[q.loan].currentStep
  OBVIOUS
<1>1. /\ q \in RequestRow /\ q.loan \in Loans /\ loan[q.loan] \in LoanRow
      /\ LoanOrdered(q.loan) /\ RequestCurrent(q) /\ q.op = "APPROVE"
  BY RunsAlone DEF CommitApprove, Ops
<1>2. s \in Steps /\ q.batch \in DOMAIN approvals[q.loan] /\ q.seen.currentStep = s
  BY <1>0, <1>1 DEF RequestCurrent
<1>3. /\ loan \in [Loans -> LoanRow] /\ approvals \in [Loans -> Seq(ApprovalBatch)]
      /\ UNCHANGED schedule
      /\ approvals' = [approvals EXCEPT ![q.loan][q.batch][s] = "APPROVED"]
  BY <1>2 DEF SerialInv, TypeInv, TypeOK, CommitApprove
<1>4. PICK st, n :
        /\ st = StatusAfter(s) /\ n = NextStep(s)
        /\ loan' = [loan EXCEPT ![q.loan].status = st, ![q.loan].currentStep = n]
  BY <1>2 DEF CommitApprove
<1>5. /\ loan'[q.loan].status = st /\ loan'[q.loan].currentStep = n
      /\ loan'[q.loan].amount = loan[q.loan].amount
      /\ loan'[q.loan].tenor = loan[q.loan].tenor
      /\ loan'[q.loan].installment = loan[q.loan].installment
      /\ \A m \in Loans \ {q.loan} : loan'[m] = loan[m]
  BY <1>1, <1>3, <1>4 DEF LoanRow
<1>6. \A m \in Loans \ {q.loan} : SameLoan(m)
  BY <1>3, <1>5 DEF SameLoan
<1>7. /\ StageOf(loan[q.loan].status) = "review" /\ Signatures(q.loan) \in 0 .. 2
      /\ loan[q.loan].status \notin {"NONE", "DRAFT", "DELETED"}
      /\ schedule[q.loan] = NoSchedule
      /\ Cardinality(ApprovedSteps(q.loan) \cup {s}) = Signatures(q.loan) + 1
      /\ ApprovedSteps(q.loan) = StepsBefore(s)
  BY <1>0, <1>1, <1>2, OpenReview, SignaturesTold
<1>8. /\ ReviewTold(q.loan) /\ DOMAIN approvals[q.loan] = {1} /\ q.batch = 1
      /\ approvals[q.loan][1] \in [Steps -> Decisions]
  BY <1>0, <1>1, <1>2 DEF LoanOrdered, ReviewTold, OneBatch, ApprovalBatch
<1>9. /\ DOMAIN approvals'[q.loan] = {1}
      /\ approvals'[q.loan][1][s] = "APPROVED"
      /\ \A e \in Steps \ {s} : approvals'[q.loan][1][e] = approvals[q.loan][1][e]
  <2>1. approvals'[q.loan] =
          [approvals[q.loan] EXCEPT ![1] = [approvals[q.loan][1] EXCEPT ![s] = "APPROVED"]]
    BY <1>1, <1>3, <1>8
  <2>2. /\ DOMAIN approvals'[q.loan] = {1}
        /\ approvals'[q.loan][1] = [approvals[q.loan][1] EXCEPT ![s] = "APPROVED"]
    BY <1>8, <2>1
  <2>3. QED
    BY <1>2, <1>8, <2>2
<1>10. OneBatch(q.loan)'
  <2>1. approvals'[q.loan] \in Seq(ApprovalBatch)
    BY <1>1 DEF TypeInv, TypeOK
  <2>2. QED
    BY <1>9, <2>1 DEF OneBatch
<1>11. \A e \in Steps : approvals'[q.loan][1][e] =
                          IF e \in StepsBefore(s) \cup {s} THEN "APPROVED" ELSE "NONE"
  BY <1>0, <1>8, <1>9 DEF ReviewTold
<1>12. LoanOrdered(q.loan)'
  <2>1. loan'[q.loan].installment.amount = loan'[q.loan].amount
    BY <1>1, <1>5, <1>7 DEF LoanOrdered
  <2>2. schedule'[q.loan] = NoSchedule
    BY <1>3, <1>7
  <2>3. CASE n \in Steps
    <3>1. ReviewTold(q.loan)'
      <4>1. /\ st = StatusForStep(n) /\ n \notin StepsBefore(s) \cup {s}
            /\ StepsBefore(n) = StepsBefore(s) \cup {s}
        BY <1>2, <1>4, <2>3, TurnPasses
      <4>2. /\ approvals'[q.loan][1][n] = "NONE"
            /\ \A e \in Steps : approvals'[q.loan][1][e] =
                                 IF e \in StepsBefore(n) THEN "APPROVED" ELSE "NONE"
        BY <1>11, <2>3, <4>1
      <4>3. loan'[q.loan].status = StatusForStep(n) /\ loan'[q.loan].currentStep = n
        BY <1>5, <4>1
      <4>4. QED
        BY <1>10, <4>2, <4>3 DEF ReviewTold
    <3>2. QED
      BY <1>2, <1>4, <1>5, <2>1, <2>2, <2>3, <3>1, TurnPasses DEF LoanOrdered
  <2>4. CASE n \notin Steps
    <3>1. st = "APPROVED_PENDING_DISBURSEMENT" /\ Steps = StepsBefore(s) \cup {s}
      BY <1>2, <1>4, <2>4, TurnPasses
    <3>2. \A e \in Steps : approvals'[q.loan][1][e] = "APPROVED"
      BY <1>11, <3>1
    <3>3. QED
      BY <1>5, <1>10, <2>1, <2>2, <2>4, <3>1, <3>2 DEF LoanOrdered, PaymentStatuses
  <2>5. QED
    BY <2>3, <2>4
<1>13. Workflow!Sign(q.loan)
  <2>1. ApprovedSteps(q.loan)' = ApprovedSteps(q.loan) \cup {s}
    <3>1. \A e \in Steps : e \in ApprovedSteps(q.loan)' <=> e \in StepsBefore(s) \cup {s}
      BY <1>9, <1>11 DEF ApprovedSteps
    <3>2. /\ ApprovedSteps(q.loan)' \subseteq Steps /\ StepsBefore(s) \cup {s} \subseteq Steps
      BY <1>2, <1>7 DEF ApprovedSteps
    <3>3. QED
      BY <1>7, <3>1, <3>2
  <2>2. Signatures(q.loan)' = Signatures(q.loan) + 1
    BY <1>7, <2>1 DEF Signatures
  <2>3. TermsOf(q.loan)' = TermsOf(q.loan) /\ Debt(q.loan)' = Debt(q.loan)
    <3>1. st \notin {"NONE", "DELETED"}
      BY <1>2, <1>4, TurnPasses DEF PaymentStatuses
    <3>2. QED
      BY <1>3, <1>5, <1>7, <3>1 DEF TermsOf, Debt
  <2>4. StageOf(loan'[q.loan].status) = "review"
    BY <1>2, <1>4, <1>5, TurnPasses
  <2>5. Signatures(q.loan) < 3
    BY <1>7
  <2>6. QED
    BY <1>1, <1>6, <1>7, <2>2, <2>3, <2>4, <2>5, SignStep, OnlyThisLoan
<1>14. QED
  BY <1>1, <1>6, <1>12, <1>13 DEF Implemented, Workflow!WNext

LEMMA DisburseImplemented ==
  ASSUME SerialInv, TypeInv', NEW r \in Requests, CommitDisburse(r), NEW q, q = request[r]
  PROVE  Implemented(q.loan)
<1>1. /\ q \in RequestRow /\ q.loan \in Loans /\ loan[q.loan] \in LoanRow
      /\ LoanOrdered(q.loan) /\ RequestCurrent(q) /\ q.op = "DISBURSE"
  BY RunsAlone DEF CommitDisburse, Ops
<1>2. loan[q.loan].status = "APPROVED_PENDING_DISBURSEMENT"
  BY <1>1 DEF RequestCurrent
<1>3. loan \in [Loans -> LoanRow] /\ UNCHANGED <<approvals, schedule>>
  BY DEF SerialInv, TypeInv, TypeOK, CommitDisburse
<1>4. /\ loan'[q.loan].status = "PENDING_AUTHORIZATION"
      /\ loan'[q.loan].currentStep = loan[q.loan].currentStep
      /\ loan'[q.loan].amount = loan[q.loan].amount
      /\ loan'[q.loan].tenor = loan[q.loan].tenor
      /\ loan'[q.loan].installment = loan[q.loan].installment
      /\ \A m \in Loans \ {q.loan} : SameLoan(m)
  BY <1>1, <1>3 DEF CommitDisburse, LoanRow, SameLoan
<1>5. LoanOrdered(q.loan)'
  <2>1. loan[q.loan].currentStep \notin Steps
    BY <1>1, <1>2 DEF LoanOrdered, ReviewTold, StatusForStep, Steps
  <2>2. QED
    BY <1>1, <1>2, <1>3, <1>4, <2>1 DEF LoanOrdered, PaymentStatuses, OneBatch
<1>6. Workflow!Book(q.loan)
  <2>1. Signatures(q.loan) = 3
    BY <1>1, <1>2, SignaturesTold DEF PaymentStatuses
  <2>2. Signatures(q.loan)' = Signatures(q.loan) /\ Debt(q.loan)' = Debt(q.loan)
    BY <1>3 DEF Signatures, ApprovedSteps, Debt
  <2>3. TermsOf(q.loan)' = TermsOf(q.loan)
    BY <1>2, <1>4 DEF TermsOf
  <2>4. /\ StageOf("APPROVED_PENDING_DISBURSEMENT") = "review"
        /\ StageOf("PENDING_AUTHORIZATION") = "booked"
    BY DEF StageOf
  <2>5. QED
    BY <1>1, <1>2, <1>4, <2>1, <2>2, <2>3, <2>4, BookStep, OnlyThisLoan
<1>7. QED
  BY <1>1, <1>4, <1>5, <1>6 DEF Implemented, Workflow!WNext

LEMMA AuthorizeImplemented ==
  ASSUME SerialInv, TypeInv', NEW r \in Requests, CommitAuthorize(r), NEW q, q = request[r]
  PROVE  Implemented(q.loan)
<1>1. /\ q \in RequestRow /\ q.loan \in Loans /\ loan[q.loan] \in LoanRow
      /\ LoanOrdered(q.loan) /\ RequestCurrent(q) /\ q.op = "AUTHORIZE"
  BY RunsAlone DEF CommitAuthorize, Ops
<1>2. loan[q.loan].status = "PENDING_AUTHORIZATION" /\ schedule[q.loan] = NoSchedule
  BY <1>1 DEF RequestCurrent, LoanOrdered
<1>3. /\ loan \in [Loans -> LoanRow] /\ schedule \in [Loans -> ScheduleRow]
      /\ UNCHANGED approvals
  BY DEF SerialInv, TypeInv, TypeOK, CommitAuthorize
<1>4. /\ loan'[q.loan].status = "DISBURSED"
      /\ loan'[q.loan].currentStep = loan[q.loan].currentStep
      /\ loan'[q.loan].amount = loan[q.loan].amount
      /\ loan'[q.loan].tenor = loan[q.loan].tenor
      /\ loan'[q.loan].installment = loan[q.loan].installment
      /\ schedule'[q.loan] = [count |-> loan[q.loan].tenor,
                              each |-> loan[q.loan].installment]
      /\ \A m \in Loans \ {q.loan} : SameLoan(m)
  BY <1>1, <1>2, <1>3 DEF CommitAuthorize, GenerateSchedule, LoanRow, SameLoan
<1>5. LoanOrdered(q.loan)'
  <2>1. loan[q.loan].currentStep \notin Steps
    BY <1>1, <1>2 DEF LoanOrdered, ReviewTold, StatusForStep, Steps
  <2>2. QED
    BY <1>1, <1>2, <1>3, <1>4, <2>1 DEF LoanOrdered, PaymentStatuses, OneBatch
<1>6. Workflow!Pay(q.loan)
  <2>1. Signatures(q.loan)' = Signatures(q.loan)
    BY <1>3 DEF Signatures, ApprovedSteps
  <2>2. Debt(q.loan)' = TermsOf(q.loan)
    BY <1>1, <1>2, <1>4 DEF Debt, TermsOf, LoanOrdered
  <2>3. TermsOf(q.loan)' = TermsOf(q.loan)
    BY <1>2, <1>4 DEF TermsOf
  <2>4. /\ StageOf("PENDING_AUTHORIZATION") = "booked" /\ StageOf("DISBURSED") = "paid"
    BY DEF StageOf
  <2>5. QED
    BY <1>1, <1>2, <1>4, <2>1, <2>2, <2>3, <2>4, PayStep, OnlyThisLoan
<1>7. QED
  BY <1>1, <1>4, <1>5, <1>6 DEF Implemented, Workflow!WNext

-----------------------------------------------------------------------------
(* The order of the rows is kept, and every step is one of the workflow.   *)

\* Each transaction, whatever it is of.
LEMMA CommitImplemented ==
  ASSUME Serial, SerialInv, TypeInv', NEW r \in Requests, Commit(r)
  PROVE  /\ SerialInv'
         /\ Workflow!WNext \/ UNCHANGED Workflow!wvars
<1>1. PICK q : q = request[r]
  OBVIOUS
<1>2. ASSUME Done(r), Implemented(q.loan)
      PROVE  SerialInv' /\ Workflow!WNext
  <2>1. \A l \in Loans : LoanOrdered(l)'
    BY <1>2, OthersOrdered DEF Implemented, SerialInv
  <2>2. \A s \in Requests : request'[s] = Idle
    BY <1>2, RequestDone DEF Serial, SerialInv
  <2>3. QED
    BY <1>2, <2>1, <2>2 DEF SerialInv, Implemented
<1>3. CASE ReadFund(r)
  <2>1. /\ q \in RequestRow /\ q # Idle /\ RequestCurrent(q)
    BY <1>1, <1>3, RunsAlone DEF ReadFund, Ops, Idle
  <2>2. /\ UNCHANGED rows
        /\ request' = [request EXCEPT ![r] = [q EXCEPT !.fundRead = fund]]
    BY <1>1, <1>3 DEF ReadFund
  <2>3. PICK n : n = [q EXCEPT !.fundRead = fund]
    OBVIOUS
  <2>4. RequestCurrent(n)
    BY <2>1, <2>3 DEF RequestCurrent, RequestRow
  <2>5. RequestCurrent(n)'
    BY <2>2, <2>4 DEF RequestCurrent, rows
  <2>6. \A s \in Requests : request'[s] = n
    BY <2>2, <2>3 DEF Serial, SerialInv, TypeInv, TypeOK
  <2>7. \A s \in Requests : request'[s] # Idle => RequestCurrent(request[s])'
    BY <2>5, <2>6 DEF RequestCurrent
  <2>8. \A l \in Loans : SameLoan(l)
    BY <2>2 DEF SameLoan, rows
  <2>9. UNCHANGED Workflow!wvars
    BY <2>2 DEF Workflow!wvars, rows, TermsOf, ApprovedSteps
  <2>10. QED
    BY <2>7, <2>8, <2>9, OthersOrdered DEF SerialInv
<1>4. CASE CommitUpdate(r)
  BY <1>1, <1>2, <1>4, UpdateImplemented DEF CommitUpdate
<1>5. CASE CommitDelete(r)
  BY <1>1, <1>2, <1>5, DeleteImplemented DEF CommitDelete
<1>6. CASE CommitSubmit(r)
  BY <1>1, <1>2, <1>6, SubmitImplemented DEF CommitSubmit
<1>7. CASE CommitRevise(r)
  BY <1>1, <1>2, <1>7, ReviseImplemented DEF CommitRevise
<1>8. CASE CommitReject(r)
  BY <1>1, <1>2, <1>8, RejectImplemented DEF CommitReject
<1>9. CASE CommitApprove(r)
  BY <1>1, <1>2, <1>9, ApproveImplemented DEF CommitApprove
<1>10. CASE CommitDisburse(r)
  BY <1>1, <1>2, <1>10, DisburseImplemented DEF CommitDisburse
<1>11. CASE CommitAuthorize(r)
  BY <1>1, <1>2, <1>11, AuthorizeImplemented DEF CommitAuthorize
<1>12. QED
  BY <1>3, <1>4, <1>5, <1>6, <1>7, <1>8, <1>9, <1>10, <1>11 DEF Commit

\* What a request establishes when it enters its transaction.
Entered(r) ==
  \E q \in RequestRow :
    /\ UNCHANGED rows
    /\ request' = [request EXCEPT ![r] = q]
    /\ RequestCurrent(q)

LEMMA EntersCurrent ==
  ASSUME SerialInv, NEW r \in Requests, NEW l \in Loans, NEW op \in Ops \ {"IDLE"},
         NEW b \in Nat, NEW a \in Amounts \cup {0}, NEW t \in Tenors \cup {0},
         Enter(r, op, l, b, a, t),
         loan[l].status \notin {"NONE", "DELETED"},
         op \in {"UPDATE", "DELETE", "SUBMIT"} => loan[l].status = "DRAFT",
         op = "UPDATE" => a = NotGiven \/ loan[l].type # "GOODS_PHONE",
         op = "REVISE" => loan[l].currentStep = "DIVISI_SIMPAN_PINJAM",
         op \in {"APPROVE", "REJECT"} => loan[l].currentStep \in Steps,
         op \in {"REVISE", "APPROVE", "REJECT"} => b \in DOMAIN approvals[l],
         op = "DISBURSE" => loan[l].status = "APPROVED_PENDING_DISBURSEMENT",
         op = "AUTHORIZE" => loan[l].status = "PENDING_AUTHORIZATION"
  PROVE  Entered(r)
<1>1. PICK q : q = [op |-> op, loan |-> l, seen |-> loan[l], batch |-> b,
                    amount |-> a, tenor |-> t, fundRead |-> NoFundRead]
  OBVIOUS
<1>2. q \in RequestRow
  BY <1>1 DEF RequestRow, SerialInv, TypeInv, TypeOK
<1>3. /\ q.op = op /\ q.loan = l /\ q.seen = loan[l] /\ q.batch = b /\ q.amount = a
  BY <1>1
<1>4. RequestCurrent(q)
  BY <1>3 DEF RequestCurrent
<1>5. QED
  BY <1>1, <1>2, <1>4 DEF Enter, Entered

\* Each handler that reads and guards enters its transaction that way.
LEMMA BeginEnters ==
  ASSUME SerialInv, NEW r \in Requests, Begin(r)
  PROVE  Entered(r)
<1>0. /\ Amounts \subseteq Amounts \cup {0} /\ Tenors \subseteq Tenors \cup {0}
      /\ NotGiven = 0 /\ 0 \in Nat
  BY DEF NotGiven
<1>1. PICK l \in Loans :
        \/ \E a \in Amounts \cup {NotGiven}, t \in Tenors \cup {NotGiven} :
             BeginUpdate(r, l, a, t)
        \/ BeginDelete(r, l)
        \/ BeginSubmit(r, l)
        \/ \E b \in DOMAIN approvals[l], a \in Amounts, t \in Tenors :
             BeginRevise(r, l, b, a, t)
        \/ \E b \in DOMAIN approvals[l], op \in {"APPROVE", "REJECT"} :
             BeginDecision(r, l, b, op)
        \/ BeginDisburse(r, l)
        \/ BeginAuthorize(r, l)
  BY DEF Begin
<1>2. \A b \in DOMAIN approvals[l] : b \in Nat
  BY DEF SerialInv, TypeInv, TypeOK
<1>3. ASSUME NEW a \in Amounts \cup {NotGiven}, NEW t \in Tenors \cup {NotGiven},
             BeginUpdate(r, l, a, t)
      PROVE  Entered(r)
  <2>1. /\ Enter(r, "UPDATE", l, 0, a, t) /\ loan[l].status = "DRAFT"
        /\ a = NotGiven \/ loan[l].type # "GOODS_PHONE"
    BY <1>3 DEF BeginUpdate
  <2>2. QED
    BY <1>0, <2>1, EntersCurrent DEF Ops
<1>4. CASE BeginDelete(r, l)
  BY <1>0, <1>4, EntersCurrent DEF BeginDelete, Ops
<1>5. CASE BeginSubmit(r, l)
  BY <1>0, <1>5, EntersCurrent DEF BeginSubmit, Ops
<1>6. ASSUME NEW b \in DOMAIN approvals[l], NEW a \in Amounts, NEW t \in Tenors,
             BeginRevise(r, l, b, a, t)
      PROVE  Entered(r)
  BY <1>0, <1>2, <1>6, EntersCurrent DEF BeginRevise, Ops
<1>7. ASSUME NEW b \in DOMAIN approvals[l], NEW op \in {"APPROVE", "REJECT"},
             BeginDecision(r, l, b, op)
      PROVE  Entered(r)
  <2>1. /\ Enter(r, op, l, b, 0, 0) /\ loan[l].currentStep \in Steps
        /\ loan[l].status = StatusForStep(loan[l].currentStep)
    BY <1>0, <1>7 DEF BeginDecision, MayDecide
  <2>2. loan[l].status \notin {"NONE", "DELETED"}
    BY <2>1 DEF StatusForStep, Steps
  <2>3. QED
    BY <1>0, <1>2, <1>7, <2>1, <2>2, EntersCurrent DEF Ops
<1>8. CASE BeginDisburse(r, l)
  BY <1>0, <1>8, EntersCurrent DEF BeginDisburse, Ops
<1>9. CASE BeginAuthorize(r, l)
  BY <1>0, <1>9, EntersCurrent DEF BeginAuthorize, Ops
<1>10. QED
  BY <1>1, <1>3, <1>4, <1>5, <1>6, <1>7, <1>8, <1>9

LEMMA CreateImplemented ==
  ASSUME SerialInv, TypeInv', NEW l \in Loans, NEW type \in LoanTypes,
         NEW a \in Amounts, NEW t \in Tenors, CreateDraft(l, type, a, t)
  PROVE  Implemented(l)
<1>1. /\ loan \in [Loans -> LoanRow] /\ LoanOrdered(l)
      /\ loan[l].status = "NONE" /\ UNCHANGED <<approvals, schedule>>
  BY DEF SerialInv, TypeInv, TypeOK, CreateDraft
<1>2. /\ loan'[l].status = "DRAFT" /\ loan'[l].currentStep = NoStep
      /\ loan'[l].installment.amount = loan'[l].amount
      /\ \A m \in Loans \ {l} : SameLoan(m)
  BY <1>1 DEF CreateDraft, SameLoan, NoInstallment
<1>3. approvals'[l] = <<>> /\ schedule'[l] = NoSchedule
  BY <1>1 DEF LoanOrdered
<1>4. LoanOrdered(l)'
  BY <1>2, <1>3 DEF LoanOrdered, PaymentStatuses, Steps, NoStep
<1>5. Workflow!Propose(l)
  <2>1. Signatures(l)' = Signatures(l) /\ Debt(l)' = Debt(l)
    BY <1>1 DEF Signatures, ApprovedSteps, Debt
  <2>2. loan'[l] \in LoanRow
    BY DEF TypeInv, TypeOK
  <2>3. TermsOf(l)' \in [amount: Amounts \cup {0}, tenor: Tenors]
    BY <1>2, <2>2 DEF TermsOf, LoanRow
  <2>4. StageOf("NONE") = "absent" /\ StageOf("DRAFT") = "draft"
    BY DEF StageOf
  <2>5. QED
    BY <1>1, <1>2, <2>1, <2>3, <2>4, ProposeStep, OnlyThisLoan
<1>6. QED
  BY <1>2, <1>4, <1>5 DEF Implemented, Workflow!WNext

\* Every step keeps the order, and is a step of the workflow or none.
LEMMA SerialStep ==
  ASSUME Serial, SerialInv, [Next]_vars
  PROVE  /\ SerialInv'
         /\ Workflow!WNext \/ UNCHANGED Workflow!wvars
<1>1. TypeInv'
  BY TypeInvInductive DEF SerialInv
<1>2. ASSUME UNCHANGED rows
      PROVE  /\ \A l \in Loans : LoanOrdered(l)'
             /\ UNCHANGED Workflow!wvars
  <2>1. \A l \in Loans : SameLoan(l)
    BY <1>2 DEF SameLoan, rows
  <2>2. QED
    BY <1>2, <2>1, OthersOrdered
       DEF SerialInv, rows, Workflow!wvars, TermsOf, ApprovedSteps
<1>3. CASE UNCHANGED vars
  <2>1. UNCHANGED rows /\ UNCHANGED request
    BY <1>3 DEF vars, rows
  <2>2. \A s \in Requests : request'[s] # Idle => RequestCurrent(request[s])'
    BY <2>1 DEF SerialInv, RequestCurrent, rows
  <2>3. QED
    BY <1>1, <1>2, <2>1, <2>2 DEF SerialInv
<1>4. ASSUME NEW l \in Loans, NEW type \in LoanTypes, NEW a \in Amounts,
             NEW t \in Tenors, CreateDraft(l, type, a, t)
      PROVE  SerialInv' /\ Workflow!WNext
  <2>1. Implemented(l)
    BY <1>1, <1>4, CreateImplemented
  <2>2. \A m \in Loans : LoanOrdered(m)'
    BY <2>1, OthersOrdered DEF Implemented, SerialInv
  <2>3. loan[l].status = "NONE" /\ UNCHANGED request
    BY <1>4 DEF CreateDraft
  <2>4. ASSUME NEW s \in Requests, request'[s] # Idle
        PROVE  RequestCurrent(request[s])'
    <3>1. PICK q \in RequestRow : q = request[s]
      BY <2>3, <2>4 DEF SerialInv, TypeInv, TypeOK
    <3>2. RequestCurrent(q) /\ q.loan \in Loans
      BY <2>3, <2>4, <3>1 DEF SerialInv, RequestRow
    <3>3. SameLoan(q.loan)
      BY <2>1, <2>3, <3>2 DEF Implemented, RequestCurrent
    <3>4. RequestCurrent(q)'
      BY <3>2, <3>3 DEF RequestCurrent, SameLoan
    <3>5. request'[s] = q
      BY <2>3, <3>1
    <3>6. QED
      BY <3>4, <3>5 DEF RequestCurrent
  <2>5. QED
    BY <1>1, <2>1, <2>2, <2>4 DEF SerialInv, Implemented
<1>5. ASSUME NEW r \in Requests, Begin(r)
      PROVE  SerialInv' /\ UNCHANGED Workflow!wvars
  <2>1. PICK q \in RequestRow :
          /\ UNCHANGED rows
          /\ request' = [request EXCEPT ![r] = q]
          /\ RequestCurrent(q)
    BY <1>5, BeginEnters DEF Entered
  <2>2. \A s \in Requests : request'[s] = q
    BY <2>1 DEF Serial, SerialInv, TypeInv, TypeOK
  <2>3. RequestCurrent(q)'
    BY <2>1 DEF RequestCurrent, rows
  <2>4. \A s \in Requests : request'[s] # Idle => RequestCurrent(request[s])'
    BY <2>2, <2>3 DEF RequestCurrent
  <2>5. QED
    BY <1>1, <1>2, <2>1, <2>4 DEF SerialInv
<1>6. ASSUME NEW r \in Requests, Fail(r)
      PROVE  SerialInv' /\ UNCHANGED Workflow!wvars
  <2>1. UNCHANGED rows /\ Done(r)
    BY <1>6 DEF Fail
  <2>2. \A s \in Requests : request'[s] = Idle
    BY <2>1, RequestDone DEF Serial, SerialInv
  <2>3. QED
    BY <1>1, <1>2, <2>1, <2>2 DEF SerialInv
<1>7. QED
  BY <1>1, <1>3, <1>2, <1>4, <1>5, <1>6, CommitImplemented DEF Next, vars, rows

\* The empty tables are in order, and no loan has begun.
LEMMA SerialInitially ==
  ASSUME Init
  PROVE  SerialInv /\ Workflow!WInit
<1>1. TypeInv
  BY ConstantsAssumption
     DEF Init, TypeInv, TypeOK, RequestsTyped, NoLoan, LoanRow, AllTypes, Statuses,
         Tenors, Installment, NoInstallment, NoSchedule, ScheduleRow
<1>2. \A l \in Loans : /\ loan[l] = NoLoan /\ approvals[l] = <<>>
                       /\ schedule[l] = NoSchedule
  BY DEF Init
<1>3. /\ NoLoan.status = "NONE" /\ NoLoan.currentStep = NoStep
      /\ StageOf("NONE") = "absent" /\ Cardinality({}) = 0
      /\ NoSchedule.count = 0 /\ NoSchedule.each.amount = 0
  BY SignaturesCounted DEF NoLoan, StageOf, NoSchedule, NoInstallment
<1>4. \A l \in Loans : LoanOrdered(l)
  BY <1>2, <1>3 DEF LoanOrdered, PaymentStatuses, Steps, NoStep
<1>5. \A l \in Loans : ApprovedSteps(l) = {} /\ TermsOf(l) = NoTerms
  BY <1>2, <1>3 DEF ApprovedSteps, TermsOf
<1>6. Workflow!WInit
  BY <1>2, <1>3, <1>5 DEF Workflow!WInit, NoTerms
<1>7. QED
  BY <1>1, <1>4, <1>6 DEF Init, SerialInv

-----------------------------------------------------------------------------
\* One request after another, the loan services carry out the workflow: three
\* signatures in turn on frozen terms, the booking, and the pay-out of exactly
\* these terms, for any number of loans and all amounts, tenors and funds.
THEOREM ServicesImplementWorkflow ==
  ASSUME Serial
  PROVE  Spec => ImplementsWorkflow
<1>1. Init => SerialInv /\ Workflow!WInit
  BY SerialInitially
<1>2. SerialInv /\ [Next]_vars => SerialInv' /\ [Workflow!WNext]_(Workflow!wvars)
  BY SerialStep
<1>3. QED
  BY <1>1, <1>2, PTL DEF Spec, ImplementsWorkflow, Workflow!WSpec

\* One request after another, the approval rows of a loan under review tell
\* the same as its status and current step.
THEOREM ReviewToldByRows ==
  ASSUME Serial
  PROVE  Spec => []ReviewConsistent
<1>1. Init => SerialInv
  BY SerialInitially
<1>2. SerialInv /\ [Next]_vars => SerialInv'
  BY SerialStep
<1>3. SerialInv => ReviewConsistent
  <2>1. ASSUME SerialInv, NEW l \in Loans, loan[l].currentStep \in Steps
        PROVE  ReviewTold(l) /\ Len(approvals[l]) = 1
    <3>1. ReviewTold(l) /\ approvals[l] \in Seq(ApprovalBatch)
      BY <2>1 DEF SerialInv, LoanOrdered, TypeInv, TypeOK
    <3>2. PICK n \in Nat : n = Len(approvals[l]) /\ 1 .. n = DOMAIN approvals[l]
      BY <3>1, LenProperties
    <3>3. n = 1
      <4>1. 1 .. n = {1}
        BY <3>1, <3>2 DEF ReviewTold, OneBatch
      <4>2. 1 \in 1 .. n /\ (2 \in 1 .. n => FALSE)
        BY <4>1
      <4>3. QED
        BY <4>2
    <3>4. QED
      BY <3>1, <3>2, <3>3
  <2>2. QED
    BY <2>1 DEF ReviewConsistent, Reviewing, ReviewTold
<1>4. QED
  BY <1>1, <1>2, <1>3, PTL DEF Spec

\* No step changes a decision, but for the deletion of a loan.
DecisionsKept ==
  \A l \in Loans, s \in Steps : \A b \in DOMAIN approvals[l] :
    /\ approvals[l][b][s] \in {"APPROVED", "REJECTED"}
    /\ loan'[l].status # "DELETED"
    => approvals'[l][b][s] = approvals[l][b][s]

\* A decision is written to an open row only.
LEMMA CommitKeepsDecisions ==
  ASSUME SerialInv, NEW r \in Requests, Commit(r)
  PROVE  DecisionsKept
<1>1. PICK q : q = request[r]
  OBVIOUS
<1>2. /\ loan \in [Loans -> LoanRow] /\ approvals \in [Loans -> Seq(ApprovalBatch)]
  BY DEF SerialInv, TypeInv, TypeOK
<1>3. CASE UNCHANGED approvals
  BY <1>3 DEF DecisionsKept
<1>4. ASSUME q.loan \in Loans, loan[q.loan].currentStep \in Steps,
             LoanOrdered(q.loan), q.batch \in DOMAIN approvals[q.loan], NEW d,
             approvals' = [approvals EXCEPT
                             ![q.loan][q.batch][loan[q.loan].currentStep] = d]
      PROVE  DecisionsKept
  <2>1. PICK s \in Steps : s = loan[q.loan].currentStep
    BY <1>4
  <2>2. ReviewTold(q.loan)
    BY <1>4 DEF LoanOrdered
  <2>3. /\ DOMAIN approvals[q.loan] = {1} /\ q.batch = 1
        /\ approvals[q.loan][1] \in [Steps -> Decisions]
        /\ approvals[q.loan][1][s] \in {"NONE", "REVISED"}
    BY <1>4, <2>1, <2>2 DEF ReviewTold, OneBatch, ApprovalBatch
  <2>4. /\ \A m \in Loans \ {q.loan} : approvals'[m] = approvals[m]
        /\ approvals'[q.loan] =
             [approvals[q.loan] EXCEPT ![1] = [approvals[q.loan][1] EXCEPT ![s] = d]]
    BY <1>2, <1>4, <2>1, <2>3
  <2>5. approvals'[q.loan][1] = [approvals[q.loan][1] EXCEPT ![s] = d]
    BY <2>3, <2>4
  <2>6. \A e \in Steps \ {s} : approvals'[q.loan][1][e] = approvals[q.loan][1][e]
    BY <2>3, <2>5
  <2>7. QED
    BY <2>3, <2>4, <2>6 DEF DecisionsKept
<1>5. CASE CommitDelete(r)
  <2>1. q.loan \in Loans
    BY <1>1, <1>5, RunsAlone DEF CommitDelete, Ops
  <2>2. /\ loan'[q.loan].status = "DELETED"
        /\ \A m \in Loans \ {q.loan} : approvals'[m] = approvals[m]
    BY <1>1, <1>2, <1>5, <2>1 DEF CommitDelete, NoLoan
  <2>3. QED
    BY <2>2 DEF DecisionsKept
<1>6. CASE CommitSubmit(r)
  <2>1. q.loan \in Loans /\ approvals[q.loan] = <<>>
    BY <1>1, <1>6, RunsAlone DEF CommitSubmit, Ops, RequestCurrent, LoanOrdered
  <2>2. \A m \in Loans \ {q.loan} : approvals'[m] = approvals[m]
    BY <1>1, <1>2, <1>6, <2>1 DEF CommitSubmit
  <2>3. QED
    BY <2>1, <2>2 DEF DecisionsKept
<1>7. CASE CommitRevise(r)
  <2>1. /\ q.loan \in Loans /\ LoanOrdered(q.loan)
        /\ loan[q.loan].currentStep = "DIVISI_SIMPAN_PINJAM"
        /\ q.batch \in DOMAIN approvals[q.loan]
    BY <1>1, <1>7, RunsAlone DEF CommitRevise, Ops, RequestCurrent
  <2>2. approvals' = [approvals EXCEPT
                        ![q.loan][q.batch][loan[q.loan].currentStep] = "REVISED"]
    BY <1>1, <1>7, <2>1 DEF CommitRevise
  <2>3. loan[q.loan].currentStep \in Steps
    BY <2>1 DEF Steps
  <2>4. QED
    BY <1>4, <2>1, <2>2, <2>3
<1>8. CASE CommitReject(r)
  <2>1. /\ q.loan \in Loans /\ LoanOrdered(q.loan)
        /\ loan[q.loan].currentStep \in Steps /\ q.seen = loan[q.loan]
        /\ q.batch \in DOMAIN approvals[q.loan]
    BY <1>1, <1>8, RunsAlone DEF CommitReject, Ops, RequestCurrent
  <2>2. approvals' = [approvals EXCEPT
                        ![q.loan][q.batch][loan[q.loan].currentStep] = "REJECTED"]
    BY <1>1, <1>8, <2>1 DEF CommitReject
  <2>3. QED
    BY <1>4, <2>1, <2>2
<1>9. CASE CommitApprove(r)
  <2>1. /\ q.loan \in Loans /\ LoanOrdered(q.loan)
        /\ loan[q.loan].currentStep \in Steps /\ q.seen = loan[q.loan]
        /\ q.batch \in DOMAIN approvals[q.loan]
    BY <1>1, <1>9, RunsAlone DEF CommitApprove, Ops, RequestCurrent
  <2>2. approvals' = [approvals EXCEPT
                        ![q.loan][q.batch][loan[q.loan].currentStep] = "APPROVED"]
    BY <1>1, <1>9, <2>1 DEF CommitApprove
  <2>3. QED
    BY <1>4, <2>1, <2>2
<1>10. QED
  BY <1>3, <1>5, <1>6, <1>7, <1>8, <1>9
     DEF Commit, CommitUpdate, CommitDisburse, ReadFund, CommitAuthorize, rows

\* One request after another, what an officer has approved or rejected is not
\* changed any more ("Step ini sudah diproses sebelumnya").
THEOREM DecisionsStay ==
  ASSUME Serial
  PROVE  Spec => DecidedStepsStay
<1>1. Init => SerialInv
  BY SerialInitially
<1>2. SerialInv /\ [Next]_vars => SerialInv'
  BY SerialStep
<1>3. ASSUME SerialInv, [Next]_vars
      PROVE  DecisionsKept
  <2>1. UNCHANGED approvals => DecisionsKept
    BY DEF DecisionsKept
  <2>2. ASSUME NEW r \in Requests, Begin(r)
        PROVE  UNCHANGED approvals
    BY <1>3, <2>2, BeginEnters DEF Entered, rows
  <2>3. QED
    BY <1>3, <2>1, <2>2, CommitKeepsDecisions DEF Next, CreateDraft, Fail, vars, rows
<1>4. SerialInv /\ [Next]_vars => [DecisionsKept]_vars
  BY <1>3
<1>5. QED
  BY <1>1, <1>2, <1>4, PTL DEF Spec, DecidedStepsStay, DecisionsKept

-----------------------------------------------------------------------------
(* The ledger of the social fund.                                          *)

\* The balance before entry i.
Before(i) == IF i = 1 THEN InitialFund ELSE fundLog[i - 1].balanceAfter

LedgerInv ==
  /\ LedgerBalances
  /\ \A i \in DOMAIN fundLog : loan[fundLog[i].loan].status = "DISBURSED"
  /\ \A r \in Requests : request[r] # Idle =>
       request[r].fundRead \in {NoFundRead, fund}

\* Loans that are paid are not touched, and neither is the ledger.
LEMMA LedgerKept ==
  ASSUME LedgerInv, UNCHANGED <<fund, fundLog>>,
         \A l \in Loans : loan[l].status = "DISBURSED" => loan'[l] = loan[l],
         fundLog \in Seq([loan: Loans, amount: Amounts \cup {0}, balanceAfter: Nat])
  PROVE  /\ LedgerBalances'
         /\ \A i \in DOMAIN fundLog' : loan'[fundLog'[i].loan].status = "DISBURSED"
<1>1. \A i \in DOMAIN fundLog : fundLog[i].loan \in Loans
  <2>1. \A i \in 1 .. Len(fundLog) :
          fundLog[i] \in [loan: Loans, amount: Amounts \cup {0}, balanceAfter: Nat]
    BY ElementOfSeq
  <2>2. QED
    BY <2>1
<1>2. QED
  BY <1>1 DEF LedgerInv, LedgerBalances

\* A pay-out adds the entry that continues the ledger.
LEMMA AuthorizeLedger ==
  ASSUME SerialInv, LedgerInv, NEW r \in Requests, CommitAuthorize(r)
  PROVE  /\ LedgerBalances'
         /\ \A i \in DOMAIN fundLog' : loan'[fundLog'[i].loan].status = "DISBURSED"
<1>1. PICK q : q = request[r]
  OBVIOUS
<1>2. /\ q \in RequestRow /\ q.loan \in Loans /\ RequestCurrent(q) /\ q # Idle
      /\ q.op = "AUTHORIZE" /\ loan[q.loan] \in LoanRow
  BY <1>1, RunsAlone DEF CommitAuthorize, Ops, Idle
<1>3. /\ loan \in [Loans -> LoanRow] /\ fund \in Nat
      /\ fundLog \in Seq([loan: Loans, amount: Amounts \cup {0}, balanceAfter: Nat])
  BY DEF SerialInv, TypeInv, TypeOK
<1>4. /\ loan[q.loan].status = "PENDING_AUTHORIZATION" /\ q.seen = loan[q.loan]
  BY <1>2 DEF RequestCurrent
<1>5. /\ loan'[q.loan].status = "DISBURSED" /\ loan'[q.loan].amount = loan[q.loan].amount
      /\ \A m \in Loans \ {q.loan} : loan'[m] = loan[m]
  BY <1>1, <1>2, <1>3 DEF CommitAuthorize, LoanRow
<1>6. CASE q.seen.type # "EXCESS_LOAN"
  <2>1. UNCHANGED <<fund, fundLog>>
    BY <1>1, <1>6 DEF CommitAuthorize, DeductFund
  <2>2. \A l \in Loans : loan[l].status = "DISBURSED" => loan'[l] = loan[l]
    BY <1>4, <1>5
  <2>3. QED
    BY <1>3, <2>1, <2>2, LedgerKept
<1>7. CASE q.seen.type = "EXCESS_LOAN"
  <2>1. q.fundRead = fund
    BY <1>1, <1>2, <1>7 DEF LedgerInv, CommitAuthorize, DeductFund
  <2>2. PICK e, n : /\ e = [loan |-> q.loan, amount |-> loan[q.loan].amount,
                            balanceAfter |-> fund - loan[q.loan].amount]
                    /\ n = Len(fundLog)
    OBVIOUS
  <2>3. fund' = e.balanceAfter /\ fundLog' = Append(fundLog, e)
    BY <1>1, <1>4, <1>7, <2>1, <2>2 DEF CommitAuthorize, DeductFund
  <2>4. /\ n \in Nat /\ DOMAIN fundLog = 1 .. n /\ DOMAIN fundLog' = 1 .. n + 1
        /\ fundLog'[n + 1] = e
        /\ \A i \in 1 .. n : fundLog'[i] = fundLog[i] /\ fundLog[i].loan \in Loans
        /\ Len(fundLog') = n + 1 /\ fundLog' # <<>>
        /\ (fundLog = <<>> <=> n = 0)
    <3> DEFINE Entry == [loan: Loans, amount: Amounts \cup {0}, balanceAfter: Nat]
    <3>1. e \in Entry
      <4>1. loan[q.loan].amount <= fund /\ loan[q.loan].amount \in Amounts \cup {0}
        BY <1>1, <1>2, <1>4, <1>7, <2>1
           DEF SerialInv, TypeInv, RequestsTyped, LoanRow, CommitAuthorize, DeductFund
      <4>2. fund - loan[q.loan].amount \in Nat
        BY <1>3, <4>1, AmountsNat, Difference
      <4>3. QED
        BY <1>2, <2>2, <4>1, <4>2
    <3>2. PICK old, new : /\ old \in Seq(Entry)
                          /\ old = fundLog /\ new = fundLog'
      BY <1>3
    <3>3. new = Append(old, e) /\ n = Len(old)
      BY <2>2, <2>3, <3>2
    <3>4. /\ n \in Nat /\ DOMAIN old = 1 .. n /\ (old = <<>> <=> n = 0)
          /\ \A i \in 1 .. n : old[i] \in Entry
      BY <3>2, <3>3, LenProperties, ElementOfSeq, EmptySeq
    <3>5. /\ Len(new) = n + 1 /\ new[n + 1] = e /\ \A i \in 1 .. n : new[i] = old[i]
          /\ new \in Seq(Entry) /\ new # <<>>
      BY <3>1, <3>2, <3>3, AppendProperties
    <3>6. DOMAIN new = 1 .. n + 1
      BY <3>5, LenProperties
    <3>7. \A i \in 1 .. n : old[i].loan \in Loans
      BY <3>4
    <3>8. DOMAIN fundLog = 1 .. n /\ (fundLog = <<>> <=> n = 0)
      BY <3>2, <3>4
    <3>9. /\ DOMAIN fundLog' = 1 .. n + 1 /\ fundLog'[n + 1] = e
          /\ Len(fundLog') = n + 1 /\ fundLog' # <<>>
      BY <3>2, <3>5, <3>6
    <3>10. \A i \in 1 .. n : fundLog'[i] = fundLog[i] /\ fundLog[i].loan \in Loans
      BY <3>2, <3>5, <3>7
    <3>11. QED
      BY <3>4, <3>8, <3>9, <3>10
  <2>5. \A i \in 1 .. n : /\ loan[fundLog[i].loan].status = "DISBURSED"
                          /\ loan'[fundLog[i].loan] = loan[fundLog[i].loan]
    BY <1>4, <1>5, <2>4 DEF LedgerInv
  <2>6. \A i \in 1 .. n + 1 : loan'[fundLog'[i].loan].status = "DISBURSED"
    BY <1>5, <2>2, <2>4, <2>5
  <2>7. \A i \in 1 .. n + 1 : fundLog'[i].amount = loan'[fundLog'[i].loan].amount
    BY <1>5, <2>2, <2>4, <2>5 DEF LedgerInv, LedgerBalances
  <2>8. fund = IF n = 0 THEN InitialFund ELSE fundLog[n].balanceAfter
    BY <2>2, <2>4 DEF LedgerInv, LedgerBalances
  <2>9. fundLog'[n + 1].balanceAfter =
          (IF n + 1 = 1 THEN InitialFund ELSE fundLog'[n + 1 - 1].balanceAfter)
            - fundLog'[n + 1].amount
    BY <2>2, <2>4, <2>8
  <2>10. \A i \in 1 .. n : fundLog'[i].balanceAfter =
           (IF i = 1 THEN InitialFund ELSE fundLog'[i - 1].balanceAfter)
             - fundLog'[i].amount
    BY <2>4 DEF LedgerInv, LedgerBalances
  <2>11. \A i \in 1 .. n + 1 : i \in 1 .. n \/ i = n + 1
    BY <2>4
  <2>12. QED
    BY <2>3, <2>4, <2>6, <2>7, <2>9, <2>10, <2>11 DEF LedgerBalances
<1>8. QED
  BY <1>6, <1>7

\* Every step keeps the ledger.
LEMMA LedgerStep ==
  ASSUME Serial, SerialInv, LedgerInv, [Next]_vars
  PROVE  LedgerInv'
<1>1. /\ fundLog \in Seq([loan: Loans, amount: Amounts \cup {0}, balanceAfter: Nat])
      /\ TypeInv' /\ request \in [Requests -> {Idle} \cup RequestRow]
      /\ loan \in [Loans -> LoanRow]
  BY TypeInvInductive DEF SerialInv, TypeInv, TypeOK
<1>2. CASE UNCHANGED vars
  <2>1. LedgerBalances' /\ \A i \in DOMAIN fundLog' :
                             loan'[fundLog'[i].loan].status = "DISBURSED"
    BY <1>1, <1>2, LedgerKept DEF vars
  <2>2. QED
    BY <1>2, <2>1 DEF LedgerInv, vars
<1>3. ASSUME NEW l \in Loans, NEW type \in LoanTypes, NEW a \in Amounts,
             NEW t \in Tenors, CreateDraft(l, type, a, t)
      PROVE  LedgerInv'
  <2>1. /\ UNCHANGED <<fund, fundLog, request>> /\ loan[l].status = "NONE"
        /\ \A m \in Loans \ {l} : loan'[m] = loan[m]
    BY <1>1, <1>3 DEF CreateDraft
  <2>2. LedgerBalances' /\ \A i \in DOMAIN fundLog' :
                             loan'[fundLog'[i].loan].status = "DISBURSED"
    BY <1>1, <2>1, LedgerKept
  <2>3. QED
    BY <2>1, <2>2 DEF LedgerInv
<1>4. ASSUME NEW r \in Requests, Begin(r)
      PROVE  LedgerInv'
  <2>1. UNCHANGED rows
    BY <1>4, BeginEnters DEF Entered
  <2>2. LedgerBalances' /\ \A i \in DOMAIN fundLog' :
                             loan'[fundLog'[i].loan].status = "DISBURSED"
    BY <1>1, <2>1, LedgerKept DEF rows
  <2>3. \E op, l, b, a, t : Enter(r, op, l, b, a, t)
    BY <1>4 DEF Begin, BeginUpdate, BeginDelete, BeginSubmit, BeginRevise,
                BeginDecision, BeginDisburse, BeginAuthorize
  <2>4. \A s \in Requests : request'[s].fundRead = NoFundRead
    BY <1>1, <2>3 DEF Enter, Serial
  <2>5. QED
    BY <2>2, <2>4 DEF LedgerInv
<1>5. ASSUME NEW r \in Requests, Fail(r)
      PROVE  LedgerInv'
  <2>1. UNCHANGED rows /\ Done(r)
    BY <1>5 DEF Fail
  <2>2. LedgerBalances' /\ \A i \in DOMAIN fundLog' :
                             loan'[fundLog'[i].loan].status = "DISBURSED"
    BY <1>1, <2>1, LedgerKept DEF rows
  <2>3. \A s \in Requests : request'[s] = Idle
    BY <1>1, <2>1 DEF Done, Serial
  <2>4. QED
    BY <2>2, <2>3 DEF LedgerInv
<1>6. ASSUME NEW r \in Requests, ReadFund(r)
      PROVE  LedgerInv'
  <2>1. UNCHANGED rows /\ request' = [request EXCEPT ![r].fundRead = fund]
    BY <1>6 DEF ReadFund
  <2>2. LedgerBalances' /\ \A i \in DOMAIN fundLog' :
                             loan'[fundLog'[i].loan].status = "DISBURSED"
    BY <1>1, <2>1, LedgerKept DEF rows
  <2>3. request[r] \in RequestRow
    BY <1>6, RunningRequest DEF ReadFund, Ops, SerialInv, TypeInv
  <2>4. \A s \in Requests : request'[s].fundRead = fund
    BY <1>1, <2>1, <2>3 DEF Serial, RequestRow
  <2>5. QED
    BY <2>1, <2>2, <2>4 DEF LedgerInv, rows
<1>7. ASSUME NEW r \in Requests, Commit(r), ~ReadFund(r)
      PROVE  LedgerInv'
  <2>1. PICK q : q = request[r]
    OBVIOUS
  <2>2. Done(r)
    BY <1>7 DEF Commit, CommitUpdate, CommitDelete, CommitSubmit, CommitRevise,
                CommitReject, CommitApprove, CommitDisburse, CommitAuthorize
  <2>3. \A s \in Requests : request'[s] = Idle
    BY <1>1, <2>2 DEF Done, Serial
  <2>4. CASE CommitAuthorize(r)
    BY <2>3, <2>4, AuthorizeLedger DEF LedgerInv
  <2>5. ASSUME UNCHANGED <<fund, fundLog>>, q.loan \in Loans, Implemented(q.loan),
               loan[q.loan].status # "DISBURSED"
        PROVE  LedgerInv'
    <3>1. \A l \in Loans : loan[l].status = "DISBURSED" => loan'[l] = loan[l]
      BY <2>5 DEF Implemented, SameLoan
    <3>2. QED
      BY <1>1, <2>3, <2>5, <3>1, LedgerKept DEF LedgerInv
  <2>6. CASE CommitUpdate(r)
    <3>1. q.loan \in Loans /\ loan[q.loan].status = "DRAFT"
      BY <2>1, <2>6, RunsAlone DEF CommitUpdate, Ops, RequestCurrent
    <3>2. QED
      BY <1>1, <2>1, <2>5, <2>6, <3>1, UpdateImplemented DEF CommitUpdate
  <2>7. CASE CommitDelete(r)
    <3>1. q.loan \in Loans /\ loan[q.loan].status = "DRAFT"
      BY <2>1, <2>7, RunsAlone DEF CommitDelete, Ops, RequestCurrent
    <3>2. QED
      BY <1>1, <2>1, <2>5, <2>7, <3>1, DeleteImplemented DEF CommitDelete
  <2>8. CASE CommitSubmit(r)
    <3>1. q.loan \in Loans /\ loan[q.loan].status = "DRAFT"
      BY <2>1, <2>8, RunsAlone DEF CommitSubmit, Ops, RequestCurrent
    <3>2. QED
      BY <1>1, <2>1, <2>5, <2>8, <3>1, SubmitImplemented DEF CommitSubmit
  <2>9. CASE CommitRevise(r)
    <3>1. q.loan \in Loans /\ LoanOrdered(q.loan) /\ loan[q.loan].currentStep \in Steps
      <4>1. Running(r, "REVISE") /\ "REVISE" \in Ops \ {"IDLE"}
        BY <2>9 DEF CommitRevise, Ops
      <4>2. q.loan \in Loans /\ LoanOrdered(q.loan) /\ q.op = "REVISE" /\ RequestCurrent(q)
        BY <2>1, <4>1, RunsAlone
      <4>3. QED
        BY <4>2 DEF RequestCurrent, Steps
    <3>2. loan[q.loan].status # "DISBURSED"
      BY <3>1, OpenReview DEF PaymentStatuses
    <3>3. QED
      BY <1>1, <2>1, <2>5, <2>9, <3>1, <3>2, ReviseImplemented DEF CommitRevise
  <2>10. CASE CommitReject(r)
    <3>1. q.loan \in Loans /\ LoanOrdered(q.loan) /\ loan[q.loan].currentStep \in Steps
      <4>1. Running(r, "REJECT") /\ "REJECT" \in Ops \ {"IDLE"}
        BY <2>10 DEF CommitReject, Ops
      <4>2. q.loan \in Loans /\ LoanOrdered(q.loan) /\ q.op = "REJECT" /\ RequestCurrent(q)
        BY <2>1, <4>1, RunsAlone
      <4>3. QED
        BY <4>2 DEF RequestCurrent
    <3>2. loan[q.loan].status # "DISBURSED"
      BY <3>1, OpenReview DEF PaymentStatuses
    <3>3. QED
      BY <1>1, <2>1, <2>5, <2>10, <3>1, <3>2, RejectImplemented DEF CommitReject
  <2>11. CASE CommitApprove(r)
    <3>1. q.loan \in Loans /\ LoanOrdered(q.loan) /\ loan[q.loan].currentStep \in Steps
      <4>1. Running(r, "APPROVE") /\ "APPROVE" \in Ops \ {"IDLE"}
        BY <2>11 DEF CommitApprove, Ops
      <4>2. q.loan \in Loans /\ LoanOrdered(q.loan) /\ q.op = "APPROVE" /\ RequestCurrent(q)
        BY <2>1, <4>1, RunsAlone
      <4>3. QED
        BY <4>2 DEF RequestCurrent
    <3>2. loan[q.loan].status # "DISBURSED"
      BY <3>1, OpenReview DEF PaymentStatuses
    <3>3. QED
      BY <1>1, <2>1, <2>5, <2>11, <3>1, <3>2, ApproveImplemented DEF CommitApprove
  <2>12. CASE CommitDisburse(r)
    <3>1. q.loan \in Loans /\ loan[q.loan].status = "APPROVED_PENDING_DISBURSEMENT"
      BY <2>1, <2>12, RunsAlone DEF CommitDisburse, Ops, RequestCurrent
    <3>2. QED
      BY <1>1, <2>1, <2>5, <2>12, <3>1, DisburseImplemented DEF CommitDisburse
  <2>13. QED
    BY <1>7, <2>4, <2>6, <2>7, <2>8, <2>9, <2>10, <2>11, <2>12 DEF Commit
<1>8. QED
  BY <1>2, <1>3, <1>4, <1>5, <1>6, <1>7 DEF Next

\* One request after another, the ledger of the social fund adds up: each
\* pay-out of an excess loan continues from the balance before it, and is for
\* the amount its loan has.
THEOREM LedgerAddsUp ==
  ASSUME Serial
  PROVE  Spec => []LedgerBalances
<1>1. Init => SerialInv /\ LedgerInv
  <2>1. Init => LedgerInv
    BY DEF Init, LedgerInv, LedgerBalances
  <2>2. QED
    BY <2>1, SerialInitially
<1>2. SerialInv /\ LedgerInv /\ [Next]_vars => (SerialInv /\ LedgerInv)'
  BY SerialStep, LedgerStep
<1>3. LedgerInv => LedgerBalances
  BY DEF LedgerInv
<1>4. QED
  BY <1>1, <1>2, <1>3, PTL DEF Spec

=============================================================================
