--------------------------- MODULE DepositChange ----------------------------
(***************************************************************************)
(* Changes of a deposit (deposit-change.service.ts): a member drafts, edits*)
(* and submits a change of the amount or the tenor, or asks to stop the    *)
(* deposit; two officers sign; the last signature changes the deposit and  *)
(* takes the fee off the voluntary savings, while payroll collects it.     *)
(***************************************************************************)
EXTENDS Deposit

CONSTANT Fees   \* the values the setting deposit_change_admin_fee takes

ASSUME FeeAssumption == Fees \subseteq Nat

ChangeRow ==
  [deposit : Deposits, type : {"CHANGE", "STOP"},
   status : {"DRAFT", "SUBMITTED", "UNDER_REVIEW_KETUA", "APPROVED", "REJECTED"},
   step : Steps \cup {NoStep},
   current : [amount : Amounts, tenor : Tenors],
   new : [amount : Amounts \cup {0}, tenor : Tenors \cup {0}], fee : Fees]

NoChange == [status |-> "NONE", step |-> NoStep]

Deleted == [status |-> "DELETED", step |-> NoStep]

VARIABLES
  change,      \* deposit_change_requests
  adminFee,    \* the setting deposit_change_admin_fee
  interrupted, \* history: stop requests that were left without approvals
  outrun       \* history: payroll collected while a change was under way

changeVars == <<change, adminFee, interrupted, outrun>>

vars == <<savingsVars, depositVars, changeVars>>

TypeOK ==
  /\ DepositTypeOK
  /\ change \in [Changes -> {NoChange, Deleted} \cup ChangeRow]
  /\ adminFee \in Fees
  /\ \A m \in Members : \A i \in DOMAIN debits[m] :
       debits[m][i] \in [penarikan : Fees, bunga : Int, ref : Changes]
  /\ interrupted \subseteq Changes
  /\ outrun \in BOOLEAN

Init ==
  /\ DepositInit
  /\ change = [c \in Changes |-> NoChange]
  /\ adminFee \in Fees
  /\ interrupted = {}
  /\ outrun = FALSE

-----------------------------------------------------------------------------
Pending(d) ==
  {c \in Changes : /\ change[c].status \in {"DRAFT", "SUBMITTED", "UNDER_REVIEW_KETUA"}
                   /\ change[c].deposit = d}

\* Mutant: a change under way does not prevent another one.
ChangeableAnyway(d) == deposit[d].status \in {"APPROVED", "ACTIVE"}

\* validateDepositForChange.
Changeable(d) == deposit[d].status \in {"APPROVED", "ACTIVE"} /\ Pending(d) = {}

\* Mutant: the installments that were collected are not looked at.
AcceptableAnyTenor(d, current, new) == new # current

\* The new tenor exceeds the months collected, and something changes.
Acceptable(d, current, new) == new.tenor > deposit[d].count /\ new # current

Terms == [amount : Amounts, tenor : Tenors]

Current(d) == [amount |-> deposit[d].amount, tenor |-> deposit[d].tenor]

Draft(d, new) ==
  [deposit |-> d, type |-> "CHANGE", status |-> "DRAFT", step |-> NoStep,
   current |-> Current(d), new |-> new, fee |-> adminFee]

StopRequest(d) ==
  [deposit |-> d, type |-> "STOP", status |-> "SUBMITTED", step |-> "DIVISI_SIMPAN_PINJAM",
   current |-> Current(d), new |-> [amount |-> 0, tenor |-> 0], fee |-> adminFee]

BeginCreate(r, d, new) ==
  /\ Changeable(d)
  /\ Acceptable(d, Current(d), new)
  /\ Enter(r, "CREATE", d, Draft(d, new))
  /\ UNCHANGED changeVars

BeginStop(r, d) ==
  /\ Changeable(d)
  /\ Enter(r, "STOP", d, StopRequest(d))
  /\ UNCHANGED changeVars

Insert(r) ==
  \E c \in Changes :
    /\ change[c] = NoChange
    /\ change' = [change EXCEPT ![c] = request[r].seen]

\* createDraft inserts one row and is done.
CommitCreate(r) ==
  /\ Is(r, "CREATE")
  /\ Insert(r)
  /\ Done(r)
  /\ UNCHANGED <<savingsVars, deposit, approvals, adminFee, interrupted, outrun>>

\* createStopRequest inserts the request, and then its approval records.
InsertStop(r) ==
  /\ Is(r, "STOP")
  /\ \E c \in Changes :
       /\ change[c] = NoChange
       /\ change' = [change EXCEPT ![c] = request[r].seen]
       /\ request' = [request EXCEPT ![r].op = "STOP_APPROVALS", ![r].id = c]
  /\ UNCHANGED <<savingsVars, deposit, approvals, overlaps, adminFee, interrupted, outrun>>

InsertStopApprovals(r) ==
  /\ Is(r, "STOP_APPROVALS")
  /\ approvals' = [approvals EXCEPT ![request[r].id] = OpenApprovals]
  /\ Done(r)
  /\ UNCHANGED <<savingsVars, deposit, changeVars>>

-----------------------------------------------------------------------------
Exists(c) == change[c] \notin {NoChange, Deleted}

\* updateDraft, submitChangeRequest and cancelChangeRequest ask for a draft
\* and write by its id; the write fails when the row has gone.
BeginOnDraft(r, c, op, seen) ==
  /\ change[c].status = "DRAFT"
  /\ Enter(r, op, c, seen)
  /\ UNCHANGED changeVars

BeginEdit(r, c, new) ==
  /\ BeginOnDraft(r, c, "EDIT", new)
  /\ Acceptable(change[c].deposit, change[c].current, new)

CommitEdit(r) ==
  LET q == request[r]
  IN  /\ Is(r, "EDIT")
      /\ Exists(q.id)
      /\ change' = [change EXCEPT ![q.id].new = q.seen]
      /\ Done(r)
      /\ UNCHANGED <<savingsVars, deposit, approvals, adminFee, interrupted, outrun>>

\* Mutant: the approval records are forgotten.
CommitSubmitBare(r) ==
  LET c == request[r].id
  IN  /\ Is(r, "SUBMIT")
      /\ Exists(c)
      /\ change' = [change EXCEPT ![c].status = "SUBMITTED",
                                  ![c].step = "DIVISI_SIMPAN_PINJAM"]
      /\ Done(r)
      /\ UNCHANGED <<savingsVars, deposit, approvals, adminFee, interrupted, outrun>>

\* The records of a step are not unique: once a change was submitted twice,
\* the decisions find either the old ones or the new ones.
CommitSubmit(r) ==
  LET c == request[r].id
  IN  /\ Is(r, "SUBMIT")
      /\ Exists(c)
      /\ change' = [change EXCEPT ![c].status = "SUBMITTED",
                                  ![c].step = "DIVISI_SIMPAN_PINJAM"]
      /\ \E found \in {OpenApprovals, approvals[c]} \ {NoApprovals} :
           approvals' = [approvals EXCEPT ![c] = found]
      /\ Done(r)
      /\ UNCHANGED <<savingsVars, deposit, adminFee, interrupted, outrun>>

\* The approval records go with the request (onDelete: Cascade).
CommitCancel(r) ==
  LET c == request[r].id
  IN  /\ Is(r, "CANCEL")
      /\ Exists(c)
      /\ change' = [change EXCEPT ![c] = Deleted]
      /\ approvals' = [approvals EXCEPT ![c] = NoApprovals]
      /\ Done(r)
      /\ UNCHANGED <<savingsVars, deposit, adminFee, interrupted, outrun>>

-----------------------------------------------------------------------------
\* processApproval of a change reads it, its step and the step's record.
BeginChangeDecision(r, c, op) ==
  /\ Decidable(c, change[c])
  /\ Enter(r, op, c, change[c])
  /\ UNCHANGED changeVars

\* handleRejection.
CommitChangeReject(r) ==
  LET q == request[r]
  IN  /\ Is(r, "REJECT_CHANGE")
      /\ Exists(q.id)
      /\ approvals' = [approvals EXCEPT ![q.id][q.seen.step] = "REJECTED"]
      /\ change' = [change EXCEPT ![q.id].status = "REJECTED", ![q.id].step = NoStep]
      /\ Done(r)
      /\ UNCHANGED <<savingsVars, deposit, adminFee, interrupted, outrun>>

\* handleApproval of the first step: the change goes to the chairman.
CommitFirstApproval(r) ==
  LET q == request[r]
  IN  /\ Is(r, "APPROVE_CHANGE")
      /\ Exists(q.id)
      /\ StepAfter(q.seen.step) # NoStep
      /\ approvals' = [approvals EXCEPT ![q.id][q.seen.step] = "APPROVED"]
      /\ change' = [change EXCEPT ![q.id].status = StatusAfter(q.seen.step),
                                  ![q.id].step = StepAfter(q.seen.step)]
      /\ Done(r)
      /\ UNCHANGED <<savingsVars, deposit, adminFee, interrupted, outrun>>

\* The last signature closes the change; the deposit becomes row.
LastApproval(r, row) ==
  LET q == request[r]
  IN  /\ Is(r, "APPROVE_CHANGE")
      /\ Exists(q.id)
      /\ StepAfter(q.seen.step) = NoStep
      /\ approvals' = [approvals EXCEPT ![q.id][q.seen.step] = "APPROVED"]
      /\ change' = [change EXCEPT ![q.id].status = "APPROVED", ![q.id].step = NoStep]
      /\ deposit' = [deposit EXCEPT ![q.seen.deposit] = row]
      /\ Done(r)
      /\ UNCHANGED <<adminFee, interrupted, outrun>>

\* Mutant: no transaction tells of the fee.
ChargeUnbooked(q, fee) ==
  LET m == deposit[q.seen.deposit].member
  IN  /\ account' = [account EXCEPT ![m].sukarela = @ - fee]
      /\ UNCHANGED <<payslip, debits>>

\* The fee is taken off the voluntary savings, whatever their balance is.
Charge(q, fee) ==
  LET m == deposit[q.seen.deposit].member
  IN  Debit(m, account[m], fee, q.id)

\* A change writes the new terms, and charges the fee of the day.
CommitChange(r) ==
  LET q == request[r]
  IN  /\ q # Idle
      /\ LastApproval(r, [deposit[q.seen.deposit] EXCEPT !.amount = q.seen.new.amount,
                                                         !.tenor = q.seen.new.tenor])
      /\ q.seen.type = "CHANGE"
      /\ Charge(q, adminFee)

\* Mutant: the fee of the day instead of the fee the member agreed to.
StopFeeOfTheDay(q) == adminFee

\* A stop charges the fee that was agreed.
StopFee(q) == q.seen.fee

\* A stop completes the deposit; a fee of zero is not booked.
CommitStop(r) ==
  LET q == request[r]
  IN  /\ LastApproval(r, [deposit[q.seen.deposit] EXCEPT !.status = "COMPLETED", !.step = NoStep])
      /\ q.seen.type = "STOP"
      /\ IF StopFee(q) > 0 THEN Charge(q, StopFee(q)) ELSE UNCHANGED savingsVars

-----------------------------------------------------------------------------
\* An administrator changes the setting.
SetFee(fee) ==
  /\ adminFee' = fee
  /\ UNCHANGED <<savingsVars, depositVars, change, interrupted, outrun>>

Collect(r) ==
  /\ CommitPay(r)
  /\ outrun' = (outrun \/ \E d \in DOMAIN request[r].seen.rows : Pending(d) # {})
  /\ UNCHANGED <<change, adminFee, interrupted>>

\* A request for a stop that fails between its inserts leaves the first one.
Interrupt(r) ==
  /\ Fail(r)
  /\ interrupted' = IF Is(r, "STOP_APPROVALS") THEN interrupted \cup {request[r].id}
                                               ELSE interrupted
  /\ UNCHANGED <<change, adminFee, outrun>>

Next ==
  \/ DepositNext /\ UNCHANGED changeVars
  \/ \E fee \in Fees \ {adminFee} : SetFee(fee)
  \/ \E r \in Requests :
       \/ \E d \in Deposits : BeginStop(r, d)
       \/ \E d \in Deposits, new \in Terms : BeginCreate(r, d, new)
       \/ \E c \in Changes, new \in Terms : BeginEdit(r, c, new)
       \/ \E c \in Changes :
            \/ BeginOnDraft(r, c, "SUBMIT", NoChange)
            \/ BeginOnDraft(r, c, "CANCEL", NoChange)
            \/ BeginChangeDecision(r, c, "APPROVE_CHANGE")
            \/ BeginChangeDecision(r, c, "REJECT_CHANGE")
       \/ CommitCreate(r) \/ InsertStop(r) \/ InsertStopApprovals(r)
       \/ CommitEdit(r) \/ CommitSubmit(r) \/ CommitCancel(r)
       \/ CommitChangeReject(r) \/ CommitFirstApproval(r)
       \/ CommitChange(r) \/ CommitStop(r)
       \/ Collect(r) \/ Interrupt(r)

Spec == Init /\ [][Next]_vars

-----------------------------------------------------------------------------
\* The debits that charge change c: the member, and the place in debits.
FeesFor(c) ==
  {f \in UNION {{m} \X DOMAIN debits[m] : m \in Members} : debits[f[1]][f[2]].ref = c}

(* While nothing overlaps, a fee is charged only for a change both officers *)
(* signed, once, and for a stop it is the fee the member agreed to; and a   *)
(* change that was approved has been charged.                               *)
FeesAreDue ==
  ~overlapped =>
    \A c \in Changes :
      /\ Cardinality(FeesFor(c)) <= 1
      /\ \A f \in FeesFor(c) :
           /\ change[c].status = "APPROVED"
           /\ \A s \in Steps : approvals[c][s] = "APPROVED"
           /\ change[c].type = "STOP" => debits[f[1]][f[2]].penarikan = change[c].fee
      /\ change[c].status = "APPROVED" /\ FeesFor(c) = {} => change[c].fee = 0

(* The rows agree: what was collected and charged is what the transactions *)
(* show, and all rows keep their types.                                    *)
AllBooked == TypeOK /\ SavingsBooked /\ CollectedBooked

(* While nothing overlaps, a deposit has at most one change under way.     *)
OnePendingChange == ~overlapped => \A d \in Deposits : Cardinality(Pending(d)) <= 1

(* One request after the other, deposits and their changes go through their *)
(* steps in order.                                                         *)
DepositsInOrder == DepositIsSigned /\ OnePendingChange

(* A collection comes to its end: an active deposit has months left, unless*)
(* payroll went on collecting while a change of it was under way.          *)
CollectionEnds ==
  ~overlapped /\ ~outrun =>
    \A d \in Deposits : deposit[d].status \in {"APPROVED", "ACTIVE"}
                          => deposit[d].count < deposit[d].tenor

(* While nothing overlaps, what is under review can be decided, so that it *)
(* does not block the member's next request for ever: the current step has *)
(* its record, unless a request for a stop failed between its inserts.     *)
ReviewIsOpen ==
  ~overlapped /\ (\A r \in Requests : ~Is(r, "STOP_APPROVALS")) =>
    /\ \A d \in Deposits : deposit[d].step # NoStep => Decidable(d, deposit[d])
    /\ \A c \in Changes \ interrupted :
         change[c].status \in {"SUBMITTED", "UNDER_REVIEW_KETUA"} => Decidable(c, change[c])

(* While nothing overlaps, a completed or stopped deposit is not collected *)
(* again and stays completed.                                              *)
CompletedStays ==
  [][\A d \in Deposits :
       deposit[d].status = "COMPLETED" /\ overlaps' = 0 =>
         /\ deposit'[d].status = "COMPLETED"
         /\ deposit'[d].count = deposit[d].count]_vars

=============================================================================
