--------------------------- MODULE DepositProofs ----------------------------
(***************************************************************************)
(* Proofs about DepositChange, for any members, deposits, changes, amounts,*)
(* tenors, fees, requests and periods.  However requests overlap, the rows *)
(* keep their types and the savings and the deposits are what the          *)
(* transactions say.  While nothing overlaps, deposits and changes are     *)
(* signed in order, are charged what is due, come to an end and stay there.*)
(***************************************************************************)
EXTENDS DepositChange, ArithmeticProofs, SequenceTheorems

DebitRow == [penarikan : Fees, bunga : Int, ref : Changes]

\* The deposit of a change is there, and a change of the terms has new terms.
Linked(row, ds) == ds[row.deposit] # NoDeposit /\ (row.type = "CHANGE" => row.new \in Terms)

PayTyped(q, ds) ==
  /\ q.op = "PAY" /\ q.id \in Periods /\ q.seen.member \in Members
  /\ \E S \in SUBSET Deposits : q.seen.rows \in [S -> DepositRow]
  /\ \A d \in DOMAIN q.seen.rows :
       /\ ds[d] # NoDeposit /\ ds[d].member = q.seen.member
       /\ ds[d].collected = q.seen.rows[d].collected

\* What request q has read, and what it may rely on of the deposits ds.
RequestTyped(q, ds) ==
  \/ q = Idle
  \/ /\ q \in [op : {"APPROVE", "REJECT"}, id : Deposits, seen : DepositRow]
     /\ q.seen.step \in Steps /\ ds[q.id] # NoDeposit
  \/ PayTyped(q, ds)
  \/ /\ q \in [op : {"CREATE", "STOP"}, id : Deposits, seen : ChangeRow]
     /\ Linked(q.seen, ds)
  \/ q.op = "STOP_APPROVALS" /\ q.id \in Changes
  \/ q \in [op : {"EDIT"}, id : Changes, seen : Terms]
  \/ q \in [op : {"SUBMIT", "CANCEL"}, id : Changes, seen : {NoChange}]
  \/ /\ q \in [op : {"APPROVE_CHANGE", "REJECT_CHANGE"}, id : Changes, seen : ChangeRow]
     /\ q.seen.step \in Steps /\ Linked(q.seen, ds)

RequestsTyped ==
  /\ DOMAIN request = Requests
  /\ \A r \in Requests : RequestTyped(request[r], deposit)

ChangesLinked == \A c \in Changes : Exists(c) => Linked(change[c], deposit)

\* Payroll runs one after another.
OnePayroll == \A r, s \in Requests : Is(r, "PAY") /\ Is(s, "PAY") => r = s

DebitsTyped == debits \in [Members -> Seq(DebitRow)]

Tables == TypeOK /\ DebitsTyped /\ ChangesLinked

Typed == Tables /\ RequestsTyped /\ OnePayroll

-----------------------------------------------------------------------------
LEMMA DepositRows ==
  /\ \A row \in DepositRow :
       /\ row # NoDeposit /\ row.status # "NONE" /\ row.member \in Members
       /\ row.amount \in Amounts /\ row.tenor \in Tenors /\ row.step \in Steps \cup {NoStep}
       /\ row.collected \in Nat /\ row.count \in Nat
  /\ NoDeposit.status = "NONE" /\ NoDeposit.step = NoStep /\ NoStep \notin Steps
  BY DEF DepositRow, NoDeposit, NoStep, Steps

LEMMA ChangeRows ==
  /\ \A row \in ChangeRow :
       /\ row \notin {NoChange, Deleted} /\ row.status \notin {"NONE", "DELETED"}
       /\ row.deposit \in Deposits /\ row.fee \in Fees /\ row.step \in Steps \cup {NoStep}
       /\ row.type \in {"CHANGE", "STOP"}
  /\ NoChange.status = "NONE" /\ NoChange.step = NoStep
  /\ Deleted.status = "DELETED" /\ Deleted.step = NoStep
  BY DEF ChangeRow, NoChange, Deleted

LEMMA AmountTypes ==
  /\ \A a \in Amounts : a \in Nat /\ a > 0
  /\ \A t \in Tenors : t \in Nat /\ t > 0
  /\ \A f \in Fees : f \in Nat
  /\ IsFiniteSet(Deposits)
  /\ \A d \in Deposits : d \notin Changes
  BY DepositAssumption, FeeAssumption

LEMMA TableRows ==
  ASSUME Tables
  PROVE  /\ \A d \in Deposits : deposit[d] # NoDeposit => deposit[d] \in DepositRow
         /\ \A c \in Changes : Exists(c) => change[c] \in ChangeRow
         /\ \A c \in Changes : ~Exists(c) => change[c] \in {NoChange, Deleted}
         /\ \A x \in Deposits \cup Changes : approvals[x] \in [Steps -> Decisions]
  BY ChangeRows DEF Tables, TypeOK, DepositTypeOK, Exists

\* What the requests in flight carry.
LEMMA RequestFacts ==
  ASSUME Typed, NEW r \in Requests
  PROVE  LET q == request[r]
         IN  /\ q.op \in {"APPROVE", "REJECT"} =>
                  /\ q.id \in Deposits /\ q.seen \in DepositRow /\ q.seen.step \in Steps
                  /\ deposit[q.id] # NoDeposit
             /\ q.op \in {"CREATE", "STOP"} =>
                  /\ q \in [op : {"CREATE", "STOP"}, id : Deposits, seen : ChangeRow]
                  /\ q.seen \in ChangeRow /\ Linked(q.seen, deposit)
             /\ q.op = "STOP_APPROVALS" => q.id \in Changes
             /\ q.op = "EDIT" => q.id \in Changes /\ q.seen \in Terms
             /\ q.op \in {"SUBMIT", "CANCEL"} => q.id \in Changes
             /\ q.op \in {"APPROVE_CHANGE", "REJECT_CHANGE"} =>
                  /\ q.id \in Changes /\ q.seen \in ChangeRow /\ q.seen.step \in Steps
                  /\ Linked(q.seen, deposit)
             /\ q.op # "IDLE" => q # Idle
  <1>1. PICK q : q = request[r]
    OBVIOUS
  <1>2. RequestTyped(q, deposit)
    BY <1>1 DEF Typed, RequestsTyped
  <1>3. q.op \in {"APPROVE", "REJECT"} =>
          /\ q.id \in Deposits /\ q.seen \in DepositRow /\ q.seen.step \in Steps
          /\ deposit[q.id] # NoDeposit
    BY <1>2 DEF RequestTyped, PayTyped, Idle
  <1>4. q.op \in {"CREATE", "STOP"} =>
          /\ q \in [op : {"CREATE", "STOP"}, id : Deposits, seen : ChangeRow]
          /\ q.seen \in ChangeRow /\ Linked(q.seen, deposit)
    BY <1>2 DEF RequestTyped, PayTyped, Idle
  <1>5. /\ q.op = "STOP_APPROVALS" => q.id \in Changes
        /\ q.op = "EDIT" => q.id \in Changes /\ q.seen \in Terms
        /\ q.op \in {"SUBMIT", "CANCEL"} => q.id \in Changes
    BY <1>2 DEF RequestTyped, PayTyped, Idle
  <1>6. q.op \in {"APPROVE_CHANGE", "REJECT_CHANGE"} =>
          /\ q.id \in Changes /\ q.seen \in ChangeRow /\ q.seen.step \in Steps
          /\ Linked(q.seen, deposit)
    BY <1>2 DEF RequestTyped, PayTyped, Idle
  <1>7. q.op # "IDLE" => q # Idle
    BY DEF Idle
  <1> QED
    BY <1>1, <1>3, <1>4, <1>5, <1>6, <1>7

LEMMA PayFacts ==
  ASSUME Typed, NEW r \in Requests, request[r].op = "PAY"
  PROVE  LET q == request[r]
         IN  /\ q.id \in Periods /\ q.seen.member \in Members
             /\ DOMAIN q.seen.rows \subseteq Deposits
             /\ \A d \in DOMAIN q.seen.rows :
                  /\ q.seen.rows[d] \in DepositRow
                  /\ deposit[d] \in DepositRow /\ deposit[d].member = q.seen.member
                  /\ deposit[d].collected = q.seen.rows[d].collected
  <1>1. PICK q : q = request[r]
    OBVIOUS
  <1>2. RequestTyped(q, deposit)
    BY <1>1 DEF Typed, RequestsTyped
  <1>3. PayTyped(q, deposit)
    BY <1>1, <1>2 DEF RequestTyped, Idle
  <1>4. PICK S \in SUBSET Deposits : q.seen.rows \in [S -> DepositRow]
    BY <1>3 DEF PayTyped
  <1>5. DOMAIN q.seen.rows = S /\ \A d \in S : q.seen.rows[d] \in DepositRow
    BY <1>4
  <1> QED
    BY <1>1, <1>3, <1>5, TableRows DEF Typed, PayTyped

\* A request keeps what it relies on when deposits stay, with their member,
\* and nobody collects them behind the back of payroll.
LEMMA RequestKept ==
  ASSUME NEW q, NEW ds, NEW es, RequestTyped(q, ds),
         \A d \in Deposits : ds[d] # NoDeposit =>
           /\ es[d] # NoDeposit /\ es[d].member = ds[d].member
           /\ q.op = "PAY" => es[d].collected = ds[d].collected
  PROVE  RequestTyped(q, es)
  <1>1. CASE q.op = "PAY"
    <2>1. PayTyped(q, ds)
      BY <1>1 DEF RequestTyped, Idle
    <2>2. PICK S \in SUBSET Deposits : q.seen.rows \in [S -> DepositRow]
      BY <2>1 DEF PayTyped
    <2>3. DOMAIN q.seen.rows \subseteq Deposits
      BY <2>2
    <2>4. PayTyped(q, es)
      BY <1>1, <2>1, <2>3 DEF PayTyped
    <2> QED
      BY <2>4 DEF RequestTyped
  <1>2. CASE q.op # "PAY"
    <2>1. \A row \in ChangeRow : Linked(row, ds) => Linked(row, es)
      BY ChangeRows DEF Linked
    <2> QED
      BY <1>2, <2>1 DEF RequestTyped, PayTyped
  <1> QED
    BY <1>1, <1>2

-----------------------------------------------------------------------------
(* How the rows are kept.                                                  *)

Kept(ds, es) ==
  \A d \in Deposits : ds[d] # NoDeposit =>
    es[d] # NoDeposit /\ es[d].member = ds[d].member

SameCollected(ds, es) ==
  \A d \in Deposits : ds[d] # NoDeposit => es[d].collected = ds[d].collected

LEMMA LinksKept ==
  ASSUME Typed, Kept(deposit, deposit'),
         \A c \in Changes : change'[c] \in {NoChange, Deleted, change[c]}
  PROVE  ChangesLinked'
  <1> SUFFICES ASSUME NEW c \in Changes, Exists(c)'
               PROVE  Linked(change'[c], deposit')
    BY DEF ChangesLinked, Linked
  <1>1. change'[c] = change[c] /\ Exists(c)
    BY DEF Exists
  <1>2. Linked(change[c], deposit) /\ change[c] \in ChangeRow
    BY <1>1, TableRows DEF Typed, Tables, ChangesLinked
  <1> QED
    BY <1>1, <1>2, ChangeRows DEF Linked, Kept

\* A request enters.
LEMMA EnterTyped ==
  ASSUME Typed, NEW r \in Requests, NEW op, NEW id, NEW seen, Enter(r, op, id, seen),
         UNCHANGED changeVars,
         RequestTyped([op |-> op, id |-> id, seen |-> seen], deposit),
         op = "PAY" => \A s \in Requests : ~Is(s, "PAY")
  PROVE  Typed'
  <1>1. PICK q : q = [op |-> op, id |-> id, seen |-> seen]
    OBVIOUS
  <1>2. /\ request' = [request EXCEPT ![r] = q]
        /\ UNCHANGED <<account, payslip, debits, deposit, approvals, change, adminFee,
                       interrupted, outrun>>
    BY <1>1 DEF Enter, savingsVars, changeVars
  <1>3. overlaps' \in 0 .. MaxOverlaps
    BY DepositAssumption DEF Enter, Typed, Tables, TypeOK, DepositTypeOK
  <1>4. Tables'
    BY <1>2, <1>3 DEF Typed, Tables, TypeOK, DepositTypeOK, DebitsTyped, ChangesLinked, Exists,
                      Linked
  <1>5. /\ DOMAIN request' = Requests
        /\ \A s \in Requests : request'[s] = IF s = r THEN q ELSE request[s]
    BY <1>2 DEF Typed, RequestsTyped
  <1>6. RequestsTyped'
    BY <1>1, <1>2, <1>5 DEF Typed, RequestsTyped
  <1>7. OnePayroll'
    BY <1>1, <1>5 DEF Typed, OnePayroll, Is
  <1> QED
    BY <1>4, <1>6, <1>7 DEF Typed

\* A request ends.
LEMMA DoneTyped ==
  ASSUME Typed, NEW r \in Requests, Done(r), Tables', Kept(deposit, deposit'),
         request[r].op = "PAY" \/ SameCollected(deposit, deposit')
  PROVE  Typed'
  <1>1. /\ DOMAIN request' = Requests
        /\ \A s \in Requests : request'[s] = IF s = r THEN Idle ELSE request[s]
    BY DEF Done, Typed, RequestsTyped
  <1>2. RequestsTyped'
    <2> SUFFICES ASSUME NEW s \in Requests
                 PROVE  RequestTyped(request'[s], deposit')
      BY <1>1 DEF RequestsTyped
    <2>1. CASE s = r
      BY <1>1, <2>1 DEF RequestTyped
    <2>2. CASE s # r
      <3>1. RequestTyped(request[s], deposit) /\ request'[s] = request[s]
        BY <1>1, <2>2 DEF Typed, RequestsTyped
      <3>2. request[s].op = "PAY" => request[r].op # "PAY"
        BY <2>2, RequestFacts DEF Typed, OnePayroll, Is
      <3>3. \A d \in Deposits : deposit[d] # NoDeposit =>
              /\ deposit'[d] # NoDeposit /\ deposit'[d].member = deposit[d].member
              /\ request[s].op = "PAY" => deposit'[d].collected = deposit[d].collected
        BY <3>2 DEF Kept, SameCollected
      <3> QED
        BY <3>1, <3>3, RequestKept
    <2> QED
      BY <2>1, <2>2
  <1>3. OnePayroll'
    BY <1>1 DEF Typed, OnePayroll, Is
  <1> QED
    BY <1>2, <1>3 DEF Typed

-----------------------------------------------------------------------------
(* What the steps write.                                                   *)

\* Interest on a balance is a whole number, of either sign.
LEMMA InterestInt == \A t \in Int : Interest(t) \in Int
  <1> SUFFICES ASSUME NEW t \in Int
               PROVE  Interest(t) \in Int
    OBVIOUS
  <1>1. \A u \in Int : u * AnnualRate + 600 \in Int
    BY SavingsAssumption
  <1>2. \A u \in Int : u \div 1200 \in Int /\ -u \in Int
    OBVIOUS
  <1>3. \A u \in Int : (u * AnnualRate + 600) \div 1200 \in Int
    BY <1>1, <1>2
  <1> QED
    BY <1>2, <1>3 DEF Interest

\* A month of payroll leaves an account and a payslip that explains it.
LEMMA MonthBooked ==
  ASSUME NEW a \in AccountRow, NEW s \in Payslip, NEW n \in Nat
  PROVE  /\ AccountAfter(a, 0, n) \in AccountRow
         /\ AccountAfter(a, 0, n).sukarela = a.sukarela + n
         /\ PayslipAfter(s, a, 0, n) \in Payslip
         /\ PayslipAfter(s, a, 0, n).tabunganDeposito = s.tabunganDeposito + n
  <1>1. PICK b : b = PaidIn(a, 0, n)
    OBVIOUS
  <1>2. PICK x, y, z : x = a.pokok + 0 /\ y = a.wajib + MonthlyFee /\ z = a.sukarela + n
    OBVIOUS
  <1>3. x \in Nat /\ y \in Nat /\ z \in Int
    BY <1>2, SavingsAssumption DEF AccountRow
  <1>4. b = [a EXCEPT !.pokok = x, !.wajib = y, !.sukarela = z]
    BY <1>1, <1>2 DEF PaidIn, AccountRow
  <1>5. b \in AccountRow /\ b.sukarela = z
    BY <1>3, <1>4 DEF AccountRow
  <1>6. PICK i : i = MonthInterest(b)
    OBVIOUS
  <1>7. i \in Int
    <2>1. Total(b) \in Int
      BY <1>5 DEF Total, AccountRow
    <2> QED
      BY <1>6, <2>1, InterestInt DEF MonthInterest
  <1>8. PICK j \in Int : j = b.bunga + i
    BY <1>5, <1>7 DEF AccountRow
  <1>9. AccountAfter(a, 0, n) = [b EXCEPT !.bunga = j]
    BY <1>1, <1>5, <1>6, <1>8 DEF AccountAfter, AccountRow
  <1>10. AccountAfter(a, 0, n) \in AccountRow /\ AccountAfter(a, 0, n).sukarela = z
    BY <1>5, <1>8, <1>9 DEF AccountRow
  <1>11. PICK f, g, k : /\ f = s.iuranPendaftaran + 0 /\ g = s.tabunganDeposito + n
                        /\ k = IF Total(b) <= 0 THEN s.bunga ELSE i
    OBVIOUS
  <1>12. f \in Nat /\ g \in Nat /\ k \in Int /\ MonthlyFee \in Nat
    BY <1>7, <1>11, SavingsAssumption DEF Payslip
  <1>13. PICK t : t = PayslipAfter(s, a, 0, n)
    OBVIOUS
  <1>14. t = [s EXCEPT !.iuranPendaftaran = f, !.iuranBulanan = MonthlyFee,
                       !.tabunganDeposito = g, !.bunga = k]
    BY <1>1, <1>6, <1>11, <1>13 DEF PayslipAfter, Payslip
  <1>15. t \in Payslip /\ t.tabunganDeposito = g
    BY <1>12, <1>14 DEF Payslip
  <1> QED
    BY <1>2, <1>10, <1>11, <1>13, <1>15

\* A fee is taken off an account, and a debit tells it.
Debited(m, fee, c) ==
  /\ \E after \in AccountRow :
       /\ account' = [account EXCEPT ![m] = after]
       /\ after.sukarela = account[m].sukarela - fee
  /\ \E row \in DebitRow :
       /\ row.penarikan = fee /\ row.ref = c
       /\ debits' = [debits EXCEPT ![m] = Append(@, row)]
  /\ payslip' = payslip

LEMMA DebitFacts ==
  ASSUME Tables, NEW m \in Members, NEW fee \in Fees, NEW c \in Changes,
         Debit(m, account[m], fee, c)
  PROVE  Debited(m, fee, c)
  <1>1. account[m] \in AccountRow /\ account \in [Members -> AccountRow]
    BY DEF Tables, TypeOK, DepositTypeOK
  <1>2. PICK i : i = Interest(Total(account[m]) - fee)
    OBVIOUS
  <1>3. i \in Int /\ account[m].bunga \in Int /\ account[m].sukarela \in Int /\ fee \in Int
    <2>1. Total(account[m]) - fee \in Int
      BY <1>1, AmountTypes DEF Total, AccountRow
    <2> QED
      BY <1>1, <1>2, <2>1, InterestInt, AmountTypes DEF AccountRow
  <1>4. PICK z, b : z = account[m].sukarela - fee /\ b = i - account[m].bunga
    OBVIOUS
  <1>5. z \in Int /\ b \in Int
    BY <1>3, <1>4
  <1>6. PICK after : after = [account[m] EXCEPT !.sukarela = z, !.bunga = i]
    OBVIOUS
  <1>7. after \in AccountRow /\ after.sukarela = z
    BY <1>1, <1>3, <1>5, <1>6 DEF AccountRow
  <1>8. account' = [account EXCEPT ![m] = after]
    BY <1>1, <1>2, <1>4, <1>6 DEF Debit
  <1>9. PICK row : row = [penarikan |-> fee, bunga |-> b, ref |-> c]
    OBVIOUS
  <1>10. row \in DebitRow /\ row.penarikan = fee /\ row.ref = c
    BY <1>5, <1>9 DEF DebitRow
  <1>11. debits' = [debits EXCEPT ![m] = Append(@, row)] /\ payslip' = payslip
    BY <1>2, <1>4, <1>9 DEF Debit
  <1> QED
    BY <1>4, <1>7, <1>8, <1>10, <1>11 DEF Debited

LEMMA DebitedTypes ==
  ASSUME Tables, NEW m \in Members, NEW fee \in Fees, NEW c \in Changes, Debited(m, fee, c)
  PROVE  /\ account' \in [Members -> AccountRow]
         /\ payslip' = payslip
         /\ debits' \in [Members -> Seq(DebitRow)]
  <1>1. account' \in [Members -> AccountRow]
    BY DEF Debited, Tables, TypeOK, DepositTypeOK
  <1>2. PICK row \in DebitRow : debits' = [debits EXCEPT ![m] = Append(@, row)]
    BY DEF Debited
  <1>3. Append(debits[m], row) \in Seq(DebitRow)
    BY AppendProperties DEF Tables, DebitsTyped
  <1>4. debits' \in [Members -> Seq(DebitRow)]
    BY <1>2, <1>3, Zenon DEF Tables, DebitsTyped
  <1> QED
    BY <1>1, <1>4 DEF Debited

\* Tables whose columns have their types.
LEMMA TablesWritten ==
  ASSUME account' \in [Members -> AccountRow],
         payslip' \in [Members -> [Periods -> Payslip]],
         debits' \in [Members -> Seq(DebitRow)],
         deposit' \in [Deposits -> {NoDeposit} \cup DepositRow],
         approvals' \in [Deposits \cup Changes -> [Steps -> Decisions]],
         overlaps' \in 0 .. MaxOverlaps,
         change' \in [Changes -> {NoChange, Deleted} \cup ChangeRow],
         adminFee' \in Fees, interrupted' \subseteq Changes, outrun' \in BOOLEAN,
         ChangesLinked'
  PROVE  Tables'
  <1>1. \A m \in Members : \A i \in DOMAIN debits'[m] : debits'[m][i] \in DebitRow
    BY ElementOfSeq, LenProperties
  <1>2. TypeOK'
    BY <1>1 DEF TypeOK, DepositTypeOK, DebitRow
  <1> QED
    BY <1>2 DEF Tables, DebitsTyped

LEMMA TableTypes ==
  ASSUME Tables
  PROVE  /\ account \in [Members -> AccountRow]
         /\ payslip \in [Members -> [Periods -> Payslip]]
         /\ debits \in [Members -> Seq(DebitRow)]
         /\ deposit \in [Deposits -> {NoDeposit} \cup DepositRow]
         /\ approvals \in [Deposits \cup Changes -> [Steps -> Decisions]]
         /\ overlaps \in 0 .. MaxOverlaps /\ overlaps \in Nat
         /\ change \in [Changes -> {NoChange, Deleted} \cup ChangeRow]
         /\ adminFee \in Fees /\ interrupted \subseteq Changes /\ outrun \in BOOLEAN
  BY DepositAssumption DEF Tables, TypeOK, DepositTypeOK, DebitsTyped

\* The row of a deposit that a signature moves.
SameTerms(row, old) ==
  /\ row.member = old.member /\ row.amount = old.amount /\ row.tenor = old.tenor
  /\ row.collected = old.collected /\ row.count = old.count

DepositDecided(r, d, row, s, v) ==
  /\ request[r] # Idle /\ request[r].id = d /\ request[r].seen.step = s
  /\ request[r].op = (IF v = "APPROVED" THEN "APPROVE" ELSE "REJECT")
  /\ deposit[d] \in DepositRow /\ SameTerms(row, deposit[d])
  /\ row.status = (IF v = "APPROVED" THEN StatusAfter(s) ELSE "REJECTED")
  /\ row.step = (IF v = "APPROVED" THEN StepAfter(s) ELSE NoStep)
  /\ deposit' = [deposit EXCEPT ![d] = row]
  /\ approvals' = [approvals EXCEPT ![d][s] = v]
  /\ Done(r) /\ UNCHANGED savingsVars

LEMMA StepTypes ==
  ASSUME NEW s \in Steps
  PROVE  StatusAfter(s) \in {"UNDER_REVIEW_KETUA", "APPROVED"} /\ StepAfter(s) \in Steps \cup {NoStep}
  BY DEF StatusAfter, StepAfter, Steps

LEMMA DepositDecisionFacts ==
  ASSUME Typed, NEW r \in Requests, CommitReject(r) \/ CommitApprove(r)
  PROVE  \E d \in Deposits, row \in DepositRow, s \in Steps, v \in {"APPROVED", "REJECTED"} :
            DepositDecided(r, d, row, s, v)
  <1>1. PICK q : q = request[r]
    OBVIOUS
  <1>2. q.op \in {"APPROVE", "REJECT"} /\ q # Idle
    BY <1>1 DEF CommitReject, CommitApprove, Is
  <1>3. PICK d \in Deposits, s \in Steps :
          d = q.id /\ s = q.seen.step /\ deposit[d] \in DepositRow
    BY <1>1, <1>2, RequestFacts, TableRows DEF Typed
  <1>4. CASE CommitReject(r)
    <2>1. PICK row : row = [deposit[d] EXCEPT !.status = "REJECTED", !.step = NoStep]
      OBVIOUS
    <2>2. /\ row \in DepositRow /\ SameTerms(row, deposit[d])
          /\ row.status = "REJECTED" /\ row.step = NoStep
      BY <1>3, <2>1 DEF DepositRow, SameTerms
    <2>3. /\ deposit' = [deposit EXCEPT ![d] = row]
          /\ approvals' = [approvals EXCEPT ![d][s] = "REJECTED"]
          /\ Done(r) /\ UNCHANGED savingsVars /\ q.op = "REJECT"
      BY <1>1, <1>3, <1>4, <2>1, TableTypes DEF CommitReject, Is, Typed
    <2>4. DepositDecided(r, d, row, s, "REJECTED")
      BY <1>1, <1>2, <1>3, <2>2, <2>3 DEF DepositDecided
    <2> QED
      BY <2>2, <2>4
  <1>5. CASE CommitApprove(r)
    <2>1. PICK row : row = [deposit[d] EXCEPT !.status = StatusAfter(s), !.step = StepAfter(s)]
      OBVIOUS
    <2>2. /\ row \in DepositRow /\ SameTerms(row, deposit[d])
          /\ row.status = StatusAfter(s) /\ row.step = StepAfter(s)
      BY <1>3, <2>1, StepTypes DEF DepositRow, SameTerms
    <2>3. /\ deposit' = [deposit EXCEPT ![d] = row]
          /\ approvals' = [approvals EXCEPT ![d][s] = "APPROVED"]
          /\ Done(r) /\ UNCHANGED savingsVars /\ q.op = "APPROVE"
      BY <1>1, <1>3, <1>5, <2>1, TableTypes DEF CommitApprove, Is, Typed
    <2>4. DepositDecided(r, d, row, s, "APPROVED")
      BY <1>1, <1>2, <1>3, <2>2, <2>3 DEF DepositDecided
    <2> QED
      BY <2>2, <2>4
  <1> QED
    BY <1>4, <1>5

\* An application with its approval records.
Created(d, row) ==
  /\ deposit[d] = NoDeposit
  /\ row.count = 0 /\ row.collected = 0
  /\ row.status = "UNDER_REVIEW_DSP" /\ row.step = "DIVISI_SIMPAN_PINJAM"
  /\ deposit' = [deposit EXCEPT ![d] = row]
  /\ approvals' = [approvals EXCEPT ![d] = OpenApprovals]
  /\ UNCHANGED <<savingsVars, request, overlaps>>

LEMMA CreateFacts ==
  ASSUME NEW d \in Deposits, NEW m \in Members, NEW amount \in Amounts, NEW tenor \in Tenors,
         Create(d, m, amount, tenor)
  PROVE  \E row \in DepositRow : Created(d, row)
  <1>1. PICK row : row = [member |-> m, amount |-> amount, tenor |-> tenor, collected |-> 0,
                          count |-> 0, status |-> "UNDER_REVIEW_DSP",
                          step |-> "DIVISI_SIMPAN_PINJAM"]
    OBVIOUS
  <1>2. /\ row \in DepositRow /\ row.count = 0 /\ row.collected = 0
        /\ row.status = "UNDER_REVIEW_DSP" /\ row.step = "DIVISI_SIMPAN_PINJAM"
    BY <1>1 DEF DepositRow, Steps
  <1> QED
    BY <1>1, <1>2 DEF Created, Create

\* What payroll collects in one run for one member.
InstallmentTaken(d, seen) ==
  /\ deposit'[d] \in DepositRow
  /\ deposit'[d].member = deposit[d].member /\ deposit'[d].amount = deposit[d].amount
  /\ deposit'[d].tenor = deposit[d].tenor /\ deposit'[d].step = deposit[d].step
  /\ deposit'[d].collected = deposit[d].collected + seen.amount
  /\ deposit'[d].count = seen.count + 1
  /\ deposit'[d].status = (IF seen.count + 1 >= seen.tenor THEN "COMPLETED" ELSE "ACTIVE")

Deducted(rows) == [d \in DOMAIN rows |-> rows[d].amount]

Paid(r, m, p, rows) ==
  /\ request[r] # Idle /\ request[r].op = "PAY"
  /\ request[r].id = p /\ request[r].seen.member = m /\ request[r].seen.rows = rows
  /\ \A d \in DOMAIN rows : /\ d \in Deposits /\ rows[d] \in DepositRow
                            /\ deposit[d] \in DepositRow /\ deposit[d].member = m
                            /\ deposit[d].collected = rows[d].collected
  /\ SumOf(Deducted(rows)) \in Nat
  /\ \E after \in AccountRow :
       /\ account' = [account EXCEPT ![m] = after]
       /\ after.sukarela = account[m].sukarela + SumOf(Deducted(rows))
  /\ \E slip \in Payslip :
       /\ payslip' = [payslip EXCEPT ![m][p] = slip]
       /\ slip.tabunganDeposito = payslip[m][p].tabunganDeposito + SumOf(Deducted(rows))
  /\ debits' = debits /\ approvals' = approvals
  /\ deposit' = [d \in Deposits |-> deposit'[d]]
  /\ \A d \in Deposits : IF d \in DOMAIN rows THEN InstallmentTaken(d, rows[d])
                                              ELSE deposit'[d] = deposit[d]
  /\ Done(r)

LEMMA InstallmentRow ==
  ASSUME NEW row \in DepositRow, NEW seen \in DepositRow, row.collected = seen.collected,
         NEW new, new = AfterInstallment(row, seen)
  PROVE  /\ new \in DepositRow
         /\ new.member = row.member /\ new.amount = row.amount
         /\ new.tenor = row.tenor /\ new.step = row.step
         /\ new.collected = row.collected + seen.amount
         /\ new.count = seen.count + 1
         /\ new.status = (IF seen.count + 1 >= seen.tenor THEN "COMPLETED" ELSE "ACTIVE")
  <1>1. PICK x, y, z : /\ x = seen.collected + seen.amount /\ y = seen.count + 1
                       /\ z = IF seen.count + 1 >= seen.tenor THEN "COMPLETED" ELSE "ACTIVE"
    OBVIOUS
  <1>2. seen.amount \in Nat /\ seen.collected \in Nat /\ seen.count \in Nat
    BY DepositRows, AmountTypes
  <1>3. x \in Nat /\ y \in Nat /\ z \in {"ACTIVE", "COMPLETED"}
    BY <1>1, <1>2
  <1>4. new = [row EXCEPT !.collected = x, !.count = y, !.status = z]
    BY <1>1 DEF AfterInstallment
  <1>5. /\ new \in DepositRow
        /\ new.member = row.member /\ new.amount = row.amount
        /\ new.tenor = row.tenor /\ new.step = row.step
        /\ new.collected = x /\ new.count = y /\ new.status = z
    BY <1>3, <1>4 DEF DepositRow
  <1> QED
    BY <1>1, <1>5

LEMMA PaidFacts ==
  ASSUME Typed, NEW r \in Requests, CommitPay(r)
  PROVE  \E m, p, rows : m \in Members /\ p \in Periods /\ Paid(r, m, p, rows)
  <1>1. request[r] # Idle /\ request[r].op = "PAY"
    BY DEF CommitPay, Is
  <1>2. PICK m, p, rows :
          /\ m \in Members /\ p \in Periods
          /\ m = request[r].seen.member /\ p = request[r].id /\ rows = request[r].seen.rows
    BY <1>1, PayFacts
  <1>3. \A d \in DOMAIN rows : /\ d \in Deposits /\ rows[d] \in DepositRow
                               /\ deposit[d] \in DepositRow /\ deposit[d].member = m
                               /\ deposit[d].collected = rows[d].collected
    BY <1>1, <1>2, PayFacts
  <1>4. PICK n : n = SumOf(Deducted(rows))
    OBVIOUS
  <1>5. n \in Nat
    <2>1. IsFiniteSet(DOMAIN rows)
      BY <1>3, AmountTypes, FS_Subset
    <2>2. \A d \in DOMAIN rows : rows[d].amount \in Nat
      BY <1>3, DepositRows, AmountTypes
    <2>3. Deducted(rows) \in [DOMAIN rows -> Nat]
      BY <2>2 DEF Deducted
    <2> QED
      BY <1>4, <2>1, <2>3, SumOfNat
  <1>6. /\ account' = [account EXCEPT ![m] = AccountAfter(account[m], 0, n)]
        /\ payslip' = [payslip EXCEPT ![m][p] = PayslipAfter(payslip[m][p], account[m], 0, n)]
        /\ deposit' = [d \in Deposits |->
             IF d \in DOMAIN rows THEN AfterInstallment(deposit[d], rows[d]) ELSE deposit[d]]
        /\ Done(r) /\ debits' = debits /\ approvals' = approvals
    BY <1>2, <1>4, TableTypes DEF CommitPay, Deducted, Typed
  <1>7. account[m] \in AccountRow /\ payslip[m][p] \in Payslip
    BY <1>2, TableTypes DEF Typed
  <1>8. PICK after \in AccountRow, slip \in Payslip :
          /\ after = AccountAfter(account[m], 0, n)
          /\ after.sukarela = account[m].sukarela + n
          /\ slip = PayslipAfter(payslip[m][p], account[m], 0, n)
          /\ slip.tabunganDeposito = payslip[m][p].tabunganDeposito + n
    BY <1>5, <1>7, MonthBooked
  <1>9. ASSUME NEW d \in Deposits
        PROVE  IF d \in DOMAIN rows THEN InstallmentTaken(d, rows[d]) ELSE deposit'[d] = deposit[d]
    <2>1. d \in DOMAIN rows => deposit'[d] = AfterInstallment(deposit[d], rows[d])
      BY <1>6
    <2>2. d \notin DOMAIN rows => deposit'[d] = deposit[d]
      BY <1>6
    <2>3. ASSUME d \in DOMAIN rows
          PROVE  InstallmentTaken(d, rows[d])
      <3>1. rows[d] \in DepositRow /\ deposit[d] \in DepositRow
            /\ deposit[d].collected = rows[d].collected
        BY <1>3, <2>3
      <3> QED
        BY <2>1, <2>3, <3>1, InstallmentRow DEF InstallmentTaken
    <2> QED
      BY <2>2, <2>3
  <1>10. Paid(r, m, p, rows)
    BY <1>1, <1>2, <1>3, <1>4, <1>5, <1>6, <1>8, <1>9 DEF Paid
  <1> QED
    BY <1>2, <1>10

\* The row of a change that a signature moves.
SameChange(row, old) ==
  /\ row.deposit = old.deposit /\ row.type = old.type /\ row.new = old.new
  /\ row.fee = old.fee /\ row.current = old.current

ChangeDecided(r, c, row, s, v) ==
  /\ request[r] # Idle /\ request[r].id = c /\ request[r].seen.step = s
  /\ request[r].op = (IF v = "APPROVED" THEN "APPROVE_CHANGE" ELSE "REJECT_CHANGE")
  /\ change[c] \in ChangeRow /\ SameChange(row, change[c])
  /\ row.status = (IF v = "APPROVED" THEN StatusAfter(s) ELSE "REJECTED")
  /\ row.step = (IF v = "APPROVED" THEN StepAfter(s) ELSE NoStep)
  /\ change' = [change EXCEPT ![c] = row]
  /\ approvals' = [approvals EXCEPT ![c][s] = v]
  /\ Done(r) /\ UNCHANGED <<adminFee, interrupted, outrun>>

LEMMA ChangeDecisionFacts ==
  ASSUME Typed, NEW r \in Requests,
         \/ CommitChangeReject(r) \/ CommitFirstApproval(r)
         \/ \E row : LastApproval(r, row)
  PROVE  \E c \in Changes, row \in ChangeRow, s \in Steps, v \in {"APPROVED", "REJECTED"} :
            ChangeDecided(r, c, row, s, v)
  <1>1. PICK q : q = request[r]
    OBVIOUS
  <1>2. q.op \in {"APPROVE_CHANGE", "REJECT_CHANGE"} /\ q # Idle /\ Exists(q.id) /\ Done(r)
        /\ UNCHANGED <<adminFee, interrupted, outrun>>
    BY <1>1 DEF CommitChangeReject, CommitFirstApproval, LastApproval, Is
  <1>3. PICK c \in Changes, s \in Steps : c = q.id /\ s = q.seen.step /\ change[c] \in ChangeRow
    BY <1>1, <1>2, RequestFacts, TableRows DEF Typed
  <1>4. PICK v \in {"APPROVED", "REJECTED"} :
          v = IF CommitChangeReject(r) THEN "REJECTED" ELSE "APPROVED"
    OBVIOUS
  <1>5. PICK row : row = [change[c] EXCEPT
          !.status = (IF v = "APPROVED" THEN StatusAfter(s) ELSE "REJECTED"),
          !.step = (IF v = "APPROVED" THEN StepAfter(s) ELSE NoStep)]
    OBVIOUS
  <1>6. /\ row \in ChangeRow /\ SameChange(row, change[c])
        /\ row.status = (IF v = "APPROVED" THEN StatusAfter(s) ELSE "REJECTED")
        /\ row.step = (IF v = "APPROVED" THEN StepAfter(s) ELSE NoStep)
    BY <1>3, <1>4, <1>5, StepTypes DEF ChangeRow, SameChange
  <1>7. /\ change' = [change EXCEPT ![c] = row]
        /\ approvals' = [approvals EXCEPT ![c][s] = v]
        /\ q.op = (IF v = "APPROVED" THEN "APPROVE_CHANGE" ELSE "REJECT_CHANGE")
    <2>1. CASE CommitChangeReject(r)
      BY <1>1, <1>3, <1>4, <1>5, <2>1, TableTypes DEF CommitChangeReject, Is, Typed
    <2>2. CASE ~CommitChangeReject(r) /\ CommitFirstApproval(r)
      BY <1>1, <1>3, <1>4, <1>5, <2>2, TableTypes DEF CommitFirstApproval, Is, Typed
    <2>3. CASE ~CommitChangeReject(r) /\ \E x : LastApproval(r, x)
      <3>1. StepAfter(s) = NoStep /\ StatusAfter(s) = "APPROVED"
        BY <1>1, <1>3, <2>3 DEF LastApproval, StatusAfter
      <3> QED
        BY <1>1, <1>3, <1>4, <1>5, <2>3, <3>1, TableTypes DEF LastApproval, Is, Typed
    <2> QED
      BY <2>1, <2>2, <2>3
  <1>8. ChangeDecided(r, c, row, s, v)
    BY <1>1, <1>2, <1>3, <1>6, <1>7 DEF ChangeDecided
  <1> QED
    BY <1>6, <1>8

\* What the last signature does to the deposit and to the account.
TermsChanged(r, d, row) ==
  LET seen == request[r].seen
  IN  /\ request[r] # Idle /\ seen.type = "CHANGE" /\ seen.deposit = d
      /\ StepAfter(seen.step) = NoStep
      /\ deposit[d] \in DepositRow
      /\ row.member = deposit[d].member /\ row.collected = deposit[d].collected
      /\ row.count = deposit[d].count
      /\ row.status = deposit[d].status /\ row.step = deposit[d].step
      /\ row.amount = seen.new.amount /\ row.tenor = seen.new.tenor
      /\ deposit' = [deposit EXCEPT ![d] = row]
      /\ Debited(deposit[d].member, adminFee, request[r].id)

Stopped(r, d, row) ==
  LET seen == request[r].seen
  IN  /\ request[r] # Idle /\ seen.type = "STOP" /\ seen.deposit = d
      /\ StepAfter(seen.step) = NoStep
      /\ deposit[d] \in DepositRow
      /\ SameTerms(row, deposit[d]) /\ row.status = "COMPLETED" /\ row.step = NoStep
      /\ deposit' = [deposit EXCEPT ![d] = row]
      /\ IF seen.fee > 0 THEN Debited(deposit[d].member, seen.fee, request[r].id)
                         ELSE UNCHANGED savingsVars

LEMMA LastFacts ==
  ASSUME Typed, NEW r \in Requests, NEW row, LastApproval(r, row)
  PROVE  LET q == request[r]
         IN  /\ q # Idle /\ q.id \in Changes /\ q.seen \in ChangeRow /\ q.seen.deposit \in Deposits
             /\ deposit[q.seen.deposit] \in DepositRow
             /\ q.seen.type = "CHANGE" => q.seen.new \in Terms
             /\ StepAfter(q.seen.step) = NoStep
             /\ deposit' = [deposit EXCEPT ![q.seen.deposit] = row]
  <1>1. PICK q : q = request[r]
    OBVIOUS
  <1>2. q.op = "APPROVE_CHANGE" /\ q # Idle
    BY <1>1 DEF LastApproval, Is
  <1>3. q.id \in Changes /\ q.seen \in ChangeRow /\ Linked(q.seen, deposit)
    BY <1>1, <1>2, RequestFacts
  <1>4. q.seen.deposit \in Deposits /\ deposit[q.seen.deposit] \in DepositRow
    BY <1>3, ChangeRows, TableRows DEF Linked, Typed
  <1>5. StepAfter(q.seen.step) = NoStep /\ deposit' = [deposit EXCEPT ![q.seen.deposit] = row]
    BY <1>1 DEF LastApproval
  <1> QED
    BY <1>1, <1>2, <1>3, <1>4, <1>5 DEF Linked

LEMMA CommitChangeFacts ==
  ASSUME Typed, NEW r \in Requests, CommitChange(r)
  PROVE  \E d \in Deposits, row \in DepositRow : TermsChanged(r, d, row)
  <1>1. PICK q : q = request[r]
    OBVIOUS
  <1>2. PICK row : row = [deposit[q.seen.deposit] EXCEPT !.amount = q.seen.new.amount,
                                                         !.tenor = q.seen.new.tenor]
    OBVIOUS
  <1>3. LastApproval(r, row) /\ q.seen.type = "CHANGE" /\ Charge(q, adminFee)
    BY <1>1, <1>2 DEF CommitChange
  <1>4. /\ q # Idle /\ q.id \in Changes /\ q.seen.deposit \in Deposits
        /\ deposit[q.seen.deposit] \in DepositRow /\ q.seen.new \in Terms
        /\ StepAfter(q.seen.step) = NoStep
        /\ deposit' = [deposit EXCEPT ![q.seen.deposit] = row]
    BY <1>1, <1>3, LastFacts
  <1>5. PICK d \in Deposits : d = q.seen.deposit
    BY <1>4
  <1>6. /\ row \in DepositRow
        /\ row.member = deposit[d].member /\ row.collected = deposit[d].collected
        /\ row.count = deposit[d].count
        /\ row.status = deposit[d].status /\ row.step = deposit[d].step
        /\ row.amount = q.seen.new.amount /\ row.tenor = q.seen.new.tenor
    BY <1>2, <1>4, <1>5 DEF DepositRow, Terms
  <1>7. Debited(deposit[d].member, adminFee, q.id)
    <2>1. Debit(deposit[d].member, account[deposit[d].member], adminFee, q.id)
      BY <1>3, <1>5 DEF Charge
    <2> QED
      BY <1>4, <1>5, <2>1, DebitFacts, DepositRows, TableTypes DEF Typed
  <1>8. TermsChanged(r, d, row)
    BY <1>1, <1>3, <1>4, <1>5, <1>6, <1>7 DEF TermsChanged
  <1> QED
    BY <1>6, <1>8

LEMMA CommitStopFacts ==
  ASSUME Typed, NEW r \in Requests, CommitStop(r)
  PROVE  \E d \in Deposits, row \in DepositRow : Stopped(r, d, row)
  <1>1. PICK q : q = request[r]
    OBVIOUS
  <1>2. PICK row : row = [deposit[q.seen.deposit] EXCEPT !.status = "COMPLETED", !.step = NoStep]
    OBVIOUS
  <1>3. LastApproval(r, row) /\ q.seen.type = "STOP"
        /\ IF q.seen.fee > 0 THEN Charge(q, q.seen.fee) ELSE UNCHANGED savingsVars
    BY <1>1, <1>2 DEF CommitStop, StopFee
  <1>4. /\ q # Idle /\ q.id \in Changes /\ q.seen.deposit \in Deposits
        /\ deposit[q.seen.deposit] \in DepositRow /\ q.seen \in ChangeRow
        /\ StepAfter(q.seen.step) = NoStep
        /\ deposit' = [deposit EXCEPT ![q.seen.deposit] = row]
    BY <1>1, <1>3, LastFacts
  <1>5. PICK d \in Deposits : d = q.seen.deposit
    BY <1>4
  <1>6. /\ row \in DepositRow /\ SameTerms(row, deposit[d])
        /\ row.status = "COMPLETED" /\ row.step = NoStep
    BY <1>2, <1>4, <1>5 DEF DepositRow, SameTerms
  <1>7. IF q.seen.fee > 0 THEN Debited(deposit[d].member, q.seen.fee, q.id)
                          ELSE UNCHANGED savingsVars
    <2>1. q.seen.fee > 0 => Debit(deposit[d].member, account[deposit[d].member], q.seen.fee, q.id)
      BY <1>3, <1>5 DEF Charge
    <2>2. q.seen.fee \in Fees /\ deposit[d].member \in Members
      BY <1>4, <1>5, ChangeRows, DepositRows
    <2> QED
      BY <1>3, <1>4, <2>1, <2>2, DebitFacts DEF Typed
  <1>8. Stopped(r, d, row)
    BY <1>1, <1>3, <1>4, <1>5, <1>6, <1>7 DEF Stopped
  <1> QED
    BY <1>6, <1>8

-----------------------------------------------------------------------------
(* Every step keeps the types and the links.                               *)

LEMMA DecisionTypes ==
  /\ NoApprovals \in [Steps -> Decisions] /\ OpenApprovals \in [Steps -> Decisions]
  /\ {"OPEN", "APPROVED", "REJECTED"} \subseteq Decisions
  BY DEF NoApprovals, OpenApprovals, Decisions

LEMMA ApprovalsWritten ==
  ASSUME Tables, NEW x \in Deposits \cup Changes,
         \/ \E a \in [Steps -> Decisions] : approvals' = [approvals EXCEPT ![x] = a]
         \/ \E s \in Steps, v \in {"APPROVED", "REJECTED"} :
              approvals' = [approvals EXCEPT ![x][s] = v]
  PROVE  approvals' \in [Deposits \cup Changes -> [Steps -> Decisions]]
  <1>1. approvals \in [Deposits \cup Changes -> [Steps -> Decisions]]
    BY TableTypes
  <1>2. CASE \E a \in [Steps -> Decisions] : approvals' = [approvals EXCEPT ![x] = a]
    BY <1>1, <1>2
  <1>3. CASE \E s \in Steps, v \in {"APPROVED", "REJECTED"} :
               approvals' = [approvals EXCEPT ![x][s] = v]
    <2>1. PICK s \in Steps, v \in {"APPROVED", "REJECTED"} :
            approvals' = [approvals EXCEPT ![x][s] = v]
      BY <1>3
    <2>2. PICK a : a = [approvals[x] EXCEPT ![s] = v]
      OBVIOUS
    <2>3. a \in [Steps -> Decisions]
      BY <1>1, <2>2 DEF Decisions
    <2>4. approvals' = [approvals EXCEPT ![x] = a]
      BY <2>1, <2>2
    <2> QED
      BY <1>1, <2>3, <2>4
  <1> QED
    BY <1>2, <1>3

LEMMA DepositWritten ==
  ASSUME Tables, NEW d \in Deposits, NEW row \in DepositRow,
         deposit' = [deposit EXCEPT ![d] = row]
  PROVE  /\ deposit' \in [Deposits -> {NoDeposit} \cup DepositRow]
         /\ deposit'[d] = row /\ \A e \in Deposits \ {d} : deposit'[e] = deposit[e]
         /\ (deposit[d] # NoDeposit => row.member = deposit[d].member)
              => Kept(deposit, deposit')
         /\ (deposit[d] # NoDeposit => row.collected = deposit[d].collected)
              => SameCollected(deposit, deposit')
  BY TableTypes, DepositRows DEF Kept, SameCollected

LEMMA ChangeWritten ==
  ASSUME Tables, NEW c \in Changes, NEW row \in {NoChange, Deleted} \cup ChangeRow,
         change' = [change EXCEPT ![c] = row]
  PROVE  /\ change' \in [Changes -> {NoChange, Deleted} \cup ChangeRow]
         /\ change'[c] = row /\ \A b \in Changes \ {c} : change'[b] = change[b]
  BY TableTypes

\* The links stay when a change is written whose own link is kept.
LEMMA LinkWritten ==
  ASSUME Typed, Kept(deposit, deposit'), NEW c \in Changes, NEW row,
         row \in {NoChange, Deleted} \/ (row \in ChangeRow /\ Linked(row, deposit)),
         change' = [change EXCEPT ![c] = row]
  PROVE  ChangesLinked'
  <1> SUFFICES ASSUME NEW b \in Changes, Exists(b)'
               PROVE  Linked(change'[b], deposit')
    BY DEF ChangesLinked, Linked
  <1>1. change'[b] = IF b = c THEN row ELSE change[b]
    BY TableTypes DEF Typed
  <1>2. change'[b] \notin {NoChange, Deleted}
    BY DEF Exists
  <1>3. b # c => Exists(b) /\ Linked(change[b], deposit) /\ change[b] \in ChangeRow
    BY <1>1, <1>2, TableRows DEF Exists, Typed, Tables, ChangesLinked
  <1>4. Linked(change'[b], deposit) /\ change'[b] \in ChangeRow
    BY <1>1, <1>2, <1>3
  <1> QED
    BY <1>4, ChangeRows DEF Linked, Kept

LEMMA DepositsKept ==
  ASSUME UNCHANGED deposit
  PROVE  Kept(deposit, deposit') /\ SameCollected(deposit, deposit')
  BY DEF Kept, SameCollected

LEMMA CreatedTyped ==
  ASSUME Typed, NEW d \in Deposits, NEW row \in DepositRow, Created(d, row),
         UNCHANGED changeVars
  PROVE  Typed'
  <1>1. /\ deposit' \in [Deposits -> {NoDeposit} \cup DepositRow]
        /\ Kept(deposit, deposit') /\ SameCollected(deposit, deposit')
    BY DepositWritten DEF Created, Typed
  <1>2. approvals' \in [Deposits \cup Changes -> [Steps -> Decisions]]
    BY ApprovalsWritten, DecisionTypes DEF Created, Typed
  <1>3. ChangesLinked'
    BY <1>1, LinksKept DEF changeVars
  <1>4. UNCHANGED <<account, payslip, debits, request, overlaps, change, adminFee, interrupted,
                    outrun>>
    BY DEF Created, savingsVars, changeVars
  <1>5. Tables'
    BY <1>1, <1>2, <1>3, <1>4, TablesWritten, TableTypes DEF Typed
  <1>6. RequestsTyped'
    <2> SUFFICES ASSUME NEW s \in Requests
                 PROVE  RequestTyped(request'[s], deposit')
      BY <1>4 DEF RequestsTyped, Typed
    <2>1. RequestTyped(request[s], deposit) /\ request'[s] = request[s]
      BY <1>4 DEF RequestsTyped, Typed
    <2> QED
      BY <1>1, <2>1, RequestKept DEF Kept, SameCollected
  <1>7. OnePayroll'
    BY <1>4 DEF Typed, OnePayroll, Is
  <1> QED
    BY <1>5, <1>6, <1>7 DEF Typed

LEMMA DecidedTyped ==
  ASSUME Typed, NEW r \in Requests, NEW d \in Deposits, NEW row \in DepositRow, NEW s \in Steps,
         NEW v \in {"APPROVED", "REJECTED"}, DepositDecided(r, d, row, s, v),
         UNCHANGED changeVars
  PROVE  Typed'
  <1>1. /\ deposit' \in [Deposits -> {NoDeposit} \cup DepositRow]
        /\ Kept(deposit, deposit') /\ SameCollected(deposit, deposit')
    BY DepositWritten DEF DepositDecided, SameTerms, Typed
  <1>2. approvals' \in [Deposits \cup Changes -> [Steps -> Decisions]]
    BY ApprovalsWritten DEF DepositDecided, Typed
  <1>3. ChangesLinked'
    BY <1>1, LinksKept DEF changeVars
  <1>4. UNCHANGED <<account, payslip, debits, overlaps, change, adminFee, interrupted, outrun>>
    BY DEF DepositDecided, Done, savingsVars, changeVars
  <1>5. Tables'
    BY <1>1, <1>2, <1>3, <1>4, TablesWritten, TableTypes DEF Typed
  <1> QED
    BY <1>1, <1>5, DoneTyped DEF DepositDecided

LEMMA PaidTyped ==
  ASSUME Typed, NEW r \in Requests, NEW m \in Members, NEW p \in Periods, NEW rows,
         Paid(r, m, p, rows), outrun' \in BOOLEAN, UNCHANGED <<change, adminFee, interrupted>>
  PROVE  Typed'
  <1>1. \A d \in Deposits : IF d \in DOMAIN rows THEN InstallmentTaken(d, rows[d])
                                                 ELSE deposit'[d] = deposit[d]
    BY DEF Paid
  <1>2. Kept(deposit, deposit')
    <2> SUFFICES ASSUME NEW d \in Deposits, deposit[d] # NoDeposit
                 PROVE  deposit'[d] # NoDeposit /\ deposit'[d].member = deposit[d].member
      BY DEF Kept
    <2>1. d \in DOMAIN rows => InstallmentTaken(d, rows[d])
      BY <1>1
    <2> QED
      BY <1>1, <2>1, DepositRows DEF InstallmentTaken
  <1>3. deposit' \in [Deposits -> {NoDeposit} \cup DepositRow]
    <2>1. deposit' = [d \in Deposits |-> deposit'[d]]
      BY DEF Paid
    <2>2. \A d \in Deposits : deposit'[d] \in {NoDeposit} \cup DepositRow
      <3> SUFFICES ASSUME NEW d \in Deposits
                   PROVE  deposit'[d] \in {NoDeposit} \cup DepositRow
        OBVIOUS
      <3>1. d \in DOMAIN rows => InstallmentTaken(d, rows[d])
        BY <1>1
      <3>2. deposit[d] \in {NoDeposit} \cup DepositRow
        BY TableTypes DEF Typed
      <3> QED
        BY <1>1, <3>1, <3>2 DEF InstallmentTaken
    <2> QED
      BY <2>1, <2>2
  <1>4. account' \in [Members -> AccountRow] /\ payslip' \in [Members -> [Periods -> Payslip]]
    BY TableTypes DEF Typed, Paid
  <1>5. ChangesLinked'
    BY <1>2, LinksKept
  <1>6. UNCHANGED <<debits, approvals, overlaps, change, adminFee, interrupted>> /\ Done(r)
    BY DEF Paid, Done
  <1>7. Tables'
    BY <1>3, <1>4, <1>5, <1>6, TablesWritten, TableTypes DEF Typed
  <1> QED
    BY <1>2, <1>6, <1>7, DoneTyped DEF Paid

\* What a change of the deposits' requests leaves of the tables.
LEMMA ChangeStepTyped ==
  ASSUME Typed, NEW r \in Requests, Done(r),
         account' \in [Members -> AccountRow], UNCHANGED payslip,
         debits' \in [Members -> Seq(DebitRow)],
         deposit' \in [Deposits -> {NoDeposit} \cup DepositRow],
         Kept(deposit, deposit'), SameCollected(deposit, deposit'),
         approvals' \in [Deposits \cup Changes -> [Steps -> Decisions]],
         NEW c \in Changes, NEW row, change' = [change EXCEPT ![c] = row],
         row \in {NoChange, Deleted} \/ (row \in ChangeRow /\ Linked(row, deposit)),
         UNCHANGED <<adminFee, interrupted, outrun>>
  PROVE  Typed'
  <1>1. ChangesLinked'
    BY LinkWritten
  <1>2. change' \in [Changes -> {NoChange, Deleted} \cup ChangeRow]
    BY ChangeWritten DEF Typed
  <1>3. UNCHANGED overlaps
    BY DEF Done
  <1>4. Tables'
    BY <1>1, <1>2, <1>3, TablesWritten, TableTypes DEF Typed
  <1> QED
    BY <1>4, DoneTyped

LEMMA ChangeDecidedTyped ==
  ASSUME Typed, NEW r \in Requests, NEW c \in Changes, NEW row \in ChangeRow, NEW s \in Steps,
         NEW v \in {"APPROVED", "REJECTED"}, ChangeDecided(r, c, row, s, v),
         account' \in [Members -> AccountRow], UNCHANGED payslip,
         debits' \in [Members -> Seq(DebitRow)],
         deposit' \in [Deposits -> {NoDeposit} \cup DepositRow],
         Kept(deposit, deposit'), SameCollected(deposit, deposit')
  PROVE  Typed'
  <1>1. approvals' \in [Deposits \cup Changes -> [Steps -> Decisions]]
    BY ApprovalsWritten DEF ChangeDecided, Typed
  <1>2. Linked(row, deposit)
    <2>1. Exists(c)
      BY ChangeRows DEF ChangeDecided, Exists
    <2>2. Linked(change[c], deposit)
      BY <2>1 DEF Typed, Tables, ChangesLinked
    <2> QED
      BY <2>2 DEF Linked, ChangeDecided, SameChange
  <1> QED
    BY <1>1, <1>2, ChangeStepTyped DEF ChangeDecided

LEMMA SignaturesTyped ==
  ASSUME Typed, NEW r \in Requests,
         CommitChangeReject(r) \/ CommitFirstApproval(r) \/ CommitChange(r) \/ CommitStop(r)
  PROVE  Typed'
  <1>1. \/ CommitChangeReject(r) \/ CommitFirstApproval(r)
        \/ \E row : LastApproval(r, row)
    BY DEF CommitChange, CommitStop
  <1>2. PICK c \in Changes, row \in ChangeRow, s \in Steps, v \in {"APPROVED", "REJECTED"} :
          ChangeDecided(r, c, row, s, v)
    BY <1>1, ChangeDecisionFacts
  <1>3. request[r].id = c
    BY <1>2 DEF ChangeDecided
  <1>4. CASE CommitChangeReject(r) \/ CommitFirstApproval(r)
    <2>1. UNCHANGED savingsVars /\ UNCHANGED deposit
      BY <1>4 DEF CommitChangeReject, CommitFirstApproval
    <2> QED
      BY <1>2, <2>1, ChangeDecidedTyped, DepositsKept, TableTypes DEF savingsVars, Typed
  <1>5. CASE CommitChange(r)
    <2>1. PICK d \in Deposits, new \in DepositRow : TermsChanged(r, d, new)
      BY <1>5, CommitChangeFacts
    <2>2. /\ deposit' \in [Deposits -> {NoDeposit} \cup DepositRow]
          /\ Kept(deposit, deposit') /\ SameCollected(deposit, deposit')
      BY <2>1, DepositWritten DEF TermsChanged, Typed
    <2>3. /\ account' \in [Members -> AccountRow] /\ payslip' = payslip
          /\ debits' \in [Members -> Seq(DebitRow)]
      BY <1>3, <2>1, DebitedTypes, DepositRows, TableTypes DEF TermsChanged, Typed
    <2> QED
      BY <1>2, <2>2, <2>3, ChangeDecidedTyped
  <1>6. CASE CommitStop(r)
    <2>1. PICK d \in Deposits, new \in DepositRow : Stopped(r, d, new)
      BY <1>6, CommitStopFacts
    <2>2. /\ deposit' \in [Deposits -> {NoDeposit} \cup DepositRow]
          /\ Kept(deposit, deposit') /\ SameCollected(deposit, deposit')
      BY <2>1, DepositWritten DEF Stopped, SameTerms, Typed
    <2>3. request[r].seen.fee \in Fees
      <3>1. \E x : LastApproval(r, x)
        BY <1>6 DEF CommitStop
      <3> QED
        BY <3>1, LastFacts, ChangeRows
    <2>4. /\ account' \in [Members -> AccountRow] /\ payslip' = payslip
          /\ debits' \in [Members -> Seq(DebitRow)]
      <3>1. CASE request[r].seen.fee > 0
        BY <1>3, <2>1, <2>3, <3>1, DebitedTypes, DepositRows, TableTypes DEF Stopped, Typed
      <3>2. CASE ~(request[r].seen.fee > 0)
        BY <2>1, <3>2, TableTypes DEF Stopped, Typed, savingsVars
      <3> QED
        BY <3>1, <3>2
    <2> QED
      BY <1>2, <2>2, <2>4, ChangeDecidedTyped
  <1> QED
    BY <1>4, <1>5, <1>6

\* What the member writes: a draft, its terms, its submission, its end.
LEMMA CommitCreateTyped ==
  ASSUME Typed, NEW r \in Requests, CommitCreate(r)
  PROVE  Typed'
  <1>1. PICK c \in Changes : change' = [change EXCEPT ![c] = request[r].seen]
    BY DEF CommitCreate, Insert
  <1>2. request[r].seen \in ChangeRow /\ Linked(request[r].seen, deposit)
    BY RequestFacts DEF CommitCreate, Is
  <1>3. /\ UNCHANGED <<account, payslip, debits, deposit, approvals, adminFee, interrupted, outrun>>
        /\ Done(r)
    BY DEF CommitCreate, savingsVars
  <1> QED
    BY <1>1, <1>2, <1>3, ChangeStepTyped, DepositsKept, TableTypes DEF Typed

LEMMA EditFacts ==
  ASSUME Typed, NEW r \in Requests, CommitEdit(r)
  PROVE  \E c \in Changes, row \in ChangeRow, new \in Terms :
           /\ request[r].op = "EDIT" /\ request[r].id = c /\ request[r].seen = new
           /\ change[c] \in ChangeRow /\ row = [change[c] EXCEPT !.new = new]
           /\ change' = [change EXCEPT ![c] = row]
  <1>1. PICK c \in Changes, new \in Terms :
          /\ c = request[r].id /\ new = request[r].seen /\ change[c] \in ChangeRow
          /\ request[r].op = "EDIT"
    BY RequestFacts, TableRows DEF CommitEdit, Is, Typed
  <1>2. PICK row : row = [change[c] EXCEPT !.new = new]
    OBVIOUS
  <1>3. row \in ChangeRow
    BY <1>1, <1>2 DEF ChangeRow, Terms
  <1>4. change' = [change EXCEPT ![c] = row]
    BY <1>1, <1>2 DEF CommitEdit
  <1> QED
    BY <1>1, <1>2, <1>3, <1>4

LEMMA CommitEditTyped ==
  ASSUME Typed, NEW r \in Requests, CommitEdit(r)
  PROVE  Typed'
  <1>1. PICK c \in Changes, row \in ChangeRow, new \in Terms :
          /\ change[c] \in ChangeRow /\ row = [change[c] EXCEPT !.new = new]
          /\ change' = [change EXCEPT ![c] = row]
    BY EditFacts
  <1>2. Linked(row, deposit)
    <2>1. Linked(change[c], deposit)
      BY <1>1, ChangeRows DEF Typed, Tables, ChangesLinked, Exists
    <2>2. row.deposit = change[c].deposit /\ row.new = new
      BY <1>1 DEF ChangeRow
    <2> QED
      BY <2>1, <2>2 DEF Linked
  <1>3. /\ UNCHANGED <<account, payslip, debits, deposit, approvals, adminFee, interrupted, outrun>>
        /\ Done(r)
    BY DEF CommitEdit, savingsVars
  <1> QED
    BY <1>1, <1>2, <1>3, ChangeStepTyped, DepositsKept, TableTypes DEF Typed

Submitted(r, c, row, found) ==
  /\ request[r].op = "SUBMIT" /\ request[r].id = c
  /\ change[c] \in ChangeRow /\ SameChange(row, change[c])
  /\ row.status = "SUBMITTED" /\ row.step = "DIVISI_SIMPAN_PINJAM"
  /\ change' = [change EXCEPT ![c] = row]
  /\ found \in {OpenApprovals, approvals[c]} \ {NoApprovals}
  /\ approvals' = [approvals EXCEPT ![c] = found]

LEMMA SubmitFacts ==
  ASSUME Typed, NEW r \in Requests, CommitSubmit(r)
  PROVE  \E c \in Changes, row \in ChangeRow, found \in [Steps -> Decisions] :
           Submitted(r, c, row, found)
  <1>1. PICK c \in Changes :
          c = request[r].id /\ change[c] \in ChangeRow /\ request[r].op = "SUBMIT"
    BY RequestFacts, TableRows DEF CommitSubmit, Is, Typed
  <1>2. PICK row : row = [change[c] EXCEPT !.status = "SUBMITTED", !.step = "DIVISI_SIMPAN_PINJAM"]
    OBVIOUS
  <1>3. /\ row \in ChangeRow /\ SameChange(row, change[c])
        /\ row.status = "SUBMITTED" /\ row.step = "DIVISI_SIMPAN_PINJAM"
    BY <1>1, <1>2 DEF ChangeRow, SameChange, Steps
  <1>4. change' = [change EXCEPT ![c] = row]
    BY <1>1, <1>2 DEF CommitSubmit
  <1>5. PICK found \in {OpenApprovals, approvals[c]} \ {NoApprovals} :
          approvals' = [approvals EXCEPT ![c] = found]
    BY <1>1 DEF CommitSubmit
  <1>6. found \in [Steps -> Decisions]
    BY <1>5, TableTypes, DecisionTypes DEF Typed
  <1> QED
    BY <1>1, <1>3, <1>4, <1>5, <1>6 DEF Submitted

LEMMA CommitSubmitTyped ==
  ASSUME Typed, NEW r \in Requests, CommitSubmit(r)
  PROVE  Typed'
  <1>1. PICK c \in Changes, row \in ChangeRow, found \in [Steps -> Decisions] :
          Submitted(r, c, row, found)
    BY SubmitFacts
  <1>2. Linked(row, deposit)
    <2>1. Linked(change[c], deposit)
      BY <1>1, ChangeRows DEF Typed, Tables, ChangesLinked, Exists, Submitted
    <2> QED
      BY <1>1, <2>1 DEF Linked, Submitted, SameChange
  <1>3. approvals' \in [Deposits \cup Changes -> [Steps -> Decisions]]
    BY <1>1, ApprovalsWritten DEF Submitted, Typed
  <1>4. UNCHANGED <<account, payslip, debits, deposit, adminFee, interrupted, outrun>> /\ Done(r)
    BY DEF CommitSubmit, savingsVars
  <1> QED
    BY <1>1, <1>2, <1>3, <1>4, ChangeStepTyped, DepositsKept, TableTypes DEF Typed, Submitted

LEMMA CommitCancelTyped ==
  ASSUME Typed, NEW r \in Requests, CommitCancel(r)
  PROVE  Typed'
  <1>1. PICK c \in Changes : c = request[r].id
    BY RequestFacts DEF CommitCancel, Is
  <1>2. approvals' \in [Deposits \cup Changes -> [Steps -> Decisions]]
    BY <1>1, ApprovalsWritten, DecisionTypes DEF CommitCancel, Typed
  <1>3. /\ UNCHANGED <<account, payslip, debits, deposit, adminFee, interrupted, outrun>>
        /\ Done(r) /\ change' = [change EXCEPT ![c] = Deleted]
    BY <1>1 DEF CommitCancel, savingsVars
  <1> QED
    BY <1>1, <1>2, <1>3, ChangeStepTyped, DepositsKept, TableTypes DEF Typed

\* A request to stop inserts its row; its approval records come next.
StopInserted(r, c, q) ==
  /\ Is(r, "STOP")
  /\ change[c] = NoChange
  /\ request[r].seen \in ChangeRow /\ Linked(request[r].seen, deposit)
  /\ change' = [change EXCEPT ![c] = request[r].seen]
  /\ q.op = "STOP_APPROVALS" /\ q.id = c
  /\ request' = [request EXCEPT ![r] = q]
  /\ UNCHANGED <<savingsVars, deposit, approvals, overlaps, adminFee, interrupted, outrun>>

LEMMA InsertStopFacts ==
  ASSUME Typed, NEW r \in Requests, InsertStop(r)
  PROVE  \E c, q : c \in Changes /\ StopInserted(r, c, q)
  <1>1. PICK c \in Changes :
          /\ change[c] = NoChange
          /\ change' = [change EXCEPT ![c] = request[r].seen]
          /\ request' = [request EXCEPT ![r].op = "STOP_APPROVALS", ![r].id = c]
    BY DEF InsertStop
  <1>2. /\ request[r] \in [op : {"CREATE", "STOP"}, id : Deposits, seen : ChangeRow]
        /\ request[r].seen \in ChangeRow /\ Linked(request[r].seen, deposit)
    BY RequestFacts DEF InsertStop, Is
  <1>3. PICK q : q = [request[r] EXCEPT !.op = "STOP_APPROVALS", !.id = c]
    OBVIOUS
  <1>4. q.op = "STOP_APPROVALS" /\ q.id = c
    BY <1>2, <1>3
  <1>5. request' = [request EXCEPT ![r] = q]
    BY <1>1, <1>3 DEF Typed, RequestsTyped
  <1>6. StopInserted(r, c, q)
    BY <1>1, <1>2, <1>4, <1>5 DEF StopInserted, InsertStop
  <1> QED
    BY <1>6

LEMMA InsertStopTyped ==
  ASSUME Typed, NEW r \in Requests, InsertStop(r)
  PROVE  Typed'
  <1>1. PICK c, q : c \in Changes /\ StopInserted(r, c, q)
    BY InsertStopFacts
  <1>2. ChangesLinked'
    BY <1>1, LinkWritten, DepositsKept DEF StopInserted
  <1>3. change' \in [Changes -> {NoChange, Deleted} \cup ChangeRow]
    BY <1>1, ChangeWritten DEF StopInserted, Typed
  <1>4. Tables'
    BY <1>1, <1>2, <1>3, TablesWritten, TableTypes DEF Typed, StopInserted, savingsVars
  <1>5. /\ DOMAIN request' = Requests
        /\ \A s \in Requests : request'[s] = IF s = r THEN q ELSE request[s]
    BY <1>1 DEF Typed, RequestsTyped, StopInserted
  <1>6. RequestTyped(q, deposit) /\ deposit' = deposit /\ q.op # "PAY"
    BY <1>1 DEF RequestTyped, StopInserted
  <1>7. RequestsTyped'
    BY <1>5, <1>6 DEF Typed, RequestsTyped
  <1>8. OnePayroll'
    BY <1>5, <1>6 DEF Typed, OnePayroll, Is
  <1> QED
    BY <1>4, <1>7, <1>8 DEF Typed

LEMMA InsertStopApprovalsTyped ==
  ASSUME Typed, NEW r \in Requests, InsertStopApprovals(r)
  PROVE  Typed'
  <1>1. PICK c \in Changes : c = request[r].id
    BY RequestFacts DEF InsertStopApprovals, Is
  <1>2. approvals' \in [Deposits \cup Changes -> [Steps -> Decisions]]
    BY <1>1, ApprovalsWritten, DecisionTypes DEF InsertStopApprovals, Typed
  <1>3. /\ UNCHANGED <<account, payslip, debits, deposit, overlaps, change, adminFee, interrupted,
                       outrun>>
        /\ Done(r)
    BY DEF InsertStopApprovals, Done, savingsVars, changeVars
  <1>4. ChangesLinked'
    BY <1>3, LinksKept, DepositsKept
  <1>5. Tables'
    BY <1>2, <1>3, <1>4, TablesWritten, TableTypes DEF Typed
  <1> QED
    BY <1>3, <1>5, DoneTyped, DepositsKept

LEMMA InterruptTyped ==
  ASSUME Typed, NEW r \in Requests, Interrupt(r)
  PROVE  Typed'
  <1>1. /\ UNCHANGED <<account, payslip, debits, deposit, approvals, overlaps, change, adminFee,
                       outrun>>
        /\ Done(r)
    BY DEF Interrupt, Fail, Done, savingsVars
  <1>2. interrupted' \subseteq Changes
    BY RequestFacts, TableTypes DEF Interrupt, Is, Typed
  <1>3. ChangesLinked'
    BY <1>1, LinksKept, DepositsKept
  <1>4. Tables'
    BY <1>1, <1>2, <1>3, TablesWritten, TableTypes DEF Typed
  <1> QED
    BY <1>1, <1>4, DoneTyped, DepositsKept

LEMMA SetFeeTyped ==
  ASSUME Typed, NEW fee \in Fees, SetFee(fee)
  PROVE  Typed'
  <1>1. /\ adminFee' = fee
        /\ UNCHANGED <<account, payslip, debits, deposit, approvals, request, overlaps, change,
                       interrupted, outrun>>
    BY DEF SetFee, savingsVars, depositVars
  <1>2. ChangesLinked' /\ RequestsTyped' /\ OnePayroll'
    BY <1>1 DEF Typed, Tables, ChangesLinked, Exists, Linked, RequestsTyped, OnePayroll, Is
  <1>3. Tables'
    BY <1>1, <1>2, TablesWritten, TableTypes DEF Typed
  <1> QED
    BY <1>2, <1>3 DEF Typed

\* What a request that enters has read is there.
LEMMA DecidableFacts ==
  ASSUME Tables
  PROVE  /\ \A d \in Deposits : Decidable(d, deposit[d]) => deposit[d] \in DepositRow
         /\ \A c \in Changes : Decidable(c, change[c]) => change[c] \in ChangeRow
  BY TableRows, DepositRows, ChangeRows DEF Decidable

LEMMA DueFacts ==
  ASSUME Tables, NEW m \in Members, NEW d \in DueOf(m)
  PROVE  d \in Deposits /\ deposit[d] \in DepositRow /\ deposit[d].member = m
  BY TableRows, DepositRows DEF DueOf

\* Drafts are rows that link to their deposit.
LEMMA DraftFacts ==
  ASSUME Tables, NEW d \in Deposits, Changeable(d), NEW new \in Terms
  PROVE  /\ deposit[d] \in DepositRow
         /\ Draft(d, new) \in ChangeRow /\ Linked(Draft(d, new), deposit)
         /\ StopRequest(d) \in ChangeRow /\ Linked(StopRequest(d), deposit)
  <1>1. deposit[d] \in DepositRow /\ deposit[d] # NoDeposit
    BY TableRows, DepositRows DEF Changeable
  <1>2. Current(d) \in [amount : Amounts, tenor : Tenors]
    BY <1>1, DepositRows DEF Current
  <1>3. Draft(d, new) \in ChangeRow /\ Linked(Draft(d, new), deposit)
    BY <1>1, <1>2, TableTypes DEF Draft, ChangeRow, Linked, Terms
  <1>4. StopRequest(d) \in ChangeRow /\ Linked(StopRequest(d), deposit)
    BY <1>1, <1>2, TableTypes DEF StopRequest, ChangeRow, Linked, Steps
  <1> QED
    BY <1>1, <1>3, <1>4

LEMMA BeginStopTyped ==
  ASSUME Typed, NEW r \in Requests, NEW d \in Deposits, BeginStop(r, d)
  PROVE  Typed'
  <1>1. StopRequest(d) \in ChangeRow /\ Linked(StopRequest(d), deposit)
    <2>1. deposit[d] \in DepositRow
      BY TableRows, DepositRows DEF BeginStop, Changeable, Typed
    <2>2. Current(d) \in Terms
      BY <2>1, DepositRows DEF Current, Terms
    <2> QED
      BY <2>2, DraftFacts DEF BeginStop, Typed
  <1>2. RequestTyped([op |-> "STOP", id |-> d, seen |-> StopRequest(d)], deposit)
    BY <1>1 DEF RequestTyped
  <1> QED
    BY <1>2, EnterTyped DEF BeginStop

LEMMA BeginCreateTyped ==
  ASSUME Typed, NEW r \in Requests, NEW d \in Deposits, NEW new \in Terms, BeginCreate(r, d, new)
  PROVE  Typed'
  <1>1. Draft(d, new) \in ChangeRow /\ Linked(Draft(d, new), deposit)
    BY DraftFacts DEF BeginCreate, Typed
  <1>2. RequestTyped([op |-> "CREATE", id |-> d, seen |-> Draft(d, new)], deposit)
    BY <1>1 DEF RequestTyped
  <1> QED
    BY <1>2, EnterTyped DEF BeginCreate

LEMMA BeginOnDraftTyped ==
  ASSUME Typed, NEW r \in Requests, NEW c \in Changes, NEW op, NEW seen,
         \/ op \in {"SUBMIT", "CANCEL"} /\ seen = NoChange
         \/ op = "EDIT" /\ seen \in Terms,
         BeginOnDraft(r, c, op, seen)
  PROVE  Typed'
  <1>1. RequestTyped([op |-> op, id |-> c, seen |-> seen], deposit)
    BY DEF RequestTyped
  <1> QED
    BY <1>1, EnterTyped DEF BeginOnDraft

LEMMA BeginChangeDecisionTyped ==
  ASSUME Typed, NEW r \in Requests, NEW c \in Changes, NEW op \in {"APPROVE_CHANGE", "REJECT_CHANGE"},
         BeginChangeDecision(r, c, op)
  PROVE  Typed'
  <1>1. change[c] \in ChangeRow /\ change[c].step \in Steps
    BY DecidableFacts DEF BeginChangeDecision, Typed, Decidable
  <1>2. Linked(change[c], deposit)
    BY <1>1, ChangeRows DEF Typed, Tables, ChangesLinked, Exists
  <1>3. RequestTyped([op |-> op, id |-> c, seen |-> change[c]], deposit)
    BY <1>1, <1>2 DEF RequestTyped
  <1> QED
    BY <1>3, EnterTyped DEF BeginChangeDecision

LEMMA BeginDecisionTyped ==
  ASSUME Typed, NEW r \in Requests, NEW d \in Deposits, NEW op \in {"APPROVE", "REJECT"},
         BeginDecision(r, d, op), UNCHANGED changeVars
  PROVE  Typed'
  <1>1. deposit[d] \in DepositRow /\ deposit[d].step \in Steps /\ deposit[d] # NoDeposit
    BY DecidableFacts, DepositRows DEF BeginDecision, Typed, Decidable
  <1>2. RequestTyped([op |-> op, id |-> d, seen |-> deposit[d]], deposit)
    BY <1>1 DEF RequestTyped
  <1> QED
    BY <1>2, EnterTyped DEF BeginDecision

LEMMA BeginPayTyped ==
  ASSUME Typed, NEW r \in Requests, NEW m \in Members, NEW ds \in SUBSET DueOf(m),
         BeginPay(r, m, ds), UNCHANGED changeVars
  PROVE  Typed'
  <1>1. PICK p, seen :
          /\ p \in NextPeriod(m)
          /\ seen = [member |-> m, rows |-> [d \in ds |-> deposit[d]]]
          /\ Enter(r, "PAY", p, seen)
    BY DEF BeginPay
  <1>2. PICK q : q = [op |-> "PAY", id |-> p, seen |-> seen]
    OBVIOUS
  <1>3. /\ \A d \in ds : d \in Deposits /\ deposit[d] \in DepositRow /\ deposit[d].member = m
        /\ ds \in SUBSET Deposits
    BY DueFacts DEF Typed, DueOf
  <1>4. PICK rows : rows = [d \in ds |-> deposit[d]] /\ rows = q.seen.rows
    BY <1>1, <1>2
  <1>5. \E S \in SUBSET Deposits : q.seen.rows \in [S -> DepositRow]
    BY <1>3, <1>4
  <1>6. \A d \in DOMAIN q.seen.rows :
          /\ deposit[d] # NoDeposit /\ deposit[d].member = m
          /\ deposit[d].collected = q.seen.rows[d].collected
    BY <1>3, <1>4, DepositRows
  <1>7. q.op = "PAY" /\ q.id \in Periods /\ q.seen.member = m
    BY <1>1, <1>2 DEF NextPeriod
  <1>8. PayTyped(q, deposit)
    BY <1>5, <1>6, <1>7 DEF PayTyped
  <1>9. RequestTyped(q, deposit)
    BY <1>8 DEF RequestTyped
  <1> QED
    BY <1>1, <1>2, <1>9, EnterTyped DEF BeginPay

LEMMA TypedInit == Init => Typed
  <1> SUFFICES ASSUME Init
               PROVE  Typed
    OBVIOUS
  <1>1. account \in [Members -> AccountRow] /\ payslip \in [Members -> [Periods -> Payslip]]
    <2>1. NoPayslip \in Payslip
      BY DEF NoPayslip, Payslip
    <2> QED
      BY <2>1, SavingsAssumption DEF Init, DepositInit, SavingsInit
  <1>2. DebitsTyped /\ \A m \in Members : DOMAIN debits[m] = {}
    <2>1. <<>> \in Seq(DebitRow) /\ DOMAIN <<>> = {}
      OBVIOUS
    <2> QED
      BY <2>1 DEF Init, DepositInit, SavingsInit, DebitsTyped
  <1>3. TypeOK
    <2>1. DepositTypeOK
      BY <1>1, DecisionTypes, DepositAssumption DEF Init, DepositInit, DepositTypeOK
    <2>2. change \in [Changes -> {NoChange, Deleted} \cup ChangeRow]
      BY DEF Init
    <2> QED
      BY <1>2, <2>1, <2>2 DEF Init, TypeOK
  <1>4. ChangesLinked
    BY DEF Init, ChangesLinked, Exists
  <1>5. RequestsTyped
    BY DEF Init, DepositInit, RequestsTyped, RequestTyped
  <1>6. OnePayroll
    BY DEF Init, DepositInit, OnePayroll, Is
  <1> QED
    BY <1>2, <1>3, <1>4, <1>5, <1>6 DEF Typed, Tables

LEMMA TypedStep == Typed /\ [Next]_vars => Typed'
  <1> SUFFICES ASSUME Typed, [Next]_vars
               PROVE  Typed'
    OBVIOUS
  <1>1. CASE UNCHANGED vars
    BY <1>1 DEF vars, savingsVars, depositVars, changeVars, Typed, Tables, TypeOK, DepositTypeOK,
                DebitsTyped, ChangesLinked, Exists, Linked, RequestsTyped, OnePayroll, Is
  <1>2. CASE DepositNext /\ UNCHANGED changeVars
    <2>1. ASSUME NEW d \in Deposits, NEW m \in Members, NEW amount \in Amounts,
                 NEW tenor \in Tenors, Create(d, m, amount, tenor)
          PROVE  Typed'
      BY <1>2, <2>1, CreateFacts, CreatedTyped
    <2>2. ASSUME NEW r \in Requests, NEW d \in Deposits, NEW op \in {"APPROVE", "REJECT"},
                 BeginDecision(r, d, op)
          PROVE  Typed'
      BY <1>2, <2>2, BeginDecisionTyped
    <2>3. ASSUME NEW r \in Requests, NEW m \in Members, NEW ds \in SUBSET DueOf(m),
                 BeginPay(r, m, ds)
          PROVE  Typed'
      BY <1>2, <2>3, BeginPayTyped
    <2>4. ASSUME NEW r \in Requests, CommitReject(r) \/ CommitApprove(r)
          PROVE  Typed'
      BY <1>2, <2>4, DepositDecisionFacts, DecidedTyped
    <2> QED
      BY <1>2, <2>1, <2>2, <2>3, <2>4 DEF DepositNext
  <1>3. ASSUME NEW fee \in Fees \ {adminFee}, SetFee(fee)
        PROVE  Typed'
    BY <1>3, SetFeeTyped
  <1>4. ASSUME NEW r \in Requests,
               \/ \E d \in Deposits : BeginStop(r, d)
               \/ \E d \in Deposits, new \in Terms : BeginCreate(r, d, new)
               \/ \E c \in Changes, new \in Terms : BeginEdit(r, c, new)
               \/ \E c \in Changes :
                    \/ BeginOnDraft(r, c, "SUBMIT", NoChange)
                    \/ BeginOnDraft(r, c, "CANCEL", NoChange)
                    \/ BeginChangeDecision(r, c, "APPROVE_CHANGE")
                    \/ BeginChangeDecision(r, c, "REJECT_CHANGE")
        PROVE  Typed'
    BY <1>4, BeginStopTyped, BeginCreateTyped, BeginOnDraftTyped, BeginChangeDecisionTyped
       DEF BeginEdit
  <1>5. ASSUME NEW r \in Requests, Collect(r)
        PROVE  Typed'
    <2>1. PICK m, p, rows : m \in Members /\ p \in Periods /\ Paid(r, m, p, rows)
      BY <1>5, PaidFacts DEF Collect
    <2>2. outrun' \in BOOLEAN
      BY <1>5, TableTypes DEF Collect, Typed
    <2> QED
      BY <1>5, <2>1, <2>2, PaidTyped DEF Collect
  <1>6. ASSUME NEW r \in Requests,
               \/ CommitCreate(r) \/ InsertStop(r) \/ InsertStopApprovals(r)
               \/ CommitEdit(r) \/ CommitSubmit(r) \/ CommitCancel(r)
               \/ CommitChangeReject(r) \/ CommitFirstApproval(r)
               \/ CommitChange(r) \/ CommitStop(r) \/ Interrupt(r)
        PROVE  Typed'
    BY <1>6, CommitCreateTyped, InsertStopTyped, InsertStopApprovalsTyped, CommitEditTyped,
       CommitSubmitTyped, CommitCancelTyped, SignaturesTyped, InterruptTyped
  <1> QED
    BY <1>1, <1>2, <1>3, <1>4, <1>5, <1>6 DEF Next

-----------------------------------------------------------------------------
(* The books.                                                              *)

PaidDeposits(m) == [p \in Periods |-> payslip[m][p].tabunganDeposito]

Taken(m) == [i \in DOMAIN debits[m] |-> debits[m][i].penarikan]

Collected(m) == [d \in DepositsOf(m) |-> deposit[d].collected]

SavingsBookedOf(m) ==
  account[m].sukarela = OpeningAccount.sukarela + SumOf(PaidDeposits(m)) - SumOf(Taken(m))

CollectedBookedOf(m) == SumOf(Collected(m)) = SumOf(PaidDeposits(m))

BookedOf(m) == SavingsBookedOf(m) /\ CollectedBookedOf(m)

Booked == \A m \in Members : BookedOf(m)

LEMMA BookedIsBooked == Booked <=> SavingsBooked /\ CollectedBooked
  BY DEF Booked, BookedOf, SavingsBooked, SavingsBookedOf, CollectedBooked, CollectedBookedOf,
         OverPeriods, OverDebits, PaidDeposits, Taken, Collected

LEMMA ColumnTypes ==
  ASSUME Tables, NEW m \in Members
  PROVE  /\ PaidDeposits(m) \in [Periods -> Int] /\ IsFiniteSet(Periods)
         /\ DOMAIN debits[m] = 1 .. Len(debits[m]) /\ Len(debits[m]) \in Nat
         /\ Taken(m) \in [1 .. Len(debits[m]) -> Int]
         /\ IsFiniteSet(DepositsOf(m)) /\ DepositsOf(m) \subseteq Deposits
         /\ Collected(m) \in [DepositsOf(m) -> Int]
  <1>1. PaidDeposits(m) \in [Periods -> Int]
    <2>1. \A p \in Periods : payslip[m][p] \in Payslip
      BY TableTypes
    <2>2. \A p \in Periods : payslip[m][p].tabunganDeposito \in Int
      BY <2>1 DEF Payslip
    <2> QED
      BY <2>2 DEF PaidDeposits
  <1>2. debits[m] \in Seq(DebitRow)
    BY TableTypes
  <1>3. DOMAIN debits[m] = 1 .. Len(debits[m]) /\ Len(debits[m]) \in Nat
    BY <1>2
  <1>4. ASSUME NEW i \in 1 .. Len(debits[m])
        PROVE  debits[m][i].penarikan \in Int
    <2>1. debits[m][i] \in DebitRow
      BY <1>2, <1>4, ElementOfSeq
    <2>2. debits[m][i].penarikan \in Fees
      BY <2>1 DEF DebitRow
    <2> QED
      BY <2>2, AmountTypes
  <1>5. Taken(m) \in [1 .. Len(debits[m]) -> Int]
    BY <1>3, <1>4 DEF Taken
  <1>6. IsFiniteSet(DepositsOf(m)) /\ DepositsOf(m) \subseteq Deposits
    BY AmountTypes, FS_Subset DEF DepositsOf
  <1>7. \A d \in DepositsOf(m) : deposit[d].collected \in Int
    BY TableRows, DepositRows DEF DepositsOf
  <1>8. Collected(m) \in [DepositsOf(m) -> Int]
    BY <1>7 DEF Collected
  <1> QED
    BY <1>1, <1>3, <1>5, <1>6, <1>8, SavingsAssumption

LEMMA SumTypes ==
  ASSUME Tables, NEW m \in Members
  PROVE  /\ SumOf(PaidDeposits(m)) \in Int /\ SumOf(Taken(m)) \in Int
         /\ SumOf(Collected(m)) \in Int
         /\ account[m].sukarela \in Int /\ OpeningAccount.sukarela \in Int
  <1>1. IsFiniteSet(1 .. Len(debits[m]))
    BY ColumnTypes, FS_Interval
  <1>2. SumOf(PaidDeposits(m)) \in Int
    BY ColumnTypes, SumOfInt
  <1>3. SumOf(Taken(m)) \in Int
    BY <1>1, ColumnTypes, SumOfInt
  <1>4. SumOf(Collected(m)) \in Int
    BY ColumnTypes, SumOfInt
  <1>5. account[m] \in AccountRow /\ OpeningAccount \in AccountRow
    BY TableTypes, SavingsAssumption
  <1> QED
    BY <1>2, <1>3, <1>4, <1>5 DEF AccountRow

LEMMA BookedInit == Init => Booked
  <1> SUFFICES ASSUME Init, NEW m \in Members
               PROVE  BookedOf(m)
    BY DEF Booked
  <1>1. account[m] = OpeningAccount /\ debits[m] = <<>>
    BY DEF Init, DepositInit, SavingsInit
  <1>2. DOMAIN PaidDeposits(m) = Periods /\ \A p \in Periods : PaidDeposits(m)[p] = 0
    BY DEF Init, DepositInit, SavingsInit, NoPayslip, PaidDeposits
  <1>3. SumOf(PaidDeposits(m)) = 0
    BY <1>2, SumOfZeros, SavingsAssumption
  <1>4. SumOf(Taken(m)) = 0
    <2>1. DOMAIN Taken(m) = {}
      BY <1>1 DEF Taken
    <2> QED
      BY <2>1, SumOfNone DEF SumOf
  <1>5. SumOf(Collected(m)) = 0
    <2>1. DOMAIN Collected(m) = {}
      BY DEF Collected, DepositsOf, Init, DepositInit
    <2> QED
      BY <2>1, SumOfNone DEF SumOf
  <1>6. OpeningAccount.sukarela \in Int
    BY SavingsAssumption DEF AccountRow
  <1> QED
    BY <1>1, <1>3, <1>4, <1>5, <1>6 DEF BookedOf, SavingsBookedOf, CollectedBookedOf

-----------------------------------------------------------------------------
\* No deposit is opened or collected.
Steady ==
  /\ Kept(deposit, deposit') /\ SameCollected(deposit, deposit')
  /\ \A d \in Deposits : deposit[d] = NoDeposit => deposit'[d] = NoDeposit

LEMMA SteadyCollected ==
  ASSUME Steady, NEW m \in Members
  PROVE  Collected(m)' = Collected(m)
  <1>1. DepositsOf(m)' = DepositsOf(m)
    BY DEF DepositsOf, Steady, Kept
  <1>2. \A d \in DepositsOf(m) : deposit'[d].collected = deposit[d].collected
    BY DEF DepositsOf, Steady, SameCollected
  <1> QED
    BY <1>1, <1>2 DEF Collected

LEMMA QuietBooked ==
  ASSUME Booked, UNCHANGED savingsVars, Steady
  PROVE  Booked'
  <1> SUFFICES ASSUME NEW m \in Members
               PROVE  BookedOf(m)'
    BY DEF Booked
  <1>1. BookedOf(m)
    BY DEF Booked
  <1>2. Collected(m)' = Collected(m)
    BY SteadyCollected
  <1>3. PaidDeposits(m)' = PaidDeposits(m) /\ Taken(m)' = Taken(m) /\ account' = account
    BY DEF savingsVars, PaidDeposits, Taken
  <1> QED
    BY <1>1, <1>2, <1>3 DEF BookedOf, SavingsBookedOf, CollectedBookedOf

LEMMA DebitedBooked ==
  ASSUME Tables, Booked, Steady, NEW m \in Members, NEW fee \in Fees, NEW c \in Changes,
         Debited(m, fee, c)
  PROVE  Booked'
  <1> SUFFICES ASSUME NEW n \in Members
               PROVE  BookedOf(n)'
    BY DEF Booked
  <1>1. BookedOf(n) /\ Collected(n)' = Collected(n) /\ PaidDeposits(n)' = PaidDeposits(n)
    BY SteadyCollected DEF Booked, Debited, PaidDeposits
  <1>2. CollectedBookedOf(n)'
    BY <1>1 DEF BookedOf, CollectedBookedOf
  <1>3. CASE n # m
    <2>1. account'[n] = account[n] /\ debits'[n] = debits[n]
      BY <1>3, TableTypes DEF Debited
    <2>2. Taken(n)' = Taken(n)
      BY <2>1 DEF Taken
    <2> QED
      BY <1>1, <1>2, <2>1, <2>2 DEF BookedOf, SavingsBookedOf
  <1>4. CASE n = m
    <2>1. PICK row \in DebitRow :
            row.penarikan = fee /\ debits' = [debits EXCEPT ![m] = Append(@, row)]
      BY DEF Debited
    <2>2. PICK k \in Nat : k = Len(debits[m])
      BY ColumnTypes
    <2>3. /\ DOMAIN debits[m] = 1 .. k /\ DOMAIN debits'[m] = 1 .. k + 1
          /\ \A i \in 1 .. k : debits'[m][i] = debits[m][i]
          /\ debits'[m][k + 1] = row
      <3>1. \A S : \A d \in Seq(S) :
              /\ DOMAIN Append(d, row) = 1 .. Len(d) + 1
              /\ \A i \in 1 .. Len(d) : Append(d, row)[i] = d[i]
              /\ Append(d, row)[Len(d) + 1] = row
        OBVIOUS
      <3>2. debits[m] \in Seq(DebitRow) /\ debits'[m] = Append(debits[m], row)
        BY <2>1, TableTypes
      <3> QED
        BY <2>2, <3>1, <3>2, ColumnTypes
    <2>4. /\ \A i \in 1 .. k + 1 : i # k + 1 => i \in 1 .. k
          /\ k + 1 \in 1 .. k + 1 /\ \A i \in 1 .. k : i \in 1 .. k + 1
      BY SMT
    <2>5. fee \in Int /\ Taken(m) \in [1 .. k -> Int]
      BY <2>2, AmountTypes, ColumnTypes
    <2>6. /\ Taken(m)' \in [1 .. k + 1 -> Int]
          /\ \A i \in 1 .. k : Taken(m)'[i] = Taken(m)[i]
          /\ Taken(m)'[k + 1] = fee
      BY <2>1, <2>3, <2>4, <2>5 DEF Taken
    <2>7. SumOf(Taken(m)') = SumOf(Taken(m)) + fee
      BY <2>5, <2>6, SumOfAppended
    <2>8. account'[m].sukarela = account[m].sukarela - fee
      BY TableTypes DEF Debited
    <2>9. SavingsBookedOf(m)'
      BY <1>1, <1>4, <2>5, <2>7, <2>8, SumTypes DEF BookedOf, SavingsBookedOf
    <2> QED
      BY <1>2, <1>4, <2>9 DEF BookedOf
  <1> QED
    BY <1>3, <1>4

\* A payroll run adds what it deducted, to the savings, to the payslip and to
\* the deposits.
LEMMA PaidCollected ==
  ASSUME Typed, NEW r \in Requests, NEW m \in Members, NEW p \in Periods, NEW rows,
         Paid(r, m, p, rows), NEW n \in Members
  PROVE  SumOf(Collected(n)') = SumOf(Collected(n))
                                  + (IF n = m THEN SumOf(Deducted(rows)) ELSE 0)
  <1>1. ASSUME NEW d \in Deposits
        PROVE  IF d \in DOMAIN rows THEN InstallmentTaken(d, rows[d]) ELSE deposit'[d] = deposit[d]
    BY DEF Paid
  <1>2. \A d \in DOMAIN rows : /\ d \in Deposits /\ deposit[d] \in DepositRow
                               /\ deposit[d].member = m /\ rows[d] \in DepositRow
    BY DEF Paid
  <1>3. \A d \in DOMAIN rows :
          /\ deposit'[d] # NoDeposit /\ deposit'[d].member = m
          /\ deposit'[d].collected = deposit[d].collected + rows[d].amount
    BY <1>1, <1>2, DepositRows DEF InstallmentTaken
  <1>4. DepositsOf(n)' = DepositsOf(n)
    <2>1. \A d \in DOMAIN rows : deposit[d] # NoDeposit
      BY <1>2, DepositRows
    <2>2. \A d \in Deposits \ DOMAIN rows : deposit'[d] = deposit[d]
      BY <1>1
    <2> QED
      BY <1>2, <1>3, <2>1, <2>2 DEF DepositsOf
  <1>5. PICK S, f, h : S = DepositsOf(n) /\ f = Collected(n) /\ h = Collected(n)'
    OBVIOUS
  <1>6. IsFiniteSet(S) /\ S \subseteq Deposits /\ f \in [S -> Int]
    BY <1>5, ColumnTypes DEF Typed
  <1>7. \A d \in S : f[d] = deposit[d].collected /\ h[d] = deposit'[d].collected
    BY <1>4, <1>5 DEF Collected
  <1>8. DOMAIN h = S
    BY <1>4, <1>5 DEF Collected
  <1>9. CASE n # m
    <2>1. \A d \in S : d \notin DOMAIN rows
      BY <1>2, <1>5, <1>9 DEF DepositsOf
    <2>2. \A d \in S : h[d] = f[d]
      BY <1>1, <1>6, <1>7, <2>1
    <2>3. SumOf(h) = SumOf(f)
      BY <1>6, <1>8, <2>2, SumOfEqual DEF SumOf
    <2>4. SumOf(f) \in Int
      BY <1>6, SumOfInt
    <2> QED
      BY <1>5, <1>9, <2>3, <2>4
  <1>10. CASE n = m
    <2>1. PICK T, g : T = DOMAIN rows /\ g = Deducted(rows)
      OBVIOUS
    <2>2. T \in SUBSET S
      BY <1>2, <1>5, <1>10, <2>1, DepositRows DEF DepositsOf
    <2>3. g \in [T -> Int] /\ \A d \in T : g[d] = rows[d].amount
      BY <1>2, <2>1, DepositRows, AmountTypes DEF Deducted
    <2>4. PICK e : e = [d \in S |-> IF d \in T THEN g[d] ELSE 0]
      OBVIOUS
    <2>5. /\ e \in [S -> Int] /\ \A d \in T : g[d] = e[d]
          /\ \A d \in S \ T : e[d] = 0
      BY <2>2, <2>3, <2>4
    <2>6. SumOf(e) = SumOf(g)
      BY <1>6, <2>2, <2>3, <2>5, SumOfSupport
    <2>7. ASSUME NEW d \in S
          PROVE  h[d] = f[d] + e[d] /\ h[d] \in Int
      <3>1. f[d] \in Int /\ e[d] \in Int
        BY <1>6, <2>5
      <3>2. CASE d \in T
        BY <1>3, <1>7, <2>1, <2>3, <2>5, <3>1, <3>2
      <3>3. CASE d \notin T
        <4>1. h[d] = f[d] /\ e[d] = 0
          BY <1>1, <1>6, <1>7, <2>1, <2>5, <3>3
        <4> QED
          BY <3>1, <4>1
      <3> QED
        BY <3>2, <3>3
    <2>8. h \in [S -> Int]
      <3>1. h = [d \in S |-> h[d]]
        BY <1>4, <1>5 DEF Collected
      <3> QED
        BY <2>7, <3>1
    <2>9. SumOf(h) = SumOf(f) + SumOf(e)
      BY <1>6, <2>5, <2>7, <2>8, SumOfAdded
    <2> QED
      BY <1>5, <1>10, <2>1, <2>6, <2>9
  <1> QED
    BY <1>9, <1>10

LEMMA PaidBooked ==
  ASSUME Typed, Booked, NEW r \in Requests, NEW m \in Members, NEW p \in Periods, NEW rows,
         Paid(r, m, p, rows)
  PROVE  Booked'
  <1> SUFFICES ASSUME NEW n \in Members
               PROVE  BookedOf(n)'
    BY DEF Booked
  <1>1. BookedOf(n)
    BY DEF Booked
  <1>2. PICK k \in Nat : k = SumOf(Deducted(rows))
    BY DEF Paid
  <1>3. PICK after \in AccountRow, slip \in Payslip :
          /\ account' = [account EXCEPT ![m] = after]
          /\ after.sukarela = account[m].sukarela + k
          /\ payslip' = [payslip EXCEPT ![m][p] = slip]
          /\ slip.tabunganDeposito = payslip[m][p].tabunganDeposito + k
    BY <1>2 DEF Paid
  <1>4. Taken(n)' = Taken(n)
    BY DEF Taken, Paid
  <1>5. SumOf(Collected(n)') = SumOf(Collected(n)) + (IF n = m THEN k ELSE 0)
    BY <1>2, PaidCollected
  <1>6. CASE n # m
    <2>1. account'[n] = account[n] /\ payslip'[n] = payslip[n]
      BY <1>3, <1>6, TableTypes DEF Typed
    <2>2. PaidDeposits(n)' = PaidDeposits(n)
      BY <2>1 DEF PaidDeposits
    <2>3. SumOf(Collected(n)') = SumOf(Collected(n))
      BY <1>5, <1>6, SumTypes DEF Typed
    <2> QED
      BY <1>1, <1>4, <2>1, <2>2, <2>3 DEF BookedOf, SavingsBookedOf, CollectedBookedOf
  <1>7. CASE n = m
    <2>1. PICK f, h : f = PaidDeposits(m) /\ h = PaidDeposits(m)'
      OBVIOUS
    <2>2. f \in [Periods -> Int] /\ IsFiniteSet(Periods)
      BY <2>1, ColumnTypes DEF Typed
    <2>3. /\ payslip'[m][p] = slip
          /\ \A x \in Periods \ {p} : payslip'[m][x] = payslip[m][x]
      BY <1>3, TableTypes DEF Typed
    <2>4. /\ f[p] = payslip[m][p].tabunganDeposito
          /\ h[p] = slip.tabunganDeposito /\ \A x \in Periods \ {p} : h[x] = f[x]
      BY <2>1, <2>3 DEF PaidDeposits
    <2>5. h[p] = f[p] + k /\ h[p] \in Int
      BY <1>3, <2>2, <2>4
    <2>6. h \in [Periods -> Int]
      <3>1. h = [x \in Periods |-> h[x]]
        BY <2>1 DEF PaidDeposits
      <3> QED
        BY <2>2, <2>4, <2>5, <3>1
    <2>7. SumOf(h) = SumOf(f) - f[p] + h[p]
      BY <2>2, <2>4, <2>6, SumOfChanged
    <2>8. SumOf(PaidDeposits(m)') = SumOf(PaidDeposits(m)) + k
      <3>1. f[p] \in Int /\ SumOf(f) \in Int
        BY <2>2, SumOfInt
      <3> QED
        BY <2>1, <2>5, <2>7, <3>1
    <2>9. account'[m].sukarela = account[m].sukarela + k
      BY <1>3, TableTypes DEF Typed
    <2>10. SavingsBookedOf(m)'
      BY <1>1, <1>4, <1>7, <2>8, <2>9, SumTypes DEF BookedOf, SavingsBookedOf, Typed
    <2>11. CollectedBookedOf(m)'
      BY <1>1, <1>5, <1>7, <2>8, SumTypes DEF BookedOf, CollectedBookedOf, Typed
    <2> QED
      BY <1>7, <2>10, <2>11 DEF BookedOf
  <1> QED
    BY <1>6, <1>7

LEMMA CreatedBooked ==
  ASSUME Typed, Booked, NEW d \in Deposits, NEW row \in DepositRow, Created(d, row)
  PROVE  Booked'
  <1> SUFFICES ASSUME NEW n \in Members
               PROVE  BookedOf(n)'
    BY DEF Booked
  <1>1. BookedOf(n)
    BY DEF Booked
  <1>2. PaidDeposits(n)' = PaidDeposits(n) /\ Taken(n)' = Taken(n) /\ account' = account
    BY DEF Created, savingsVars, PaidDeposits, Taken
  <1>3. /\ deposit[d] = NoDeposit /\ deposit'[d] = row /\ row.collected = 0
        /\ \A e \in Deposits \ {d} : deposit'[e] = deposit[e]
    BY DepositWritten DEF Created, Typed
  <1>4. PICK S, f, h : S = DepositsOf(n) /\ f = Collected(n) /\ h = Collected(n)'
    OBVIOUS
  <1>5. IsFiniteSet(S) /\ f \in [S -> Int] /\ S \subseteq Deposits
    BY <1>4, ColumnTypes DEF Typed
  <1>6. d \notin S
    BY <1>3, <1>4 DEF DepositsOf
  <1>7. \A e \in S : deposit'[e] = deposit[e]
    BY <1>3, <1>5, <1>6
  <1>8. CASE row.member # n
    <2>1. DepositsOf(n)' = S
      BY <1>3, <1>4, <1>6, <1>8, DepositRows DEF DepositsOf
    <2>2. Collected(n)' = Collected(n)
      BY <1>4, <1>7, <2>1 DEF Collected
    <2> QED
      BY <1>1, <1>2, <2>2 DEF BookedOf, SavingsBookedOf, CollectedBookedOf
  <1>9. CASE row.member = n
    <2>1. DepositsOf(n)' = S \cup {d}
      BY <1>3, <1>4, <1>6, <1>9, DepositRows DEF DepositsOf
    <2>2. h = [e \in S \cup {d} |-> deposit'[e].collected]
      BY <1>4, <2>1 DEF Collected
    <2>3. h[d] = 0 /\ \A e \in S : h[e] = f[e]
      BY <1>3, <1>4, <1>7, <2>2 DEF Collected
    <2>4. h \in [S \cup {d} -> Int]
      <3>1. \A e \in S \cup {d} : h[e] \in Int
        BY <1>5, <2>3
      <3> QED
        BY <2>2, <3>1
    <2>5. SumOf(h) = SumOf(f) + h[d]
      BY <1>5, <1>6, <2>3, <2>4, SumOfExtended
    <2>6. SumOf(Collected(n)') = SumOf(Collected(n))
      BY <1>4, <2>3, <2>5, SumTypes DEF Typed
    <2> QED
      BY <1>1, <1>2, <2>6 DEF BookedOf, SavingsBookedOf, CollectedBookedOf
  <1> QED
    BY <1>8, <1>9

LEMMA SignatureSteady ==
  ASSUME Tables, NEW d \in Deposits, NEW row \in DepositRow, deposit[d] \in DepositRow,
         deposit' = [deposit EXCEPT ![d] = row],
         row.member = deposit[d].member, row.collected = deposit[d].collected
  PROVE  Steady
  BY DepositWritten, DepositRows DEF Steady

LEMMA ResidueSteady ==
  ASSUME UNCHANGED deposit
  PROVE  Steady
  BY DepositsKept DEF Steady

\* The last signature books the fee.
LEMMA LastBooked ==
  ASSUME Typed, Booked, NEW r \in Requests, CommitChange(r) \/ CommitStop(r)
  PROVE  Booked'
  <1>1. request[r].id \in Changes /\ request[r].seen \in ChangeRow
    BY LastFacts DEF CommitChange, CommitStop
  <1>2. CASE CommitChange(r)
    <2>1. PICK d \in Deposits, row \in DepositRow : TermsChanged(r, d, row)
      BY <1>2, CommitChangeFacts
    <2>2. Steady
      BY <2>1, SignatureSteady DEF TermsChanged, Typed
    <2>3. Debited(deposit[d].member, adminFee, request[r].id) /\ deposit[d].member \in Members
      BY <2>1, DepositRows DEF TermsChanged
    <2> QED
      BY <1>1, <2>2, <2>3, DebitedBooked, TableTypes DEF Typed
  <1>3. CASE CommitStop(r)
    <2>1. PICK d \in Deposits, row \in DepositRow : Stopped(r, d, row)
      BY <1>3, CommitStopFacts
    <2>2. Steady
      BY <2>1, SignatureSteady DEF Stopped, SameTerms, Typed
    <2>3. CASE request[r].seen.fee > 0
      <3>1. /\ Debited(deposit[d].member, request[r].seen.fee, request[r].id)
            /\ deposit[d].member \in Members /\ request[r].seen.fee \in Fees
        BY <1>1, <2>1, <2>3, DepositRows, ChangeRows DEF Stopped
      <3> QED
        BY <1>1, <2>2, <3>1, DebitedBooked DEF Typed
    <2>4. CASE ~(request[r].seen.fee > 0)
      BY <2>1, <2>2, <2>4, QuietBooked DEF Stopped
    <2> QED
      BY <2>3, <2>4
  <1> QED
    BY <1>2, <1>3

LEMMA BookedStep == Typed /\ Booked /\ [Next]_vars => Booked'
  <1> SUFFICES ASSUME Typed, Booked, [Next]_vars
               PROVE  Booked'
    OBVIOUS
  <1>1. UNCHANGED savingsVars /\ UNCHANGED deposit => Booked'
    BY QuietBooked, ResidueSteady
  <1>2. CASE UNCHANGED vars
    BY <1>1, <1>2 DEF vars, depositVars
  <1>3. CASE DepositNext /\ UNCHANGED changeVars
    <2>1. ASSUME NEW d \in Deposits, NEW m \in Members, NEW amount \in Amounts,
                 NEW tenor \in Tenors, Create(d, m, amount, tenor)
          PROVE  Booked'
      BY <2>1, CreateFacts, CreatedBooked
    <2>2. ASSUME NEW r \in Requests,
                 \/ \E d \in Deposits : BeginDecision(r, d, "APPROVE") \/ BeginDecision(r, d, "REJECT")
                 \/ \E m \in Members : \E ds \in SUBSET DueOf(m) : BeginPay(r, m, ds)
          PROVE  Booked'
      BY <1>1, <2>2 DEF BeginDecision, BeginPay, Enter
    <2>3. ASSUME NEW r \in Requests, CommitReject(r) \/ CommitApprove(r)
          PROVE  Booked'
      <3>1. PICK d \in Deposits, row \in DepositRow, s \in Steps, v \in {"APPROVED", "REJECTED"} :
              DepositDecided(r, d, row, s, v)
        BY <2>3, DepositDecisionFacts
      <3>2. Steady /\ UNCHANGED savingsVars
        BY <3>1, SignatureSteady DEF DepositDecided, SameTerms, Typed
      <3> QED
        BY <3>2, QuietBooked
    <2> QED
      BY <1>3, <2>1, <2>2, <2>3 DEF DepositNext
  <1>4. ASSUME NEW fee \in Fees \ {adminFee}, SetFee(fee)
        PROVE  Booked'
    BY <1>1, <1>4 DEF SetFee, depositVars
  <1>5. ASSUME NEW r \in Requests,
               \/ \E d \in Deposits : BeginStop(r, d)
               \/ \E d \in Deposits, new \in Terms : BeginCreate(r, d, new)
               \/ \E c \in Changes, new \in Terms : BeginEdit(r, c, new)
               \/ \E c \in Changes :
                    \/ BeginOnDraft(r, c, "SUBMIT", NoChange)
                    \/ BeginOnDraft(r, c, "CANCEL", NoChange)
                    \/ BeginChangeDecision(r, c, "APPROVE_CHANGE")
                    \/ BeginChangeDecision(r, c, "REJECT_CHANGE")
        PROVE  Booked'
    BY <1>1, <1>5 DEF BeginStop, BeginCreate, BeginEdit, BeginOnDraft, BeginChangeDecision, Enter
  <1>6. ASSUME NEW r \in Requests, Collect(r)
        PROVE  Booked'
    BY <1>6, PaidFacts, PaidBooked DEF Collect
  <1>7. ASSUME NEW r \in Requests,
               \/ CommitCreate(r) \/ InsertStop(r) \/ InsertStopApprovals(r)
               \/ CommitEdit(r) \/ CommitSubmit(r) \/ CommitCancel(r)
               \/ CommitChangeReject(r) \/ CommitFirstApproval(r) \/ Interrupt(r)
        PROVE  Booked'
    BY <1>1, <1>7 DEF CommitCreate, InsertStop, InsertStopApprovals, CommitEdit, CommitSubmit,
                      CommitCancel, CommitChangeReject, CommitFirstApproval, Interrupt, Fail
  <1> QED
    BY <1>2, <1>3, <1>4, <1>5, <1>6, <1>7, LastBooked DEF Next

(* The rows agree, however requests and payroll overlap and fail: the       *)
(* voluntary savings are what the payslips paid in less what the fees took, *)
(* the deposits have collected what the payslips show, and all rows keep    *)
(* their types.                                                            *)
THEOREM EverythingIsBooked == Spec => []AllBooked
  <1>1. Init => Typed /\ Booked
    BY TypedInit, BookedInit
  <1>2. Typed /\ Booked /\ [Next]_vars => (Typed /\ Booked)'
    BY TypedStep, BookedStep
  <1>3. Typed /\ Booked => AllBooked
    BY BookedIsBooked DEF Typed, Tables, AllBooked
  <1> QED
    BY <1>1, <1>2, <1>3, PTL DEF Spec

-----------------------------------------------------------------------------
(* As long as nothing overlaps.                                            *)

OneRequest == \A r, s \in Requests : request[r] # Idle /\ request[s] # Idle => r = s

\* A request in flight has read what is still there.
RequestCurrent(q) ==
  /\ q.op \in {"APPROVE", "REJECT"} => q.seen = deposit[q.id] /\ Decidable(q.id, q.seen)
  /\ q.op = "PAY" => \A d \in DOMAIN q.seen.rows :
                       q.seen.rows[d] = deposit[d] /\ d \in DueOf(q.seen.member)
  /\ q.op \in {"CREATE", "STOP"} => Changeable(q.seen.deposit)
  /\ q.op = "CREATE" => /\ q.seen.type = "CHANGE"
                        /\ q.seen.status = "DRAFT" /\ q.seen.step = NoStep
  /\ q.op = "STOP" => /\ q.seen.type = "STOP"
                      /\ q.seen.status = "SUBMITTED" /\ q.seen.step = "DIVISI_SIMPAN_PINJAM"
  /\ q.op = "STOP_APPROVALS" => change[q.id].status = "SUBMITTED"
  /\ q.op \in {"EDIT", "SUBMIT", "CANCEL"} => change[q.id].status = "DRAFT"
  /\ q.op \in {"APPROVE_CHANGE", "REJECT_CHANGE"} =>
       q.seen = change[q.id] /\ Decidable(q.id, q.seen)

RequestsCurrent == \A r \in Requests : RequestCurrent(request[r])

SignedStatus == {"APPROVED", "ACTIVE", "COMPLETED"}

\* The step, the status, the count and the records of a deposit agree.
DepositOrdered(row, a) ==
  /\ row.step \in Steps =>
       /\ a[row.step] = "OPEN" /\ row.count = 0
       /\ row.status = (IF row.step = "KETUA" THEN "UNDER_REVIEW_KETUA" ELSE "UNDER_REVIEW_DSP")
       /\ row.step = "KETUA" => a["DIVISI_SIMPAN_PINJAM"] = "APPROVED"
       /\ row.step = "DIVISI_SIMPAN_PINJAM" => a = OpenApprovals
  /\ row.step \notin Steps =>
       row.step = NoStep /\ row.status \in {"NONE", "REJECTED"} \cup SignedStatus
  /\ row.status = "REJECTED" => row.count = 0
  /\ row.status \in SignedStatus => \A s \in Steps : a[s] = "APPROVED"

DepositsOrdered == \A d \in Deposits : DepositOrdered(deposit[d], approvals[d])

ChangeOrdered(row, a) ==
  /\ row.status \in {"NONE", "DELETED", "DRAFT"} => a = NoApprovals
  /\ row.step \in Steps =>
       row.status = (IF row.step = "KETUA" THEN "UNDER_REVIEW_KETUA" ELSE "SUBMITTED")
  /\ row.step \notin Steps =>
       row.step = NoStep /\ row.status \in {"NONE", "DELETED", "DRAFT", "REJECTED", "APPROVED"}
  /\ row.status = "SUBMITTED" => a \in {NoApprovals, OpenApprovals}
  /\ row.status = "UNDER_REVIEW_KETUA" =>
       a["DIVISI_SIMPAN_PINJAM"] = "APPROVED" /\ a["KETUA"] = "OPEN"
  /\ row.status = "APPROVED" => \A s \in Steps : a[s] = "APPROVED"

ChangesOrdered == \A c \in Changes : ChangeOrdered(change[c], approvals[c])

\* Changes are asked for when a deposit is signed.
OnSigned(row, ds) == row \notin {NoChange, Deleted} => ds[row.deposit].status \in SignedStatus

OnDeposits == \A c \in Changes : OnSigned(change[c], deposit)

Pends(row) == row.status \in {"DRAFT", "SUBMITTED", "UNDER_REVIEW_KETUA"}

OnePending ==
  \A b, c \in Changes :
    Pends(change[b]) /\ Pends(change[c]) /\ change[b].deposit = change[c].deposit => b = c

\* The debits that charge a change.
Charges(m, i, c) == m \in Members /\ i \in DOMAIN debits[m] /\ debits[m][i].ref = c

Uncharged(c) == \A m, i : ~Charges(m, i, c)

FeeOrdered(c, row) ==
  /\ row.status # "APPROVED" => Uncharged(c)
  /\ \A m, n, i, j : Charges(m, i, c) /\ Charges(n, j, c) => m = n /\ i = j
  /\ row.status = "APPROVED" /\ row.type = "STOP" =>
       \A m, i : Charges(m, i, c) => debits[m][i].penarikan = row.fee
  /\ row.status = "APPROVED" /\ Uncharged(c) => row.fee = 0

FeesOrdered == \A c \in Changes : FeeOrdered(c, change[c])

Approving(c) == \E r \in Requests : Is(r, "STOP_APPROVALS") /\ request[r].id = c

\* A change that was submitted has its records, but for a stop request that is
\* about to insert them or was interrupted before.
Opened ==
  \A c \in Changes : change[c].status = "SUBMITTED" /\ approvals[c] = NoApprovals =>
    c \in interrupted \/ Approving(c)

Rows == DepositsOrdered /\ ChangesOrdered /\ OnDeposits /\ OnePending /\ FeesOrdered

Serial == OneRequest /\ RequestsCurrent /\ Rows /\ Opened

\* There is something left to collect, also when a change is approved.
DepositEnds(row) == row.status \in {"APPROVED", "ACTIVE"} => row.count < row.tenor

ChangeEnds(row, ds) ==
  Pends(row) /\ row.type = "CHANGE" => ds[row.deposit].count < row.new.tenor

RequestEnds(q) ==
  /\ q.op = "CREATE" => deposit[q.seen.deposit].count < q.seen.new.tenor
  /\ q.op = "EDIT" => deposit[change[q.id].deposit].count < q.seen.tenor

Ends ==
  /\ \A d \in Deposits : DepositEnds(deposit[d])
  /\ \A c \in Changes : ChangeEnds(change[c], deposit)
  /\ \A r \in Requests : RequestEnds(request[r])

SerialInv == overlaps = 0 => Serial /\ (~outrun => Ends)

-----------------------------------------------------------------------------
(* Who is in flight.                                                       *)

LEMMA OnlyOne ==
  ASSUME Typed, Serial, NEW r \in Requests, request[r] # Idle
  PROVE  \A s \in Requests \ {r} : request[s] = Idle
  BY DEF Serial, OneRequest

LEMMA IdleIsCurrent == RequestCurrent(Idle) /\ RequestEnds(Idle)
  BY DEF RequestCurrent, RequestEnds, Idle

LEMMA DoneSerial ==
  ASSUME Typed, Serial, NEW r \in Requests, request[r] # Idle, Done(r)
  PROVE  /\ \A s \in Requests : request'[s] = Idle
         /\ OneRequest' /\ RequestsCurrent'
         /\ \A s \in Requests : RequestEnds(request[s])'
  <1>1. \A s \in Requests : request'[s] = Idle
    BY OnlyOne DEF Done, Typed, RequestsTyped
  <1>2. OneRequest'
    BY <1>1 DEF OneRequest
  <1>3. RequestsCurrent'
    BY <1>1 DEF RequestsCurrent, RequestCurrent, Idle
  <1>4. \A s \in Requests : RequestEnds(request[s])'
    BY <1>1 DEF RequestEnds, Idle
  <1> QED
    BY <1>1, <1>2, <1>3, <1>4

\* Rows that nobody writes.
LEMMA RowsKept ==
  ASSUME Rows, UNCHANGED <<debits, deposit, approvals, change>>
  PROVE  Rows'
  <1>1. DepositsOrdered' /\ ChangesOrdered' /\ OnDeposits' /\ OnePending'
    BY DEF Rows, DepositsOrdered, ChangesOrdered, OnDeposits, OnePending
  <1>2. FeesOrdered'
    BY DEF Rows, FeesOrdered, FeeOrdered, Uncharged, Charges
  <1> QED
    BY <1>1, <1>2 DEF Rows

LEMMA EnterSerial ==
  ASSUME Typed, Serial, NEW r \in Requests, NEW op, NEW id, NEW seen, Enter(r, op, id, seen),
         UNCHANGED changeVars, overlaps' = 0,
         NEW q, q = [op |-> op, id |-> id, seen |-> seen], RequestCurrent(q)
  PROVE  /\ Serial' /\ request' = [request EXCEPT ![r] = q]
         /\ UNCHANGED <<deposit, change>> /\ outrun' = outrun
         /\ \A s \in Requests \ {r} : request'[s] = Idle
  <1>1. \A s \in Requests : request[s] = Idle
    <2>1. overlaps \in Nat
      BY TableTypes DEF Typed
    <2>2. overlaps' = IF \A s \in Requests : request[s] = Idle THEN overlaps ELSE overlaps + 1
      BY DEF Enter
    <2> QED
      BY <2>1, <2>2
  <1>2. /\ request' = [request EXCEPT ![r] = q]
        /\ UNCHANGED <<account, payslip, debits, deposit, approvals, change, adminFee,
                       interrupted, outrun>>
    BY DEF Enter, savingsVars, changeVars
  <1>3. /\ request'[r] = q /\ \A s \in Requests \ {r} : request'[s] = Idle
    BY <1>1, <1>2 DEF Typed, RequestsTyped
  <1>4. OneRequest'
    BY <1>3 DEF OneRequest
  <1>5. RequestCurrent(q)'
    BY <1>2, IdleIsCurrent DEF RequestCurrent, Decidable, DueOf, Changeable, Pending
  <1>6. RequestCurrent(Idle)'
    BY DEF RequestCurrent, Idle
  <1>7. RequestsCurrent'
    BY <1>3, <1>5, <1>6 DEF RequestsCurrent
  <1>8. Rows'
    BY <1>2, RowsKept DEF Serial
  <1>9. Opened'
    <2>1. \A c \in Changes : ~Approving(c)
      BY <1>1 DEF Approving, Is
    <2> QED
      BY <1>2, <2>1 DEF Serial, Opened
  <1> QED
    BY <1>2, <1>3, <1>4, <1>7, <1>8, <1>9 DEF Serial

-----------------------------------------------------------------------------
(* What writing a row does to the others.                                  *)

LEMMA DepositsSame ==
  ASSUME DepositsOrdered, UNCHANGED deposit, \A d \in Deposits : approvals'[d] = approvals[d]
  PROVE  DepositsOrdered'
  BY DEF DepositsOrdered

LEMMA DepositRowSerial ==
  ASSUME Tables, DepositsOrdered, NEW d \in Deposits, NEW row \in DepositRow,
         deposit' = [deposit EXCEPT ![d] = row], DepositOrdered(row, approvals'[d]),
         \A e \in Deposits \ {d} : approvals'[e] = approvals[e]
  PROVE  DepositsOrdered'
  <1> SUFFICES ASSUME NEW e \in Deposits
               PROVE  DepositOrdered(deposit'[e], approvals'[e])
    BY DEF DepositsOrdered, DepositOrdered
  <1>1. deposit'[d] = row /\ \A x \in Deposits \ {d} : deposit'[x] = deposit[x]
    BY DepositWritten
  <1> QED
    BY <1>1 DEF DepositsOrdered

\* A signed deposit stays signed.
Aging ==
  \A d \in Deposits : deposit[d].status \in SignedStatus => deposit'[d].status \in SignedStatus

LEMMA ChangesSame ==
  ASSUME Tables, Rows, UNCHANGED change, \A c \in Changes : approvals'[c] = approvals[c], Aging
  PROVE  ChangesOrdered' /\ OnDeposits' /\ OnePending'
  <1>1. ChangesOrdered' /\ OnePending'
    BY DEF Rows, ChangesOrdered, OnePending
  <1>2. OnDeposits'
    <2> SUFFICES ASSUME NEW c \in Changes, change[c] \notin {NoChange, Deleted}
                 PROVE  deposit'[change[c].deposit].status \in SignedStatus
      BY DEF OnDeposits, OnSigned
    <2>1. change[c].deposit \in Deposits
      BY TableRows, ChangeRows DEF Exists
    <2> QED
      BY <2>1 DEF Aging, Rows, OnDeposits, OnSigned
  <1> QED
    BY <1>1, <1>2

LEMMA ChangeRowSerial ==
  ASSUME Tables, Rows, NEW c \in Changes, NEW row \in {NoChange, Deleted} \cup ChangeRow,
         change' = [change EXCEPT ![c] = row], ChangeOrdered(row, approvals'[c]),
         \A b \in Changes \ {c} : approvals'[b] = approvals[b], Aging,
         OnSigned(row, deposit),
         Pends(row) => \A b \in Changes \ {c} :
                         Pends(change[b]) => change[b].deposit # row.deposit
  PROVE  ChangesOrdered' /\ OnDeposits' /\ OnePending'
  <1>1. change'[c] = row /\ \A b \in Changes \ {c} : change'[b] = change[b]
    BY ChangeWritten
  <1>2. ChangesOrdered'
    <2> SUFFICES ASSUME NEW b \in Changes
                 PROVE  ChangeOrdered(change'[b], approvals'[b])
      BY DEF ChangesOrdered, ChangeOrdered
    <2> QED
      BY <1>1 DEF Rows, ChangesOrdered
  <1>3. OnDeposits'
    <2> SUFFICES ASSUME NEW b \in Changes, change'[b] \notin {NoChange, Deleted}
                 PROVE  deposit'[change'[b].deposit].status \in SignedStatus
      BY DEF OnDeposits, OnSigned
    <2>1. OnSigned(change'[b], deposit)
      BY <1>1 DEF Rows, OnDeposits
    <2>2. change'[b] \in {NoChange, Deleted} \cup ChangeRow
      BY <1>1, TableTypes
    <2>3. change'[b].deposit \in Deposits
      BY <2>2, ChangeRows
    <2> QED
      BY <2>1, <2>3 DEF OnSigned, Aging
  <1>4. OnePending'
    <2> SUFFICES ASSUME NEW a \in Changes, NEW b \in Changes, Pends(change'[a]), Pends(change'[b]),
                        change'[a].deposit = change'[b].deposit
                 PROVE  a = b
      BY DEF OnePending, Pends
    <2> QED
      BY <1>1 DEF Rows, OnePending
  <1> QED
    BY <1>2, <1>3, <1>4

LEMMA FeesSame ==
  ASSUME FeesOrdered, UNCHANGED <<debits, change>>
  PROVE  FeesOrdered'
  BY DEF FeesOrdered, FeeOrdered, Uncharged, Charges

LEMMA FeesQuiet ==
  ASSUME Tables, FeesOrdered, UNCHANGED debits, NEW c \in Changes,
         NEW row \in {NoChange, Deleted} \cup ChangeRow, change' = [change EXCEPT ![c] = row],
         change[c].status # "APPROVED", row.status = "APPROVED" => row.fee = 0
  PROVE  FeesOrdered'
  <1> SUFFICES ASSUME NEW b \in Changes
               PROVE  FeeOrdered(b, change[b])'
    BY DEF FeesOrdered, FeeOrdered
  <1>1. change'[c] = row /\ \A x \in Changes \ {c} : change'[x] = change[x]
    BY ChangeWritten
  <1>2. \A m, i, x : Charges(m, i, x)' <=> Charges(m, i, x)
    BY DEF Charges
  <1>3. CASE b # c
    <2>1. FeeOrdered(b, change[b]) /\ change'[b] = change[b]
      BY <1>1, <1>3 DEF FeesOrdered
    <2> QED
      BY <1>2, <2>1 DEF FeeOrdered, Uncharged
  <1>4. CASE b = c
    <2>1. \A m, i : ~Charges(m, i, c)
      BY DEF FeesOrdered, FeeOrdered, Uncharged
    <2> QED
      BY <1>1, <1>2, <1>4, <2>1 DEF FeeOrdered, Uncharged
  <1> QED
    BY <1>3, <1>4

LEMMA FeesCharged ==
  ASSUME Tables, FeesOrdered, NEW c \in Changes, NEW row \in ChangeRow,
         change' = [change EXCEPT ![c] = row],
         change[c].status # "APPROVED", row.status = "APPROVED",
         NEW m \in Members, NEW fee \in Fees, Debited(m, fee, c),
         row.type = "STOP" => row.fee = fee
  PROVE  FeesOrdered'
  <1> SUFFICES ASSUME NEW b \in Changes
               PROVE  FeeOrdered(b, change[b])'
    BY DEF FeesOrdered, FeeOrdered
  <1>1. change'[c] = row /\ \A x \in Changes \ {c} : change'[x] = change[x]
    BY ChangeWritten
  <1>2. PICK new \in DebitRow :
          new.penarikan = fee /\ new.ref = c /\ debits' = [debits EXCEPT ![m] = Append(@, new)]
    BY DEF Debited
  <1>3. PICK k : k = Len(debits[m]) + 1
    OBVIOUS
  <1>4. /\ DOMAIN debits'[m] = DOMAIN debits[m] \cup {k} /\ k \notin DOMAIN debits[m]
        /\ debits'[m][k] = new /\ \A i \in DOMAIN debits[m] : debits'[m][i] = debits[m][i]
        /\ \A n \in Members \ {m} : debits'[n] = debits[n]
    <2>1. debits[m] \in Seq(DebitRow) /\ debits'[m] = Append(debits[m], new)
      BY <1>2, TableTypes
    <2>2. \A S : \A d \in Seq(S) :
            /\ DOMAIN Append(d, new) = DOMAIN d \cup {Len(d) + 1} /\ Len(d) + 1 \notin DOMAIN d
            /\ Append(d, new)[Len(d) + 1] = new
            /\ \A i \in DOMAIN d : Append(d, new)[i] = d[i]
      OBVIOUS
    <2>3. \A n \in Members \ {m} : debits'[n] = debits[n]
      BY <1>2, TableTypes
    <2> QED
      BY <1>3, <2>1, <2>2, <2>3
  <1>5. \A n, i, x : Charges(n, i, x)' <=> Charges(n, i, x) \/ (n = m /\ i = k /\ x = c)
    BY <1>2, <1>4 DEF Charges
  <1>6. \A n, i, x : Charges(n, i, x) => debits'[n][i] = debits[n][i]
    BY <1>4 DEF Charges
  <1>7. CASE b # c
    <2>1. FeeOrdered(b, change[b]) /\ change'[b] = change[b]
      BY <1>1, <1>7 DEF FeesOrdered
    <2>2. \A n, i : Charges(n, i, b)' <=> Charges(n, i, b)
      BY <1>5, <1>7
    <2> QED
      BY <1>6, <2>1, <2>2 DEF FeeOrdered, Uncharged
  <1>8. CASE b = c
    <2>1. \A n, i : ~Charges(n, i, c)
      BY DEF FeesOrdered, FeeOrdered, Uncharged
    <2>2. \A n, i : Charges(n, i, c)' <=> n = m /\ i = k
      BY <1>5, <2>1
    <2>3. change'[b] = row /\ ~Uncharged(c)'
      BY <1>1, <1>8, <2>2 DEF Uncharged
    <2>4. row.type = "STOP" => \A n, i : Charges(n, i, c)' => debits'[n][i].penarikan = row.fee
      BY <1>2, <1>4, <2>2
    <2>5. \A n, o, i, j : Charges(n, i, c)' /\ Charges(o, j, c)' => n = o /\ i = j
      BY <2>2
    <2> QED
      BY <1>8, <2>3, <2>4, <2>5 DEF FeeOrdered
  <1> QED
    BY <1>7, <1>8

-----------------------------------------------------------------------------
(* The steps, one request at a time.                                       *)

Good == Serial /\ (~outrun => Ends)

LEMMA EnterGood ==
  ASSUME Typed, Good, NEW r \in Requests, NEW op, NEW id, NEW seen, Enter(r, op, id, seen),
         UNCHANGED changeVars, overlaps' = 0,
         NEW q, q = [op |-> op, id |-> id, seen |-> seen], RequestCurrent(q), RequestEnds(q)
  PROVE  Good'
  <1>1. /\ Serial' /\ request' = [request EXCEPT ![r] = q]
        /\ UNCHANGED <<deposit, change>> /\ outrun' = outrun
        /\ \A s \in Requests \ {r} : request'[s] = Idle
    BY EnterSerial DEF Good
  <1>2. request'[r] = q
    BY <1>1 DEF Typed, RequestsTyped
  <1>3. \A s \in Requests : RequestEnds(request[s])'
    BY <1>1, <1>2, IdleIsCurrent DEF RequestEnds
  <1>4. Ends => Ends'
    BY <1>1, <1>3 DEF Ends, DepositEnds, ChangeEnds
  <1> QED
    BY <1>1, <1>4 DEF Good

LEMMA BeginDecisionGood ==
  ASSUME Typed, Good, overlaps' = 0, NEW r \in Requests, NEW d \in Deposits,
         NEW op \in {"APPROVE", "REJECT"}, BeginDecision(r, d, op), UNCHANGED changeVars
  PROVE  Good'
  <1>1. PICK q : q = [op |-> op, id |-> d, seen |-> deposit[d]]
    OBVIOUS
  <1>2. RequestCurrent(q) /\ RequestEnds(q)
    BY <1>1 DEF BeginDecision, RequestCurrent, RequestEnds
  <1> QED
    BY <1>1, <1>2, EnterGood DEF BeginDecision

LEMMA BeginPayGood ==
  ASSUME Typed, Good, overlaps' = 0, NEW r \in Requests, NEW m \in Members,
         NEW ds \in SUBSET DueOf(m), BeginPay(r, m, ds), UNCHANGED changeVars
  PROVE  Good'
  <1>1. PICK p, seen :
          /\ p \in NextPeriod(m)
          /\ seen = [member |-> m, rows |-> [d \in ds |-> deposit[d]]]
          /\ Enter(r, "PAY", p, seen)
    BY DEF BeginPay
  <1>2. PICK q : q = [op |-> "PAY", id |-> p, seen |-> seen]
    OBVIOUS
  <1>3. RequestCurrent(q) /\ RequestEnds(q)
    BY <1>1, <1>2 DEF RequestCurrent, RequestEnds
  <1> QED
    BY <1>1, <1>2, <1>3, EnterGood

LEMMA BeginStopGood ==
  ASSUME Typed, Good, overlaps' = 0, NEW r \in Requests, NEW d \in Deposits, BeginStop(r, d)
  PROVE  Good'
  <1>1. PICK q : q = [op |-> "STOP", id |-> d, seen |-> StopRequest(d)]
    OBVIOUS
  <1>2. RequestCurrent(q) /\ RequestEnds(q)
    BY <1>1 DEF BeginStop, StopRequest, RequestCurrent, RequestEnds
  <1> QED
    BY <1>1, <1>2, EnterGood DEF BeginStop

LEMMA BeginCreateGood ==
  ASSUME Typed, Good, overlaps' = 0, NEW r \in Requests, NEW d \in Deposits, NEW new \in Terms,
         BeginCreate(r, d, new)
  PROVE  Good'
  <1>1. PICK q : q = [op |-> "CREATE", id |-> d, seen |-> Draft(d, new)]
    OBVIOUS
  <1>2. RequestCurrent(q)
    BY <1>1 DEF BeginCreate, Draft, RequestCurrent
  <1>3. RequestEnds(q)
    <2>1. deposit[d].count \in Nat
      BY TableRows, DepositRows DEF BeginCreate, Changeable, Typed
    <2>2. new.tenor \in Nat
      BY AmountTypes DEF Terms
    <2>3. deposit[d].count < new.tenor
      BY <2>1, <2>2 DEF BeginCreate, Acceptable
    <2> QED
      BY <1>1, <2>3 DEF Draft, RequestEnds
  <1> QED
    BY <1>1, <1>2, <1>3, EnterGood DEF BeginCreate

LEMMA BeginOnDraftGood ==
  ASSUME Typed, Good, overlaps' = 0, NEW r \in Requests, NEW c \in Changes, NEW op, NEW seen,
         op \in {"SUBMIT", "CANCEL", "EDIT"}, BeginOnDraft(r, c, op, seen),
         op = "EDIT" => deposit[change[c].deposit].count < seen.tenor
  PROVE  Good'
  <1>1. PICK q : q = [op |-> op, id |-> c, seen |-> seen]
    OBVIOUS
  <1>2. RequestCurrent(q) /\ RequestEnds(q)
    BY <1>1 DEF BeginOnDraft, RequestCurrent, RequestEnds
  <1> QED
    BY <1>1, <1>2, EnterGood DEF BeginOnDraft

LEMMA BeginEditGood ==
  ASSUME Typed, Good, overlaps' = 0, NEW r \in Requests, NEW c \in Changes, NEW new \in Terms,
         BeginEdit(r, c, new)
  PROVE  Good'
  <1>1. change[c] \in ChangeRow /\ Exists(c)
    BY TableRows, ChangeRows DEF BeginEdit, BeginOnDraft, Typed, Exists
  <1>2. deposit[change[c].deposit] \in DepositRow
    BY <1>1, TableRows, ChangeRows DEF Typed, Tables, ChangesLinked, Linked
  <1>3. deposit[change[c].deposit].count \in Nat /\ new.tenor \in Nat
    BY <1>2, DepositRows, AmountTypes DEF Terms
  <1>4. deposit[change[c].deposit].count < new.tenor
    BY <1>3 DEF BeginEdit, Acceptable
  <1> QED
    BY <1>4, BeginOnDraftGood DEF BeginEdit

LEMMA BeginChangeDecisionGood ==
  ASSUME Typed, Good, overlaps' = 0, NEW r \in Requests, NEW c \in Changes,
         NEW op \in {"APPROVE_CHANGE", "REJECT_CHANGE"}, BeginChangeDecision(r, c, op)
  PROVE  Good'
  <1>1. PICK q : q = [op |-> op, id |-> c, seen |-> change[c]]
    OBVIOUS
  <1>2. RequestCurrent(q) /\ RequestEnds(q)
    BY <1>1 DEF BeginChangeDecision, RequestCurrent, RequestEnds
  <1> QED
    BY <1>1, <1>2, EnterGood DEF BeginChangeDecision

\* A deposit is opened while any request is in flight.
LEMMA CreatedGood ==
  ASSUME Typed, Good, NEW d \in Deposits, NEW row \in DepositRow, Created(d, row),
         UNCHANGED changeVars
  PROVE  Good'
  <1>1. /\ deposit[d] = NoDeposit /\ deposit'[d] = row
        /\ \A e \in Deposits \ {d} : deposit'[e] = deposit[e]
        /\ UNCHANGED <<debits, request, change, interrupted, outrun>>
    BY DepositWritten DEF Created, Typed, savingsVars, changeVars
  <1>2. /\ approvals'[d] = OpenApprovals
        /\ \A x \in (Deposits \cup Changes) \ {d} : approvals'[x] = approvals[x]
    BY TableTypes DEF Created, Typed
  <1>3. \A c \in Changes : approvals'[c] = approvals[c]
    BY <1>2, AmountTypes
  <1>4. DepositsOrdered'
    <2>1. DepositOrdered(row, OpenApprovals)
      BY DEF Created, DepositOrdered, OpenApprovals, SignedStatus, Steps
    <2> QED
      BY <1>2, <2>1, DepositRowSerial DEF Created, Typed, Good, Serial, Rows
  <1>5. Aging
    BY <1>1, DepositRows DEF Aging, SignedStatus
  <1>6. Rows'
    BY <1>1, <1>3, <1>4, <1>5, ChangesSame, FeesSame DEF Rows, Good, Serial, Typed
  <1>7. OneRequest' /\ Opened'
    BY <1>1, <1>3 DEF Good, Serial, OneRequest, Opened, Approving, Is
  <1>8. \A e \in Deposits : deposit[e].status # "NONE" => e # d
    BY <1>1, DepositRows
  <1>9. ASSUME NEW s \in Requests
        PROVE  RequestCurrent(request[s])'
    <2>1. PICK q : q = request[s] /\ q = request'[s]
      BY <1>1
    <2>2. RequestCurrent(q)
      BY <2>1 DEF Good, Serial, RequestsCurrent
    <2>3. q.op \in {"APPROVE", "REJECT"} =>
            q.id \in Deposits /\ q.id # d
      BY <1>1, <2>1, RequestFacts
    <2>4. q.op = "PAY" => \A e \in DOMAIN q.seen.rows : e \in Deposits /\ e # d
      BY <1>1, <2>1, PayFacts, DepositRows
    <2>5. q.op \in {"CREATE", "STOP"} => q.seen.deposit \in Deposits /\ q.seen.deposit # d
      BY <1>1, <2>1, RequestFacts, ChangeRows DEF Linked
    <2>6. q.op \in {"APPROVE_CHANGE", "REJECT_CHANGE"} => q.id \in Changes
      BY <2>1, RequestFacts
    <2>7. RequestCurrent(q)'
      BY <1>1, <1>2, <1>3, <2>2, <2>3, <2>4, <2>5, <2>6
         DEF RequestCurrent, Decidable, DueOf, Changeable, Pending
    <2> QED
      BY <2>1, <2>7
  <1>10. ASSUME Ends
         PROVE  Ends'
    <2>1. \A e \in Deposits : DepositEnds(deposit'[e])
      BY <1>1, <1>10 DEF Ends, DepositEnds, Created
    <2>2. \A c \in Changes : change[c] \notin {NoChange, Deleted} =>
            change[c].deposit \in Deposits /\ change[c].deposit # d
      BY <1>1, TableRows, ChangeRows DEF Typed, Tables, ChangesLinked, Linked, Exists
    <2>3. \A c \in Changes : Pends(change[c]) => change[c] \notin {NoChange, Deleted}
      BY ChangeRows DEF Pends
    <2>4. \A c \in Changes : ChangeEnds(change[c], deposit')
      BY <1>1, <1>10, <2>2, <2>3 DEF Ends, ChangeEnds
    <2>5. ASSUME NEW s \in Requests
          PROVE  RequestEnds(request[s])'
      <3>1. PICK q : q = request[s] /\ q = request'[s]
        BY <1>1
      <3>2. RequestEnds(q) /\ RequestCurrent(q)
        BY <1>10, <3>1 DEF Ends, Good, Serial, RequestsCurrent
      <3>3. q.op = "CREATE" => q.seen.deposit \in Deposits /\ q.seen.deposit # d
        BY <1>1, <3>1, RequestFacts, ChangeRows DEF Linked
      <3>4. q.op = "EDIT" => q.id \in Changes /\ Pends(change[q.id])
        BY <3>1, <3>2, RequestFacts DEF RequestCurrent, Pends
      <3>5. RequestEnds(q)'
        BY <1>1, <2>2, <2>3, <3>2, <3>3, <3>4 DEF RequestEnds
      <3> QED
        BY <3>1, <3>5
    <2> QED
      BY <1>1, <2>1, <2>4, <2>5 DEF Ends
  <1> QED
    BY <1>1, <1>6, <1>7, <1>9, <1>10 DEF Good, Serial, RequestsCurrent

LEMMA SetFeeGood ==
  ASSUME Typed, Good, NEW fee \in Fees, SetFee(fee)
  PROVE  Good'
  <1>1. UNCHANGED <<debits, deposit, approvals, request, change, interrupted, outrun>>
    BY DEF SetFee, savingsVars, depositVars
  <1>2. Rows'
    BY <1>1, RowsKept DEF Good, Serial
  <1>3. OneRequest' /\ RequestsCurrent' /\ Opened'
    BY <1>1 DEF Good, Serial, OneRequest, RequestsCurrent, RequestCurrent, Opened, Approving, Is,
                Decidable, DueOf, Changeable, Pending
  <1>4. Ends => Ends'
    BY <1>1 DEF Ends, DepositEnds, ChangeEnds, RequestEnds
  <1> QED
    BY <1>1, <1>2, <1>3, <1>4 DEF Good, Serial

-----------------------------------------------------------------------------
\* The end of any request but one that inserts the records of a stop.
LEMMA OpenedSame ==
  ASSUME Typed, Serial, NEW r \in Requests, request[r] # Idle, request[r].op # "STOP_APPROVALS",
         UNCHANGED <<change, interrupted>>, \A c \in Changes : approvals'[c] = approvals[c]
  PROVE  Opened'
  <1>1. \A c \in Changes : ~Approving(c)
    BY OnlyOne DEF Approving, Is
  <1> QED
    BY <1>1 DEF Serial, Opened

LEMMA OpenedWritten ==
  ASSUME Typed, Serial, NEW r \in Requests, request[r] # Idle, request[r].op # "STOP_APPROVALS",
         UNCHANGED interrupted, NEW c \in Changes, NEW row \in {NoChange, Deleted} \cup ChangeRow,
         change' = [change EXCEPT ![c] = row],
         \A b \in Changes \ {c} : approvals'[b] = approvals[b],
         ~(row.status = "SUBMITTED" /\ approvals'[c] = NoApprovals)
  PROVE  Opened'
  <1>1. \A b \in Changes : ~Approving(b)
    BY OnlyOne DEF Approving, Is
  <1>2. change'[c] = row /\ \A b \in Changes \ {c} : change'[b] = change[b]
    BY ChangeWritten DEF Typed
  <1> QED
    BY <1>1, <1>2 DEF Serial, Opened

LEMMA StepNames ==
  /\ Steps = {"DIVISI_SIMPAN_PINJAM", "KETUA"} /\ NoStep \notin Steps
  /\ StepAfter("DIVISI_SIMPAN_PINJAM") = "KETUA" /\ StepAfter("KETUA") = NoStep
  /\ StatusAfter("DIVISI_SIMPAN_PINJAM") = "UNDER_REVIEW_KETUA" /\ StatusAfter("KETUA") = "APPROVED"
  BY DEF Steps, NoStep, StepAfter, StatusAfter

LEMMA ReviewIsNotSigned ==
  {"NONE", "UNDER_REVIEW_DSP", "UNDER_REVIEW_KETUA", "REJECTED"} \cap SignedStatus = {}
  BY DEF SignedStatus

\* The records of a step that is decided.
LEMMA Signature ==
  ASSUME NEW a \in [Steps -> Decisions], NEW s \in Steps, a[s] = "OPEN",
         s = "DIVISI_SIMPAN_PINJAM" => a = OpenApprovals,
         s = "KETUA" => a["DIVISI_SIMPAN_PINJAM"] = "APPROVED",
         NEW b, b = [a EXCEPT ![s] = "APPROVED"]
  PROVE  /\ b["DIVISI_SIMPAN_PINJAM"] = "APPROVED"
         /\ s = "DIVISI_SIMPAN_PINJAM" => b["KETUA"] = "OPEN"
         /\ s = "KETUA" => \A x \in Steps : b[x] = "APPROVED"
  BY DEF Steps, OpenApprovals

LEMMA DepositDecidedGood ==
  ASSUME Typed, Good, NEW r \in Requests, NEW d \in Deposits, NEW row \in DepositRow,
         NEW s \in Steps, NEW v \in {"APPROVED", "REJECTED"}, DepositDecided(r, d, row, s, v),
         UNCHANGED changeVars
  PROVE  Good' /\ deposit[d].status # "COMPLETED"
  <1>1. Serial /\ request[r] # Idle /\ request[r].op \in {"APPROVE", "REJECT"} /\ Done(r)
    BY DEF Good, DepositDecided
  <1>2. request[r].seen = deposit[d] /\ Decidable(d, deposit[d]) /\ s = deposit[d].step
    BY <1>1 DEF Serial, RequestsCurrent, RequestCurrent, DepositDecided
  <1>3. DepositOrdered(deposit[d], approvals[d]) /\ approvals[d][s] = "OPEN"
    BY <1>1, <1>2 DEF Serial, Rows, DepositsOrdered, Decidable
  <1>4. /\ deposit[d].count = 0 /\ deposit[d].status \in {"UNDER_REVIEW_DSP", "UNDER_REVIEW_KETUA"}
        /\ s = "DIVISI_SIMPAN_PINJAM" => approvals[d] = OpenApprovals
        /\ s = "KETUA" => approvals[d]["DIVISI_SIMPAN_PINJAM"] = "APPROVED"
    BY <1>2, <1>3 DEF DepositOrdered
  <1>5. /\ approvals'[d] = [approvals[d] EXCEPT ![s] = v]
        /\ \A x \in (Deposits \cup Changes) \ {d} : approvals'[x] = approvals[x]
        /\ approvals[d] \in [Steps -> Decisions]
    BY TableTypes DEF DepositDecided, Typed
  <1>6. \A c \in Changes : approvals'[c] = approvals[c]
    BY <1>5, AmountTypes
  <1>7. /\ deposit'[d] = row /\ \A e \in Deposits \ {d} : deposit'[e] = deposit[e]
        /\ row.count = 0 /\ row.tenor = deposit[d].tenor /\ deposit[d] \in DepositRow
    BY <1>4, DepositWritten DEF DepositDecided, SameTerms, Typed
  <1>8. DepositOrdered(row, approvals'[d])
    <2>1. CASE v = "REJECTED"
      <3>1. row.status = "REJECTED" /\ row.step = NoStep
        BY <2>1 DEF DepositDecided
      <3> QED
        BY <1>7, <3>1, StepNames DEF DepositOrdered, SignedStatus
    <2>2. CASE v = "APPROVED" /\ s = "DIVISI_SIMPAN_PINJAM"
      <3>1. row.status = "UNDER_REVIEW_KETUA" /\ row.step = "KETUA"
        BY <2>2, StepNames DEF DepositDecided
      <3>2. approvals'[d]["DIVISI_SIMPAN_PINJAM"] = "APPROVED" /\ approvals'[d]["KETUA"] = "OPEN"
        <4>1. approvals'[d] = [approvals[d] EXCEPT ![s] = "APPROVED"]
          BY <1>5, <2>2
        <4> QED
          BY <1>4, <2>2, <4>1 DEF OpenApprovals, Steps
      <3> QED
        BY <1>7, <3>1, <3>2, StepNames DEF DepositOrdered, SignedStatus
    <2>3. CASE v = "APPROVED" /\ s = "KETUA"
      <3>1. row.status = "APPROVED" /\ row.step = NoStep
        BY <2>3, StepNames DEF DepositDecided
      <3>2. \A x \in Steps : approvals'[d][x] = "APPROVED"
        BY <1>3, <1>4, <1>5, <2>3, Signature
      <3> QED
        BY <1>7, <3>1, <3>2, StepNames DEF DepositOrdered, SignedStatus
    <2> QED
      BY <2>1, <2>2, <2>3, StepNames
  <1>9. DepositsOrdered'
    BY <1>1, <1>5, <1>8, DepositRowSerial DEF DepositDecided, Typed, Serial, Rows
  <1>10. Aging
    BY <1>4, <1>7, ReviewIsNotSigned DEF Aging
  <1>11. UNCHANGED <<debits, change, interrupted, outrun>>
    BY DEF DepositDecided, savingsVars, changeVars
  <1>12. Rows'
    BY <1>1, <1>6, <1>9, <1>10, <1>11, ChangesSame, FeesSame DEF Rows, Serial, Typed
  <1>13. Opened'
    BY <1>1, <1>6, <1>11, OpenedSame
  <1>14. Serial'
    BY <1>1, <1>12, <1>13, DoneSerial DEF Serial
  <1>15. ASSUME Ends
         PROVE  Ends'
    <2>1. row.tenor \in Nat /\ row.tenor > 0
      BY DepositRows, AmountTypes
    <2>2. \A e \in Deposits : DepositEnds(deposit'[e])
      BY <1>7, <1>15, <2>1 DEF Ends, DepositEnds
    <2>3. \A e \in Deposits : deposit'[e].count = deposit[e].count
      BY <1>4, <1>7
    <2>4. \A c \in Changes : ChangeEnds(change[c], deposit')
      <3>1. \A c \in Changes : Pends(change[c]) => change[c].deposit \in Deposits
        BY TableRows, ChangeRows DEF Pends, Typed, Exists
      <3> QED
        BY <1>15, <2>3, <3>1 DEF Ends, ChangeEnds
    <2> QED
      BY <1>1, <1>11, <2>2, <2>4, DoneSerial DEF Ends
  <1> QED
    BY <1>4, <1>11, <1>14, <1>15 DEF Good

LEMMA PaidGood ==
  ASSUME Typed, Good, NEW r \in Requests, NEW m \in Members, NEW p \in Periods, NEW rows,
         Paid(r, m, p, rows), UNCHANGED <<change, interrupted>>,
         outrun' = (outrun \/ \E d \in DOMAIN rows : Pending(d) # {})
  PROVE  /\ Good'
         /\ \A d \in Deposits : deposit[d].status = "COMPLETED" => deposit'[d] = deposit[d]
  <1>1. /\ Serial /\ request[r] # Idle /\ request[r].op = "PAY" /\ Done(r)
        /\ UNCHANGED <<debits, approvals>>
    BY DEF Good, Paid
  <1>2. \A d \in DOMAIN rows : /\ d \in Deposits /\ rows[d] = deposit[d]
                               /\ deposit[d] \in DepositRow
                               /\ deposit[d].status \in {"APPROVED", "ACTIVE"}
    BY <1>1 DEF Serial, RequestsCurrent, RequestCurrent, DueOf, Paid
  <1>3. \A d \in Deposits : IF d \in DOMAIN rows THEN InstallmentTaken(d, deposit[d])
                                                 ELSE deposit'[d] = deposit[d]
    BY <1>2 DEF Paid
  <1>4. \A d \in DOMAIN rows : /\ deposit'[d].status \in {"ACTIVE", "COMPLETED"}
                               /\ deposit'[d].step = deposit[d].step
    BY <1>2, <1>3 DEF InstallmentTaken
  <1>5. DepositsOrdered'
    <2> SUFFICES ASSUME NEW d \in Deposits
                 PROVE  DepositOrdered(deposit'[d], approvals[d])
      BY <1>1 DEF DepositsOrdered, DepositOrdered
    <2>1. DepositOrdered(deposit[d], approvals[d])
      BY <1>1 DEF Serial, Rows, DepositsOrdered
    <2>2. CASE d \in DOMAIN rows
      BY <1>2, <1>4, <2>1, <2>2 DEF DepositOrdered, SignedStatus
    <2>3. CASE d \notin DOMAIN rows
      BY <1>3, <2>1, <2>3
    <2> QED
      BY <2>2, <2>3
  <1>6. Aging
    BY <1>2, <1>3, <1>4 DEF Aging, SignedStatus
  <1>7. Rows'
    BY <1>1, <1>5, <1>6, ChangesSame, FeesSame DEF Rows, Serial, Typed
  <1>8. Opened'
    BY <1>1, OpenedSame
  <1>9. Serial'
    BY <1>1, <1>7, <1>8, DoneSerial DEF Serial
  <1>10. ASSUME ~outrun'
         PROVE  Ends'
    <2>1. Ends /\ ~outrun /\ \A d \in DOMAIN rows : Pending(d) = {}
      BY <1>10 DEF Good
    <2>2. ASSUME NEW d \in Deposits
          PROVE  DepositEnds(deposit'[d])
      <3>1. CASE d \in DOMAIN rows
        <4>1. deposit[d].count \in Nat /\ deposit[d].tenor \in Nat
          BY <1>2, <3>1, DepositRows, AmountTypes
        <4>2. /\ deposit'[d].tenor = deposit[d].tenor
              /\ deposit'[d].count = deposit[d].count + 1
              /\ deposit'[d].status = (IF deposit[d].count + 1 >= deposit[d].tenor
                                         THEN "COMPLETED" ELSE "ACTIVE")
          BY <1>3, <3>1 DEF InstallmentTaken
        <4> QED
          BY <4>1, <4>2 DEF DepositEnds
      <3>2. CASE d \notin DOMAIN rows
        BY <1>3, <2>1, <3>2 DEF Ends
      <3> QED
        BY <3>1, <3>2
    <2>3. ASSUME NEW c \in Changes
          PROVE  ChangeEnds(change[c], deposit')
      <3>1. Pends(change[c]) => change[c].deposit \in Deposits /\ c \in Pending(change[c].deposit)
        BY TableRows, ChangeRows DEF Pends, Typed, Exists, Pending
      <3>2. Pends(change[c]) => deposit'[change[c].deposit] = deposit[change[c].deposit]
        BY <1>3, <2>1, <3>1
      <3> QED
        BY <2>1, <3>2 DEF Ends, ChangeEnds
    <2> QED
      BY <1>1, <2>2, <2>3, DoneSerial DEF Ends
  <1>11. \A d \in Deposits : deposit[d].status = "COMPLETED" => deposit'[d] = deposit[d]
    BY <1>2, <1>3
  <1> QED
    BY <1>9, <1>10, <1>11 DEF Good

-----------------------------------------------------------------------------
\* A change is written, no deposit and no account.
LEMMA ChangeWrittenGood ==
  ASSUME Typed, Good, NEW r \in Requests, request[r] # Idle, request[r].op # "STOP_APPROVALS",
         Done(r), UNCHANGED <<debits, deposit, interrupted, outrun>>,
         NEW c \in Changes, NEW row \in {NoChange, Deleted} \cup ChangeRow,
         change' = [change EXCEPT ![c] = row],
         \A x \in (Deposits \cup Changes) \ {c} : approvals'[x] = approvals[x],
         ChangeOrdered(row, approvals'[c]), OnSigned(row, deposit),
         Pends(row) => \A b \in Changes \ {c} :
                         Pends(change[b]) => change[b].deposit # row.deposit,
         change[c].status # "APPROVED", row.status # "APPROVED",
         ~(row.status = "SUBMITTED" /\ approvals'[c] = NoApprovals),
         Ends => ChangeEnds(row, deposit)
  PROVE  Good'
  <1>1. Serial
    BY DEF Good
  <1>2. \A d \in Deposits : approvals'[d] = approvals[d]
    BY AmountTypes
  <1>3. DepositsOrdered'
    BY <1>1, <1>2, DepositsSame DEF Serial, Rows
  <1>4. ChangesOrdered' /\ OnDeposits' /\ OnePending'
    <2>1. Aging
      BY DEF Aging
    <2> QED
      BY <1>1, <2>1, ChangeRowSerial DEF Serial, Typed
  <1>5. FeesOrdered'
    BY <1>1, FeesQuiet DEF Serial, Rows, Typed
  <1>6. Opened'
    BY <1>1, OpenedWritten
  <1>7. Serial'
    BY <1>1, <1>3, <1>4, <1>5, <1>6, DoneSerial DEF Serial, Rows
  <1>8. ASSUME Ends
        PROVE  Ends'
    <2>1. change'[c] = row /\ \A b \in Changes \ {c} : change'[b] = change[b]
      BY ChangeWritten DEF Typed
    <2>2. \A b \in Changes : ChangeEnds(change'[b], deposit)
      BY <1>8, <2>1 DEF Ends
    <2>3. \A s \in Requests : RequestEnds(request[s])'
      BY <1>1, DoneSerial
    <2> QED
      BY <1>8, <2>2, <2>3 DEF Ends
  <1> QED
    BY <1>7, <1>8 DEF Good

LEMMA CommitCreateGood ==
  ASSUME Typed, Good, NEW r \in Requests, CommitCreate(r)
  PROVE  Good'
  <1>1. /\ request[r] # Idle /\ request[r].op = "CREATE" /\ Done(r)
        /\ UNCHANGED <<debits, deposit, approvals, interrupted, outrun>>
    BY DEF CommitCreate, Is, savingsVars
  <1>2. PICK c, row : /\ c \in Changes /\ change[c] = NoChange
                      /\ row = request[r].seen
                      /\ change' = [change EXCEPT ![c] = row]
    BY DEF CommitCreate, Insert
  <1>3. /\ row \in ChangeRow /\ Changeable(row.deposit) /\ row.type = "CHANGE"
        /\ row.status = "DRAFT" /\ row.step = NoStep
    BY <1>1, <1>2, RequestFacts DEF Good, Serial, RequestsCurrent, RequestCurrent
  <1>4. ChangeOrdered(row, approvals[c])
    <2>1. approvals[c] = NoApprovals
      BY <1>2, ChangeRows DEF Good, Serial, Rows, ChangesOrdered, ChangeOrdered
    <2> QED
      BY <1>3, <2>1, StepNames DEF ChangeOrdered
  <1>5. OnSigned(row, deposit)
    BY <1>3 DEF Changeable, OnSigned, SignedStatus
  <1>6. \A b \in Changes : Pends(change[b]) => change[b].deposit # row.deposit
    BY <1>3 DEF Changeable, Pending, Pends
  <1>7. Ends => ChangeEnds(row, deposit)
    <2>1. Ends => deposit[row.deposit].count < row.new.tenor
      BY <1>1, <1>2 DEF Ends, RequestEnds
    <2> QED
      BY <2>1 DEF ChangeEnds
  <1> QED
    BY <1>1, <1>2, <1>3, <1>4, <1>5, <1>6, <1>7, ChangeRows, ChangeWrittenGood

LEMMA DraftInFlight ==
  ASSUME Typed, Good, NEW r \in Requests, request[r].op \in {"EDIT", "SUBMIT", "CANCEL"},
         NEW c \in Changes, c = request[r].id, change[c] \in ChangeRow
  PROVE  /\ change[c].status = "DRAFT" /\ change[c].step = NoStep
         /\ approvals[c] = NoApprovals /\ Pends(change[c]) /\ OnSigned(change[c], deposit)
         /\ \A b \in Changes \ {c} : Pends(change[b]) => change[b].deposit # change[c].deposit
         /\ Ends => ChangeEnds(change[c], deposit)
  <1>1. change[c].status = "DRAFT"
    BY DEF Good, Serial, RequestsCurrent, RequestCurrent
  <1>2. ChangeOrdered(change[c], approvals[c])
    BY DEF Good, Serial, Rows, ChangesOrdered
  <1>3. approvals[c] = NoApprovals /\ Pends(change[c])
    BY <1>1, <1>2 DEF ChangeOrdered, Pends
  <1>4. change[c].step = NoStep
    <2>1. change[c].step \notin Steps
      BY <1>1, <1>2 DEF ChangeOrdered
    <2> QED
      BY <1>2, <2>1 DEF ChangeOrdered
  <1>5. OnSigned(change[c], deposit)
    BY DEF Good, Serial, Rows, OnDeposits
  <1>6. \A b \in Changes \ {c} : Pends(change[b]) => change[b].deposit # change[c].deposit
    BY <1>3 DEF Good, Serial, Rows, OnePending
  <1>7. Ends => ChangeEnds(change[c], deposit)
    BY DEF Ends
  <1> QED
    BY <1>1, <1>3, <1>4, <1>5, <1>6, <1>7

LEMMA CommitEditGood ==
  ASSUME Typed, Good, NEW r \in Requests, CommitEdit(r)
  PROVE  Good'
  <1>1. PICK c \in Changes, row \in ChangeRow, new \in Terms :
          /\ request[r].op = "EDIT" /\ request[r].id = c /\ request[r].seen = new
          /\ change[c] \in ChangeRow /\ row = [change[c] EXCEPT !.new = new]
          /\ change' = [change EXCEPT ![c] = row]
    BY EditFacts
  <1>2. /\ row.deposit = change[c].deposit /\ row.status = change[c].status
        /\ row.step = change[c].step /\ row.new = new
    BY <1>1 DEF ChangeRow
  <1>3. /\ change[c].status = "DRAFT" /\ change[c].step = NoStep
        /\ approvals[c] = NoApprovals /\ OnSigned(change[c], deposit)
        /\ \A b \in Changes \ {c} : Pends(change[b]) => change[b].deposit # change[c].deposit
    BY <1>1, DraftInFlight
  <1>4. /\ request[r] # Idle /\ Done(r)
        /\ UNCHANGED <<debits, deposit, approvals, interrupted, outrun>>
    BY DEF CommitEdit, Is, savingsVars
  <1>5. ChangeOrdered(row, approvals'[c])
    BY <1>2, <1>3, <1>4, StepNames DEF ChangeOrdered
  <1>6. OnSigned(row, deposit)
    BY <1>1, <1>2, <1>3, ChangeRows DEF OnSigned
  <1>7. Ends => ChangeEnds(row, deposit)
    BY <1>1, <1>2 DEF Ends, RequestEnds, ChangeEnds
  <1>8. \A b \in Changes \ {c} : Pends(change[b]) => change[b].deposit # row.deposit
    BY <1>2, <1>3
  <1>9. row.status = "DRAFT" /\ request[r].op = "EDIT"
    BY <1>1, <1>2, <1>3
  <1> QED
    BY <1>1, <1>3, <1>4, <1>5, <1>6, <1>7, <1>8, <1>9, ChangeWrittenGood

LEMMA CommitSubmitGood ==
  ASSUME Typed, Good, NEW r \in Requests, CommitSubmit(r)
  PROVE  Good'
  <1>1. PICK c \in Changes, row \in ChangeRow, found \in [Steps -> Decisions] :
          Submitted(r, c, row, found)
    BY SubmitFacts
  <1>2. /\ request[r].op = "SUBMIT" /\ request[r].id = c /\ change[c] \in ChangeRow
        /\ row.deposit = change[c].deposit /\ row.type = change[c].type /\ row.new = change[c].new
        /\ row.status = "SUBMITTED" /\ row.step = "DIVISI_SIMPAN_PINJAM"
        /\ change' = [change EXCEPT ![c] = row]
        /\ found \in {OpenApprovals, approvals[c]} \ {NoApprovals}
        /\ approvals' = [approvals EXCEPT ![c] = found]
    BY <1>1 DEF Submitted, SameChange
  <1>3. /\ change[c].status = "DRAFT" /\ Pends(change[c])
        /\ approvals[c] = NoApprovals /\ OnSigned(change[c], deposit)
        /\ \A b \in Changes \ {c} : Pends(change[b]) => change[b].deposit # change[c].deposit
        /\ Ends => ChangeEnds(change[c], deposit)
    BY <1>2, DraftInFlight
  <1>4. request[r] # Idle /\ Done(r) /\ UNCHANGED <<debits, deposit, interrupted, outrun>>
    BY DEF CommitSubmit, Is, savingsVars
  <1>5. /\ approvals'[c] = OpenApprovals
        /\ \A x \in (Deposits \cup Changes) \ {c} : approvals'[x] = approvals[x]
    BY <1>2, <1>3, TableTypes DEF Typed
  <1>6. OpenApprovals # NoApprovals
    <2>1. OpenApprovals["KETUA"] = "OPEN" /\ NoApprovals["KETUA"] = "NO_ROW"
      BY DEF OpenApprovals, NoApprovals, Steps
    <2> QED
      BY <2>1
  <1>7. ChangeOrdered(row, approvals'[c])
    BY <1>2, <1>5, StepNames DEF ChangeOrdered
  <1>8. OnSigned(row, deposit)
    BY <1>2, <1>3, ChangeRows DEF OnSigned
  <1>9. Ends => ChangeEnds(row, deposit)
    BY <1>2, <1>3 DEF ChangeEnds
  <1>10. \A b \in Changes \ {c} : Pends(change[b]) => change[b].deposit # row.deposit
    BY <1>2, <1>3
  <1>11. row.status = "SUBMITTED" /\ request[r].op = "SUBMIT" /\ approvals'[c] # NoApprovals
    BY <1>2, <1>5, <1>6
  <1>12. change' = [change EXCEPT ![c] = row]
    BY <1>2
  <1> QED
    BY <1>3, <1>4, <1>5, <1>7, <1>8, <1>9, <1>10, <1>11, <1>12, ChangeWrittenGood

LEMMA CommitCancelGood ==
  ASSUME Typed, Good, NEW r \in Requests, CommitCancel(r)
  PROVE  Good'
  <1>1. PICK c \in Changes :
          c = request[r].id /\ change[c] \in ChangeRow /\ request[r].op = "CANCEL"
    BY RequestFacts, TableRows DEF CommitCancel, Is, Typed
  <1>2. /\ request[r] # Idle /\ Done(r) /\ UNCHANGED <<debits, deposit, interrupted, outrun>>
        /\ change' = [change EXCEPT ![c] = Deleted]
        /\ approvals' = [approvals EXCEPT ![c] = NoApprovals]
    BY <1>1 DEF CommitCancel, Is, savingsVars
  <1>3. change[c].status = "DRAFT"
    BY <1>1, DraftInFlight
  <1>4. /\ approvals'[c] = NoApprovals
        /\ \A x \in (Deposits \cup Changes) \ {c} : approvals'[x] = approvals[x]
    BY <1>2, TableTypes DEF Typed
  <1>5. /\ ChangeOrdered(Deleted, approvals'[c]) /\ OnSigned(Deleted, deposit)
        /\ ~Pends(Deleted) /\ Deleted.status = "DELETED"
    BY <1>4, ChangeRows, StepNames DEF ChangeOrdered, OnSigned, Pends
  <1>6. ChangeEnds(Deleted, deposit)
    BY <1>5 DEF ChangeEnds
  <1> QED
    BY <1>1, <1>2, <1>3, <1>4, <1>5, <1>6, ChangeWrittenGood

LEMMA InsertStopGood ==
  ASSUME Typed, Good, NEW r \in Requests, InsertStop(r)
  PROVE  Good'
  <1>1. PICK c, q : c \in Changes /\ StopInserted(r, c, q)
    BY InsertStopFacts
  <1>2. PICK row \in ChangeRow : row = request[r].seen
    BY <1>1 DEF StopInserted
  <1>3. /\ Serial /\ request[r] # Idle /\ request[r].op = "STOP" /\ change[c] = NoChange
        /\ change' = [change EXCEPT ![c] = row]
        /\ q.op = "STOP_APPROVALS" /\ q.id = c /\ request' = [request EXCEPT ![r] = q]
        /\ UNCHANGED <<debits, deposit, approvals, interrupted, outrun>>
    BY <1>1, <1>2 DEF Good, StopInserted, Is, savingsVars
  <1>4. /\ Changeable(row.deposit) /\ row.type = "STOP"
        /\ row.status = "SUBMITTED" /\ row.step = "DIVISI_SIMPAN_PINJAM"
    BY <1>2, <1>3 DEF Serial, RequestsCurrent, RequestCurrent
  <1>5. /\ change'[c] = row /\ \A b \in Changes \ {c} : change'[b] = change[b]
    BY <1>1, <1>3, ChangeWritten DEF Typed
  <1>6. /\ request'[r] = q /\ \A s \in Requests \ {r} : request'[s] = Idle
    BY <1>3, OnlyOne DEF Typed, RequestsTyped
  <1>7. OneRequest'
    BY <1>6 DEF OneRequest
  <1>8. RequestsCurrent'
    <2>1. RequestCurrent(q)'
      BY <1>3, <1>4, <1>5 DEF RequestCurrent
    <2>2. RequestCurrent(Idle)'
      BY DEF RequestCurrent, Idle
    <2> QED
      BY <1>6, <2>1, <2>2 DEF RequestsCurrent
  <1>9. approvals[c] = NoApprovals /\ ChangeOrdered(row, approvals'[c])
    <2>1. approvals[c] = NoApprovals
      BY <1>1, <1>3, ChangeRows DEF Serial, Rows, ChangesOrdered, ChangeOrdered
    <2> QED
      BY <1>3, <1>4, <2>1, StepNames DEF ChangeOrdered
  <1>10. OnSigned(row, deposit)
    BY <1>4 DEF Changeable, OnSigned, SignedStatus
  <1>11. \A b \in Changes : Pends(change[b]) => change[b].deposit # row.deposit
    BY <1>4 DEF Changeable, Pending, Pends
  <1>12. DepositsOrdered'
    BY <1>3, DepositsSame DEF Serial, Rows
  <1>13. ChangesOrdered' /\ OnDeposits' /\ OnePending'
    <2>1. Aging
      BY <1>3 DEF Aging
    <2> QED
      BY <1>1, <1>3, <1>9, <1>10, <1>11, <2>1, ChangeRowSerial DEF Serial, Typed
  <1>14. FeesOrdered'
    BY <1>1, <1>3, <1>4, ChangeRows, FeesQuiet DEF Serial, Rows, Typed
  <1>15. Opened'
    <2>1. \A b \in Changes : ~Approving(b)
      BY <1>3, OnlyOne DEF Approving, Is
    <2>2. Approving(c)'
      BY <1>3, <1>6 DEF Approving, Is, Idle
    <2> QED
      BY <1>3, <1>5, <2>1, <2>2 DEF Serial, Opened
  <1>16. Ends => Ends'
    <2>1. \A s \in Requests : RequestEnds(request[s])'
      BY <1>3, <1>6 DEF RequestEnds, Idle
    <2>2. Ends => \A b \in Changes : ChangeEnds(change'[b], deposit)
      BY <1>4, <1>5 DEF Ends, ChangeEnds
    <2> QED
      BY <1>3, <2>1, <2>2 DEF Ends
  <1> QED
    BY <1>3, <1>7, <1>8, <1>12, <1>13, <1>14, <1>15, <1>16 DEF Good, Serial, Rows

LEMMA InsertStopApprovalsGood ==
  ASSUME Typed, Good, NEW r \in Requests, InsertStopApprovals(r)
  PROVE  Good'
  <1>1. PICK c \in Changes : c = request[r].id
    BY RequestFacts DEF InsertStopApprovals, Is
  <1>2. /\ Serial /\ request[r] # Idle /\ request[r].op = "STOP_APPROVALS" /\ Done(r)
        /\ approvals' = [approvals EXCEPT ![c] = OpenApprovals]
        /\ UNCHANGED <<debits, deposit, change, interrupted, outrun>>
    BY <1>1 DEF Good, InsertStopApprovals, Is, savingsVars, changeVars
  <1>3. change[c].status = "SUBMITTED"
    BY <1>1, <1>2 DEF Serial, RequestsCurrent, RequestCurrent
  <1>4. /\ approvals'[c] = OpenApprovals
        /\ \A x \in (Deposits \cup Changes) \ {c} : approvals'[x] = approvals[x]
    BY <1>2, TableTypes DEF Typed
  <1>5. DepositsOrdered'
    BY <1>2, <1>4, AmountTypes, DepositsSame DEF Serial, Rows
  <1>6. ChangesOrdered'
    <2> SUFFICES ASSUME NEW b \in Changes
                 PROVE  ChangeOrdered(change[b], approvals'[b])
      BY <1>2 DEF ChangesOrdered, ChangeOrdered
    <2>1. ChangeOrdered(change[b], approvals[b])
      BY <1>2 DEF Serial, Rows, ChangesOrdered
    <2>2. CASE b = c
      BY <1>3, <1>4, <2>1, <2>2 DEF ChangeOrdered
    <2>3. CASE b # c
      BY <1>4, <2>1, <2>3
    <2> QED
      BY <2>2, <2>3
  <1>7. OnDeposits' /\ OnePending' /\ FeesOrdered'
    BY <1>2, FeesSame DEF Serial, Rows, OnDeposits, OnePending
  <1>8. Opened'
    <2>1. \A b \in Changes : Approving(b) => b = c
      BY <1>1, <1>2, OnlyOne DEF Approving, Is
    <2>2. OpenApprovals # NoApprovals
      <3>1. OpenApprovals["KETUA"] = "OPEN" /\ NoApprovals["KETUA"] = "NO_ROW"
        BY DEF OpenApprovals, NoApprovals, Steps
      <3> QED
        BY <3>1
    <2> QED
      BY <1>2, <1>4, <2>1, <2>2 DEF Serial, Opened
  <1>9. Serial'
    BY <1>2, <1>5, <1>6, <1>7, <1>8, DoneSerial DEF Serial, Rows
  <1>10. Ends => Ends'
    BY <1>2, DoneSerial DEF Ends
  <1> QED
    BY <1>2, <1>9, <1>10 DEF Good

LEMMA InterruptGood ==
  ASSUME Typed, Good, NEW r \in Requests, Interrupt(r)
  PROVE  Good'
  <1>1. /\ Serial /\ request[r] # Idle /\ Done(r)
        /\ UNCHANGED <<debits, deposit, approvals, change, outrun>>
        /\ interrupted' = IF Is(r, "STOP_APPROVALS") THEN interrupted \cup {request[r].id}
                                                     ELSE interrupted
    BY DEF Good, Interrupt, Fail, savingsVars
  <1>2. Rows'
    BY <1>1, RowsKept DEF Serial
  <1>3. Opened'
    <2>1. \A b \in Changes : Approving(b) => b \in interrupted'
      BY <1>1, OnlyOne DEF Approving, Is
    <2> QED
      BY <1>1, <2>1 DEF Serial, Opened
  <1>4. Serial'
    BY <1>1, <1>2, <1>3, DoneSerial DEF Serial
  <1>5. Ends => Ends'
    BY <1>1, DoneSerial DEF Ends
  <1> QED
    BY <1>1, <1>4, <1>5 DEF Good

-----------------------------------------------------------------------------
(* An officer signs a change.                                              *)

LEMMA ChangeDecidedRows ==
  ASSUME Typed, Serial, NEW r \in Requests, NEW c \in Changes, NEW row \in ChangeRow,
         NEW s \in Steps, NEW v \in {"APPROVED", "REJECTED"}, ChangeDecided(r, c, row, s, v)
  PROVE  /\ request[r].seen = change[c] /\ Pends(change[c]) /\ change[c].status # "APPROVED"
         /\ OnSigned(change[c], deposit)
         /\ \A x \in (Deposits \cup Changes) \ {c} : approvals'[x] = approvals[x]
         /\ row.status \in {"UNDER_REVIEW_KETUA", "APPROVED", "REJECTED"}
         /\ ChangeOrdered(row, approvals'[c]) /\ OnSigned(row, deposit)
         /\ \A b \in Changes \ {c} : Pends(change[b]) => change[b].deposit # row.deposit
  <1>1. request[r].seen = change[c] /\ Decidable(c, change[c]) /\ s = change[c].step
    BY DEF Serial, RequestsCurrent, RequestCurrent, ChangeDecided
  <1>2. ChangeOrdered(change[c], approvals[c]) /\ approvals[c][s] = "OPEN"
    BY <1>1 DEF Serial, Rows, ChangesOrdered, Decidable
  <1>3. /\ change[c].status = (IF s = "KETUA" THEN "UNDER_REVIEW_KETUA" ELSE "SUBMITTED")
        /\ Pends(change[c]) /\ change[c].status # "APPROVED"
    BY <1>1, <1>2 DEF ChangeOrdered, Pends
  <1>4. s = "DIVISI_SIMPAN_PINJAM" => approvals[c] = OpenApprovals
    <2>1. NoApprovals["DIVISI_SIMPAN_PINJAM"] = "NO_ROW"
      BY DEF NoApprovals, Steps
    <2> QED
      BY <1>2, <1>3, <2>1 DEF ChangeOrdered
  <1>5. s = "KETUA" => approvals[c]["DIVISI_SIMPAN_PINJAM"] = "APPROVED"
    BY <1>2, <1>3 DEF ChangeOrdered
  <1>6. /\ approvals'[c] = [approvals[c] EXCEPT ![s] = v]
        /\ \A x \in (Deposits \cup Changes) \ {c} : approvals'[x] = approvals[x]
        /\ approvals[c] \in [Steps -> Decisions]
    BY TableTypes DEF ChangeDecided, Typed
  <1>7. ChangeOrdered(row, approvals'[c]) /\ row.status \in {"UNDER_REVIEW_KETUA", "APPROVED", "REJECTED"}
    <2>1. CASE v = "REJECTED"
      <3>1. row.status = "REJECTED" /\ row.step = NoStep
        BY <2>1 DEF ChangeDecided
      <3> QED
        BY <3>1, StepNames DEF ChangeOrdered
    <2>2. CASE v = "APPROVED" /\ s = "DIVISI_SIMPAN_PINJAM"
      <3>1. row.status = "UNDER_REVIEW_KETUA" /\ row.step = "KETUA"
        BY <2>2, StepNames DEF ChangeDecided
      <3>2. approvals'[c]["DIVISI_SIMPAN_PINJAM"] = "APPROVED" /\ approvals'[c]["KETUA"] = "OPEN"
        BY <1>4, <1>6, <2>2 DEF OpenApprovals, Steps
      <3> QED
        BY <3>1, <3>2, StepNames DEF ChangeOrdered
    <2>3. CASE v = "APPROVED" /\ s = "KETUA"
      <3>1. row.status = "APPROVED" /\ row.step = NoStep
        BY <2>3, StepNames DEF ChangeDecided
      <3>2. \A x \in Steps : approvals'[c][x] = "APPROVED"
        BY <1>5, <1>6, <2>3 DEF Steps
      <3> QED
        BY <3>1, <3>2, StepNames DEF ChangeOrdered
    <2> QED
      BY <2>1, <2>2, <2>3, StepNames
  <1>8. OnSigned(change[c], deposit)
    BY DEF Serial, Rows, OnDeposits
  <1>9. row.deposit = change[c].deposit /\ change[c] \in ChangeRow
    BY DEF ChangeDecided, SameChange
  <1>10. OnSigned(row, deposit)
    BY <1>8, <1>9, ChangeRows DEF OnSigned
  <1>11. \A b \in Changes \ {c} : Pends(change[b]) => change[b].deposit # row.deposit
    BY <1>3, <1>9 DEF Serial, Rows, OnePending
  <1> QED
    BY <1>1, <1>3, <1>6, <1>7, <1>8, <1>10, <1>11

LEMMA FirstSignatureGood ==
  ASSUME Typed, Good, NEW r \in Requests, CommitChangeReject(r) \/ CommitFirstApproval(r)
  PROVE  Good'
  <1>1. PICK c \in Changes, row \in ChangeRow, s \in Steps, v \in {"APPROVED", "REJECTED"} :
          ChangeDecided(r, c, row, s, v)
    BY ChangeDecisionFacts
  <1>2. /\ request[r] # Idle /\ request[r].op \in {"APPROVE_CHANGE", "REJECT_CHANGE"} /\ Done(r)
        /\ change' = [change EXCEPT ![c] = row] /\ UNCHANGED <<interrupted, outrun>>
        /\ row.deposit = change[c].deposit /\ row.type = change[c].type /\ row.new = change[c].new
    BY <1>1 DEF ChangeDecided, SameChange
  <1>3. UNCHANGED <<debits, deposit>>
    BY DEF CommitChangeReject, CommitFirstApproval, savingsVars
  <1>4. row.status # "APPROVED"
    <2>1. CASE v = "REJECTED"
      BY <1>1, <2>1 DEF ChangeDecided
    <2>2. CASE v = "APPROVED"
      <3>1. request[r].op = "APPROVE_CHANGE" /\ s = request[r].seen.step
            /\ row.status = StatusAfter(s)
        BY <1>1, <2>2 DEF ChangeDecided
      <3>2. StepAfter(s) # NoStep
        BY <3>1 DEF CommitChangeReject, CommitFirstApproval, Is
      <3> QED
        BY <3>1, <3>2 DEF StatusAfter
    <2> QED
      BY <2>1, <2>2
  <1>5. Serial
    BY DEF Good
  <1>6. /\ Pends(change[c]) /\ change[c].status # "APPROVED"
        /\ \A x \in (Deposits \cup Changes) \ {c} : approvals'[x] = approvals[x]
        /\ row.status \in {"UNDER_REVIEW_KETUA", "APPROVED", "REJECTED"}
        /\ ChangeOrdered(row, approvals'[c]) /\ OnSigned(row, deposit)
        /\ \A b \in Changes \ {c} : Pends(change[b]) => change[b].deposit # row.deposit
    BY <1>1, <1>5, ChangeDecidedRows
  <1>7. Ends => ChangeEnds(row, deposit)
    <2>1. Ends => ChangeEnds(change[c], deposit)
      BY DEF Ends
    <2> QED
      BY <1>2, <1>6, <2>1 DEF ChangeEnds
  <1> QED
    BY <1>2, <1>3, <1>4, <1>6, <1>7, ChangeWrittenGood

\* The last signature: the deposit becomes new, and the fee is charged.
LEMMA LastSignatureSerial ==
  ASSUME Typed, Serial, NEW r \in Requests, NEW c \in Changes, NEW row \in ChangeRow,
         NEW s \in Steps, ChangeDecided(r, c, row, s, "APPROVED"),
         NEW d \in Deposits, NEW new \in DepositRow, deposit' = [deposit EXCEPT ![d] = new],
         DepositOrdered(new, approvals[d]), new.status \in SignedStatus, FeesOrdered'
  PROVE  Serial'
  <1>1. /\ request[r] # Idle /\ request[r].op = "APPROVE_CHANGE" /\ Done(r)
        /\ change' = [change EXCEPT ![c] = row] /\ UNCHANGED interrupted
    BY DEF ChangeDecided
  <1>2. /\ \A x \in (Deposits \cup Changes) \ {c} : approvals'[x] = approvals[x]
        /\ row.status \in {"UNDER_REVIEW_KETUA", "APPROVED", "REJECTED"}
        /\ ChangeOrdered(row, approvals'[c]) /\ OnSigned(row, deposit)
        /\ \A b \in Changes \ {c} : Pends(change[b]) => change[b].deposit # row.deposit
    BY ChangeDecidedRows
  <1>3. \A e \in Deposits : approvals'[e] = approvals[e]
    BY <1>2, AmountTypes
  <1>4. DepositsOrdered'
    BY <1>3, DepositRowSerial DEF Serial, Rows, Typed
  <1>5. ChangesOrdered' /\ OnDeposits' /\ OnePending'
    <2>1. Aging
      BY DepositWritten DEF Aging, Typed
    <2> QED
      BY <1>1, <1>2, <2>1, ChangeRowSerial DEF Serial, Typed
  <1>6. Opened'
    BY <1>1, <1>2, OpenedWritten
  <1> QED
    BY <1>1, <1>4, <1>5, <1>6, DoneSerial DEF Serial, Rows

\* What the last signature has read of the change and of its deposit.
LEMMA LastSignatureFacts ==
  ASSUME Typed, Serial, NEW r \in Requests, NEW last, LastApproval(r, last),
         NEW d \in Deposits, d = request[r].seen.deposit
  PROVE  \E c \in Changes, row \in ChangeRow, s \in Steps :
           /\ ChangeDecided(r, c, row, s, "APPROVED")
           /\ c = request[r].id /\ request[r].seen = change[c] /\ change[c] \in ChangeRow
           /\ Pends(change[c]) /\ change[c].status # "APPROVED"
           /\ row.status = "APPROVED" /\ row.type = change[c].type /\ row.fee = change[c].fee
           /\ d = change[c].deposit /\ deposit[d].status \in SignedStatus
           /\ \A x \in Steps : approvals[d][x] = "APPROVED"
           /\ deposit[d].step = NoStep /\ DepositOrdered(deposit[d], approvals[d])
  <1>1. PICK c \in Changes, row \in ChangeRow, s \in Steps, v \in {"APPROVED", "REJECTED"} :
          ChangeDecided(r, c, row, s, v)
    BY ChangeDecisionFacts
  <1>2. v = "APPROVED" /\ StepAfter(s) = NoStep
    BY <1>1 DEF LastApproval, Is, ChangeDecided
  <1>3. /\ c = request[r].id /\ change[c] \in ChangeRow /\ row.status = "APPROVED"
        /\ row.type = change[c].type /\ row.fee = change[c].fee
    BY <1>1, <1>2 DEF ChangeDecided, SameChange, StatusAfter
  <1>4. /\ request[r].seen = change[c] /\ Pends(change[c]) /\ change[c].status # "APPROVED"
        /\ OnSigned(change[c], deposit)
    BY <1>1, ChangeDecidedRows
  <1>5. d = change[c].deposit /\ deposit[d].status \in SignedStatus
    BY <1>3, <1>4, ChangeRows DEF OnSigned
  <1>6. DepositOrdered(deposit[d], approvals[d])
    BY DEF Serial, Rows, DepositsOrdered
  <1>7. deposit[d].step = NoStep /\ \A x \in Steps : approvals[d][x] = "APPROVED"
    BY <1>5, <1>6, ReviewIsNotSigned DEF DepositOrdered
  <1> QED
    BY <1>1, <1>2, <1>3, <1>4, <1>5, <1>6, <1>7

LEMMA CommitChangeGood ==
  ASSUME Typed, Good, NEW r \in Requests, CommitChange(r)
  PROVE  /\ Good'
         /\ \A e \in Deposits : /\ deposit'[e].status = deposit[e].status
                                /\ deposit'[e].count = deposit[e].count
  <1>1. PICK d \in Deposits, new \in DepositRow : TermsChanged(r, d, new)
    BY CommitChangeFacts
  <1>2. /\ Serial /\ d = request[r].seen.deposit /\ request[r].seen.type = "CHANGE"
        /\ deposit[d] \in DepositRow
        /\ new.count = deposit[d].count /\ new.status = deposit[d].status
        /\ new.step = deposit[d].step
        /\ new.tenor = request[r].seen.new.tenor
        /\ deposit' = [deposit EXCEPT ![d] = new]
        /\ Debited(deposit[d].member, adminFee, request[r].id)
    BY <1>1 DEF Good, TermsChanged
  <1>3. PICK c \in Changes, row \in ChangeRow, s \in Steps :
           /\ ChangeDecided(r, c, row, s, "APPROVED")
           /\ c = request[r].id /\ request[r].seen = change[c] /\ change[c] \in ChangeRow
           /\ Pends(change[c]) /\ change[c].status # "APPROVED"
           /\ row.status = "APPROVED" /\ row.type = change[c].type /\ row.fee = change[c].fee
           /\ d = change[c].deposit /\ deposit[d].status \in SignedStatus
           /\ \A x \in Steps : approvals[d][x] = "APPROVED"
           /\ deposit[d].step = NoStep /\ DepositOrdered(deposit[d], approvals[d])
    BY <1>2, LastSignatureFacts DEF CommitChange
  <1>4. change' = [change EXCEPT ![c] = row] /\ request[r] # Idle /\ Done(r) /\ UNCHANGED outrun
    BY <1>3 DEF ChangeDecided
  <1>5. FeesOrdered'
    <2>1. deposit[d].member \in Members /\ adminFee \in Fees
      BY <1>2, DepositRows, TableTypes DEF Typed
    <2>2. row.type # "STOP"
      BY <1>2, <1>3
    <2>3. Debited(deposit[d].member, adminFee, c)
      BY <1>2, <1>3
    <2>4. FeesOrdered /\ Tables
      BY <1>2 DEF Serial, Rows, Typed
    <2> QED
      BY <1>3, <1>4, <2>1, <2>2, <2>3, <2>4, FeesCharged
  <1>6. DepositOrdered(new, approvals[d])
    BY <1>2, <1>3 DEF DepositOrdered
  <1>7. Serial'
    BY <1>2, <1>3, <1>5, <1>6, LastSignatureSerial
  <1>8. /\ deposit'[d] = new /\ \A e \in Deposits \ {d} : deposit'[e] = deposit[e]
        /\ change'[c] = row /\ \A b \in Changes \ {c} : change'[b] = change[b]
    BY <1>2, <1>4, DepositWritten, ChangeWritten DEF Typed
  <1>9. \A e \in Deposits : /\ deposit'[e].status = deposit[e].status
                            /\ deposit'[e].count = deposit[e].count
    BY <1>2, <1>8
  <1>10. ASSUME Ends
         PROVE  Ends'
    <2>1. \A e \in Deposits : DepositEnds(deposit'[e])
      <3>1. ChangeEnds(change[c], deposit)
        BY <1>10 DEF Ends
      <3>2. deposit[d].count < new.tenor
        BY <1>2, <1>3, <3>1 DEF ChangeEnds
      <3> QED
        BY <1>2, <1>8, <1>10, <3>2 DEF Ends, DepositEnds
    <2>2. \A b \in Changes : ChangeEnds(change'[b], deposit')
      <3>1. ~Pends(row)
        BY <1>3 DEF Pends
      <3>2. \A b \in Changes : Pends(change[b]) => change[b].deposit \in Deposits
        BY TableRows, ChangeRows DEF Pends, Typed, Exists
      <3> QED
        BY <1>8, <1>9, <1>10, <3>1, <3>2 DEF Ends, ChangeEnds
    <2> QED
      BY <1>2, <1>4, <2>1, <2>2, DoneSerial DEF Ends
  <1> QED
    BY <1>4, <1>7, <1>9, <1>10 DEF Good

LEMMA CommitStopGood ==
  ASSUME Typed, Good, NEW r \in Requests, CommitStop(r)
  PROVE  /\ Good'
         /\ \A e \in Deposits : /\ deposit'[e].status \in {deposit[e].status, "COMPLETED"}
                                /\ deposit'[e].count = deposit[e].count
  <1>1. PICK d \in Deposits, new \in DepositRow : Stopped(r, d, new)
    BY CommitStopFacts
  <1>2. /\ Serial /\ d = request[r].seen.deposit /\ request[r].seen.type = "STOP"
        /\ deposit[d] \in DepositRow
        /\ new.count = deposit[d].count /\ new.status = "COMPLETED" /\ new.step = NoStep
        /\ deposit' = [deposit EXCEPT ![d] = new]
        /\ IF request[r].seen.fee > 0
             THEN Debited(deposit[d].member, request[r].seen.fee, request[r].id)
             ELSE UNCHANGED savingsVars
    BY <1>1 DEF Good, Stopped, SameTerms
  <1>3. PICK c \in Changes, row \in ChangeRow, s \in Steps :
           /\ ChangeDecided(r, c, row, s, "APPROVED")
           /\ c = request[r].id /\ request[r].seen = change[c] /\ change[c] \in ChangeRow
           /\ Pends(change[c]) /\ change[c].status # "APPROVED"
           /\ row.status = "APPROVED" /\ row.type = change[c].type /\ row.fee = change[c].fee
           /\ d = change[c].deposit /\ deposit[d].status \in SignedStatus
           /\ \A x \in Steps : approvals[d][x] = "APPROVED"
           /\ deposit[d].step = NoStep /\ DepositOrdered(deposit[d], approvals[d])
    BY <1>2, LastSignatureFacts DEF CommitStop
  <1>4. change' = [change EXCEPT ![c] = row] /\ request[r] # Idle /\ Done(r) /\ UNCHANGED outrun
    BY <1>3 DEF ChangeDecided
  <1>5. FeesOrdered'
    <2>1. PICK fee \in Fees : fee = request[r].seen.fee /\ row.fee = fee
      BY <1>3, ChangeRows
    <2>2. deposit[d].member \in Members
      BY <1>2, DepositRows
    <2>3. FeesOrdered /\ Tables
      BY <1>2 DEF Serial, Rows, Typed
    <2>4. CASE fee > 0
      <3>1. Debited(deposit[d].member, fee, c)
        BY <1>2, <1>3, <2>1, <2>4
      <3> QED
        BY <1>3, <1>4, <2>1, <2>2, <2>3, <3>1, FeesCharged
    <2>5. CASE ~(fee > 0)
      <3>1. UNCHANGED debits
        BY <1>2, <2>1, <2>5 DEF savingsVars
      <3>2. row.fee = 0
        BY <2>1, <2>5, AmountTypes
      <3> QED
        BY <1>3, <1>4, <2>3, <3>1, <3>2, FeesQuiet
    <2> QED
      BY <2>4, <2>5
  <1>6. DepositOrdered(new, approvals[d]) /\ new.status \in SignedStatus
    BY <1>2, <1>3, StepNames DEF DepositOrdered, SignedStatus
  <1>7. Serial'
    BY <1>2, <1>3, <1>5, <1>6, LastSignatureSerial
  <1>8. /\ deposit'[d] = new /\ \A e \in Deposits \ {d} : deposit'[e] = deposit[e]
        /\ change'[c] = row /\ \A b \in Changes \ {c} : change'[b] = change[b]
    BY <1>2, <1>4, DepositWritten, ChangeWritten DEF Typed
  <1>9. \A e \in Deposits : /\ deposit'[e].status \in {deposit[e].status, "COMPLETED"}
                            /\ deposit'[e].count = deposit[e].count
    BY <1>2, <1>8
  <1>10. ASSUME Ends
         PROVE  Ends'
    <2>1. \A e \in Deposits : DepositEnds(deposit'[e])
      BY <1>2, <1>8, <1>10 DEF Ends, DepositEnds
    <2>2. \A b \in Changes : ChangeEnds(change'[b], deposit')
      <3>1. ~Pends(row)
        BY <1>3 DEF Pends
      <3>2. \A b \in Changes : Pends(change[b]) => change[b].deposit \in Deposits
        BY TableRows, ChangeRows DEF Pends, Typed, Exists
      <3> QED
        BY <1>8, <1>9, <1>10, <3>1, <3>2 DEF Ends, ChangeEnds
    <2> QED
      BY <1>2, <1>4, <2>1, <2>2, DoneSerial DEF Ends
  <1> QED
    BY <1>4, <1>7, <1>9, <1>10 DEF Good

-----------------------------------------------------------------------------
\* Requests are counted, and payroll that goes ahead of a change is noted.
LEMMA OverlapsCounted ==
  ASSUME Typed, [Next]_vars, overlaps' = 0
  PROVE  overlaps = 0
  <1>1. overlaps \in Nat
    BY TableTypes DEF Typed
  <1>2. \A r, op, id, seen : Enter(r, op, id, seen) => overlaps' \in {overlaps, overlaps + 1}
    BY DEF Enter
  <1>3. \A r : Done(r) => overlaps' = overlaps
    BY DEF Done
  <1>4. overlaps' \in {overlaps, overlaps + 1}
    <2>1. CASE UNCHANGED vars
      BY <2>1 DEF vars, depositVars
    <2>2. CASE DepositNext
      BY <1>2, <1>3, <2>2 DEF DepositNext, Create, BeginDecision, BeginPay, CommitReject,
                              CommitApprove
    <2>3. ASSUME NEW fee, SetFee(fee)
          PROVE  overlaps' = overlaps
      BY <2>3 DEF SetFee, depositVars
    <2>4. ASSUME NEW r \in Requests,
                 \/ \E d \in Deposits : BeginStop(r, d)
                 \/ \E d \in Deposits, new \in Terms : BeginCreate(r, d, new)
                 \/ \E c \in Changes, new \in Terms : BeginEdit(r, c, new)
                 \/ \E c \in Changes :
                      \/ BeginOnDraft(r, c, "SUBMIT", NoChange)
                      \/ BeginOnDraft(r, c, "CANCEL", NoChange)
                      \/ BeginChangeDecision(r, c, "APPROVE_CHANGE")
                      \/ BeginChangeDecision(r, c, "REJECT_CHANGE")
          PROVE  overlaps' \in {overlaps, overlaps + 1}
      BY <1>2, <2>4 DEF BeginStop, BeginCreate, BeginEdit, BeginOnDraft, BeginChangeDecision
    <2>5. ASSUME NEW r \in Requests,
                 \/ CommitCreate(r) \/ InsertStop(r) \/ InsertStopApprovals(r)
                 \/ CommitEdit(r) \/ CommitSubmit(r) \/ CommitCancel(r)
                 \/ CommitChangeReject(r) \/ CommitFirstApproval(r)
                 \/ CommitChange(r) \/ CommitStop(r) \/ Collect(r) \/ Interrupt(r)
          PROVE  overlaps' = overlaps
      BY <1>3, <2>5 DEF CommitCreate, InsertStop, InsertStopApprovals, CommitEdit, CommitSubmit,
           CommitCancel, CommitChangeReject, CommitFirstApproval, CommitChange, CommitStop,
           LastApproval, Collect, CommitPay, Interrupt, Fail
    <2> QED
      BY <2>1, <2>2, <2>3, <2>4, <2>5 DEF Next
  <1> QED
    BY <1>1, <1>4

-----------------------------------------------------------------------------
(* The steps together.                                                     *)

\* What CompletedStays asks of a step that overlaps with nothing.
Stays ==
  \A d \in Deposits : deposit[d].status = "COMPLETED" =>
    deposit'[d].status = "COMPLETED" /\ deposit'[d].count = deposit[d].count

LEMMA SameStays == UNCHANGED deposit => Stays
  BY DEF Stays

LEMMA SerialInit == Init => SerialInv
  <1> SUFFICES ASSUME Init
               PROVE  Good
    BY DEF SerialInv, Good
  <1>1. /\ \A d \in Deposits : deposit[d] = NoDeposit /\ approvals[d] = NoApprovals
        /\ \A c \in Changes : change[c] = NoChange /\ approvals[c] = NoApprovals
        /\ \A r \in Requests : request[r] = Idle
        /\ \A m \in Members : DOMAIN debits[m] = {}
    <2>1. DOMAIN <<>> = {}
      OBVIOUS
    <2> QED
      BY <2>1 DEF Init, DepositInit, SavingsInit
  <1>2. OneRequest /\ RequestsCurrent /\ \A r \in Requests : RequestEnds(request[r])
    BY <1>1, IdleIsCurrent DEF OneRequest, RequestsCurrent
  <1>3. DepositsOrdered
    BY <1>1 DEF DepositsOrdered, DepositOrdered, NoDeposit, NoStep, Steps, SignedStatus
  <1>4. ChangesOrdered
    BY <1>1 DEF ChangesOrdered, ChangeOrdered, NoChange, NoStep, Steps
  <1>5. OnDeposits /\ OnePending
    BY <1>1 DEF OnDeposits, OnSigned, OnePending, Pends, NoChange
  <1>6. FeesOrdered
    BY <1>1 DEF FeesOrdered, FeeOrdered, Uncharged, Charges, NoChange
  <1>7. Opened
    BY <1>1 DEF Opened, NoChange
  <1>8. /\ \A d \in Deposits : DepositEnds(deposit[d])
        /\ \A c \in Changes : ChangeEnds(change[c], deposit)
    BY <1>1 DEF DepositEnds, ChangeEnds, Pends, NoDeposit, NoChange
  <1> QED
    BY <1>2, <1>3, <1>4, <1>5, <1>6, <1>7, <1>8 DEF Good, Serial, Rows, Ends

LEMMA QuietGood ==
  ASSUME Good, UNCHANGED vars
  PROVE  Good'
  <1>1. UNCHANGED <<debits, deposit, approvals, request, change, interrupted, outrun>>
    BY DEF vars, savingsVars, depositVars, changeVars
  <1>2. Rows'
    BY <1>1, RowsKept DEF Good, Serial
  <1>3. OneRequest' /\ RequestsCurrent' /\ Opened'
    BY <1>1 DEF Good, Serial, OneRequest, RequestsCurrent, RequestCurrent, Opened, Approving, Is,
                Decidable, DueOf, Changeable, Pending
  <1>4. ~outrun' => Ends'
    BY <1>1 DEF Good, Ends, DepositEnds, ChangeEnds, RequestEnds
  <1> QED
    BY <1>2, <1>3, <1>4 DEF Good, Serial

LEMMA DepositsGood ==
  ASSUME Typed, Good, DepositNext, UNCHANGED changeVars, overlaps' = 0
  PROVE  Good' /\ Stays
  <1>1. ASSUME NEW d \in Deposits, NEW m \in Members, NEW amount \in Amounts,
               NEW tenor \in Tenors, Create(d, m, amount, tenor)
        PROVE  Good' /\ Stays
    <2>1. PICK row \in DepositRow : Created(d, row)
      BY <1>1, CreateFacts
    <2>2. /\ deposit[d].status = "NONE"
          /\ \A e \in Deposits \ {d} : deposit'[e] = deposit[e]
      BY <2>1, TableTypes, DepositRows DEF Created, Typed
    <2> QED
      BY <2>1, <2>2, CreatedGood DEF Stays
  <1>2. ASSUME NEW r \in Requests, NEW d \in Deposits, NEW op \in {"APPROVE", "REJECT"},
               BeginDecision(r, d, op)
        PROVE  Good' /\ Stays
    BY <1>2, BeginDecisionGood, SameStays DEF BeginDecision, Enter
  <1>3. ASSUME NEW r \in Requests, NEW m \in Members, NEW ds \in SUBSET DueOf(m),
               BeginPay(r, m, ds)
        PROVE  Good' /\ Stays
    BY <1>3, BeginPayGood, SameStays DEF BeginPay, Enter
  <1>4. ASSUME NEW r \in Requests, CommitReject(r) \/ CommitApprove(r)
        PROVE  Good' /\ Stays
    <2>1. PICK d \in Deposits, row \in DepositRow, s \in Steps, v \in {"APPROVED", "REJECTED"} :
            DepositDecided(r, d, row, s, v)
      BY <1>4, DepositDecisionFacts
    <2>2. Good' /\ deposit[d].status # "COMPLETED"
      BY <2>1, DepositDecidedGood
    <2>3. \A e \in Deposits \ {d} : deposit'[e] = deposit[e]
      BY <2>1, TableTypes DEF DepositDecided, Typed
    <2> QED
      BY <2>2, <2>3 DEF Stays
  <1> QED
    BY <1>1, <1>2, <1>3, <1>4 DEF DepositNext

LEMMA GoodStep ==
  ASSUME Typed, Good, [Next]_vars, overlaps' = 0
  PROVE  Good' /\ Stays
  <1>1. CASE UNCHANGED vars
    BY <1>1, QuietGood, SameStays DEF vars, depositVars
  <1>2. CASE DepositNext /\ UNCHANGED changeVars
    BY <1>2, DepositsGood
  <1>3. ASSUME NEW fee \in Fees \ {adminFee}, SetFee(fee)
        PROVE  Good' /\ Stays
    BY <1>3, SetFeeGood, SameStays DEF SetFee, depositVars
  <1>4. ASSUME NEW r \in Requests, NEW d \in Deposits, BeginStop(r, d)
        PROVE  Good' /\ Stays
    BY <1>4, BeginStopGood, SameStays DEF BeginStop, Enter
  <1>5. ASSUME NEW r \in Requests, NEW d \in Deposits, NEW new \in Terms, BeginCreate(r, d, new)
        PROVE  Good' /\ Stays
    BY <1>5, BeginCreateGood, SameStays DEF BeginCreate, Enter
  <1>6. ASSUME NEW r \in Requests, NEW c \in Changes, NEW new \in Terms, BeginEdit(r, c, new)
        PROVE  Good' /\ Stays
    BY <1>6, BeginEditGood, SameStays DEF BeginEdit, BeginOnDraft, Enter
  <1>7. ASSUME NEW r \in Requests, NEW c \in Changes, NEW op \in {"SUBMIT", "CANCEL"},
               BeginOnDraft(r, c, op, NoChange)
        PROVE  Good' /\ Stays
    <2>1. op \in {"SUBMIT", "CANCEL", "EDIT"} /\ op # "EDIT"
      OBVIOUS
    <2>2. Good'
      BY <1>7, <2>1, BeginOnDraftGood
    <2> QED
      BY <1>7, <2>2, SameStays DEF BeginOnDraft, Enter
  <1>8. ASSUME NEW r \in Requests, NEW c \in Changes,
               NEW op \in {"APPROVE_CHANGE", "REJECT_CHANGE"}, BeginChangeDecision(r, c, op)
        PROVE  Good' /\ Stays
    BY <1>8, BeginChangeDecisionGood, SameStays DEF BeginChangeDecision, Enter
  <1>9. ASSUME NEW r \in Requests, CommitCreate(r) \/ CommitEdit(r) \/ CommitSubmit(r)
        PROVE  Good' /\ Stays
    BY <1>9, CommitCreateGood, CommitEditGood, CommitSubmitGood, SameStays
       DEF CommitCreate, CommitEdit, CommitSubmit
  <1>10. ASSUME NEW r \in Requests, CommitCancel(r) \/ InsertStop(r) \/ InsertStopApprovals(r)
         PROVE  Good' /\ Stays
    BY <1>10, CommitCancelGood, InsertStopGood, InsertStopApprovalsGood, SameStays
       DEF CommitCancel, InsertStop, InsertStopApprovals
  <1>11. ASSUME NEW r \in Requests,
                CommitChangeReject(r) \/ CommitFirstApproval(r) \/ Interrupt(r)
         PROVE  Good' /\ Stays
    BY <1>11, FirstSignatureGood, InterruptGood, SameStays
       DEF CommitChangeReject, CommitFirstApproval, Interrupt, Fail
  <1>12. ASSUME NEW r \in Requests, CommitChange(r) \/ CommitStop(r)
         PROVE  Good' /\ Stays
    BY <1>12, CommitChangeGood, CommitStopGood DEF Stays
  <1>13. ASSUME NEW r \in Requests, Collect(r)
         PROVE  Good' /\ Stays
    <2>1. PICK m, p, rows : m \in Members /\ p \in Periods /\ Paid(r, m, p, rows)
      BY <1>13, PaidFacts DEF Collect
    <2>2. outrun' = (outrun \/ \E d \in DOMAIN rows : Pending(d) # {})
      BY <1>13, <2>1 DEF Collect, Paid
    <2>3. UNCHANGED <<change, interrupted>>
      BY <1>13 DEF Collect
    <2> QED
      BY <2>1, <2>2, <2>3, PaidGood DEF Stays
  <1>14. CASE \E r \in Requests : \E c \in Changes :
                \/ BeginOnDraft(r, c, "SUBMIT", NoChange)
                \/ BeginOnDraft(r, c, "CANCEL", NoChange)
                \/ BeginChangeDecision(r, c, "APPROVE_CHANGE")
                \/ BeginChangeDecision(r, c, "REJECT_CHANGE")
    BY <1>14, <1>7, <1>8
  <1> QED
    BY <1>1, <1>2, <1>3, <1>4, <1>5, <1>6, <1>9, <1>10, <1>11, <1>12, <1>13, <1>14 DEF Next

LEMMA SerialStep == Typed /\ SerialInv /\ [Next]_vars => SerialInv'
  <1> SUFFICES ASSUME Typed, SerialInv, [Next]_vars, overlaps' = 0
               PROVE  Good'
    BY DEF SerialInv, Good
  <1>1. overlaps = 0
    BY OverlapsCounted
  <1>2. Good
    BY <1>1 DEF SerialInv, Good
  <1> QED
    BY <1>2, GoodStep

LEMMA SpecSerial == Spec => [](Typed /\ SerialInv)
  <1>1. Init => Typed /\ SerialInv
    BY TypedInit, SerialInit
  <1>2. Typed /\ SerialInv /\ [Next]_vars => (Typed /\ SerialInv)'
    BY TypedStep, SerialStep
  <1> QED
    BY <1>1, <1>2, PTL DEF Spec

LEMMA NotOverlapped ==
  ASSUME Typed, SerialInv, ~overlapped
  PROVE  Good
  <1>1. overlaps \in Nat
    BY TableTypes DEF Typed
  <1> QED
    BY <1>1 DEF SerialInv, Good, overlapped


LEMMA AtMostOne ==
  ASSUME NEW S, \A x, y \in S : x = y
  PROVE  Cardinality(S) <= 1
  <1>1. CASE S = {}
    BY <1>1, FS_EmptySet
  <1>2. CASE S # {}
    <2>1. PICK x \in S : S = {x}
      BY <1>2
    <2> QED
      BY <2>1, FS_Singleton
  <1> QED
    BY <1>1, <1>2

LEMMA SerialSigned ==
  ASSUME Typed, SerialInv
  PROVE  DepositsInOrder
  <1>1. DepositIsSigned
    <2> SUFFICES ASSUME ~overlapped, NEW d \in Deposits, deposit[d] # NoDeposit,
                        deposit[d].count > 0 \/ deposit[d].status \in {"APPROVED", "ACTIVE"}
                 PROVE  \A s \in Steps : approvals[d][s] = "APPROVED"
      BY DEF DepositIsSigned
    <2>1. DepositOrdered(deposit[d], approvals[d])
      BY NotOverlapped DEF Good, Serial, Rows, DepositsOrdered
    <2>2. deposit[d] \in DepositRow
      BY TableRows DEF Typed
    <2>3. deposit[d].count \in Nat /\ deposit[d].status # "NONE"
      BY <2>2, DepositRows
    <2>4. deposit[d].status \in SignedStatus
      BY <2>1, <2>3 DEF DepositOrdered, SignedStatus
    <2> QED
      BY <2>1, <2>4 DEF DepositOrdered
  <1>2. OnePendingChange
    <2> SUFFICES ASSUME ~overlapped, NEW d \in Deposits
                 PROVE  Cardinality(Pending(d)) <= 1
      BY DEF OnePendingChange
    <2>1. \A b, c \in Pending(d) : b = c
      BY NotOverlapped DEF Good, Serial, Rows, OnePending, Pends, Pending
    <2> QED
      BY <2>1, AtMostOne
  <1> QED
    BY <1>1, <1>2 DEF DepositsInOrder

LEMMA SerialEnds ==
  ASSUME Typed, SerialInv
  PROVE  CollectionEnds
  BY NotOverlapped DEF CollectionEnds, Good, Ends, DepositEnds

LEMMA SerialOpen ==
  ASSUME Typed, SerialInv
  PROVE  ReviewIsOpen
  <1> SUFFICES ASSUME ~overlapped, \A r \in Requests : ~Is(r, "STOP_APPROVALS")
               PROVE  /\ \A d \in Deposits : deposit[d].step # NoStep => Decidable(d, deposit[d])
                      /\ \A c \in Changes \ interrupted :
                           change[c].status \in {"SUBMITTED", "UNDER_REVIEW_KETUA"}
                             => Decidable(c, change[c])
    BY DEF ReviewIsOpen
  <1>1. DepositsOrdered /\ ChangesOrdered /\ Opened
    BY NotOverlapped DEF Good, Serial, Rows
  <1>2. ASSUME NEW d \in Deposits, deposit[d].step # NoStep
        PROVE  Decidable(d, deposit[d])
    BY <1>1, <1>2 DEF DepositsOrdered, DepositOrdered, Decidable
  <1>3. ASSUME NEW c \in Changes \ interrupted,
               change[c].status \in {"SUBMITTED", "UNDER_REVIEW_KETUA"}
        PROVE  Decidable(c, change[c])
    <2>1. ChangeOrdered(change[c], approvals[c])
      BY <1>1 DEF ChangesOrdered
    <2>2. change[c].status = "SUBMITTED" => approvals[c] = OpenApprovals
      <3>1. ~Approving(c)
        BY DEF Approving
      <3> QED
        BY <1>1, <2>1, <3>1 DEF Opened, ChangeOrdered
    <2>3. change[c].step \in Steps
      BY <1>3, <2>1 DEF ChangeOrdered
    <2>4. approvals[c][change[c].step] = "OPEN"
      <3>1. CASE change[c].step = "KETUA"
        BY <2>1, <2>3, <3>1 DEF ChangeOrdered
      <3>2. CASE change[c].step # "KETUA"
        BY <2>1, <2>2, <2>3, <3>2 DEF ChangeOrdered, OpenApprovals
      <3> QED
        BY <3>1, <3>2
    <2> QED
      BY <2>3, <2>4 DEF Decidable
  <1> QED
    BY <1>2, <1>3

LEMMA ChargesAreFees ==
  ASSUME NEW c
  PROVE  /\ \A f \in FeesFor(c) : Charges(f[1], f[2], c) /\ f = <<f[1], f[2]>>
         /\ \A m, i : Charges(m, i, c) => <<m, i>> \in FeesFor(c)
  <1>1. ASSUME NEW f \in FeesFor(c)
        PROVE  Charges(f[1], f[2], c) /\ f = <<f[1], f[2]>>
    <2>1. PICK m \in Members : f \in {m} \X DOMAIN debits[m]
      BY <1>1 DEF FeesFor
    <2>2. f[1] = m /\ f[2] \in DOMAIN debits[m] /\ f = <<f[1], f[2]>>
      BY <2>1
    <2>3. debits[f[1]][f[2]].ref = c
      BY <1>1 DEF FeesFor
    <2> QED
      BY <2>2, <2>3 DEF Charges
  <1>2. ASSUME NEW m, NEW i, Charges(m, i, c)
        PROVE  <<m, i>> \in FeesFor(c)
    <2>1. m \in Members /\ i \in DOMAIN debits[m] /\ debits[m][i].ref = c
      BY <1>2 DEF Charges
    <2>2. <<m, i>> \in UNION {{n} \X DOMAIN debits[n] : n \in Members}
      BY <2>1
    <2> QED
      BY <2>1, <2>2 DEF FeesFor
  <1> QED
    BY <1>1, <1>2

LEMMA SerialFees ==
  ASSUME Typed, SerialInv
  PROVE  FeesAreDue
  <1> SUFFICES ASSUME ~overlapped, NEW c \in Changes
               PROVE  /\ Cardinality(FeesFor(c)) <= 1
                      /\ \A f \in FeesFor(c) :
                           /\ change[c].status = "APPROVED"
                           /\ \A s \in Steps : approvals[c][s] = "APPROVED"
                           /\ change[c].type = "STOP" =>
                                debits[f[1]][f[2]].penarikan = change[c].fee
                      /\ change[c].status = "APPROVED" /\ FeesFor(c) = {} => change[c].fee = 0
    BY DEF FeesAreDue
  <1>1. FeeOrdered(c, change[c]) /\ ChangeOrdered(change[c], approvals[c])
    BY NotOverlapped DEF Good, Serial, Rows, FeesOrdered, ChangesOrdered
  <1>2. Cardinality(FeesFor(c)) <= 1
    <2>1. ASSUME NEW f \in FeesFor(c), NEW g \in FeesFor(c)
          PROVE  f = g
      <3>1. Charges(f[1], f[2], c) /\ Charges(g[1], g[2], c)
        BY ChargesAreFees
      <3>2. f[1] = g[1] /\ f[2] = g[2]
        BY <1>1, <3>1 DEF FeeOrdered
      <3>3. f = <<f[1], f[2]>> /\ g = <<g[1], g[2]>>
        BY ChargesAreFees
      <3> QED
        BY <3>2, <3>3
    <2> QED
      BY <2>1, AtMostOne
  <1>3. ASSUME NEW f \in FeesFor(c)
        PROVE  /\ change[c].status = "APPROVED"
               /\ \A s \in Steps : approvals[c][s] = "APPROVED"
               /\ change[c].type = "STOP" => debits[f[1]][f[2]].penarikan = change[c].fee
    <2>1. Charges(f[1], f[2], c)
      BY ChargesAreFees
    <2>2. change[c].status = "APPROVED"
      BY <1>1, <2>1 DEF FeeOrdered, Uncharged
    <2> QED
      BY <1>1, <2>1, <2>2 DEF FeeOrdered, ChangeOrdered
  <1>4. ASSUME change[c].status = "APPROVED", FeesFor(c) = {}
        PROVE  change[c].fee = 0
    <2>1. Uncharged(c)
      BY <1>4, ChargesAreFees DEF Uncharged
    <2> QED
      BY <1>1, <1>4, <2>1 DEF FeeOrdered
  <1> QED
    BY <1>2, <1>3, <1>4

(* As long as no request or payroll run overlaps with another, nothing is  *)
(* collected for a deposit that the officers have not both signed, and a   *)
(* deposit has at most one change under way: the check that                *)
(* validateDepositForChange makes before it inserts is enough then.        *)
THEOREM DepositsStayInOrder == Spec => []DepositsInOrder
  <1>1. Typed /\ SerialInv => DepositsInOrder
    BY SerialSigned
  <1> QED
    BY <1>1, SpecSerial, PTL

(* As long as nothing overlaps, the fee of a change is charged once, only   *)
(* after both signatures, a stop's at what the member agreed to, and an     *)
(* approved change that was not charged had no fee.                        *)
THEOREM FeesStayDue == Spec => []FeesAreDue
  <1>1. Typed /\ SerialInv => FeesAreDue
    BY SerialFees
  <1> QED
    BY <1>1, SpecSerial, PTL

(* As long as nothing overlaps and payroll collects nothing while a change  *)
(* of the deposit is under way, an active deposit has months left: the      *)
(* check of the new tenor, made when the change was drafted, still holds    *)
(* when the change is signed.                                              *)
THEOREM CollectionComesToItsEnd == Spec => []CollectionEnds
  <1>1. Typed /\ SerialInv => CollectionEnds
    BY SerialEnds
  <1> QED
    BY <1>1, SpecSerial, PTL

(* As long as nothing overlaps, what is under review has an open record for *)
(* its current step, but for the stop requests that were interrupted.      *)
THEOREM ReviewStaysOpen == Spec => []ReviewIsOpen
  <1>1. Typed /\ SerialInv => ReviewIsOpen
    BY SerialOpen
  <1> QED
    BY <1>1, SpecSerial, PTL

(* A step that overlaps with nothing leaves a completed deposit completed   *)
(* and collects nothing for it.                                            *)
THEOREM CompletedDepositsStay == Spec => CompletedStays
  <1>1. Typed /\ SerialInv /\ [Next]_vars =>
          [\A d \in Deposits :
             deposit[d].status = "COMPLETED" /\ overlaps' = 0 =>
               /\ deposit'[d].status = "COMPLETED"
               /\ deposit'[d].count = deposit[d].count]_vars
    <2> SUFFICES ASSUME Typed, SerialInv, [Next]_vars, overlaps' = 0
                 PROVE  Stays
      BY DEF Stays
    <2>1. overlaps = 0
      BY OverlapsCounted
    <2>2. Good
      BY <2>1 DEF SerialInv, Good
    <2> QED
      BY <2>2, GoodStep
  <1> QED
    BY <1>1, SpecSerial, PTL DEF Spec, CompletedStays

=============================================================================
