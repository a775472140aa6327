---------------------- MODULE SavingsWithdrawalProofs ----------------------
(***************************************************************************)
(* However many requests overlap, a withdrawal is paid with all signatures *)
(* and once.  The handlers act on the step they have read, so the          *)
(* invariant says of the row and of what every request has read alike that *)
(* a step is backed by the rows of the steps before it.  These rows are    *)
(* only ever added, which carries the facts from the read to the write.    *)
(***************************************************************************)
EXTENDS SavingsWithdrawal, SequenceTheorems, ArithmeticProofs, TLAPS

Officers == {"DIVISI_SIMPAN_PINJAM", "KETUA"}

Signed(w, s) == [step |-> s, decision |-> "APPROVED"] \in approvals[w]

\* The rows that a step of withdrawal w presupposes.
Backed(w, step) ==
  /\ step \in {"KETUA", "SHOPKEEPER", "KETUA_AUTH"} => Signed(w, "DIVISI_SIMPAN_PINJAM")
  /\ step \in {"SHOPKEEPER", "KETUA_AUTH"} => Signed(w, "KETUA")
  /\ step = "KETUA_AUTH" => w \in disbursed

RowsBacked == \A w \in Withdrawals : Backed(w, withdrawal[w].step)

\* The step at which each operation is entered.
EnteredAt(q) ==
  /\ q.op = "CREATE" => q.seen.step = "DIVISI_SIMPAN_PINJAM"
  /\ q.op \in {"APPROVE", "REJECT"} => q.seen.step \in Officers
  /\ q.op = "DISBURSE" => q.seen.step = "SHOPKEEPER"
  /\ q.op = "AUTHORIZE" => q.seen.step = "KETUA_AUTH"

RequestBacked(q) ==
  /\ EnteredAt(q)
  /\ q.op \notin {"CREATE", "CHARGE"} =>
       Backed(q.id, q.seen.step) /\ withdrawal[q.id] # NoWithdrawal

RequestsBacked ==
  \A r \in Requests : request[r] # Idle => RequestBacked(request[r])

Inv ==
  /\ TypeOK
  /\ RowsBacked
  /\ RequestsBacked
  /\ PaidAsSigned

-----------------------------------------------------------------------------
\* Interest on a balance is a whole number, of either sign.
LEMMA InterestInt ==
  ASSUME NEW t \in Int
  PROVE  Interest(t) \in Int
  <1>1. \A u \in Int : (u * AnnualRate + 600) \div 1200 \in Int
    BY SavingsAssumption
  <1> QED
    BY <1>1 DEF Interest

\* A row with new values in its columns is a row.
LEMMA ColumnUpdated ==
  ASSUME NEW a \in AccountRow, NEW z \in Int
  PROVE  /\ [a EXCEPT !.sukarela = z] \in AccountRow
         /\ [a EXCEPT !.bunga = z] \in AccountRow
  BY DEF AccountRow

LEMMA RowsUpdated ==
  ASSUME NEW a \in AccountRow, NEW s \in Payslip,
         NEW x \in Nat, NEW y \in Nat, NEW d \in Nat, NEW z \in Int
  PROVE  /\ [a EXCEPT !.pokok = x, !.wajib = y, !.sukarela = z] \in AccountRow
         /\ [s EXCEPT !.iuranPendaftaran = x, !.iuranBulanan = y,
                      !.tabunganDeposito = d, !.bunga = z] \in Payslip
  BY DEF AccountRow, Payslip

\* A month of payroll leaves an account and a payslip that explains it.
LEMMA MonthBooked ==
  ASSUME NEW a \in AccountRow, NEW s \in Payslip
  PROVE  LET after == AccountAfter(a, 0, DepositAmount)
             slip == PayslipAfter(s, a, 0, DepositAmount)
         IN  /\ after \in AccountRow
             /\ slip \in Payslip
             /\ after.sukarela = a.sukarela + DepositAmount
             /\ slip.tabunganDeposito = s.tabunganDeposito + DepositAmount
             /\ s.bunga = 0 => after.bunga = a.bunga + slip.bunga
  <1> DEFINE b == PaidIn(a, 0, DepositAmount)
             after == AccountAfter(a, 0, DepositAmount)
             slip == PayslipAfter(s, a, 0, DepositAmount)
  <1>1. MonthlyFee \in Nat /\ DepositAmount \in Nat
    BY SavingsAssumption, WithdrawalAssumption
  <1>2. a.pokok + 0 \in Nat /\ a.wajib + MonthlyFee \in Nat /\ a.sukarela + DepositAmount \in Int
    BY <1>1 DEF AccountRow
  <1>3. b \in AccountRow /\ b.sukarela = a.sukarela + DepositAmount /\ b.bunga = a.bunga
    <2>1. b \in AccountRow
      BY <1>2, RowsUpdated, Zenon DEF PaidIn
    <2> QED
      BY <2>1 DEF PaidIn, AccountRow
  <1> HIDE DEF b
  <1>4. Total(b) \in Int
    BY <1>3 DEF Total, AccountRow
  <1>5. MonthInterest(b) \in Int
    BY <1>4, InterestInt DEF MonthInterest
  <1>6. b.bunga + MonthInterest(b) \in Int
    BY <1>3, <1>5 DEF AccountRow
  <1>7. after = [b EXCEPT !.bunga = @ + MonthInterest(b)]
    BY DEF AccountAfter, b
  <1>8. after \in AccountRow
    BY <1>3, <1>6, <1>7, ColumnUpdated, Zenon
  <1>9. after.sukarela = b.sukarela /\ after.bunga = b.bunga + MonthInterest(b)
    BY <1>3, <1>7 DEF AccountRow
  <1>10. PICK f, d, i : /\ f = s.iuranPendaftaran + 0 /\ d = s.tabunganDeposito + DepositAmount
                        /\ i = IF Total(b) <= 0 THEN s.bunga ELSE MonthInterest(b)
    OBVIOUS
  <1>11. f \in Nat /\ d \in Nat /\ i \in Int
    BY <1>1, <1>5, <1>10 DEF Payslip
  <1>12. slip = [s EXCEPT !.iuranPendaftaran = f, !.iuranBulanan = MonthlyFee,
                          !.tabunganDeposito = d, !.bunga = i]
    BY <1>10 DEF PayslipAfter, b, Payslip
  <1>13. slip \in Payslip
    BY <1>1, <1>11, <1>12 DEF Payslip
  <1>14. slip.tabunganDeposito = s.tabunganDeposito + DepositAmount /\ slip.bunga = i
    BY <1>10, <1>12 DEF Payslip
  <1>15. s.bunga = 0 => i = MonthInterest(b)
    BY <1>10 DEF MonthInterest
  <1> HIDE DEF after, slip
  <1>16. s.bunga = 0 => after.bunga = a.bunga + slip.bunga
    BY <1>3, <1>9, <1>14, <1>15
  <1>17. after.sukarela = a.sukarela + DepositAmount
    BY <1>3, <1>9
  <1> QED
    BY <1>8, <1>13, <1>14, <1>16, <1>17 DEF after, slip

\* What a debit does to an account and its transactions.
DebitAppended(m, seen, amount, ref) ==
  /\ \A n \in Members \ {m} : account'[n] = account[n] /\ debits'[n] = debits[n]
  /\ account'[m].sukarela = account[m].sukarela - amount
  /\ \E row \in DebitRow :
       /\ row.ref = ref
       /\ row.penarikan = amount
       /\ account'[m].bunga = seen.bunga + row.bunga
       /\ debits' = [debits EXCEPT ![m] = Append(@, row)]

LEMMA DebitBooked ==
  ASSUME TypeOK, NEW m \in Members, NEW seen \in AccountRow, NEW amount \in Amounts \cup Fees,
         NEW ref \in Withdrawals \cup Changes, Debit(m, seen, amount, ref)
  PROVE  /\ account' \in [Members -> AccountRow]
         /\ debits' \in [Members -> Seq(DebitRow)]
         /\ DebitAppended(m, seen, amount, ref)
  <1> DEFINE interest == Interest(Total(seen) - amount)
             row == [penarikan |-> amount, bunga |-> interest - seen.bunga, ref |-> ref]
  <1>1. amount \in Nat
    BY WithdrawalAssumption
  <1>2. interest \in Int /\ seen.bunga \in Int
    BY <1>1, InterestInt DEF Total, AccountRow
  <1> HIDE DEF interest
  <1>3. row \in DebitRow
    BY <1>2 DEF AccountRow, DebitRow
  <1>4. account' = [account EXCEPT ![m].sukarela = @ - amount, ![m].bunga = interest]
    BY DEF Debit, interest
  <1>5. debits' = [debits EXCEPT ![m] = Append(@, row)]
    BY DEF Debit, interest
  <1>6. account[m].sukarela - amount \in Int /\ account[m] \in AccountRow
    BY <1>1 DEF TypeOK, AccountRow
  <1> DEFINE after == [[account[m] EXCEPT !.sukarela = @ - amount] EXCEPT !.bunga = interest]
  <1>7. after \in AccountRow
    BY <1>2, <1>6, ColumnUpdated, Zenon
  <1>8. account' = [account EXCEPT ![m] = after]
    BY <1>4 DEF TypeOK
  <1>9. after.sukarela = account[m].sukarela - amount /\ after.bunga = interest
    BY <1>6 DEF AccountRow
  <1> HIDE DEF after
  <1>10. /\ account' \in [Members -> AccountRow]
         /\ account'[m] = after
         /\ \A n \in Members \ {m} : account'[n] = account[n]
    BY <1>7, <1>8 DEF TypeOK
  <1>11. row.ref = ref /\ row.penarikan = amount /\ seen.bunga + row.bunga = interest
    BY <1>2
  <1> HIDE DEF row
  <1>12. Append(debits[m], row) \in Seq(DebitRow)
    BY <1>3, AppendProperties DEF TypeOK
  <1>13. debits' \in [Members -> Seq(DebitRow)]
    BY <1>5, <1>12, Zenon DEF TypeOK
  <1>14. \A n \in Members \ {m} : debits'[n] = debits[n]
    BY <1>5 DEF TypeOK
  <1> QED
    BY <1>3, <1>5, <1>9, <1>10, <1>11, <1>13, <1>14 DEF DebitAppended

-----------------------------------------------------------------------------
(* What the transactions add up to.                                        *)

PaidDeposits(m) == [p \in Periods |-> payslip[m][p].tabunganDeposito]
PaidInterest(m) == [p \in Periods |-> payslip[m][p].bunga]
Taken(m) == [i \in DOMAIN debits[m] |-> debits[m][i].penarikan]
TakenInterest(m) == [i \in DOMAIN debits[m] |-> debits[m][i].bunga]

SavingsBookedOf(m) ==
  account[m].sukarela = OpeningAccount.sukarela + SumOf(PaidDeposits(m)) - SumOf(Taken(m))

InterestBookedOf(m) ==
  account[m].bunga = OpeningAccount.bunga + SumOf(PaidInterest(m)) + SumOf(TakenInterest(m))

LEMMA BookedByMember ==
  /\ SavingsBooked <=> \A m \in Members : SavingsBookedOf(m)
  /\ InterestBooked <=> \A m \in Members : InterestBookedOf(m)
  BY DEF SavingsBooked, SavingsBookedOf, InterestBooked, InterestBookedOf, OverPeriods,
         OverDebits, PaidDeposits, PaidInterest, Taken, TakenInterest

LEMMA ColumnTypes ==
  ASSUME TypeOK, NEW m \in Members
  PROVE  /\ PaidDeposits(m) \in [Periods -> Int]
         /\ PaidInterest(m) \in [Periods -> Int]
         /\ DOMAIN debits[m] = 1 .. Len(debits[m]) /\ Len(debits[m]) \in Nat
         /\ Taken(m) \in [1 .. Len(debits[m]) -> Int]
         /\ TakenInterest(m) \in [1 .. Len(debits[m]) -> Int]
  <1>1. \A p \in Periods : payslip[m][p] \in Payslip
    BY DEF TypeOK
  <1>2. \A p \in Periods : payslip[m][p].tabunganDeposito \in Int /\ payslip[m][p].bunga \in Int
    BY <1>1 DEF Payslip
  <1>3. debits[m] \in Seq(DebitRow)
    BY DEF TypeOK
  <1>4. DOMAIN debits[m] = 1 .. Len(debits[m]) /\ Len(debits[m]) \in Nat
    BY <1>3
  <1>5. ASSUME NEW i \in 1 .. Len(debits[m])
        PROVE  debits[m][i].penarikan \in Int /\ debits[m][i].bunga \in Int
    <2>1. debits[m][i] \in DebitRow
      BY <1>3, <1>5, ElementOfSeq
    <2>2. debits[m][i].penarikan \in Amounts \cup Fees /\ debits[m][i].bunga \in Int
      BY <2>1 DEF DebitRow
    <2>3. \A a \in Amounts \cup Fees : a \in Int
      BY WithdrawalAssumption
    <2> QED
      BY <2>2, <2>3
  <1> QED
    BY <1>2, <1>4, <1>5 DEF PaidDeposits, PaidInterest, Taken, TakenInterest

LEMMA SumTypes ==
  ASSUME TypeOK, NEW m \in Members
  PROVE  /\ SumOf(PaidDeposits(m)) \in Int
         /\ SumOf(PaidInterest(m)) \in Int
         /\ SumOf(Taken(m)) \in Int
         /\ SumOf(TakenInterest(m)) \in Int
  <1>1. IsFiniteSet(Periods) /\ IsFiniteSet(1 .. Len(debits[m]))
    BY SavingsAssumption, ColumnTypes, FS_Interval
  <1> QED
    BY <1>1, ColumnTypes, SumOfInt

LEMMA OpeningTypes ==
  /\ OpeningAccount \in AccountRow
  /\ OpeningAccount.sukarela \in Int /\ OpeningAccount.sukarela >= 0
  /\ OpeningAccount.bunga \in Int
  BY SavingsAssumption DEF AccountRow

LEMMA InitBooked == Init => SavingsBooked /\ InterestBooked
  <1> SUFFICES ASSUME Init, NEW m \in Members
               PROVE  SavingsBookedOf(m) /\ InterestBookedOf(m)
    BY BookedByMember
  <1>1. account[m] = OpeningAccount /\ debits[m] = <<>>
    BY DEF Init, SavingsInit
  <1>2. \A p \in Periods : PaidDeposits(m)[p] = 0 /\ PaidInterest(m)[p] = 0
    BY DEF Init, SavingsInit, NoPayslip, PaidDeposits, PaidInterest
  <1>3. DOMAIN PaidDeposits(m) = Periods /\ DOMAIN PaidInterest(m) = Periods
    BY DEF PaidDeposits, PaidInterest
  <1>4. DOMAIN Taken(m) = {} /\ DOMAIN TakenInterest(m) = {}
    BY <1>1 DEF Taken, TakenInterest
  <1>5. SumOf(Taken(m)) = 0 /\ SumOf(TakenInterest(m)) = 0
    BY <1>4, SumOfNone DEF SumOf
  <1>6. SumOf(PaidDeposits(m)) = 0 /\ SumOf(PaidInterest(m)) = 0
    BY <1>2, <1>3, SumOfZeros, SavingsAssumption
  <1> QED
    BY <1>1, <1>5, <1>6, OpeningTypes DEF SavingsBookedOf, InterestBookedOf

\* Steps that move no money.
LEMMA BookedKept ==
  ASSUME UNCHANGED savingsVars
  PROVE  /\ SavingsBooked => SavingsBooked'
         /\ InterestBooked => InterestBooked'
  BY DEF savingsVars, SavingsBooked, InterestBooked, OverPeriods, OverDebits

\* A debit and its transaction agree on the balance, and on the interest when
\* the account is as it was read.
LEMMA DebitKeepsBooks ==
  ASSUME TypeOK, NEW m \in Members, NEW seen \in AccountRow, NEW amount \in Amounts \cup Fees,
         NEW ref \in Withdrawals \cup Changes, DebitAppended(m, seen, amount, ref),
         payslip' = payslip
  PROVE  \A n \in Members :
           /\ SavingsBookedOf(n) => SavingsBookedOf(n)'
           /\ seen = account[m] /\ InterestBookedOf(n) => InterestBookedOf(n)'
  <1>1. ASSUME NEW n \in Members \ {m}
        PROVE  /\ SavingsBookedOf(n) => SavingsBookedOf(n)'
               /\ InterestBookedOf(n) => InterestBookedOf(n)'
    <2>1. account'[n] = account[n] /\ debits'[n] = debits[n] /\ payslip'[n] = payslip[n]
      BY DEF DebitAppended
    <2> QED
      BY <2>1 DEF SavingsBookedOf, InterestBookedOf, PaidDeposits, PaidInterest, Taken,
                  TakenInterest
  <1>2. PICK row \in DebitRow :
          /\ row.penarikan = amount
          /\ account'[m].bunga = seen.bunga + row.bunga
          /\ debits' = [debits EXCEPT ![m] = Append(@, row)]
    BY DEF DebitAppended
  <1>3. PICK k \in Nat : k = Len(debits[m])
    BY ColumnTypes
  <1>4. /\ DOMAIN debits[m] = 1 .. k /\ DOMAIN debits'[m] = 1 .. k + 1
        /\ \A i \in 1 .. k : debits'[m][i] = debits[m][i]
        /\ debits'[m][k + 1] = row
    <2>1. \A S : \A d \in Seq(S) :
            /\ DOMAIN Append(d, row) = 1 .. Len(d) + 1
            /\ \A i \in 1 .. Len(d) : Append(d, row)[i] = d[i]
            /\ Append(d, row)[Len(d) + 1] = row
      OBVIOUS
    <2>2. debits[m] \in Seq(DebitRow)
      BY DEF TypeOK
    <2>3. debits'[m] = Append(debits[m], row)
      BY <1>2 DEF TypeOK
    <2>4. DOMAIN debits[m] = 1 .. k
      BY <1>3, ColumnTypes
    <2> QED
      BY <1>3, <2>1, <2>2, <2>3, <2>4
  <1>5. \A i \in 1 .. k + 1 : i # k + 1 => i \in 1 .. k
    BY SMT
  <1>6. amount \in Int /\ row.bunga \in Int
    BY WithdrawalAssumption DEF DebitRow
  <1>7. Taken(m) \in [1 .. k -> Int] /\ TakenInterest(m) \in [1 .. k -> Int]
    BY <1>3, ColumnTypes
  <1>8. k + 1 \in 1 .. k + 1 /\ \A i \in 1 .. k : i \in 1 .. k + 1
    BY SMT
  <1>9. /\ Taken(m)' \in [1 .. k + 1 -> Int]
        /\ \A i \in 1 .. k : Taken(m)'[i] = Taken(m)[i]
        /\ Taken(m)'[k + 1] = amount
    BY <1>2, <1>4, <1>5, <1>6, <1>7, <1>8 DEF Taken
  <1>10. /\ TakenInterest(m)' \in [1 .. k + 1 -> Int]
         /\ \A i \in 1 .. k : TakenInterest(m)'[i] = TakenInterest(m)[i]
         /\ TakenInterest(m)'[k + 1] = row.bunga
    BY <1>4, <1>5, <1>6, <1>7, <1>8 DEF TakenInterest
  <1>11. SumOf(Taken(m)') = SumOf(Taken(m)) + amount
    BY <1>7, <1>9, SumOfAppended
  <1>12. SumOf(TakenInterest(m)') = SumOf(TakenInterest(m)) + row.bunga
    BY <1>7, <1>10, SumOfAppended
  <1>13. PaidDeposits(m)' = PaidDeposits(m) /\ PaidInterest(m)' = PaidInterest(m)
    BY DEF PaidDeposits, PaidInterest
  <1>14. account'[m].sukarela = account[m].sukarela - amount
    BY DEF DebitAppended
  <1>15. account[m].sukarela \in Int /\ account[m].bunga \in Int
    BY DEF TypeOK, AccountRow
  <1>16. SavingsBookedOf(m) => SavingsBookedOf(m)'
    BY <1>6, <1>11, <1>13, <1>14, <1>15, SumTypes, OpeningTypes DEF SavingsBookedOf
  <1>17. seen = account[m] /\ InterestBookedOf(m) => InterestBookedOf(m)'
    BY <1>2, <1>6, <1>12, <1>13, <1>15, SumTypes, OpeningTypes DEF InterestBookedOf
  <1> QED
    BY <1>1, <1>16, <1>17

\* The payslip of a month shows what was paid in.
LEMMA MonthKeepsBooks ==
  ASSUME TypeOK, NEW m \in Members, NEW p \in Periods, PayMonth(m, p)
  PROVE  \A n \in Members :
           /\ SavingsBookedOf(n) => SavingsBookedOf(n)'
           /\ InterestBookedOf(n) => InterestBookedOf(n)'
  <1>1. PICK after, slip :
          /\ after = AccountAfter(account[m], 0, DepositAmount)
          /\ slip = PayslipAfter(NoPayslip, account[m], 0, DepositAmount)
    OBVIOUS
  <1>2. /\ payslip[m][p] = NoPayslip
        /\ account' = [account EXCEPT ![m] = after]
        /\ payslip' = [payslip EXCEPT ![m][p] = slip]
        /\ debits' = debits
    BY <1>1 DEF PayMonth, TypeOK
  <1>3. NoPayslip \in Payslip /\ NoPayslip.tabunganDeposito = 0 /\ NoPayslip.bunga = 0
    BY DEF NoPayslip, Payslip
  <1>4. account[m] \in AccountRow
    BY DEF TypeOK
  <1>5. /\ after.sukarela = account[m].sukarela + DepositAmount
        /\ slip.tabunganDeposito = 0 + DepositAmount
        /\ after.bunga = account[m].bunga + slip.bunga
    BY <1>1, <1>3, <1>4, MonthBooked
  <1>6. ASSUME NEW n \in Members \ {m}
        PROVE  /\ SavingsBookedOf(n) => SavingsBookedOf(n)'
               /\ InterestBookedOf(n) => InterestBookedOf(n)'
    <2>1. account'[n] = account[n] /\ debits'[n] = debits[n] /\ payslip'[n] = payslip[n]
      BY <1>2 DEF TypeOK
    <2> QED
      BY <2>1 DEF SavingsBookedOf, InterestBookedOf, PaidDeposits, PaidInterest, Taken,
                  TakenInterest
  <1>7. account'[m] = after /\ payslip'[m][p] = slip
    BY <1>2 DEF TypeOK
  <1>8. \A x \in Periods \ {p} : payslip'[m][x] = payslip[m][x]
    BY <1>2 DEF TypeOK
  <1>9. /\ \A x \in Periods \ {p} : PaidDeposits(m)'[x] = PaidDeposits(m)[x]
        /\ \A x \in Periods \ {p} : PaidInterest(m)'[x] = PaidInterest(m)[x]
        /\ PaidDeposits(m)[p] = 0 /\ PaidDeposits(m)'[p] = slip.tabunganDeposito
        /\ PaidInterest(m)[p] = 0 /\ PaidInterest(m)'[p] = slip.bunga
    BY <1>2, <1>3, <1>7, <1>8 DEF PaidDeposits, PaidInterest
  <1>10. /\ PaidDeposits(m) \in [Periods -> Int] /\ PaidInterest(m) \in [Periods -> Int]
         /\ PaidDeposits(m)' \in [Periods -> Int] /\ PaidInterest(m)' \in [Periods -> Int]
    <2>1. PaidDeposits(m) \in [Periods -> Int] /\ PaidInterest(m) \in [Periods -> Int]
      BY ColumnTypes
    <2>2. slip \in Payslip
      BY <1>1, <1>3, <1>4, MonthBooked
    <2>3. slip.tabunganDeposito \in Int /\ slip.bunga \in Int
      BY <2>2 DEF Payslip
    <2>4. /\ \A x \in Periods : PaidDeposits(m)'[x] \in Int
          /\ \A x \in Periods : PaidInterest(m)'[x] \in Int
      BY <1>9, <2>1, <2>3
    <2> QED
      BY <2>1, <2>4 DEF PaidDeposits, PaidInterest
  <1>11. IsFiniteSet(Periods)
    BY SavingsAssumption
  <1>12. SumOf(PaidDeposits(m)') = SumOf(PaidDeposits(m)) - 0 + slip.tabunganDeposito
    <2>1. PICK f, e : f = PaidDeposits(m) /\ e = PaidDeposits(m)'
      OBVIOUS
    <2>2. SumOf(e) = SumOf(f) - f[p] + e[p]
      BY <1>9, <1>10, <1>11, <2>1, SumOfChanged
    <2> QED
      BY <1>9, <2>1, <2>2
  <1>18. SumOf(PaidInterest(m)') = SumOf(PaidInterest(m)) - 0 + slip.bunga
    <2>1. PICK f, e : f = PaidInterest(m) /\ e = PaidInterest(m)'
      OBVIOUS
    <2>2. SumOf(e) = SumOf(f) - f[p] + e[p]
      BY <1>9, <1>10, <1>11, <2>1, SumOfChanged
    <2> QED
      BY <1>9, <2>1, <2>2
  <1>13. Taken(m)' = Taken(m) /\ TakenInterest(m)' = TakenInterest(m)
    BY <1>2 DEF Taken, TakenInterest
  <1>14. slip.bunga \in Int /\ DepositAmount \in Int
    BY <1>9, <1>10, WithdrawalAssumption
  <1>15. account[m].sukarela \in Int /\ account[m].bunga \in Int
    BY <1>4 DEF AccountRow
  <1>16. SavingsBookedOf(m) => SavingsBookedOf(m)'
    BY <1>5, <1>7, <1>12, <1>13, <1>14, <1>15, SumTypes, OpeningTypes DEF SavingsBookedOf
  <1>17. InterestBookedOf(m) => InterestBookedOf(m)'
    BY <1>5, <1>7, <1>18, <1>13, <1>14, <1>15, SumTypes, OpeningTypes DEF InterestBookedOf
  <1> QED
    BY <1>6, <1>16, <1>17

\* A withdrawal is a row with a member and an amount or there is none.
LEMMA WithdrawalRows ==
  ASSUME TypeOK, NEW w \in Withdrawals
  PROVE  /\ withdrawal[w] \in WithdrawalRow \/ withdrawal[w] = NoWithdrawal
         /\ \A row \in WithdrawalRow : row # NoWithdrawal
         /\ withdrawal[w].status # "NONE" => withdrawal[w] \in WithdrawalRow
         /\ withdrawal[w].step # NoStep => withdrawal[w] \in WithdrawalRow
  <1>1. withdrawal[w] \in WithdrawalRow \/ withdrawal[w] = NoWithdrawal
    BY DEF TypeOK
  <1>2. NoWithdrawal.status = "NONE" /\ NoWithdrawal.step = NoStep
    BY DEF NoWithdrawal
  <1>3. ASSUME NEW row \in WithdrawalRow
        PROVE  row # NoWithdrawal
    <2>1. "member" \in DOMAIN row
      BY DEF WithdrawalRow
    <2>2. "member" \notin DOMAIN NoWithdrawal
      BY DEF NoWithdrawal
    <2> QED
      BY <2>1, <2>2
  <1> QED
    BY <1>1, <1>2, <1>3

\* What a request in flight has read, by what it is about to do.
LEMMA RequestFacts ==
  ASSUME TypeOK, NEW r \in Requests, request[r] # Idle
  PROVE  /\ request[r] \in RequestRow
         /\ request[r].op # "CHARGE" => request[r].seen \in WithdrawalRow
         /\ request[r].op \notin {"CREATE", "CHARGE"} => request[r].id \in Withdrawals
         /\ request[r].op = "CHARGE" =>
              request[r].id \in Changes /\ request[r].seen \in [member: Members, amount: Fees]
         /\ request[r].account # NotRead => request[r].account \in AccountRow
         /\ request[r].op # "IDLE"
  BY DEF TypeOK, RequestRow

\* Only a request in flight has an operation to commit.
LEMMA InFlight ==
  ASSUME TypeOK, NEW r \in Requests, request[r].op # "IDLE"
  PROVE  request[r] # Idle
  BY DEF Idle

-----------------------------------------------------------------------------
LEMMA InitInv == Init => Inv
  <1> SUFFICES ASSUME Init
               PROVE  Inv
    OBVIOUS
  <1>1. \A m \in Members : <<>> \in Seq(DebitRow)
    OBVIOUS
  <1>2. NoPayslip \in Payslip
    BY DEF NoPayslip, Payslip
  <1>3. TypeOK
    BY <1>1, <1>2, SavingsAssumption DEF Init, SavingsInit, TypeOK
  <1>4. RowsBacked
    BY DEF Init, RowsBacked, Backed, NoWithdrawal, NoStep
  <1>5. RequestsBacked
    BY DEF Init, RequestsBacked
  <1>6. PaidAsSigned
    <2>1. \A m \in Members : DOMAIN debits[m] = {}
      BY DEF Init, SavingsInit
    <2> QED
      BY <2>1 DEF Init, PaidAsSigned, WithdrawalIsSigned, DebitedOnce
  <1> QED
    BY <1>3, <1>4, <1>5, <1>6 DEF Inv

-----------------------------------------------------------------------------
\* What a row presupposes stays in the history, which only grows.
LEMMA BackedKept ==
  ASSUME Inv, approvals' \in [Withdrawals -> SUBSET ApprovalRow],
         \A w \in Withdrawals : approvals[w] \subseteq approvals'[w],
         disbursed \subseteq disbursed'
  PROVE  \A w \in Withdrawals : \A step : Backed(w, step) => Backed(w, step)'
  BY DEF Backed, Signed

\* A request that begins writes nothing, and has read what is backed.
LEMMA EnterInv ==
  ASSUME Inv, NEW r \in Requests, NEW op, NEW id, NEW seen, Enter(r, op, id, seen),
         [op |-> op, id |-> id, seen |-> seen, account |-> NotRead] \in RequestRow,
         RequestBacked([op |-> op, id |-> id, seen |-> seen, account |-> NotRead])
  PROVE  Inv'
  <1> DEFINE q == [op |-> op, id |-> id, seen |-> seen, account |-> NotRead]
  <1> HIDE DEF q
  <1>1. UNCHANGED <<savingsVars, withdrawal, approvals, disbursed, authorized>>
    BY DEF Enter
  <1>2. request' = [request EXCEPT ![r] = q] /\ q \in RequestRow
    BY DEF Enter, q
  <1>3. overlapped' \in BOOLEAN
    BY DEF Enter, Noted, Inv, TypeOK
  <1>4. TypeOK'
    BY <1>1, <1>2, <1>3 DEF Inv, TypeOK, savingsVars
  <1>5. RowsBacked' /\ PaidAsSigned'
    BY <1>1 DEF Inv, RowsBacked, Backed, Signed, PaidAsSigned, WithdrawalIsSigned,
                DebitedOnce, savingsVars
  <1>6. \A p : RequestBacked(p) => RequestBacked(p)'
    BY <1>1 DEF RequestBacked, EnteredAt, Backed, Signed
  <1>7. RequestBacked(q)
    BY DEF q
  <1>8. RequestsBacked'
    BY <1>2, <1>6, <1>7 DEF Inv, TypeOK, RequestsBacked
  <1> QED
    BY <1>4, <1>5, <1>8 DEF Inv

\* The request whose step it is ends; the others stay as they were.
LEMMA DoneInv ==
  ASSUME Inv, NEW r \in Requests, Done(r),
         \A w \in Withdrawals : \A step : Backed(w, step) => Backed(w, step)',
         \A w \in Withdrawals : withdrawal[w] # NoWithdrawal => withdrawal'[w] # NoWithdrawal
  PROVE  /\ request' \in [Requests -> {Idle} \cup RequestRow]
         /\ overlapped' \in BOOLEAN
         /\ RequestsBacked'
  <1>1. request' = [request EXCEPT ![r] = Idle]
    BY DEF Done
  <1>2. ASSUME NEW t \in Requests, NEW q, q = request[t], q # Idle
        PROVE  RequestBacked(q)'
    <2>1. RequestBacked(q)
      BY <1>2 DEF Inv, RequestsBacked
    <2>2. q.op \notin {"CREATE", "CHARGE"} => q.id \in Withdrawals
      BY <1>2, RequestFacts DEF Inv
    <2> QED
      BY <2>1, <2>2 DEF RequestBacked, EnteredAt
  <1>3. RequestsBacked'
    BY <1>1, <1>2 DEF Inv, TypeOK, RequestsBacked
  <1> QED
    BY <1>1, <1>3 DEF Inv, TypeOK, Done

-----------------------------------------------------------------------------
LEMMA BeginCreateInv ==
  ASSUME Inv, NEW r \in Requests, NEW m \in Members, NEW amount \in Amounts,
         BeginCreate(r, m, amount)
  PROVE  Inv'
  <1> DEFINE seen == [status |-> "SUBMITTED", step |-> "DIVISI_SIMPAN_PINJAM",
                      member |-> m, amount |-> amount]
             q == [op |-> "CREATE", id |-> "NEW", seen |-> seen, account |-> NotRead]
  <1>1. seen \in WithdrawalRow
    BY DEF WithdrawalRow, Statuses, Steps
  <1>2. q \in RequestRow
    BY <1>1 DEF RequestRow
  <1>3. RequestBacked(q)
    BY DEF RequestBacked, EnteredAt
  <1> QED
    BY <1>2, <1>3, EnterInv DEF BeginCreate

\* A request about a withdrawal has read its row, at the step of its kind.
LEMMA BeginInv ==
  ASSUME Inv, NEW r \in Requests, NEW w \in Withdrawals,
         NEW op \in {"APPROVE", "REJECT", "DISBURSE", "AUTHORIZE", "CANCEL"},
         Enter(r, op, w, withdrawal[w]), withdrawal[w].status # "NONE" \/ withdrawal[w].step # NoStep,
         op \in {"APPROVE", "REJECT"} => withdrawal[w].step \in Officers,
         op = "DISBURSE" => withdrawal[w].step = "SHOPKEEPER",
         op = "AUTHORIZE" => withdrawal[w].step = "KETUA_AUTH"
  PROVE  Inv'
  <1> DEFINE q == [op |-> op, id |-> w, seen |-> withdrawal[w], account |-> NotRead]
  <1>1. withdrawal[w] \in WithdrawalRow /\ withdrawal[w] # NoWithdrawal
    BY WithdrawalRows DEF Inv
  <1>2. q \in RequestRow
    BY <1>1 DEF RequestRow
  <1>3. RequestBacked(q)
    BY <1>1 DEF RequestBacked, EnteredAt, Inv, RowsBacked
  <1> QED
    BY <1>2, <1>3, EnterInv

\* A request about a fee knows who owes how much.
LEMMA BeginChargeInv ==
  ASSUME Inv, NEW r \in Requests, NEW c \in Changes, NEW fee \in Fees, BeginCharge(r, c, fee)
  PROVE  Inv'
  <1> DEFINE seen == [member |-> Depositor[c], amount |-> fee]
             q == [op |-> "CHARGE", id |-> c, seen |-> seen, account |-> NotRead]
  <1>1. seen \in [member: Members, amount: Fees]
    BY WithdrawalAssumption
  <1>2. q \in RequestRow
    BY <1>1 DEF RequestRow
  <1>3. RequestBacked(q)
    BY DEF RequestBacked, EnteredAt
  <1> QED
    BY <1>2, <1>3, EnterInv DEF BeginCharge

LEMMA BeginsInv ==
  ASSUME Inv, NEW r \in Requests, Begin(r)
  PROVE  Inv'
  <1>1. ASSUME NEW w \in Withdrawals, NEW op \in {"APPROVE", "REJECT"}, BeginDecision(r, w, op)
        PROVE  Inv'
    BY <1>1, BeginInv DEF BeginDecision, Officers, NoStep
  <1>2. ASSUME NEW w \in Withdrawals, BeginDisburse(r, w)
        PROVE  Inv'
    BY <1>2, BeginInv DEF BeginDisburse
  <1>3. ASSUME NEW w \in Withdrawals, BeginAuthorize(r, w)
        PROVE  Inv'
    BY <1>3, BeginInv DEF BeginAuthorize
  <1>4. ASSUME NEW w \in Withdrawals, BeginCancel(r, w)
        PROVE  Inv'
    BY <1>4, BeginInv DEF BeginCancel
  <1> QED
    BY <1>1, <1>2, <1>3, <1>4, BeginCreateInv, BeginChargeInv DEF Begin

-----------------------------------------------------------------------------
\* A withdrawal that takes a status and a step remains a row.
LEMMA MovedRow ==
  ASSUME Inv, NEW w \in Withdrawals, withdrawal[w] # NoWithdrawal,
         NEW status \in Statuses, NEW step \in Steps \cup {NoStep},
         withdrawal' = [withdrawal EXCEPT ![w].status = status, ![w].step = step]
  PROVE  /\ withdrawal' \in [Withdrawals -> {NoWithdrawal} \cup WithdrawalRow]
         /\ withdrawal'[w].step = step
         /\ \A v \in Withdrawals : v # w => withdrawal'[v] = withdrawal[v]
         /\ \A v \in Withdrawals : withdrawal[v] # NoWithdrawal => withdrawal'[v] # NoWithdrawal
  <1> DEFINE row == [withdrawal[w] EXCEPT !.status = status, !.step = step]
  <1>1. withdrawal[w] \in WithdrawalRow
    BY WithdrawalRows DEF Inv, TypeOK
  <1>2. row \in WithdrawalRow /\ row.step = step
    BY <1>1 DEF WithdrawalRow
  <1>3. withdrawal' = [withdrawal EXCEPT ![w] = row]
    BY DEF Inv, TypeOK
  <1> HIDE DEF row
  <1>4. row # NoWithdrawal
    BY <1>2, WithdrawalRows DEF Inv
  <1> QED
    BY <1>2, <1>3, <1>4 DEF Inv, TypeOK

\* A commit that moves its withdrawal and adds to the history keeps what the
\* rows presuppose, when the new step is backed.
LEMMA MovedInv ==
  ASSUME Inv, NEW r \in Requests, Done(r),
         NEW w \in Withdrawals, withdrawal[w] # NoWithdrawal,
         NEW status \in Statuses, NEW step \in Steps \cup {NoStep},
         withdrawal' = [withdrawal EXCEPT ![w].status = status, ![w].step = step],
         approvals' \in [Withdrawals -> SUBSET ApprovalRow],
         \A v \in Withdrawals : approvals[v] \subseteq approvals'[v],
         disbursed' \in SUBSET Withdrawals, disbursed \subseteq disbursed',
         Backed(w, step)'
  PROVE  /\ withdrawal' \in [Withdrawals -> {NoWithdrawal} \cup WithdrawalRow]
         /\ request' \in [Requests -> {Idle} \cup RequestRow]
         /\ overlapped' \in BOOLEAN
         /\ RowsBacked'
         /\ RequestsBacked'
  <1>1. \A v \in Withdrawals : \A s : Backed(v, s) => Backed(v, s)'
    BY BackedKept
  <1>2. RowsBacked'
    <2>1. ASSUME NEW v \in Withdrawals, v # w, NEW s, s = withdrawal'[v].step
          PROVE  Backed(v, s)'
      <3>1. s = withdrawal[v].step
        BY <2>1, MovedRow
      <3>2. Backed(v, s)
        BY <3>1 DEF Inv, RowsBacked
      <3> QED
        BY <3>2, <1>1
    <2>2. withdrawal'[w].step = step
      BY MovedRow
    <2> QED
      BY <2>1, <2>2 DEF RowsBacked
  <1> QED
    BY <1>1, <1>2, MovedRow, DoneInv

-----------------------------------------------------------------------------
\* What a request is about to commit.
LEMMA CommitFacts ==
  ASSUME Inv, NEW r \in Requests,
         request[r].op \in {"APPROVE", "REJECT", "DISBURSE", "AUTHORIZE", "CANCEL"}
  PROVE  /\ request[r] # Idle
         /\ request[r].id \in Withdrawals
         /\ request[r].seen \in WithdrawalRow
         /\ withdrawal[request[r].id] # NoWithdrawal
         /\ Backed(request[r].id, request[r].seen.step)
         /\ EnteredAt(request[r])
         /\ request[r].account # NotRead => request[r].account \in AccountRow
  <1>1. request[r] # Idle
    BY InFlight DEF Inv
  <1> QED
    BY <1>1, RequestFacts DEF Inv, RequestsBacked, RequestBacked

\* Approvals that are added take nothing from what is signed.
LEMMA SignedKept ==
  ASSUME Inv, approvals' \in [Withdrawals -> SUBSET ApprovalRow],
         \A w \in Withdrawals : approvals[w] \subseteq approvals'[w],
         UNCHANGED <<savingsVars, disbursed, authorized>>
  PROVE  PaidAsSigned'
  <1>1. WithdrawalIsSigned'
    BY DEF Inv, TypeOK, PaidAsSigned, WithdrawalIsSigned
  <1>2. DebitedOnce'
    BY DEF Inv, PaidAsSigned, DebitedOnce, savingsVars
  <1> QED
    BY <1>1, <1>2 DEF PaidAsSigned

LEMMA CommitCreateInv ==
  ASSUME Inv, NEW r \in Requests, CommitCreate(r)
  PROVE  Inv'
  <1>1. request[r] # Idle /\ request[r].seen \in WithdrawalRow
    BY InFlight, RequestFacts DEF Inv, CommitCreate
  <1>2. request[r].seen.step = "DIVISI_SIMPAN_PINJAM" /\ request[r].seen # NoWithdrawal
    BY <1>1, WithdrawalRows DEF Inv, RequestsBacked, RequestBacked, EnteredAt, CommitCreate
  <1>3. PICK w \in Withdrawals : withdrawal' = [withdrawal EXCEPT ![w] = request[r].seen]
    BY DEF CommitCreate
  <1>4. UNCHANGED <<savingsVars, approvals, disbursed, authorized>> /\ Done(r)
    BY DEF CommitCreate
  <1>5. \A v \in Withdrawals : \A s : Backed(v, s) => Backed(v, s)'
    BY <1>4 DEF Backed, Signed
  <1>6. \A v \in Withdrawals : withdrawal[v] # NoWithdrawal => withdrawal'[v] # NoWithdrawal
    BY <1>2, <1>3 DEF Inv, TypeOK
  <1>7. TypeOK' /\ RequestsBacked'
    BY <1>1, <1>3, <1>4, <1>5, <1>6, DoneInv DEF Inv, TypeOK, savingsVars
  <1>8. RowsBacked'
    <2>1. ASSUME NEW v \in Withdrawals, NEW s, s = withdrawal'[v].step
          PROVE  Backed(v, s)'
      <3>1. CASE v = w
        BY <1>2, <1>3, <2>1, <3>1 DEF Inv, TypeOK, Backed
      <3>2. CASE v # w
        BY <1>3, <1>5, <2>1, <3>2 DEF Inv, TypeOK, RowsBacked
      <3> QED
        BY <3>1, <3>2
    <2> QED
      BY <2>1 DEF RowsBacked
  <1>9. PaidAsSigned'
    BY <1>4, SignedKept DEF Inv, TypeOK
  <1> QED
    BY <1>7, <1>8, <1>9 DEF Inv

\* Decisions and cancellations move the withdrawal and at most add an approval.
LEMMA DecidedInv ==
  ASSUME Inv, NEW r \in Requests, Done(r),
         NEW w \in Withdrawals, withdrawal[w] # NoWithdrawal,
         NEW status \in Statuses, NEW step \in {"KETUA", "SHOPKEEPER", NoStep},
         withdrawal' = [withdrawal EXCEPT ![w].status = status, ![w].step = step],
         NEW added \in SUBSET ApprovalRow,
         approvals' = [approvals EXCEPT ![w] = @ \cup added],
         Backed(w, step)',
         UNCHANGED <<savingsVars, disbursed, authorized>>
  PROVE  Inv'
  <1>1. approvals' \in [Withdrawals -> SUBSET ApprovalRow]
    BY DEF Inv, TypeOK
  <1>2. \A v \in Withdrawals : approvals[v] \subseteq approvals'[v]
    BY DEF Inv, TypeOK
  <1>3. disbursed' \in SUBSET Withdrawals /\ disbursed \subseteq disbursed'
    BY DEF Inv, TypeOK
  <1>4. step \in Steps \cup {NoStep}
    BY DEF Steps
  <1>5. /\ withdrawal' \in [Withdrawals -> {NoWithdrawal} \cup WithdrawalRow]
        /\ request' \in [Requests -> {Idle} \cup RequestRow]
        /\ overlapped' \in BOOLEAN
        /\ RowsBacked'
        /\ RequestsBacked'
    BY <1>1, <1>2, <1>3, <1>4, MovedInv
  <1>6. PaidAsSigned'
    BY <1>1, <1>2, SignedKept
  <1>7. TypeOK'
    BY <1>1, <1>5 DEF Inv, TypeOK, savingsVars
  <1> QED
    BY <1>5, <1>6, <1>7 DEF Inv

LEMMA CommitRejectInv ==
  ASSUME Inv, NEW r \in Requests, CommitReject(r)
  PROVE  Inv'
  <1>1. PICK q : q = request[r]
    OBVIOUS
  <1> DEFINE added == {[step |-> q.seen.step, decision |-> "REJECTED"]}
  <1>2. /\ q.id \in Withdrawals
        /\ withdrawal[q.id] # NoWithdrawal
        /\ q.seen.step \in Officers
    BY <1>1, CommitFacts DEF CommitReject, EnteredAt
  <1>3. added \in SUBSET ApprovalRow
    BY <1>2 DEF ApprovalRow, Officers, Steps
  <1>4. Backed(q.id, NoStep)'
    BY DEF Backed, NoStep
  <1>5. "REJECTED" \in Statuses /\ NoStep \in {"KETUA", "SHOPKEEPER", NoStep}
    BY DEF Statuses
  <1>6. /\ approvals' = [approvals EXCEPT ![q.id] = @ \cup added]
        /\ withdrawal' = [withdrawal EXCEPT ![q.id].status = "REJECTED", ![q.id].step = NoStep]
        /\ Done(r)
        /\ UNCHANGED <<savingsVars, disbursed, authorized>>
    BY <1>1 DEF CommitReject
  <1> HIDE DEF added
  <1> QED
    BY <1>2, <1>3, <1>4, <1>5, <1>6, DecidedInv

LEMMA CommitCancelInv ==
  ASSUME Inv, NEW r \in Requests, CommitCancel(r)
  PROVE  Inv'
  <1>1. PICK q : q = request[r]
    OBVIOUS
  <1>2. q.id \in Withdrawals /\ withdrawal[q.id] # NoWithdrawal
    BY <1>1, CommitFacts DEF CommitCancel
  <1>3. Backed(q.id, NoStep)'
    BY DEF Backed, NoStep
  <1>4. approvals' = [approvals EXCEPT ![q.id] = @ \cup {}]
    BY DEF CommitCancel, Inv, TypeOK
  <1>5. "CANCELLED" \in Statuses /\ NoStep \in {"KETUA", "SHOPKEEPER", NoStep}
    BY DEF Statuses
  <1>6. /\ withdrawal' = [withdrawal EXCEPT ![q.id].status = "CANCELLED", ![q.id].step = NoStep]
        /\ Done(r)
        /\ UNCHANGED <<savingsVars, disbursed, authorized>>
    BY <1>1 DEF CommitCancel
  <1>7. {} \in SUBSET ApprovalRow
    OBVIOUS
  <1> QED
    BY <1>2, <1>3, <1>4, <1>5, <1>6, <1>7, DecidedInv

\* The second signature can only follow the first, which its request has read.
LEMMA CommitApproveInv ==
  ASSUME Inv, NEW r \in Requests, CommitApprove(r)
  PROVE  Inv'
  <1>1. PICK q : q = request[r]
    OBVIOUS
  <1>2. PICK step, status : step = StepAfter(q.seen.step) /\ status = StatusAfter(q.seen.step)
    OBVIOUS
  <1> DEFINE added == {[step |-> q.seen.step, decision |-> "APPROVED"]}
  <1>3. /\ q.id \in Withdrawals
        /\ withdrawal[q.id] # NoWithdrawal
        /\ q.seen.step \in Officers
        /\ Backed(q.id, q.seen.step)
    BY <1>1, CommitFacts DEF CommitApprove, EnteredAt
  <1>4. added \in SUBSET ApprovalRow
    BY <1>3 DEF ApprovalRow, Officers, Steps
  <1>5. step \in {"KETUA", "SHOPKEEPER", NoStep} /\ status \in Statuses
    BY <1>2 DEF StepAfter, StatusAfter, Statuses
  <1>6. /\ approvals' = [approvals EXCEPT ![q.id] = @ \cup added]
        /\ withdrawal' = [withdrawal EXCEPT ![q.id].status = status, ![q.id].step = step]
        /\ Done(r)
        /\ UNCHANGED <<savingsVars, disbursed, authorized>>
    BY <1>1, <1>2 DEF CommitApprove
  <1>7. Backed(q.id, step)'
    <2>1. approvals'[q.id] = approvals[q.id] \cup added
      BY <1>3, <1>6 DEF Inv, TypeOK
    <2>2. CASE q.seen.step = "DIVISI_SIMPAN_PINJAM"
      BY <1>2, <2>1, <2>2 DEF Backed, Signed, StepAfter
    <2>3. CASE q.seen.step = "KETUA"
      BY <1>2, <1>3, <2>1, <2>3 DEF Backed, Signed, StepAfter
    <2> QED
      BY <1>3, <2>2, <2>3 DEF Officers
  <1> HIDE DEF added
  <1> QED
    BY <1>3, <1>4, <1>5, <1>6, <1>7, DecidedInv

LEMMA CommitDisburseInv ==
  ASSUME Inv, NEW r \in Requests, CommitDisburse(r)
  PROVE  Inv'
  <1>1. PICK q : q = request[r]
    OBVIOUS
  <1>2. /\ q.id \in Withdrawals
        /\ withdrawal[q.id] # NoWithdrawal
        /\ q.seen.step = "SHOPKEEPER"
        /\ Backed(q.id, q.seen.step)
    BY <1>1, CommitFacts DEF CommitDisburse, EnteredAt
  <1>3. /\ withdrawal' = [withdrawal EXCEPT ![q.id].status = "DISBURSEMENT_IN_PROGRESS",
                                            ![q.id].step = "KETUA_AUTH"]
        /\ disbursed' = disbursed \cup {q.id}
        /\ Done(r)
        /\ UNCHANGED <<savingsVars, approvals, authorized>>
    BY <1>1 DEF CommitDisburse
  <1>4. Backed(q.id, "KETUA_AUTH")'
    BY <1>2, <1>3 DEF Backed, Signed
  <1>5. "DISBURSEMENT_IN_PROGRESS" \in Statuses /\ "KETUA_AUTH" \in Steps \cup {NoStep}
    BY DEF Statuses, Steps
  <1>6. /\ approvals' \in [Withdrawals -> SUBSET ApprovalRow]
        /\ \A v \in Withdrawals : approvals[v] \subseteq approvals'[v]
        /\ disbursed' \in SUBSET Withdrawals /\ disbursed \subseteq disbursed'
    BY <1>2, <1>3 DEF Inv, TypeOK
  <1>7. /\ withdrawal' \in [Withdrawals -> {NoWithdrawal} \cup WithdrawalRow]
        /\ request' \in [Requests -> {Idle} \cup RequestRow]
        /\ overlapped' \in BOOLEAN
        /\ RowsBacked'
        /\ RequestsBacked'
    BY <1>2, <1>3, <1>4, <1>5, <1>6, MovedInv
  <1>8. TypeOK'
    BY <1>3, <1>6, <1>7 DEF Inv, TypeOK, savingsVars
  <1>9. WithdrawalIsSigned'
    BY <1>2, <1>3 DEF Inv, PaidAsSigned, WithdrawalIsSigned, Backed, Signed
  <1>10. DebitedOnce'
    BY <1>3 DEF Inv, PaidAsSigned, DebitedOnce, savingsVars
  <1> QED
    BY <1>7, <1>8, <1>9, <1>10 DEF Inv, PaidAsSigned

LEMMA ReadAccountInv ==
  ASSUME Inv, NEW r \in Requests, ReadAccount(r)
  PROVE  Inv'
  <1>1. PICK q : q = [request[r] EXCEPT !.account = account[request[r].seen.member]]
    OBVIOUS
  <1>2. /\ request[r] # Idle
        /\ request[r].seen.member \in Members
        /\ request[r].op \in {"AUTHORIZE", "CHARGE"}
        /\ request[r] \in RequestRow
        /\ RequestBacked(request[r])
    BY InFlight, RequestFacts DEF ReadAccount, Inv, RequestsBacked, WithdrawalRow
  <1>3. account[request[r].seen.member] \in AccountRow
    BY <1>2 DEF Inv, TypeOK
  <1>4. /\ q \in RequestRow
        /\ q.op = request[r].op /\ q.id = request[r].id /\ q.seen = request[r].seen
    BY <1>1, <1>2, <1>3 DEF RequestRow
  <1>5. request' = [request EXCEPT ![r] = q]
    BY <1>1 DEF ReadAccount, Inv, TypeOK
  <1>6. UNCHANGED <<savingsVars, withdrawal, approvals, disbursed, authorized, overlapped>>
    BY DEF ReadAccount
  <1>7. TypeOK'
    BY <1>4, <1>5, <1>6 DEF Inv, TypeOK, savingsVars
  <1>8. RowsBacked' /\ PaidAsSigned'
    BY <1>6 DEF Inv, RowsBacked, Backed, Signed, PaidAsSigned, WithdrawalIsSigned,
                DebitedOnce, savingsVars
  <1>9. \A p : RequestBacked(p) => RequestBacked(p)'
    BY <1>6 DEF RequestBacked, EnteredAt, Backed, Signed
  <1>10. RequestBacked(q)
    BY <1>2, <1>4 DEF RequestBacked, EnteredAt
  <1>11. RequestsBacked'
    BY <1>5, <1>9, <1>10 DEF Inv, TypeOK, RequestsBacked
  <1> QED
    BY <1>7, <1>8, <1>11 DEF Inv

\* The first and only authorization of a withdrawal books its only debit; a fee
\* is no withdrawal.
LEMMA DebitedOnceMore ==
  ASSUME Inv, NEW m \in Members, NEW ref \in Withdrawals \cup Changes, ref \notin authorized,
         NEW row, row.ref = ref, debits' = [debits EXCEPT ![m] = Append(@, row)],
         authorized' = authorized \cup ({ref} \cap Withdrawals)
  PROVE  DebitedOnce'
  <1>1. \A n \in Members : debits[n] \in Seq(DebitRow)
    BY DEF Inv, TypeOK
  <1>2. \A n \in Members : Len(debits[n]) \in Nat /\ DOMAIN debits[n] = 1 .. Len(debits[n])
    BY <1>1
  <1>3. \A n \in Members : n # m => debits'[n] = debits[n]
    BY DEF Inv, TypeOK
  <1>4. debits'[m] = Append(debits[m], row)
    BY DEF Inv, TypeOK
  <1>5. /\ DOMAIN debits'[m] = 1 .. Len(debits[m]) + 1
        /\ \A i \in 1 .. Len(debits[m]) : debits'[m][i] = debits[m][i]
        /\ debits'[m][Len(debits[m]) + 1] = row
    <2>1. \A S : \A d \in Seq(S) :
            /\ DOMAIN Append(d, row) = 1 .. Len(d) + 1
            /\ \A i \in 1 .. Len(d) : Append(d, row)[i] = d[i]
            /\ Append(d, row)[Len(d) + 1] = row
      OBVIOUS
    <2> QED
      BY <2>1, <1>1, <1>4
  <1>6. \A n \in Members : \A i \in DOMAIN debits[n] :
          debits[n][i].ref \in Withdrawals => debits[n][i].ref \in authorized
    BY DEF Inv, PaidAsSigned, DebitedOnce
  <1>7. ASSUME NEW n \in Members, NEW i \in DOMAIN debits'[n], NEW j \in DOMAIN debits'[n],
               debits'[n][i].ref \in Withdrawals, debits'[n][i].ref = debits'[n][j].ref
        PROVE  i = j
    <2>1. CASE n # m
      BY <1>3, <1>7, <2>1 DEF Inv, PaidAsSigned, DebitedOnce
    <2>2. CASE n = m
      BY <1>2, <1>5, <1>6, <1>7, <2>2 DEF Inv, PaidAsSigned, DebitedOnce
    <2> QED
      BY <2>1, <2>2
  <1>8. ASSUME NEW v \in Withdrawals
        PROVE  v \in authorized' <=>
                 \E n \in Members : \E i \in DOMAIN debits'[n] : debits'[n][i].ref = v
    <2>1. v \in authorized <=>
            \E n \in Members : \E i \in DOMAIN debits[n] : debits[n][i].ref = v
      BY DEF Inv, PaidAsSigned, DebitedOnce
    <2>2. ASSUME NEW n \in Members, NEW i \in DOMAIN debits[n]
          PROVE  i \in DOMAIN debits'[n] /\ debits'[n][i] = debits[n][i]
      BY <1>2, <1>3, <1>5, <2>2
    <2>3. Len(debits[m]) + 1 \in DOMAIN debits'[m]
      BY <1>2, <1>5
    <2>4. ASSUME v \in authorized'
          PROVE  \E n \in Members : \E i \in DOMAIN debits'[n] : debits'[n][i].ref = v
      BY <1>5, <2>1, <2>2, <2>3, <2>4
    <2>5. ASSUME NEW n \in Members, NEW i \in DOMAIN debits'[n], debits'[n][i].ref = v
          PROVE  v \in authorized'
      BY <1>2, <1>3, <1>5, <2>1, <2>5
    <2> QED
      BY <2>4, <2>5
  <1> QED
    BY <1>7, <1>8 DEF DebitedOnce

\* The last signature: what it presupposes, and what it books.
LEMMA AuthorizeDebits ==
  ASSUME Inv, NEW r \in Requests, CommitAuthorize(r), NEW q, q = request[r]
  PROVE  /\ q.id \in Withdrawals
         /\ q.seen \in WithdrawalRow
         /\ q.seen.member \in Members /\ q.seen.amount \in Amounts
         /\ q.account \in AccountRow /\ q.account # NotRead
         /\ account' \in [Members -> AccountRow]
         /\ debits' \in [Members -> Seq(DebitRow)]
         /\ payslip' = payslip
         /\ DebitAppended(q.seen.member, q.account, q.seen.amount, q.id)
  <1>1. q.id \in Withdrawals /\ q.seen \in WithdrawalRow /\ q.account \in AccountRow
    BY CommitFacts DEF CommitAuthorize
  <1>2. Debit(q.seen.member, q.account, q.seen.amount, q.id) /\ q.account # NotRead
    BY DEF CommitAuthorize
  <1>3. q.seen.member \in Members /\ q.seen.amount \in Amounts
    BY <1>1 DEF WithdrawalRow
  <1>4. payslip' = payslip
    BY <1>2 DEF Debit
  <1> QED
    BY <1>1, <1>2, <1>3, <1>4, DebitBooked DEF Inv

\* The same of a fee.
LEMMA ChargeDebits ==
  ASSUME Inv, NEW r \in Requests, CommitCharge(r), NEW q, q = request[r]
  PROVE  /\ request[r] # Idle
         /\ q.id \in Changes
         /\ q.seen.member \in Members /\ q.seen.amount \in Fees
         /\ q.account \in AccountRow /\ q.account # NotRead
         /\ account' \in [Members -> AccountRow]
         /\ debits' \in [Members -> Seq(DebitRow)]
         /\ payslip' = payslip
         /\ DebitAppended(q.seen.member, q.account, q.seen.amount, q.id)
  <1>1. /\ request[r] # Idle
        /\ q.id \in Changes
        /\ q.seen.member \in Members /\ q.seen.amount \in Fees
        /\ q.account # NotRead /\ q.account \in AccountRow
    BY InFlight, RequestFacts DEF CommitCharge, Inv
  <1>2. Debit(q.seen.member, q.account, q.seen.amount, q.id)
    BY DEF CommitCharge
  <1>3. payslip' = payslip
    BY <1>2 DEF Debit
  <1> QED
    BY <1>1, <1>2, <1>3, DebitBooked DEF Inv

LEMMA CommitChargeInv ==
  ASSUME Inv, NEW r \in Requests, CommitCharge(r)
  PROVE  Inv'
  <1>1. PICK q : q = request[r]
    OBVIOUS
  <1>2. /\ q.id \in Changes
        /\ q.seen.member \in Members
        /\ account' \in [Members -> AccountRow]
        /\ debits' \in [Members -> Seq(DebitRow)]
        /\ payslip' = payslip
        /\ DebitAppended(q.seen.member, q.account, q.seen.amount, q.id)
    BY <1>1, ChargeDebits
  <1>3. Done(r) /\ UNCHANGED <<withdrawal, approvals, disbursed, authorized>>
    BY DEF CommitCharge
  <1>4. \A v \in Withdrawals : \A s : Backed(v, s) => Backed(v, s)'
    BY <1>3 DEF Backed, Signed
  <1>5. TypeOK' /\ RequestsBacked'
    BY <1>2, <1>3, <1>4, DoneInv DEF Inv, TypeOK
  <1>6. RowsBacked' /\ WithdrawalIsSigned'
    BY <1>3 DEF Inv, RowsBacked, Backed, Signed, PaidAsSigned, WithdrawalIsSigned
  <1>7. q.id \notin authorized /\ authorized' = authorized \cup ({q.id} \cap Withdrawals)
    BY <1>2, <1>3, WithdrawalAssumption DEF Inv, TypeOK
  <1>8. DebitedOnce'
    BY <1>2, <1>7, DebitedOnceMore DEF DebitAppended
  <1> QED
    BY <1>5, <1>6, <1>8 DEF Inv, PaidAsSigned

LEMMA CommitAuthorizeInv ==
  ASSUME Inv, NEW r \in Requests, CommitAuthorize(r)
  PROVE  Inv'
  <1>1. PICK q : q = request[r]
    OBVIOUS
  <1>2. /\ q.id \in Withdrawals
        /\ withdrawal[q.id] # NoWithdrawal
        /\ q.seen \in WithdrawalRow
        /\ q.account \in AccountRow
        /\ q.seen.step = "KETUA_AUTH"
        /\ Backed(q.id, q.seen.step)
    BY <1>1, CommitFacts DEF CommitAuthorize, EnteredAt
  <1>3. /\ q.id \notin authorized
        /\ authorized' = authorized \cup {q.id}
        /\ withdrawal' = [withdrawal EXCEPT ![q.id].status = "COMPLETED",
                                            ![q.id].step = NoStep]
        /\ Debit(q.seen.member, q.account, q.seen.amount, q.id)
        /\ Done(r)
        /\ UNCHANGED <<approvals, disbursed>>
    BY <1>1 DEF CommitAuthorize
  <1>4. q.seen.member \in Members
    BY <1>1, AuthorizeDebits
  <1>5. /\ account' \in [Members -> AccountRow]
        /\ debits' \in [Members -> Seq(DebitRow)]
        /\ DebitAppended(q.seen.member, q.account, q.seen.amount, q.id)
    BY <1>1, AuthorizeDebits
  <1>6. Backed(q.id, NoStep)'
    BY DEF Backed, NoStep
  <1>7. "COMPLETED" \in Statuses /\ NoStep \in Steps \cup {NoStep}
    BY DEF Statuses
  <1>8. /\ approvals' \in [Withdrawals -> SUBSET ApprovalRow]
        /\ \A v \in Withdrawals : approvals[v] \subseteq approvals'[v]
        /\ disbursed' \in SUBSET Withdrawals /\ disbursed \subseteq disbursed'
    BY <1>3 DEF Inv, TypeOK
  <1>9. /\ withdrawal' \in [Withdrawals -> {NoWithdrawal} \cup WithdrawalRow]
        /\ request' \in [Requests -> {Idle} \cup RequestRow]
        /\ overlapped' \in BOOLEAN
        /\ RowsBacked'
        /\ RequestsBacked'
    BY <1>2, <1>3, <1>6, <1>7, <1>8, MovedInv
  <1>10. payslip' = payslip
    BY <1>3 DEF Debit
  <1>11. TypeOK'
    BY <1>2, <1>3, <1>5, <1>8, <1>9, <1>10 DEF Inv, TypeOK
  <1>12. WithdrawalIsSigned'
    BY <1>2, <1>3 DEF Inv, PaidAsSigned, WithdrawalIsSigned, Backed
  <1>13. q.id \notin authorized /\ authorized' = authorized \cup ({q.id} \cap Withdrawals)
    BY <1>2, <1>3
  <1>14. DebitedOnce'
    <2>1. q.id \in Withdrawals
      BY <1>2
    <2> QED
      BY <1>4, <1>5, <1>13, <2>1, DebitedOnceMore DEF DebitAppended
  <1> QED
    BY <1>9, <1>11, <1>12, <1>14 DEF Inv, PaidAsSigned

LEMMA FailInv ==
  ASSUME Inv, NEW r \in Requests, Fail(r)
  PROVE  Inv'
  <1>1. Done(r) /\ UNCHANGED <<savingsVars, withdrawal, approvals, disbursed, authorized>>
    BY DEF Fail
  <1>2. \A v \in Withdrawals : \A s : Backed(v, s) => Backed(v, s)'
    BY <1>1 DEF Backed, Signed
  <1>3. TypeOK' /\ RequestsBacked'
    BY <1>1, <1>2, DoneInv DEF Inv, TypeOK, savingsVars
  <1>4. RowsBacked' /\ PaidAsSigned'
    BY <1>1 DEF Inv, RowsBacked, Backed, Signed, PaidAsSigned, WithdrawalIsSigned,
                DebitedOnce, savingsVars
  <1> QED
    BY <1>3, <1>4 DEF Inv

\* Payroll touches no withdrawal.
LEMMA PayMonthInv ==
  ASSUME Inv, NEW m \in Members, NEW p \in Periods, PayMonth(m, p)
  PROVE  Inv'
  <1>1. UNCHANGED <<debits, withdrawal, approvals, disbursed, authorized, request>>
    BY DEF PayMonth
  <1>2. account[m] \in AccountRow /\ payslip[m][p] \in Payslip
    BY DEF Inv, TypeOK
  <1>3. account' \in [Members -> AccountRow]
    BY <1>2, MonthBooked DEF PayMonth, Inv, TypeOK
  <1>4. payslip' \in [Members -> [Periods -> Payslip]]
    <2>1. PayslipAfter(payslip[m][p], account[m], 0, DepositAmount) \in Payslip
      BY <1>2, MonthBooked
    <2> QED
      BY <2>1 DEF PayMonth, Inv, TypeOK
  <1>5. TypeOK'
    BY <1>1, <1>3, <1>4 DEF Inv, TypeOK, PayMonth, Noted
  <1>6. RowsBacked' /\ PaidAsSigned' /\ RequestsBacked'
    BY <1>1 DEF Inv, RowsBacked, RequestsBacked, RequestBacked, EnteredAt, Backed, Signed,
                PaidAsSigned, WithdrawalIsSigned, DebitedOnce
  <1> QED
    BY <1>5, <1>6 DEF Inv

LEMMA StepInv == Inv /\ [Next]_vars => Inv'
  <1> SUFFICES ASSUME Inv, [Next]_vars
               PROVE  Inv'
    OBVIOUS
  <1>1. ASSUME NEW r \in Requests, Begin(r)
        PROVE  Inv'
    BY <1>1, BeginsInv
  <1>2. ASSUME NEW r \in Requests, Commit(r)
        PROVE  Inv'
    BY <1>2, CommitCreateInv, CommitRejectInv, CommitApproveInv, CommitDisburseInv,
       ReadAccountInv, CommitAuthorizeInv, CommitChargeInv, CommitCancelInv DEF Commit
  <1>3. ASSUME NEW r \in Requests, Fail(r)
        PROVE  Inv'
    BY <1>3, FailInv
  <1>4. ASSUME NEW m \in Members, NEW p \in Periods, PayMonth(m, p)
        PROVE  Inv'
    BY <1>4, PayMonthInv
  <1>5. CASE UNCHANGED vars
    <2>1. TypeOK'
      BY <1>5 DEF Inv, TypeOK, vars, savingsVars, withdrawalVars
    <2>2. RowsBacked' /\ RequestsBacked'
      BY <1>5 DEF Inv, RowsBacked, RequestsBacked, RequestBacked, EnteredAt, Backed,
                  Signed, vars, withdrawalVars
    <2>3. PaidAsSigned'
      BY <1>5 DEF Inv, PaidAsSigned, WithdrawalIsSigned, DebitedOnce, vars, savingsVars,
                  withdrawalVars
    <2> QED
      BY <2>1, <2>2, <2>3 DEF Inv
  <1> QED
    BY <1>1, <1>2, <1>3, <1>4, <1>5 DEF Next

-----------------------------------------------------------------------------
(* What the transactions of a member add up to.                            *)

\* Only the last signatures and payroll move money.
LEMMA MoneyMoves ==
  ASSUME [Next]_vars
  PROVE  \/ UNCHANGED savingsVars
         \/ \E r \in Requests : CommitAuthorize(r) \/ CommitCharge(r)
         \/ \E m \in Members, p \in Periods : PayMonth(m, p)
  <1>1. ASSUME NEW r \in Requests, Begin(r)
        PROVE  UNCHANGED savingsVars
    BY <1>1 DEF Begin, BeginCreate, BeginDecision, BeginDisburse, BeginAuthorize, BeginCancel,
                BeginCharge, Enter
  <1>2. ASSUME NEW r \in Requests, Commit(r), ~CommitAuthorize(r), ~CommitCharge(r)
        PROVE  UNCHANGED savingsVars
    BY <1>2 DEF Commit, CommitCreate, CommitReject, CommitApprove, CommitDisburse, ReadAccount,
                CommitCancel
  <1>3. ASSUME NEW r \in Requests, Fail(r)
        PROVE  UNCHANGED savingsVars
    BY <1>3 DEF Fail
  <1>4. UNCHANGED vars => UNCHANGED savingsVars
    BY DEF vars
  <1> QED
    BY <1>1, <1>2, <1>3, <1>4 DEF Next

LEMMA SavingsStep ==
  ASSUME Inv, SavingsBooked, [Next]_vars
  PROVE  SavingsBooked'
  <1> SUFFICES ASSUME NEW n \in Members
               PROVE  SavingsBookedOf(n)'
    <2>1. SavingsBooked' <=> \A m \in Members : SavingsBookedOf(m)'
      BY DEF SavingsBooked, SavingsBookedOf, OverPeriods, OverDebits, PaidDeposits, Taken
    <2> QED
      BY <2>1
  <1>1. SavingsBookedOf(n) /\ TypeOK
    BY BookedByMember DEF Inv
  <1>2. CASE UNCHANGED savingsVars
    BY <1>1, <1>2 DEF savingsVars, SavingsBookedOf, PaidDeposits, Taken
  <1>3. ASSUME NEW r \in Requests, CommitAuthorize(r)
        PROVE  SavingsBookedOf(n)'
    BY <1>1, <1>3, AuthorizeDebits, DebitKeepsBooks
  <1>5. ASSUME NEW r \in Requests, CommitCharge(r)
        PROVE  SavingsBookedOf(n)'
    BY <1>1, <1>5, ChargeDebits, DebitKeepsBooks
  <1>4. ASSUME NEW m \in Members, NEW p \in Periods, PayMonth(m, p)
        PROVE  SavingsBookedOf(n)'
    BY <1>1, <1>4, MonthKeepsBooks
  <1> QED
    BY <1>2, <1>3, <1>4, <1>5, MoneyMoves

-----------------------------------------------------------------------------
(* What withdrawals have left of what was paid in: the balance without the *)
(* fees.                                                                   *)

FeesOf(m) ==
  [i \in DOMAIN debits[m] |->
     IF debits[m][i].ref \in Changes THEN debits[m][i].penarikan ELSE 0]

Covered == [m \in Members |-> account[m].sukarela + SumOf(FeesOf(m))]

LEMMA FeesAreSummed == \A m \in Members : FeesTaken(m) = SumOf(FeesOf(m))
  BY DEF FeesTaken, OverDebits, FeesOf

LEMMA FeeTypes ==
  ASSUME TypeOK, NEW m \in Members
  PROVE  /\ FeesOf(m) \in [1 .. Len(debits[m]) -> Nat]
         /\ SumOf(FeesOf(m)) \in Nat
         /\ account[m].sukarela \in Int
  <1>1. debits[m] \in Seq(DebitRow)
    BY DEF TypeOK
  <1>2. DOMAIN debits[m] = 1 .. Len(debits[m]) /\ Len(debits[m]) \in Nat
    BY <1>1
  <1>3. ASSUME NEW i \in 1 .. Len(debits[m])
        PROVE  debits[m][i].penarikan \in Nat
    <2>1. debits[m][i] \in DebitRow
      BY <1>1, <1>3, ElementOfSeq
    <2>2. debits[m][i].penarikan \in Amounts \cup Fees
      BY <2>1 DEF DebitRow
    <2> QED
      BY <2>2, WithdrawalAssumption
  <1>4. FeesOf(m) \in [1 .. Len(debits[m]) -> Nat]
    BY <1>2, <1>3 DEF FeesOf
  <1>5. IsFiniteSet(1 .. Len(debits[m]))
    BY <1>2, FS_Interval
  <1> QED
    BY <1>4, <1>5, SumOfNat DEF TypeOK, AccountRow

LEMMA CoveredTypes ==
  ASSUME TypeOK
  PROVE  /\ Covered \in [Members -> Int]
         /\ \A m \in Members : account[m].sukarela <= Covered[m]
  BY FeeTypes DEF Covered

LEMMA CoveredKept ==
  ASSUME UNCHANGED <<account, debits>>
  PROVE  Covered' = Covered
  BY DEF Covered, FeesOf

\* A withdrawal lowers what is left, a fee does not.
LEMMA DebitCovered ==
  ASSUME TypeOK, NEW m \in Members, NEW seen \in AccountRow, NEW amount \in Amounts \cup Fees,
         NEW ref \in Withdrawals \cup Changes, DebitAppended(m, seen, amount, ref)
  PROVE  /\ Covered'[m] = Covered[m] - (IF ref \in Changes THEN 0 ELSE amount)
         /\ \A n \in Members \ {m} : Covered'[n] = Covered[n]
  <1>1. ASSUME NEW n \in Members \ {m}
        PROVE  Covered'[n] = Covered[n]
    <2>1. account'[n] = account[n] /\ debits'[n] = debits[n]
      BY DEF DebitAppended
    <2>2. FeesOf(n)' = FeesOf(n)
      BY <2>1 DEF FeesOf
    <2> QED
      BY <2>1, <2>2 DEF Covered
  <1>2. PICK row \in DebitRow :
          /\ row.ref = ref /\ row.penarikan = amount
          /\ debits' = [debits EXCEPT ![m] = Append(@, row)]
    BY DEF DebitAppended
  <1>3. PICK k \in Nat : k = Len(debits[m])
    BY ColumnTypes
  <1>4. /\ DOMAIN debits[m] = 1 .. k /\ DOMAIN debits'[m] = 1 .. k + 1
        /\ \A i \in 1 .. k : debits'[m][i] = debits[m][i]
        /\ debits'[m][k + 1] = row
    <2>1. \A S : \A d \in Seq(S) :
            /\ DOMAIN Append(d, row) = 1 .. Len(d) + 1
            /\ \A i \in 1 .. Len(d) : Append(d, row)[i] = d[i]
            /\ Append(d, row)[Len(d) + 1] = row
      OBVIOUS
    <2>2. debits[m] \in Seq(DebitRow)
      BY DEF TypeOK
    <2>3. debits'[m] = Append(debits[m], row)
      BY <1>2 DEF TypeOK
    <2>4. DOMAIN debits[m] = 1 .. k
      BY <1>3, ColumnTypes
    <2> QED
      BY <1>3, <2>1, <2>2, <2>3, <2>4
  <1>5. PICK fee : fee = IF ref \in Changes THEN amount ELSE 0
    OBVIOUS
  <1>6. amount \in Int /\ fee \in Int
    BY <1>5, WithdrawalAssumption
  <1>7. FeesOf(m) \in [1 .. k -> Int]
    BY <1>3, FeeTypes
  <1>8. \A i \in 1 .. k + 1 : i # k + 1 => i \in 1 .. k
    BY SMT
  <1>9. k + 1 \in 1 .. k + 1 /\ \A i \in 1 .. k : i \in 1 .. k + 1
    BY SMT
  <1>10. /\ FeesOf(m)' \in [1 .. k + 1 -> Int]
         /\ \A i \in 1 .. k : FeesOf(m)'[i] = FeesOf(m)[i]
         /\ FeesOf(m)'[k + 1] = fee
    BY <1>2, <1>4, <1>5, <1>6, <1>7, <1>8, <1>9 DEF FeesOf
  <1>11. SumOf(FeesOf(m)') = SumOf(FeesOf(m)) + fee
    BY <1>7, <1>10, SumOfAppended
  <1>12. account'[m].sukarela = account[m].sukarela - amount
    BY DEF DebitAppended
  <1>13. Covered'[m] = account'[m].sukarela + SumOf(FeesOf(m)')
    BY DEF Covered
  <1>14. Covered[m] = account[m].sukarela + SumOf(FeesOf(m))
    BY DEF Covered
  <1>15. account[m].sukarela \in Int /\ SumOf(FeesOf(m)) \in Int
    BY FeeTypes
  <1>16. Covered'[m] = Covered[m] - amount + fee
    BY <1>6, <1>11, <1>12, <1>13, <1>14, <1>15
  <1>17. Covered[m] \in Int
    BY <1>14, <1>15
  <1>18. Covered'[m] = Covered[m] - (IF ref \in Changes THEN 0 ELSE amount)
    BY <1>5, <1>6, <1>16, <1>17
  <1> QED
    BY <1>1, <1>18

LEMMA MonthCovered ==
  ASSUME TypeOK, NEW m \in Members, NEW p \in Periods, PayMonth(m, p)
  PROVE  \A n \in Members : Covered[n] <= Covered'[n]
  <1>1. /\ account' = [account EXCEPT ![m] = AccountAfter(account[m], 0, DepositAmount)]
        /\ debits' = debits
    BY DEF PayMonth, TypeOK
  <1>2. account'[m].sukarela = account[m].sukarela + DepositAmount
    <2>1. account[m] \in AccountRow /\ payslip[m][p] \in Payslip
      BY DEF TypeOK
    <2>2. account'[m] = AccountAfter(account[m], 0, DepositAmount)
      BY <1>1 DEF TypeOK
    <2> QED
      BY <2>1, <2>2, MonthBooked
  <1>3. DepositAmount \in Nat
    BY WithdrawalAssumption
  <1>4. ASSUME NEW n \in Members
        PROVE  Covered[n] <= Covered'[n]
    <2>1. account[n].sukarela \in Int /\ SumOf(FeesOf(n)) \in Int
      BY FeeTypes
    <2>2. FeesOf(n)' = FeesOf(n)
      BY <1>1 DEF FeesOf
    <2>3. account'[n] = account[n] \/ n = m
      BY <1>1 DEF TypeOK
    <2>4. account'[n].sukarela \in Int /\ account[n].sukarela <= account'[n].sukarela
      BY <1>2, <1>3, <2>1, <2>3
    <2>5. /\ Covered[n] = account[n].sukarela + SumOf(FeesOf(n))
          /\ Covered'[n] = account'[n].sukarela + SumOf(FeesOf(n))
      BY <2>2 DEF Covered
    <2> QED
      BY <2>1, <2>4, <2>5
  <1> QED
    BY <1>4

-----------------------------------------------------------------------------
(* One request after the other.  What a request has read is then what is   *)
(* there when it writes, and the step of a withdrawal tells its status.    *)

Final == {"COMPLETED", "REJECTED", "CANCELLED"}

Cancellable == {"SUBMITTED", "UNDER_REVIEW_DSP", "UNDER_REVIEW_KETUA"}

Pending(row) == row.status \notin {"NONE"} \cup Final

\* The status tells what has been paid, the step the status.
RowOrdered(w) ==
  LET status == withdrawal[w].status
      step == withdrawal[w].step
  IN  /\ step = "DIVISI_SIMPAN_PINJAM" => status = "SUBMITTED"
      /\ step = "KETUA" => status = "UNDER_REVIEW_KETUA"
      /\ step = "SHOPKEEPER" => status = "APPROVED_WAITING_DISBURSEMENT"
      /\ step = "KETUA_AUTH" => status = "DISBURSEMENT_IN_PROGRESS"
      /\ step = NoStep => ~Pending(withdrawal[w])
      /\ w \in disbursed => status \in {"DISBURSEMENT_IN_PROGRESS", "COMPLETED"}
      /\ w \in authorized => status = "COMPLETED"

Rows == \A w \in Withdrawals : RowOrdered(w)

\* Enough was paid in for what a member has asked for.
Affordable(row) == row.amount <= Covered[row.member]

Funds ==
  /\ \A m \in Members : Covered[m] >= 0
  /\ \A m \in Members : \A w \in PendingOf(m) : Affordable(withdrawal[w])

OneEach == \A m \in Members : \A v, w \in PendingOf(m) : v = w

\* What request q has read is what is there, and allows what it writes.
RequestCurrent(q) ==
  /\ q.op = "CREATE" =>
       /\ q.seen.status = "SUBMITTED"
       /\ PendingOf(q.seen.member) = {}
       /\ Affordable(q.seen)
  /\ q.op \notin {"CREATE", "CHARGE"} =>
       q.seen = withdrawal[q.id] /\ Pending(withdrawal[q.id])
  /\ q.account # NotRead => q.account = account[q.seen.member]
  /\ q.op = "CANCEL" => q.seen.status \in Cancellable

OneRequest == \A r, s \in Requests : request[r] # Idle /\ request[s] # Idle => r = s

AllCurrent == \A r \in Requests : request[r] # Idle => RequestCurrent(request[r])

Serial == OneRequest /\ AllCurrent /\ Rows /\ Funds /\ OneEach /\ InterestBooked

SerialInv == ~overlapped => Serial

LEMMA SerialInit == Init => SerialInv
  <1> SUFFICES ASSUME Init
               PROVE  Serial
    BY DEF SerialInv
  <1>1. OneRequest /\ AllCurrent
    BY DEF Init, OneRequest, AllCurrent
  <1>2. Rows
    BY DEF Init, Rows, RowOrdered, Pending, NoWithdrawal, NoStep
  <1>3. \A m \in Members : PendingOf(m) = {}
    BY DEF Init, PendingOf, NoWithdrawal
  <1>4. ASSUME NEW m \in Members
        PROVE  Covered[m] >= 0
    <2>1. account[m] = OpeningAccount /\ debits[m] = <<>>
      BY DEF Init, SavingsInit
    <2>2. SumOf(FeesOf(m)) = 0
      <3>1. DOMAIN FeesOf(m) = {}
        BY <2>1 DEF FeesOf
      <3> QED
        BY <3>1, SumOfNone DEF SumOf
    <2> QED
      BY <2>1, <2>2, OpeningTypes DEF Covered
  <1> QED
    BY <1>1, <1>2, <1>3, <1>4, InitBooked DEF Serial, Funds, OneEach

\* A request that begins while no other is in flight writes nothing.
LEMMA EnterSerial ==
  ASSUME Inv, Serial, NEW r \in Requests, NEW op, NEW id, NEW seen, Enter(r, op, id, seen),
         ~overlapped',
         RequestCurrent([op |-> op, id |-> id, seen |-> seen, account |-> NotRead])
  PROVE  Serial' /\ withdrawal' = withdrawal
  <1>1. PICK q : q = [op |-> op, id |-> id, seen |-> seen, account |-> NotRead]
    OBVIOUS
  <1>2. request' = [request EXCEPT ![r] = q] /\ \A s \in Requests : request[s] = Idle
    BY <1>1 DEF Enter, Noted
  <1>3. \A s \in Requests : s # r => request'[s] = Idle
    BY <1>2 DEF Inv, TypeOK
  <1>4. request'[r] = q
    BY <1>2 DEF Inv, TypeOK
  <1>5. UNCHANGED <<account, payslip, debits, withdrawal, disbursed, authorized>>
    BY DEF Enter, savingsVars
  <1>10. Covered' = Covered
    BY <1>5, CoveredKept
  <1>6. RequestCurrent(q)'
    BY <1>1, <1>5, <1>10 DEF RequestCurrent, PendingOf, Affordable, Pending
  <1>7. OneRequest' /\ AllCurrent'
    BY <1>3, <1>4, <1>6 DEF OneRequest, AllCurrent
  <1>8. Rows' /\ Funds' /\ OneEach'
    BY <1>5, <1>10 DEF Serial, Rows, RowOrdered, Pending, Funds, OneEach, PendingOf, Affordable
  <1>9. InterestBooked'
    BY <1>5, BookedKept DEF Serial, savingsVars
  <1> QED
    BY <1>5, <1>7, <1>8, <1>9 DEF Serial

LEMMA BeginsSerial ==
  ASSUME Inv, Serial, NEW r \in Requests, Begin(r), ~overlapped'
  PROVE  Serial' /\ withdrawal' = withdrawal
  <1>1. ASSUME NEW m \in Members, NEW amount \in Amounts, BeginCreate(r, m, amount)
        PROVE  Serial' /\ withdrawal' = withdrawal
    <2>1. PICK seen : seen = [status |-> "SUBMITTED", step |-> "DIVISI_SIMPAN_PINJAM",
                              member |-> m, amount |-> amount]
      OBVIOUS
    <2>2. /\ Enter(r, "CREATE", "NEW", seen)
          /\ amount <= account[m].sukarela
          /\ PendingOf(m) = {}
      BY <1>1, <2>1 DEF BeginCreate
    <2>4. amount <= Covered[m]
      <3>1. account[m].sukarela <= Covered[m] /\ Covered[m] \in Int
        BY CoveredTypes DEF Inv
      <3>2. account[m].sukarela \in Int /\ amount \in Int
        BY WithdrawalAssumption DEF Inv, TypeOK, AccountRow
      <3> QED
        BY <2>2, <3>1, <3>2
    <2>3. RequestCurrent([op |-> "CREATE", id |-> "NEW", seen |-> seen, account |-> NotRead])
      BY <2>1, <2>2, <2>4 DEF RequestCurrent, Affordable
    <2> QED
      BY <2>2, <2>3, EnterSerial
  <1>2. ASSUME NEW w \in Withdrawals,
               NEW op \in {"APPROVE", "REJECT", "DISBURSE", "AUTHORIZE", "CANCEL"},
               Enter(r, op, w, withdrawal[w]), Pending(withdrawal[w]),
               op = "CANCEL" => withdrawal[w].status \in Cancellable
        PROVE  Serial' /\ withdrawal' = withdrawal
    <2>1. RequestCurrent([op |-> op, id |-> w, seen |-> withdrawal[w], account |-> NotRead])
      BY <1>2 DEF RequestCurrent
    <2> QED
      BY <1>2, <2>1, EnterSerial
  <1>3. \A w \in Withdrawals : RowOrdered(w)
    BY DEF Serial, Rows
  <1>4. ASSUME NEW w \in Withdrawals, NEW op \in {"APPROVE", "REJECT"}, BeginDecision(r, w, op)
        PROVE  Serial' /\ withdrawal' = withdrawal
    <2>1. Pending(withdrawal[w])
      BY <1>3, <1>4 DEF BeginDecision, RowOrdered, Pending, Final
    <2> QED
      BY <1>2, <1>4, <2>1 DEF BeginDecision
  <1>5. ASSUME NEW w \in Withdrawals, BeginDisburse(r, w) \/ BeginAuthorize(r, w) \/ BeginCancel(r, w)
        PROVE  Serial' /\ withdrawal' = withdrawal
    <2>1. Pending(withdrawal[w])
      BY <1>5 DEF BeginDisburse, BeginAuthorize, BeginCancel, Pending, Final
    <2> QED
      BY <1>2, <1>5, <2>1 DEF BeginDisburse, BeginAuthorize, BeginCancel, Cancellable
  <1>6. ASSUME NEW c \in Changes, NEW fee \in Fees, BeginCharge(r, c, fee)
        PROVE  Serial' /\ withdrawal' = withdrawal
    <2>1. PICK seen : seen = [member |-> Depositor[c], amount |-> fee]
      OBVIOUS
    <2>2. Enter(r, "CHARGE", c, seen)
      BY <1>6, <2>1 DEF BeginCharge
    <2>3. RequestCurrent([op |-> "CHARGE", id |-> c, seen |-> seen, account |-> NotRead])
      BY DEF RequestCurrent
    <2> QED
      BY <2>2, <2>3, EnterSerial
  <1> QED
    BY <1>1, <1>4, <1>5, <1>6 DEF Begin

\* After the step of the only request none is in flight.
LEMMA DoneSerial ==
  ASSUME Inv, OneRequest, NEW r \in Requests, request[r] # Idle, Done(r)
  PROVE  OneRequest' /\ AllCurrent'
  <1>1. \A s \in Requests : request'[s] = Idle
    BY DEF Done, OneRequest, Inv, TypeOK
  <1> QED
    BY <1>1 DEF OneRequest, AllCurrent

\* What request r is about to commit is current.
LEMMA CurrentFacts ==
  ASSUME Inv, Serial, NEW r \in Requests, NEW q, q = request[r],
         q.op \in {"APPROVE", "REJECT", "DISBURSE", "AUTHORIZE", "CANCEL"}
  PROVE  /\ request[r] # Idle
         /\ q.id \in Withdrawals
         /\ withdrawal[q.id] \in WithdrawalRow
         /\ q.seen = withdrawal[q.id]
         /\ Pending(withdrawal[q.id])
         /\ RowOrdered(q.id)
         /\ EnteredAt(q)
         /\ q.account # NotRead => q.account = account[q.seen.member]
         /\ q.op = "CANCEL" => q.seen.status \in Cancellable
  <1>1. request[r] # Idle /\ q.id \in Withdrawals /\ EnteredAt(q) /\ q.seen \in WithdrawalRow
    BY CommitFacts
  <1>2. RequestCurrent(q)
    BY <1>1 DEF Serial, AllCurrent
  <1> QED
    BY <1>1, <1>2 DEF RequestCurrent, Serial, Rows

\* A withdrawal under way moves: no other is touched, and none is added to
\* what its member has under way.
LEMMA MovedSerial ==
  ASSUME Inv, Serial, NEW w \in Withdrawals, withdrawal[w] \in WithdrawalRow,
         Pending(withdrawal[w]), NEW status, NEW step,
         withdrawal' = [withdrawal EXCEPT ![w].status = status, ![w].step = step],
         disbursed' \in {disbursed, disbursed \cup {w}},
         authorized' \in {authorized, authorized \cup {w}},
         RowOrdered(w)'
  PROVE  /\ Rows'
         /\ OneEach'
         /\ \A m \in Members : PendingOf(m)' \subseteq PendingOf(m)
         /\ \A v \in Withdrawals : /\ withdrawal'[v].member = withdrawal[v].member
                                   /\ withdrawal'[v].amount = withdrawal[v].amount
         /\ \A v \in Withdrawals \ {w} : withdrawal'[v] = withdrawal[v]
  <1>1. \A v \in Withdrawals \ {w} : withdrawal'[v] = withdrawal[v]
    BY DEF Inv, TypeOK
  <1>2. withdrawal'[w].member = withdrawal[w].member /\ withdrawal'[w].amount = withdrawal[w].amount
    BY DEF Inv, TypeOK, WithdrawalRow
  <1>3. \A v \in Withdrawals \ {w} : RowOrdered(v)'
    BY <1>1 DEF Serial, Rows, RowOrdered, Pending
  <1>4. \A m \in Members : PendingOf(m)' \subseteq PendingOf(m)
    BY <1>1, <1>2 DEF PendingOf, Pending, Final
  <1> QED
    BY <1>1, <1>2, <1>3, <1>4 DEF Rows, Serial, OneEach

\* Steps of a withdrawal that move no money.
LEMMA DecidedSerial ==
  ASSUME Inv, Serial, NEW r \in Requests, request[r] # Idle, Done(r),
         NEW w \in Withdrawals, withdrawal[w] \in WithdrawalRow, Pending(withdrawal[w]),
         NEW status, NEW step,
         withdrawal' = [withdrawal EXCEPT ![w].status = status, ![w].step = step],
         disbursed' \in {disbursed, disbursed \cup {w}}, authorized' = authorized,
         RowOrdered(w)', UNCHANGED savingsVars
  PROVE  /\ Serial'
         /\ \A v \in Withdrawals \ {w} : withdrawal'[v] = withdrawal[v]
  <1>1. OneRequest' /\ AllCurrent'
    BY DoneSerial DEF Serial
  <1>2. /\ Rows'
        /\ OneEach'
        /\ \A m \in Members : PendingOf(m)' \subseteq PendingOf(m)
        /\ \A v \in Withdrawals : /\ withdrawal'[v].member = withdrawal[v].member
                                  /\ withdrawal'[v].amount = withdrawal[v].amount
        /\ \A v \in Withdrawals \ {w} : withdrawal'[v] = withdrawal[v]
    BY MovedSerial
  <1>3. Covered' = Covered
    BY CoveredKept DEF savingsVars
  <1>4. Funds'
    <2>1. \A m \in Members : Covered'[m] >= 0
      BY <1>3 DEF Serial, Funds
    <2>2. ASSUME NEW m \in Members, NEW v \in PendingOf(m)'
          PROVE  Affordable(withdrawal[v])'
      <3>1. v \in PendingOf(m) /\ v \in Withdrawals
        BY <1>2, <2>2 DEF PendingOf
      <3> QED
        BY <1>2, <1>3, <3>1 DEF Serial, Funds, Affordable
    <2> QED
      BY <2>1, <2>2 DEF Funds
  <1>5. InterestBooked'
    BY BookedKept DEF Serial
  <1> QED
    BY <1>1, <1>2, <1>4, <1>5 DEF Serial

\* Only withdrawals under way change.
FinalKept == \A w \in Withdrawals : withdrawal[w].status \in Final => withdrawal'[w] = withdrawal[w]

LEMMA CommitCreateSerial ==
  ASSUME Inv, Serial, NEW r \in Requests, CommitCreate(r)
  PROVE  Serial' /\ FinalKept
  <1>1. PICK q : q = request[r]
    OBVIOUS
  <1>2. request[r] # Idle /\ q.seen \in WithdrawalRow /\ q.op = "CREATE"
    BY <1>1, InFlight, RequestFacts DEF Inv, CommitCreate
  <1>3. /\ q.seen.status = "SUBMITTED" /\ q.seen.step = "DIVISI_SIMPAN_PINJAM"
        /\ PendingOf(q.seen.member) = {} /\ Affordable(q.seen)
        /\ q.seen.member \in Members
    BY <1>1, <1>2 DEF Serial, AllCurrent, RequestCurrent, Inv, RequestsBacked, RequestBacked,
                      EnteredAt, WithdrawalRow
  <1>4. PICK w \in Withdrawals :
          withdrawal[w].status = "NONE" /\ withdrawal' = [withdrawal EXCEPT ![w] = q.seen]
    BY <1>1 DEF CommitCreate
  <1>5. /\ Done(r)
        /\ UNCHANGED <<account, payslip, debits, disbursed, authorized>>
    BY DEF CommitCreate, savingsVars
  <1>14. Covered' = Covered
    BY <1>5, CoveredKept
  <1>6. withdrawal'[w] = q.seen /\ \A v \in Withdrawals \ {w} : withdrawal'[v] = withdrawal[v]
    BY <1>4 DEF Inv, TypeOK
  <1>7. OneRequest' /\ AllCurrent'
    BY <1>2, <1>5, DoneSerial DEF Serial
  <1>8. Rows'
    <2>1. w \notin disbursed /\ w \notin authorized
      BY <1>4 DEF Serial, Rows, RowOrdered
    <2>2. RowOrdered(w)'
      BY <1>3, <1>5, <1>6, <2>1 DEF RowOrdered, NoStep
    <2>3. \A v \in Withdrawals \ {w} : RowOrdered(v)'
      BY <1>5, <1>6 DEF Serial, Rows, RowOrdered, Pending
    <2> QED
      BY <2>2, <2>3 DEF Rows
  <1>9. ASSUME NEW m \in Members
        PROVE  PendingOf(m)' = IF m = q.seen.member THEN {w} ELSE PendingOf(m)
    BY <1>3, <1>4, <1>6, <1>9 DEF PendingOf
  <1>10. OneEach'
    BY <1>9 DEF Serial, OneEach
  <1>11. Funds'
    <2>1. \A m \in Members : Covered'[m] >= 0
      BY <1>14 DEF Serial, Funds
    <2>2. ASSUME NEW m \in Members, NEW v \in PendingOf(m)'
          PROVE  Affordable(withdrawal[v])'
      <3>1. CASE m = q.seen.member
        <4>1. v = w
          BY <1>9, <2>2, <3>1
        <4> QED
          BY <1>3, <1>14, <1>6, <4>1 DEF Affordable
      <3>2. CASE m # q.seen.member
        <4>1. v \in PendingOf(m)
          BY <1>9, <2>2, <3>2
        <4>2. v # w /\ v \in Withdrawals
          BY <1>4, <4>1 DEF PendingOf
        <4> QED
          BY <1>14, <1>6, <4>1, <4>2 DEF Affordable, Serial, Funds
      <3> QED
        BY <3>1, <3>2
    <2> QED
      BY <2>1, <2>2 DEF Funds
  <1>12. InterestBooked'
    BY <1>5, BookedKept DEF Serial, savingsVars
  <1>13. FinalKept
    BY <1>4, <1>6 DEF FinalKept, Final
  <1> QED
    BY <1>7, <1>8, <1>10, <1>11, <1>12, <1>13 DEF Serial

LEMMA DecisionsSerial ==
  ASSUME Inv, Serial, NEW r \in Requests,
         CommitReject(r) \/ CommitApprove(r) \/ CommitDisburse(r) \/ CommitCancel(r)
  PROVE  Serial' /\ FinalKept
  <1>1. PICK q : q = request[r]
    OBVIOUS
  <1>2. q.op \in {"APPROVE", "REJECT", "DISBURSE", "CANCEL"}
    BY <1>1 DEF CommitReject, CommitApprove, CommitDisburse, CommitCancel
  <1>3. /\ request[r] # Idle
        /\ q.id \in Withdrawals
        /\ withdrawal[q.id] \in WithdrawalRow
        /\ q.seen = withdrawal[q.id]
        /\ Pending(withdrawal[q.id])
        /\ RowOrdered(q.id)
        /\ EnteredAt(q)
        /\ q.op = "CANCEL" => q.seen.status \in Cancellable
    BY <1>1, <1>2, CurrentFacts
  <1>4. PICK w \in Withdrawals : w = q.id
    BY <1>3
  <1>5. ASSUME NEW status, NEW step, Done(r), UNCHANGED savingsVars, authorized' = authorized,
               withdrawal' = [withdrawal EXCEPT ![w].status = status, ![w].step = step],
               disbursed' \in {disbursed, disbursed \cup {w}}, RowOrdered(w)'
        PROVE  Serial' /\ FinalKept
    <2>1. Serial' /\ \A v \in Withdrawals \ {w} : withdrawal'[v] = withdrawal[v]
      BY <1>3, <1>4, <1>5, DecidedSerial
    <2> QED
      BY <1>3, <1>4, <2>1 DEF FinalKept, Pending
  <1>6. ASSUME NEW status, NEW step,
               withdrawal' = [withdrawal EXCEPT ![w].status = status, ![w].step = step]
        PROVE  withdrawal'[w].status = status /\ withdrawal'[w].step = step
    BY <1>3, <1>4, <1>6 DEF Inv, TypeOK, WithdrawalRow
  <1>7. CASE CommitReject(r)
    <2>1. /\ withdrawal' = [withdrawal EXCEPT ![w].status = "REJECTED", ![w].step = NoStep]
          /\ Done(r) /\ UNCHANGED savingsVars /\ authorized' = authorized
          /\ disbursed' = disbursed
      BY <1>1, <1>4, <1>7 DEF CommitReject
    <2>2. q.seen.step \in Officers
      BY <1>1, <1>3, <1>7 DEF CommitReject, EnteredAt
    <2>3. w \notin disbursed /\ w \notin authorized
      BY <1>3, <1>4, <2>2 DEF RowOrdered, Officers
    <2>4. RowOrdered(w)'
      BY <1>6, <2>1, <2>3 DEF RowOrdered, Pending, Final, NoStep
    <2> QED
      BY <1>5, <2>1, <2>4
  <1>8. CASE CommitCancel(r)
    <2>1. /\ withdrawal' = [withdrawal EXCEPT ![w].status = "CANCELLED", ![w].step = NoStep]
          /\ Done(r) /\ UNCHANGED savingsVars /\ authorized' = authorized
          /\ disbursed' = disbursed
      BY <1>1, <1>4, <1>8 DEF CommitCancel
    <2>2. withdrawal[w].status \in Cancellable
      BY <1>1, <1>3, <1>4, <1>8 DEF CommitCancel
    <2>3. w \notin disbursed /\ w \notin authorized
      BY <1>3, <1>4, <2>2 DEF RowOrdered, Cancellable
    <2>4. RowOrdered(w)'
      BY <1>6, <2>1, <2>3 DEF RowOrdered, Pending, Final, NoStep
    <2> QED
      BY <1>5, <2>1, <2>4
  <1>9. CASE CommitApprove(r)
    <2>1. PICK status, step : status = StatusAfter(q.seen.step) /\ step = StepAfter(q.seen.step)
      OBVIOUS
    <2>2. /\ withdrawal' = [withdrawal EXCEPT ![w].status = status, ![w].step = step]
          /\ Done(r) /\ UNCHANGED savingsVars /\ authorized' = authorized
          /\ disbursed' = disbursed
      BY <1>1, <1>4, <1>9, <2>1 DEF CommitApprove
    <2>3. q.seen.step \in Officers
      BY <1>1, <1>3, <1>9 DEF CommitApprove, EnteredAt
    <2>4. w \notin disbursed /\ w \notin authorized
      BY <1>3, <1>4, <2>3 DEF RowOrdered, Officers
    <2>5. \/ status = "UNDER_REVIEW_KETUA" /\ step = "KETUA"
          \/ status = "APPROVED_WAITING_DISBURSEMENT" /\ step = "SHOPKEEPER"
      BY <2>1 DEF StatusAfter, StepAfter
    <2>6. RowOrdered(w)'
      BY <1>6, <2>2, <2>4, <2>5 DEF RowOrdered, NoStep
    <2> QED
      BY <1>5, <2>2, <2>6
  <1>10. CASE CommitDisburse(r)
    <2>1. /\ withdrawal' = [withdrawal EXCEPT ![w].status = "DISBURSEMENT_IN_PROGRESS",
                                              ![w].step = "KETUA_AUTH"]
          /\ Done(r) /\ UNCHANGED savingsVars /\ authorized' = authorized
          /\ disbursed' = disbursed \cup {w}
      BY <1>1, <1>4, <1>10 DEF CommitDisburse
    <2>2. q.seen.step = "SHOPKEEPER"
      BY <1>1, <1>3, <1>10 DEF CommitDisburse, EnteredAt
    <2>3. w \notin authorized
      BY <1>3, <1>4, <2>2 DEF RowOrdered
    <2>4. withdrawal'[w].status = "DISBURSEMENT_IN_PROGRESS" /\ withdrawal'[w].step = "KETUA_AUTH"
      BY <1>6, <2>1
    <2>5. RowOrdered(w)'
      BY <2>1, <2>3, <2>4 DEF RowOrdered, NoStep
    <2> QED
      BY <1>5, <2>1, <2>5
  <1> QED
    BY <1>7, <1>8, <1>9, <1>10

\* The one withdrawal its member has under way is paid, from what is there.
LEMMA AuthorizeSerial ==
  ASSUME Inv, Serial, NEW r \in Requests, CommitAuthorize(r)
  PROVE  Serial' /\ FinalKept
  <1>1. PICK q : q = request[r]
    OBVIOUS
  <1>2. /\ request[r] # Idle
        /\ q.id \in Withdrawals
        /\ withdrawal[q.id] \in WithdrawalRow
        /\ q.seen = withdrawal[q.id]
        /\ Pending(withdrawal[q.id])
        /\ RowOrdered(q.id)
        /\ q.account # NotRead => q.account = account[q.seen.member]
    BY <1>1, CurrentFacts DEF CommitAuthorize
  <1>3. PICK w \in Withdrawals, m \in Members, amount \in Amounts :
          w = q.id /\ m = withdrawal[w].member /\ amount = withdrawal[w].amount
    BY <1>2 DEF WithdrawalRow
  <1>4. /\ DebitAppended(m, account[m], amount, w)
        /\ payslip' = payslip
        /\ account[m] \in AccountRow
    BY <1>1, <1>2, <1>3, AuthorizeDebits
  <1>5. /\ withdrawal' = [withdrawal EXCEPT ![w].status = "COMPLETED", ![w].step = NoStep]
        /\ authorized' = authorized \cup {w}
        /\ disbursed' = disbursed
        /\ Done(r)
    BY <1>1, <1>3 DEF CommitAuthorize
  <1>6. withdrawal'[w].status = "COMPLETED" /\ withdrawal'[w].step = NoStep
    BY <1>2, <1>3, <1>5 DEF Inv, TypeOK, WithdrawalRow
  <1>7. RowOrdered(w)'
    BY <1>6 DEF RowOrdered, Pending, Final, NoStep
  <1>8. /\ Rows'
        /\ OneEach'
        /\ \A n \in Members : PendingOf(n)' \subseteq PendingOf(n)
        /\ \A v \in Withdrawals : /\ withdrawal'[v].member = withdrawal[v].member
                                  /\ withdrawal'[v].amount = withdrawal[v].amount
        /\ \A v \in Withdrawals \ {w} : withdrawal'[v] = withdrawal[v]
    BY <1>2, <1>3, <1>5, <1>7, MovedSerial
  <1>9. OneRequest' /\ AllCurrent'
    BY <1>2, <1>5, DoneSerial DEF Serial
  <1>10. w \in PendingOf(m)
    BY <1>2, <1>3 DEF Pending, PendingOf, Final
  <1>11. PendingOf(m)' = {}
    <2>1. w \notin PendingOf(m)'
      BY <1>6 DEF PendingOf
    <2>2. \A v \in PendingOf(m) : v = w
      BY <1>10 DEF Serial, OneEach
    <2> QED
      BY <1>8, <2>1, <2>2
  <1>12. Funds'
    <2>1. Covered'[m] = Covered[m] - amount /\ \A n \in Members \ {m} : Covered'[n] = Covered[n]
      BY <1>3, <1>4, DebitCovered, WithdrawalAssumption DEF Inv
    <2>2. Covered[m] \in Int /\ amount \in Int
      BY CoveredTypes, WithdrawalAssumption DEF Inv
    <2>3. amount <= Covered[m]
      BY <1>3, <1>10 DEF Serial, Funds, Affordable
    <2>4. Covered'[m] >= 0
      BY <2>1, <2>2, <2>3
    <2>5. \A n \in Members : Covered'[n] >= 0
      BY <2>1, <2>4 DEF Serial, Funds
    <2>6. ASSUME NEW n \in Members, NEW v \in PendingOf(n)'
          PROVE  Affordable(withdrawal[v])'
      <3>1. n # m
        BY <1>11, <2>6
      <3>2. v \in PendingOf(n) /\ v \in Withdrawals
        BY <1>8, <2>6 DEF PendingOf
      <3>3. withdrawal[v].member = n
        BY <3>2 DEF PendingOf
      <3> QED
        BY <1>8, <2>1, <3>1, <3>2, <3>3 DEF Serial, Funds, Affordable
    <2> QED
      BY <2>5, <2>6 DEF Funds
  <1>13. InterestBooked'
    <2>1. \A n \in Members : InterestBookedOf(n)'
      BY <1>3, <1>4, DebitKeepsBooks, BookedByMember DEF Inv, Serial
    <2> QED
      BY <2>1 DEF InterestBooked, InterestBookedOf, OverPeriods, OverDebits, PaidInterest,
                  TakenInterest
  <1>14. FinalKept
    BY <1>2, <1>3, <1>8 DEF FinalKept, Pending
  <1> QED
    BY <1>8, <1>9, <1>12, <1>13, <1>14 DEF Serial

\* A fee is taken from what is there, and from no withdrawal.
LEMMA ChargeSerial ==
  ASSUME Inv, Serial, NEW r \in Requests, CommitCharge(r)
  PROVE  Serial' /\ FinalKept
  <1>1. PICK q : q = request[r]
    OBVIOUS
  <1>2. /\ request[r] # Idle
        /\ q.id \in Changes
        /\ q.seen.member \in Members /\ q.seen.amount \in Fees
        /\ q.account \in AccountRow /\ q.account # NotRead
        /\ payslip' = payslip
        /\ DebitAppended(q.seen.member, q.account, q.seen.amount, q.id)
    BY <1>1, ChargeDebits
  <1>3. PICK m \in Members, amount \in Fees : m = q.seen.member /\ amount = q.seen.amount
    BY <1>2
  <1>4. q.account = account[m]
    BY <1>1, <1>2, <1>3 DEF Serial, AllCurrent, RequestCurrent
  <1>5. Done(r) /\ UNCHANGED <<withdrawal, disbursed, authorized>>
    BY DEF CommitCharge
  <1>6. OneRequest' /\ AllCurrent'
    BY <1>2, <1>5, DoneSerial DEF Serial
  <1>7. \A n \in Members : Covered'[n] = Covered[n]
    <2>1. /\ Covered'[m] = Covered[m] - 0
          /\ \A n \in Members \ {m} : Covered'[n] = Covered[n]
      BY <1>2, <1>3, DebitCovered DEF Inv
    <2>2. Covered[m] \in Int
      BY CoveredTypes DEF Inv
    <2> QED
      BY <2>1, <2>2
  <1>8. Covered' = Covered
    BY <1>7 DEF Covered
  <1>9. Rows' /\ Funds' /\ OneEach'
    BY <1>5, <1>8 DEF Serial, Rows, RowOrdered, Pending, Funds, OneEach, PendingOf, Affordable
  <1>10. InterestBooked'
    <2>1. \A n \in Members : InterestBookedOf(n)'
      BY <1>2, <1>3, <1>4, DebitKeepsBooks, BookedByMember DEF Inv, Serial
    <2> QED
      BY <2>1 DEF InterestBooked, InterestBookedOf, OverPeriods, OverDebits, PaidInterest,
                  TakenInterest
  <1> QED
    BY <1>5, <1>6, <1>9, <1>10 DEF Serial, FinalKept

LEMMA ReadAccountSerial ==
  ASSUME Inv, Serial, NEW r \in Requests, ReadAccount(r)
  PROVE  Serial' /\ FinalKept
  <1>1. PICK q : q = [request[r] EXCEPT !.account = account[request[r].seen.member]]
    OBVIOUS
  <1>2. /\ request[r] # Idle
        /\ request[r] \in RequestRow
        /\ RequestCurrent(request[r])
        /\ request[r].op \in {"AUTHORIZE", "CHARGE"}
    BY InFlight, RequestFacts DEF ReadAccount, Inv, Serial, AllCurrent
  <1>3. /\ q.op = request[r].op /\ q.id = request[r].id /\ q.seen = request[r].seen
        /\ q.account = account[q.seen.member]
    BY <1>1, <1>2 DEF RequestRow
  <1>4. UNCHANGED <<account, payslip, debits, withdrawal, disbursed, authorized>>
    BY DEF ReadAccount, savingsVars
  <1>12. Covered' = Covered
    BY <1>4, CoveredKept
  <1>5. request' = [request EXCEPT ![r] = q]
    BY <1>1 DEF ReadAccount, Inv, TypeOK
  <1>6. request'[r] = q /\ \A s \in Requests \ {r} : request'[s] = request[s]
    BY <1>5 DEF Inv, TypeOK
  <1>7. RequestCurrent(q)'
    BY <1>2, <1>3, <1>4 DEF RequestCurrent, Pending
  <1>8. \A s \in Requests \ {r} : request'[s] = Idle
    BY <1>2, <1>6 DEF Serial, OneRequest
  <1>9. OneRequest' /\ AllCurrent'
    BY <1>6, <1>7, <1>8 DEF OneRequest, AllCurrent
  <1>10. Rows' /\ Funds' /\ OneEach'
    BY <1>4, <1>12 DEF Serial, Rows, RowOrdered, Pending, Funds, OneEach, PendingOf, Affordable
  <1>11. InterestBooked'
    BY <1>4, BookedKept DEF Serial, savingsVars
  <1> QED
    BY <1>4, <1>9, <1>10, <1>11 DEF Serial, FinalKept

LEMMA FailSerial ==
  ASSUME Inv, Serial, NEW r \in Requests, Fail(r)
  PROVE  Serial' /\ FinalKept
  <1>1. request[r] # Idle /\ Done(r)
    BY DEF Fail
  <1>2. UNCHANGED <<account, payslip, debits, withdrawal, disbursed, authorized>>
    BY DEF Fail, savingsVars
  <1>6. Covered' = Covered
    BY <1>2, CoveredKept
  <1>3. OneRequest' /\ AllCurrent'
    BY <1>1, DoneSerial DEF Serial
  <1>4. Rows' /\ Funds' /\ OneEach'
    BY <1>2, <1>6 DEF Serial, Rows, RowOrdered, Pending, Funds, OneEach, PendingOf, Affordable
  <1>5. InterestBooked'
    BY <1>2, BookedKept DEF Serial, savingsVars
  <1> QED
    BY <1>2, <1>3, <1>4, <1>5 DEF Serial, FinalKept

\* Payroll pays in while no request is in flight.
LEMMA PayMonthSerial ==
  ASSUME Inv, Serial, NEW m \in Members, NEW p \in Periods, PayMonth(m, p), ~overlapped'
  PROVE  Serial' /\ FinalKept
  <1>1. /\ \A r \in Requests : request[r] = Idle
        /\ UNCHANGED <<withdrawal, disbursed, authorized, request>>
    BY DEF PayMonth, Noted
  <1>2. OneRequest' /\ AllCurrent'
    BY <1>1 DEF OneRequest, AllCurrent
  <1>3. Rows' /\ OneEach'
    BY <1>1 DEF Serial, Rows, RowOrdered, Pending, OneEach, PendingOf
  <1>5. \A n \in Members : Covered[n] \in Int /\ Covered'[n] \in Int /\ Covered[n] <= Covered'[n]
    <2>1. Covered \in [Members -> Int] /\ \A n \in Members : Covered[n] <= Covered'[n]
      BY CoveredTypes, MonthCovered DEF Inv
    <2>2. TypeOK'
      BY PayMonthInv DEF Inv
    <2>3. ASSUME NEW n \in Members
          PROVE  Covered'[n] \in Int
      <3>1. DOMAIN debits'[n] = DOMAIN debits[n] /\ FeesOf(n)' = FeesOf(n)
        BY DEF PayMonth, FeesOf
      <3>2. account'[n].sukarela \in Int
        BY <2>2 DEF TypeOK, AccountRow
      <3> QED
        BY <3>1, <3>2, FeeTypes DEF Covered, Inv
    <2> QED
      BY <2>1, <2>3
  <1>6. Funds'
    <2>1. \A n \in Members : Covered'[n] >= 0
      BY <1>5 DEF Serial, Funds
    <2>2. ASSUME NEW n \in Members, NEW w \in PendingOf(n)'
          PROVE  Affordable(withdrawal[w])'
      <3>1. w \in PendingOf(n) /\ w \in Withdrawals /\ withdrawal[w].status # "NONE"
        BY <1>1, <2>2 DEF PendingOf
      <3>2. withdrawal[w] \in WithdrawalRow
        BY <3>1, WithdrawalRows DEF Inv
      <3>3. PICK k \in Members, a \in Amounts : k = withdrawal[w].member /\ a = withdrawal[w].amount
        BY <3>2 DEF WithdrawalRow
      <3>4. a <= Covered[k] /\ a \in Int
        BY <3>1, <3>3, WithdrawalAssumption DEF Serial, Funds, Affordable
      <3>5. a <= Covered'[k]
        BY <1>5, <3>4
      <3> QED
        BY <1>1, <3>3, <3>5 DEF Affordable
    <2> QED
      BY <2>1, <2>2 DEF Funds
  <1>7. InterestBooked'
    <2>1. \A n \in Members : InterestBookedOf(n)'
      BY MonthKeepsBooks, BookedByMember DEF Inv, Serial
    <2> QED
      BY <2>1 DEF InterestBooked, InterestBookedOf, OverPeriods, OverDebits, PaidInterest,
                  TakenInterest
  <1> QED
    BY <1>1, <1>2, <1>3, <1>6, <1>7 DEF Serial, FinalKept

LEMMA OverlappedStays ==
  ASSUME Inv, [Next]_vars
  PROVE  overlapped => overlapped'
  BY DEF Next, Begin, BeginCreate, BeginDecision, BeginDisburse, BeginAuthorize, BeginCancel,
         BeginCharge, Enter, Noted, Commit, CommitCreate, CommitReject, CommitApprove, CommitDisburse,
         ReadAccount, CommitAuthorize, CommitCharge, CommitCancel, Done, Fail, PayMonth, vars, withdrawalVars

LEMMA SerialStep ==
  ASSUME Inv, SerialInv, [Next]_vars
  PROVE  SerialInv' /\ (~overlapped' => FinalKept)
  <1> SUFFICES ASSUME ~overlapped'
               PROVE  Serial' /\ FinalKept
    BY DEF SerialInv
  <1>1. Serial
    BY OverlappedStays DEF SerialInv
  <1>2. ASSUME NEW r \in Requests, Begin(r)
        PROVE  Serial' /\ FinalKept
    BY <1>1, <1>2, BeginsSerial DEF FinalKept
  <1>3. ASSUME NEW r \in Requests, Commit(r) \/ Fail(r)
        PROVE  Serial' /\ FinalKept
    BY <1>1, <1>3, CommitCreateSerial, DecisionsSerial, AuthorizeSerial, ChargeSerial,
       ReadAccountSerial, FailSerial DEF Commit
  <1>4. ASSUME NEW m \in Members, NEW p \in Periods, PayMonth(m, p)
        PROVE  Serial' /\ FinalKept
    BY <1>1, <1>4, PayMonthSerial
  <1>5. CASE UNCHANGED vars
    <2>1. UNCHANGED <<savingsVars, withdrawal, disbursed, authorized, request>>
      BY <1>5 DEF vars, withdrawalVars
    <2>3. Covered' = Covered
      BY <2>1, CoveredKept DEF savingsVars
    <2>2. OneRequest' /\ AllCurrent' /\ Rows' /\ Funds' /\ OneEach'
      BY <1>1, <2>1, <2>3 DEF Serial, OneRequest, AllCurrent, RequestCurrent, Rows, RowOrdered, Pending,
                        Funds, OneEach, PendingOf, Affordable, savingsVars
    <2> QED
      BY <1>1, <2>1, <2>2, BookedKept DEF Serial, FinalKept
  <1> QED
    BY <1>2, <1>3, <1>4, <1>5 DEF Next

\* Accounts, withdrawals and what requests in flight have read keep their types.
THEOREM WithdrawalTypes == Spec => []TypeOK
  <1>1. Inv => TypeOK
    BY DEF Inv
  <1> QED
    BY <1>1, InitInv, StepInv, PTL DEF Spec

\* However requests overlap and fail, a withdrawal is taken off its member's
\* account only with both approvals and the disbursement, and only once.
THEOREM WithdrawalsPaidAsSigned == Spec => []PaidAsSigned
  <1>1. Inv => PaidAsSigned
    BY DEF Inv
  <1> QED
    BY <1>1, InitInv, StepInv, PTL DEF Spec


\* The voluntary savings of a member are what payslips paid in and withdrawals
\* took out, however requests overlap with each other and with payroll.
THEOREM SavingsAreBooked == Spec => []SavingsBooked
  <1>1. Inv /\ SavingsBooked /\ [Next]_vars => Inv' /\ SavingsBooked'
    BY StepInv, SavingsStep
  <1>2. Init => Inv /\ SavingsBooked
    BY InitInv, InitBooked
  <1> QED
    BY <1>1, <1>2, PTL DEF Spec


\* One request after the other, a member has one withdrawal under way, what
\* withdrawals take out was paid in (an account is overdrawn by no more than
\* fees have taken), nothing has left for a cancelled one, and the interest is
\* what the transactions booked.
THEOREM SerialWithdrawalsHold == Spec => []SerialWithdrawals
  <1>1. Inv /\ SerialInv => SerialWithdrawals
    <2> SUFFICES ASSUME Inv, SerialInv, ~overlapped
                 PROVE  SerialWithdrawals
      BY DEF SerialWithdrawals, OnePending, PaidFromSavings, InterestKept
    <2>1. Serial
      BY DEF SerialInv
    <2>2. \A w \in Withdrawals :
            withdrawal[w].status = "CANCELLED" => w \notin disbursed \cup authorized
      BY <2>1 DEF Serial, Rows, RowOrdered
    <2>3. ASSUME NEW m \in Members
          PROVE  account[m].sukarela + FeesTaken(m) >= 0
      BY <2>1, FeesAreSummed DEF Serial, Funds, Covered
    <2> QED
      BY <2>1, <2>2, <2>3 DEF Serial, OneEach, SerialWithdrawals, OnePending, PaidFromSavings,
                        InterestKept
  <1>2. Inv /\ SerialInv /\ [Next]_vars => Inv' /\ SerialInv'
    BY StepInv, SerialStep
  <1>3. Init => Inv /\ SerialInv
    BY InitInv, SerialInit
  <1> QED
    BY <1>1, <1>2, <1>3, PTL DEF Spec

\* One request after the other, a withdrawal that is completed, rejected or
\* cancelled stays so.
THEOREM FinalWithdrawalsStay == Spec => FinalStays
  <1>1. Inv /\ SerialInv /\ [Next]_vars
          => [\A w \in Withdrawals :
                /\ ~overlapped'
                /\ withdrawal[w].status \in {"COMPLETED", "REJECTED", "CANCELLED"}
                => withdrawal'[w] = withdrawal[w]]_vars
    BY SerialStep DEF FinalKept, Final
  <1>2. Inv /\ SerialInv /\ [Next]_vars => Inv' /\ SerialInv'
    BY StepInv, SerialStep
  <1>3. Init => Inv /\ SerialInv
    BY InitInv, SerialInit
  <1> QED
    BY <1>1, <1>2, <1>3, PTL DEF Spec, FinalStays

=============================================================================
