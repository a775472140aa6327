--------------------------- MODULE PayrollProofs ---------------------------
(***************************************************************************)
(* Payroll charges what was agreed, for any members, months, fees, tenors  *)
(* and numbers of runs: deposits are exact whatever runs do, and entrance  *)
(* fees as long as no two runs overlap.  The last part is about the social *)
(* fund, into which payroll pays excess loans back: its balance is never   *)
(* negative, and without overlapping it is what its rows add up to.        *)
(***************************************************************************)
EXTENDS Payroll, SocialFund, ArithmeticProofs

\* The principal savings of a member are what was paid of the entrance fee.
FeePaid(m) ==
  /\ ~Verified(m) => account[m].pokok = OpeningAccount.pokok
  /\ Verified(m) =>
       /\ account[m].pokok = OpeningAccount.pokok + application[m].paidAmount
       /\ application[m].paidAmount + application[m].remainingAmount = EntranceFee
       /\ application[m].isPaidOff => application[m].remainingAmount = 0

\* What a run has read of an application is what is there, but for members
\* approved since.
UpToDate(r) ==
  run[r].op = "READ" =>
    \A m \in Members : run[r].seen[m] \in {NotApproved, application[m]}

\* As long as no two runs overlap, there is one at most.
OneRun == \A r, s \in Runs : run[r] # Idle /\ run[s] # Idle => r = s

FeesInv ==
  "OVERLAP" \notin irregular =>
    /\ \A m \in Members : FeePaid(m)
    /\ \A r \in Runs : run[r] # Idle => UpToDate(r)
    /\ OneRun

Inv == TypeOK /\ DepositExact /\ FeesInv

-----------------------------------------------------------------------------
(* What the processors calculate.                                          *)

LEMMA ConstantTypes ==
  /\ Periods \subseteq Nat /\ AnnualRate \in Nat /\ MonthlyFee \in Nat
  /\ OpeningAccount \in AccountRow
  /\ EntranceFee \in Nat /\ DepositAmount \in Nat /\ DepositTenor \in Nat \ {0}
  /\ EntranceFee \div 2 \in Nat /\ EntranceFee \div 2 <= EntranceFee
  /\ EntranceFee \div 2 = 0 => EntranceFee = 0
  BY SavingsAssumption, PayrollAssumption

LEMMA InterestInt == \A t \in Int : Interest(t) \in Int
<1> SUFFICES ASSUME NEW t \in Int
             PROVE  Interest(t) \in Int
  OBVIOUS
<1>1. \A u \in Int : u * AnnualRate + 600 \in Int
  BY ConstantTypes
<1>2. \A u \in Int : u \div 1200 \in Int /\ -u \in Int
  OBVIOUS
<1>3. \A u \in Int : (u * AnnualRate + 600) \div 1200 \in Int
  BY <1>1, <1>2
<1>4. QED
  BY <1>2, <1>3 DEF Interest

LEMMA AccountTyped ==
  ASSUME NEW a \in AccountRow, NEW entrance \in Nat, NEW d \in Nat
  PROVE  /\ AccountAfter(a, entrance, d) \in AccountRow
         /\ AccountAfter(a, entrance, d).pokok = a.pokok + entrance
         /\ AccountAfter(a, entrance, d).wajib = a.wajib + MonthlyFee
         /\ AccountAfter(a, entrance, d).sukarela = a.sukarela + d
         /\ AccountAfter(a, entrance, d).bunga =
              a.bunga + MonthInterest(PaidIn(a, entrance, d))
         /\ MonthInterest(PaidIn(a, entrance, d)) \in Int
<1>1. PICK b : b = PaidIn(a, entrance, d)
  OBVIOUS
<1>2. PICK x, y, z : x = a.pokok + entrance /\ y = a.wajib + MonthlyFee /\ z = a.sukarela + d
  OBVIOUS
<1>3. x \in Nat /\ y \in Nat /\ z \in Int
  BY <1>2, ConstantTypes DEF AccountRow
<1>4. b = [a EXCEPT !.pokok = x, !.wajib = y, !.sukarela = z]
  BY <1>1, <1>2 DEF PaidIn, AccountRow
<1>5. /\ b \in AccountRow
      /\ b.pokok = x /\ b.wajib = y /\ b.sukarela = z /\ b.bunga = a.bunga
  BY <1>3, <1>4 DEF AccountRow
<1>6. PICK i : i = MonthInterest(b)
  OBVIOUS
<1>7. i \in Int
  <2>1. Total(b) \in Int
    BY <1>5 DEF Total, AccountRow
  <2>2. QED
    BY <1>6, <2>1, InterestInt DEF MonthInterest
<1>8. PICK j \in Int : j = b.bunga + i
  BY <1>5, <1>7 DEF AccountRow
<1>9. AccountAfter(a, entrance, d) = [b EXCEPT !.bunga = j]
  BY <1>1, <1>5, <1>6, <1>8 DEF AccountAfter, AccountRow
<1>10. QED
  BY <1>1, <1>2, <1>5, <1>6, <1>7, <1>8, <1>9 DEF AccountRow

LEMMA PayslipTyped ==
  ASSUME NEW s \in Payslip, NEW a \in AccountRow, NEW entrance \in Nat, NEW d \in Nat
  PROVE  /\ PayslipAfter(s, a, entrance, d) \in Payslip
         /\ PayslipAfter(s, a, entrance, d).iuranPendaftaran = s.iuranPendaftaran + entrance
         /\ PayslipAfter(s, a, entrance, d).iuranBulanan = MonthlyFee
         /\ PayslipAfter(s, a, entrance, d).tabunganDeposito = s.tabunganDeposito + d
         /\ s.bunga = 0 => PayslipAfter(s, a, entrance, d).bunga =
                              MonthInterest(PaidIn(a, entrance, d))
<1>1. PICK b : b = PaidIn(a, entrance, d)
  OBVIOUS
<1>2. Total(b) \in Int
  <2>1. PICK x, y, z : x = a.pokok + entrance /\ y = a.wajib + MonthlyFee /\ z = a.sukarela + d
    OBVIOUS
  <2>2. x \in Nat /\ y \in Nat /\ z \in Int
    BY <2>1, ConstantTypes DEF AccountRow
  <2>3. b = [a EXCEPT !.pokok = x, !.wajib = y, !.sukarela = z]
    BY <1>1, <2>1 DEF PaidIn, AccountRow
  <2>4. QED
    BY <2>2, <2>3 DEF AccountRow, Total
<1>3. MonthInterest(b) \in Int
  BY <1>2, InterestInt DEF MonthInterest
<1>4. PICK f, g, i : /\ f = s.iuranPendaftaran + entrance /\ g = s.tabunganDeposito + d
                     /\ i = IF Total(b) <= 0 THEN s.bunga ELSE MonthInterest(b)
  OBVIOUS
<1>5. f \in Nat /\ g \in Nat /\ i \in Int
  BY <1>3, <1>4 DEF Payslip
<1>6. PayslipAfter(s, a, entrance, d) =
        [s EXCEPT !.iuranPendaftaran = f, !.iuranBulanan = MonthlyFee,
                  !.tabunganDeposito = g, !.bunga = i]
  BY <1>1, <1>4 DEF PayslipAfter, Payslip
<1>7. s.bunga = 0 => i = MonthInterest(b)
  BY <1>4 DEF MonthInterest
<1>8. PICK t : t = PayslipAfter(s, a, entrance, d)
  OBVIOUS
<1>9. /\ t \in Payslip
      /\ t.iuranPendaftaran = f /\ t.iuranBulanan = MonthlyFee
      /\ t.tabunganDeposito = g /\ t.bunga = i
  BY <1>5, <1>6, <1>8, ConstantTypes DEF Payslip
<1>10. QED
  BY <1>1, <1>4, <1>7, <1>8, <1>9

\* A charged application has paid, or is half way to it.
LEMMA ApplicationCharged ==
  ASSUME NEW a \in ApplicationRow, NEW p, Charged(a, p)
  PROVE  /\ FeeOf(a, p) \in Nat
         /\ ApplicationAfter(a, p) \in ApplicationRow
         /\ ApplicationAfter(a, p).status = "APPROVED"
         /\ ApplicationAfter(a, p).paidAmount = a.paidAmount + FeeOf(a, p)
         /\ a.paidAmount + a.remainingAmount = EntranceFee =>
              /\ ApplicationAfter(a, p).paidAmount
                   + ApplicationAfter(a, p).remainingAmount = EntranceFee
              /\ ApplicationAfter(a, p).isPaidOff =>
                   ApplicationAfter(a, p).remainingAmount = 0
<1>1. PICK d, rest : d = Deduction(a) /\ rest = a.remainingAmount - d
  OBVIOUS
<1>2. d \in Nat /\ rest \in Int
  BY <1>1, ConstantTypes DEF Deduction, ApplicationRow
<1>3. PICK paid, left, off :
        /\ paid = a.paidAmount + d
        /\ left = IF rest < 0 THEN 0 ELSE rest
        /\ off = (rest <= 0)
  OBVIOUS
<1>4. paid \in Nat /\ left \in Nat
  BY <1>2, <1>3 DEF ApplicationRow
<1>5. off \in BOOLEAN
  <2>1. (rest <= 0) \in BOOLEAN
    OBVIOUS
  <2>2. QED
    BY <1>3, <2>1, Zenon
<1>6. FeeOf(a, p) = d
  BY <1>1 DEF FeeOf
<1>7. ApplicationAfter(a, p) =
        [a EXCEPT !.paidAmount = paid, !.remainingAmount = left, !.isPaidOff = off]
  BY <1>1, <1>3 DEF ApplicationAfter, ApplicationRow
<1>8. /\ ApplicationAfter(a, p) \in ApplicationRow
      /\ ApplicationAfter(a, p).status = "APPROVED"
      /\ ApplicationAfter(a, p).paidAmount = paid
      /\ ApplicationAfter(a, p).remainingAmount = left
      /\ ApplicationAfter(a, p).isPaidOff = off
  BY <1>4, <1>5, <1>7 DEF ApplicationRow
<1>9. ASSUME a.paidAmount + a.remainingAmount = EntranceFee
      PROVE  paid + left = EntranceFee /\ (off => left = 0)
  <2>1. rest >= 0
    BY <1>1, <1>9, ConstantTypes DEF Deduction, ApplicationRow
  <2>2. left = rest
    BY <1>2, <1>3, <2>1
  <2>3. paid + left = EntranceFee
    BY <1>1, <1>2, <1>3, <1>9, <2>2 DEF ApplicationRow
  <2>4. rest <= 0 => left = 0
    BY <1>2, <2>1, <2>2
  <2>5. QED
    BY <1>3, <2>3, <2>4
<1>10. QED
  BY <1>2, <1>3, <1>6, <1>8, <1>9

ExactDeposit(d) ==
  d # NoDeposit =>
    /\ d.collected = DepositAmount * d.count
    /\ d.count = DepositTenor <=> d.status = "COMPLETED"

\* An installment is taken from a deposit that lacks one.
LEMMA DepositCollected ==
  ASSUME NEW m \in Members, NEW p \in Periods,
         deposit[m] \in {NoDeposit} \cup DepositRow, ExactDeposit(deposit[m])
  PROVE  /\ DepositOf(m, p) \in Nat
         /\ DepositAfter(m, p) \in {NoDeposit} \cup DepositRow
         /\ ExactDeposit(DepositAfter(m, p))
<1>1. DepositOf(m, p) \in Nat
  BY ConstantTypes DEF DepositOf
<1>2. CASE ~DepositDue(m, p)
  BY <1>1, <1>2 DEF DepositAfter
<1>3. CASE DepositDue(m, p)
  <2>1. PICK d \in DepositRow : d = deposit[m] /\ d # NoDeposit
    BY <1>3 DEF DepositDue, NoDeposit, DepositRow
  <2>2. d.count \in 0 .. DepositTenor /\ d.count < DepositTenor /\ d.collected \in Nat
    BY <1>3, <2>1 DEF DepositDue, DepositRow
  <2>3. PICK n, c, st :
          /\ n = d.count + 1 /\ c = d.collected + DepositAmount
          /\ st = IF n >= DepositTenor THEN "COMPLETED" ELSE "ACTIVE"
    OBVIOUS
  <2>4. n \in 0 .. DepositTenor /\ c \in Nat /\ st \in {"ACTIVE", "COMPLETED"}
    BY <2>2, <2>3, ConstantTypes
  <2>5. DepositAfter(m, p) = [d EXCEPT !.status = st, !.count = n, !.collected = c]
    BY <1>3, <2>1, <2>3 DEF DepositAfter, DepositRow
  <2>6. /\ DepositAfter(m, p) \in DepositRow
        /\ DepositAfter(m, p).status = st /\ DepositAfter(m, p).count = n
        /\ DepositAfter(m, p).collected = c
    BY <2>4, <2>5 DEF DepositRow
  <2>7. c = DepositAmount * n
    <3>1. d.collected = DepositAmount * d.count
      BY <2>1 DEF ExactDeposit
    <3>2. DepositAmount * (d.count + 1) = DepositAmount * d.count + DepositAmount
      BY <2>2, ConstantTypes
    <3>3. QED
      BY <2>3, <3>1, <3>2
  <2>8. n = DepositTenor <=> st = "COMPLETED"
    BY <2>3, <2>4, ConstantTypes
  <2>9. QED
    BY <1>1, <2>6, <2>7, <2>8 DEF ExactDeposit
<1>4. QED
  BY <1>2, <1>3

-----------------------------------------------------------------------------
(* The steps.                                                              *)

LEMMA InitInv == Init => Inv
<1> SUFFICES ASSUME Init
             PROVE  Inv
  OBVIOUS
<1>1. NoPayslip \in Payslip
  BY DEF NoPayslip, Payslip
<1>2. TypeOK
  BY <1>1, ConstantTypes DEF Init, SavingsInit, TypeOK
<1>3. DepositExact
  BY DEF Init, DepositExact
<1>4. FeesInv
  BY DEF Init, SavingsInit, FeesInv, FeePaid, Verified, NotApproved, OneRun
<1>5. QED
  BY <1>2, <1>3, <1>4 DEF Inv

LEMMA ApproveMemberInv ==
  ASSUME Inv, NEW m \in Members, NEW plan \in Plans, NEW p \in Periods,
         ApproveMember(m, plan, p)
  PROVE  Inv'
<1>1. PICK a : a = [status |-> "APPROVED", from |-> p, plan |-> plan,
                    paidAmount |-> 0, remainingAmount |-> EntranceFee,
                    isPaidOff |-> FALSE]
  OBVIOUS
<1>2. /\ a \in ApplicationRow /\ a.status = "APPROVED" /\ a.paidAmount = 0
      /\ a.remainingAmount = EntranceFee /\ a.isPaidOff = FALSE
  BY <1>1, ConstantTypes DEF ApplicationRow
<1>3. /\ application[m] = NotApproved /\ application' = [application EXCEPT ![m] = a]
      /\ UNCHANGED <<account, payslip, debits, deposit, period, run, irregular>>
  BY <1>1 DEF ApproveMember, savingsVars
<1>4. TypeOK'
  BY <1>2, <1>3 DEF Inv, TypeOK
<1>5. DepositExact'
  BY <1>3 DEF Inv, DepositExact
<1>6. ASSUME "OVERLAP" \notin irregular
      PROVE  /\ \A k \in Members : FeePaid(k)'
             /\ \A r \in Runs : run[r] # Idle => UpToDate(r)'
             /\ OneRun'
  <2>1. FeePaid(m)'
    <3>1. account[m].pokok = OpeningAccount.pokok
      BY <1>3, <1>6 DEF Inv, FeesInv, FeePaid, Verified, NotApproved
    <3>2. OpeningAccount.pokok + 0 = OpeningAccount.pokok /\ 0 + EntranceFee = EntranceFee
      BY ConstantTypes DEF AccountRow
    <3>3. application'[m] = a /\ account'[m] = account[m]
      BY <1>3 DEF Inv, TypeOK
    <3>4. QED
      BY <1>2, <3>1, <3>2, <3>3 DEF FeePaid, Verified
  <2>2. \A k \in Members \ {m} : FeePaid(k)'
    BY <1>3, <1>6 DEF Inv, FeesInv, FeePaid, Verified, TypeOK
  <2>3. \A r \in Runs : run[r] # Idle => UpToDate(r)'
    BY <1>3, <1>6 DEF Inv, FeesInv, UpToDate, TypeOK
  <2>4. QED
    BY <1>3, <1>6, <2>1, <2>2, <2>3 DEF Inv, FeesInv, OneRun
<1>7. QED
  BY <1>3, <1>4, <1>5, <1>6 DEF Inv, FeesInv

LEMMA ApproveDepositInv ==
  ASSUME Inv, NEW m \in Members, NEW p \in Periods, ApproveDeposit(m, p)
  PROVE  Inv'
<1>1. PICK d : d = [status |-> "APPROVED", from |-> p, count |-> 0, collected |-> 0]
  OBVIOUS
<1>2. d \in DepositRow /\ ExactDeposit(d)
  BY <1>1, ConstantTypes DEF DepositRow, ExactDeposit
<1>3. /\ deposit' = [deposit EXCEPT ![m] = d]
      /\ UNCHANGED <<account, payslip, debits, application, period, run, irregular>>
  BY <1>1 DEF ApproveDeposit, savingsVars
<1>4. TypeOK'
  BY <1>2, <1>3 DEF Inv, TypeOK
<1>5. DepositExact'
  BY <1>2, <1>3 DEF Inv, TypeOK, DepositExact, ExactDeposit
<1>6. FeesInv'
  BY <1>3 DEF Inv, FeesInv, FeePaid, Verified, UpToDate, OneRun
<1>7. QED
  BY <1>4, <1>5, <1>6 DEF Inv

LEMMA BeginRunInv ==
  ASSUME Inv, NEW r \in Runs, NEW p \in Periods, NEW force \in Forcing,
         BeginRun(r, p, force)
  PROVE  Inv'
<1>1. PICK q : q = [op |-> "CHECKED", period |-> p]
  OBVIOUS
<1>2. q \in RunRow /\ q # Idle /\ q.op = "CHECKED"
  BY <1>1 DEF RunRow, Idle
<1>3. /\ run[r] = Idle /\ run' = [run EXCEPT ![r] = q]
      /\ period' = [period EXCEPT ![p] = "OPEN"] /\ NoteRun(p)
      /\ UNCHANGED <<account, payslip, debits, application, deposit>>
  BY <1>1 DEF BeginRun, savingsVars
<1>4. TypeOK'
  BY <1>2, <1>3 DEF Inv, TypeOK, NoteRun
<1>5. DepositExact'
  BY <1>3 DEF Inv, DepositExact
<1>6. ASSUME "OVERLAP" \notin irregular'
      PROVE  /\ \A k \in Members : FeePaid(k)'
             /\ \A s \in Runs : run'[s] # Idle => UpToDate(s)'
             /\ OneRun'
  <2>1. "OVERLAP" \notin irregular /\ \A s \in Runs : run[s] = Idle
    BY <1>3, <1>6 DEF NoteRun
  <2>2. \A s \in Runs : run'[s] # Idle => s = r /\ run'[s] = q
    BY <1>3, <2>1 DEF Inv, TypeOK
  <2>3. \A k \in Members : FeePaid(k)'
    BY <1>3, <2>1 DEF Inv, FeesInv, FeePaid, Verified
  <2>4. \A s \in Runs : run'[s] # Idle => UpToDate(s)'
    BY <1>2, <2>2 DEF UpToDate
  <2>5. OneRun'
    BY <2>2 DEF OneRun
  <2>6. QED
    BY <2>3, <2>4, <2>5
<1>7. QED
  BY <1>4, <1>5, <1>6 DEF Inv, FeesInv

LEMMA ReadApplicationsInv ==
  ASSUME Inv, NEW r \in Runs, ReadApplications(r)
  PROVE  Inv'
<1>1. PICK q : q = [op |-> "READ", period |-> run[r].period, seen |-> application]
  OBVIOUS
<1>2. run[r] # Idle /\ run[r] \in RunRow
  BY DEF ReadApplications, Idle, Inv, TypeOK
<1>3. q \in RunRow /\ q # Idle /\ q.seen = application
  BY <1>1, <1>2 DEF RunRow, Idle, Inv, TypeOK
<1>4. /\ run' = [run EXCEPT ![r] = q]
      /\ UNCHANGED <<account, payslip, debits, application, deposit, period, irregular>>
  BY <1>1 DEF ReadApplications, savingsVars
<1>5. TypeOK'
  BY <1>3, <1>4 DEF Inv, TypeOK
<1>6. DepositExact'
  BY <1>4 DEF Inv, DepositExact
<1>7. FeesInv'
  BY <1>2, <1>3, <1>4 DEF Inv, TypeOK, FeesInv, FeePaid, Verified, UpToDate, OneRun
<1>8. QED
  BY <1>5, <1>6, <1>7 DEF Inv

LEMMA FailRunInv ==
  ASSUME Inv, NEW r \in Runs, FailRun(r)
  PROVE  Inv'
<1>1. /\ run' = [run EXCEPT ![r] = Idle]
      /\ UNCHANGED <<account, payslip, debits, application, deposit, period, irregular>>
  BY DEF FailRun, savingsVars
<1>2. TypeOK'
  BY <1>1 DEF Inv, TypeOK
<1>3. DepositExact'
  BY <1>1 DEF Inv, DepositExact
<1>4. FeesInv'
  BY <1>1 DEF Inv, TypeOK, FeesInv, FeePaid, Verified, UpToDate, OneRun
<1>5. QED
  BY <1>2, <1>3, <1>4 DEF Inv

LEMMA DeletePeriodInv ==
  ASSUME Inv, NEW p \in Deletable, DeletePeriod(p)
  PROVE  Inv'
<1>1. /\ UNCHANGED <<account, debits, application, deposit>>
      /\ \A r \in Runs : run'[r] \in {Idle, run[r]}
  BY DEF DeletePeriod
<1>2. TypeOK'
  <2>1. NoPayslip \in Payslip
    BY DEF NoPayslip, Payslip
  <2>2. payslip' \in [Members -> [Periods -> Payslip]]
    BY <2>1 DEF DeletePeriod, Inv, TypeOK
  <2>3. run' \in [Runs -> {Idle} \cup RunRow]
    BY DEF DeletePeriod, Inv, TypeOK
  <2>4. period' \in [Periods -> {"NONE", "OPEN", "PROCESSED"}]
        /\ irregular' \in SUBSET {"OVERLAP", "FORCE", "DELETE"}
    BY DEF DeletePeriod, Inv, TypeOK
  <2>5. QED
    BY <1>1, <2>2, <2>3, <2>4 DEF Inv, TypeOK
<1>3. DepositExact'
  BY <1>1 DEF Inv, DepositExact
<1>4. ASSUME "OVERLAP" \notin irregular'
      PROVE  /\ \A k \in Members : FeePaid(k)'
             /\ \A s \in Runs : run'[s] # Idle => UpToDate(s)'
             /\ OneRun'
  <2>1. "OVERLAP" \notin irregular
    BY <1>4 DEF DeletePeriod
  <2>2. QED
    BY <1>1, <2>1 DEF Inv, FeesInv, FeePaid, Verified, UpToDate, OneRun
<1>5. QED
  BY <1>2, <1>3, <1>4 DEF Inv, FeesInv

\* What the transaction makes of one member's rows.
LEMMA CommitRunInv ==
  ASSUME Inv, NEW r \in Runs, CommitRun(r)
  PROVE  Inv'
<1>1. PICK p, seen : p = run[r].period /\ seen = run[r].seen
  OBVIOUS
<1>2. run[r].op = "READ" /\ run[r] # Idle
  BY DEF CommitRun, Idle
<1>3. p \in Periods /\ seen \in [Members -> {NotApproved} \cup ApplicationRow]
  BY <1>1, <1>2 DEF Inv, TypeOK, RunRow, Idle
<1>4. /\ account' = [m \in Members |->
           IF Verified(m)
           THEN AccountAfter(account[m], FeeOf(seen[m], p), DepositOf(m, p))
           ELSE account[m]]
      /\ payslip' = [m \in Members |->
           IF Verified(m)
           THEN [payslip[m] EXCEPT ![p] =
                  PayslipAfter(@, account[m], FeeOf(seen[m], p), DepositOf(m, p))]
           ELSE payslip[m]]
      /\ application' = [m \in Members |->
           IF Charged(seen[m], p) THEN ApplicationAfter(seen[m], p)
                                  ELSE application[m]]
      /\ deposit' = [m \in Members |-> DepositAfter(m, p)]
      /\ period' = [period EXCEPT ![p] = "PROCESSED"]
      /\ run' = [run EXCEPT ![r] = Idle]
      /\ UNCHANGED <<debits, irregular>>
  BY <1>1 DEF CommitRun
<1>5. ASSUME NEW m \in Members
      PROVE  /\ FeeOf(seen[m], p) \in Nat
             /\ DepositOf(m, p) \in Nat
             /\ DepositAfter(m, p) \in {NoDeposit} \cup DepositRow
             /\ ExactDeposit(DepositAfter(m, p))
             /\ Charged(seen[m], p) => seen[m] \in ApplicationRow
  <2>1. deposit[m] \in {NoDeposit} \cup DepositRow /\ ExactDeposit(deposit[m])
    BY DEF Inv, TypeOK, DepositExact, ExactDeposit
  <2>2. Charged(seen[m], p) => seen[m] \in ApplicationRow
    BY <1>3 DEF Charged, NotApproved
  <2>3. FeeOf(seen[m], p) \in Nat
    <3>1. CASE Charged(seen[m], p)
      BY <2>2, <3>1, ApplicationCharged
    <3>2. CASE ~Charged(seen[m], p)
      BY <3>2 DEF FeeOf
    <3>3. QED
      BY <3>1, <3>2
  <2>4. QED
    BY <1>3, <2>1, <2>2, <2>3, DepositCollected
<1>6. TypeOK'
  <2>1. account' \in [Members -> AccountRow]
    <3> SUFFICES ASSUME NEW m \in Members
                 PROVE  account'[m] \in AccountRow
      BY <1>4
    <3>1. account[m] \in AccountRow
      BY DEF Inv, TypeOK
    <3>2. AccountAfter(account[m], FeeOf(seen[m], p), DepositOf(m, p)) \in AccountRow
      BY <1>5, <3>1, AccountTyped
    <3>3. QED
      BY <1>4, <3>1, <3>2
  <2>2. payslip' \in [Members -> [Periods -> Payslip]]
    <3> SUFFICES ASSUME NEW m \in Members
                 PROVE  payslip'[m] \in [Periods -> Payslip]
      BY <1>4
    <3>1. account[m] \in AccountRow /\ payslip[m] \in [Periods -> Payslip]
      BY DEF Inv, TypeOK
    <3>2. PICK s : s = PayslipAfter(payslip[m][p], account[m],
                                    FeeOf(seen[m], p), DepositOf(m, p))
      OBVIOUS
    <3>3. s \in Payslip
      BY <1>3, <1>5, <3>1, <3>2, PayslipTyped
    <3>4. payslip'[m] = [payslip[m] EXCEPT ![p] = s] \/ payslip'[m] = payslip[m]
      BY <1>4, <3>2
    <3>5. QED
      BY <3>1, <3>3, <3>4
  <2>3. application' \in [Members -> {NotApproved} \cup ApplicationRow]
    <3> SUFFICES ASSUME NEW m \in Members
                 PROVE  application'[m] \in {NotApproved} \cup ApplicationRow
      BY <1>4
    <3>1. CASE Charged(seen[m], p)
      BY <1>4, <1>5, <3>1, ApplicationCharged
    <3>2. CASE ~Charged(seen[m], p)
      BY <1>4, <3>2 DEF Inv, TypeOK
    <3>3. QED
      BY <3>1, <3>2
  <2>4. deposit' \in [Members -> {NoDeposit} \cup DepositRow]
    BY <1>4, <1>5
  <2>5. /\ period' \in [Periods -> {"NONE", "OPEN", "PROCESSED"}]
        /\ run' \in [Runs -> {Idle} \cup RunRow]
    BY <1>3, <1>4 DEF Inv, TypeOK
  <2>6. QED
    BY <1>4, <2>1, <2>2, <2>3, <2>4, <2>5 DEF Inv, TypeOK
<1>7. DepositExact'
  BY <1>4, <1>5 DEF DepositExact, ExactDeposit
<1>8. ASSUME "OVERLAP" \notin irregular
      PROVE  /\ \A m \in Members : FeePaid(m)'
             /\ \A s \in Runs : run'[s] # Idle => UpToDate(s)'
             /\ OneRun'
  <2>1. \A s \in Runs : run'[s] = Idle
    BY <1>2, <1>4, <1>8 DEF Inv, TypeOK, FeesInv, OneRun
  <2>2. ASSUME NEW m \in Members
        PROVE  FeePaid(m)'
    <3>1. FeePaid(m) /\ seen[m] \in {NotApproved, application[m]}
      BY <1>1, <1>2, <1>8 DEF Inv, FeesInv, UpToDate
    <3>2. account[m] \in AccountRow
      BY DEF Inv, TypeOK
    <3>3. PICK fee, d : fee = FeeOf(seen[m], p) /\ d = DepositOf(m, p)
      OBVIOUS
    <3>4. fee \in Nat /\ d \in Nat
      BY <1>5, <3>3
    <3>5. Verified(m) => account'[m].pokok = account[m].pokok + fee
      BY <1>4, <3>2, <3>3, <3>4, AccountTyped
    <3>6. CASE Charged(seen[m], p)
      <4>1. /\ seen[m] = application[m] /\ application[m] \in ApplicationRow
            /\ application'[m] = ApplicationAfter(seen[m], p)
        BY <1>4, <1>5, <3>1, <3>6 DEF Charged, NotApproved
      <4>2. Verified(m)
        BY <3>6, <4>1 DEF Charged, Verified
      <4>3. /\ account[m].pokok = OpeningAccount.pokok + application[m].paidAmount
            /\ application[m].paidAmount + application[m].remainingAmount = EntranceFee
        BY <3>1, <4>2 DEF FeePaid
      <4>4. PICK b : b = application'[m]
        OBVIOUS
      <4>5. /\ b.status = "APPROVED" /\ b.paidAmount = application[m].paidAmount + fee
            /\ b.paidAmount + b.remainingAmount = EntranceFee
            /\ b.isPaidOff => b.remainingAmount = 0
        BY <3>3, <3>6, <4>1, <4>3, <4>4, ApplicationCharged
      <4>6. account'[m].pokok = OpeningAccount.pokok + b.paidAmount
        BY <3>4, <3>5, <4>1, <4>2, <4>3, <4>5, ConstantTypes DEF AccountRow, ApplicationRow
      <4>7. QED
        BY <4>4, <4>5, <4>6 DEF FeePaid, Verified
    <3>7. CASE ~Charged(seen[m], p)
      <4>1. fee = 0 /\ application'[m] = application[m]
        BY <1>4, <3>3, <3>7 DEF FeeOf
      <4>2. account'[m].pokok = account[m].pokok
        <5>1. CASE Verified(m)
          BY <3>2, <3>5, <4>1, <5>1 DEF AccountRow
        <5>2. CASE ~Verified(m)
          BY <1>4, <5>2
        <5>3. QED
          BY <5>1, <5>2
      <4>3. QED
        BY <3>1, <4>1, <4>2 DEF FeePaid, Verified
    <3>8. QED
      BY <3>6, <3>7
  <2>3. QED
    BY <2>1, <2>2 DEF OneRun
<1>9. QED
  BY <1>4, <1>6, <1>7, <1>8 DEF Inv, FeesInv

LEMMA NextInv == Inv /\ [Next]_vars => Inv'
<1> SUFFICES ASSUME Inv, [Next]_vars
             PROVE  Inv'
  OBVIOUS
<1>1. CASE UNCHANGED vars
  BY <1>1 DEF vars, savingsVars, payrollVars, Inv, TypeOK, DepositExact, FeesInv,
              FeePaid, Verified, UpToDate, OneRun
<1>2. ASSUME NEW m \in Members, NEW p \in Periods, NEW plan \in Plans,
             ApproveMember(m, plan, p)
      PROVE  Inv'
  BY <1>2, ApproveMemberInv
<1>3. ASSUME NEW m \in Members, NEW p \in Periods, ApproveDeposit(m, p)
      PROVE  Inv'
  BY <1>3, ApproveDepositInv
<1>4. ASSUME NEW r \in Runs, NEW p \in Periods, NEW force \in Forcing,
             BeginRun(r, p, force)
      PROVE  Inv'
  BY <1>4, BeginRunInv
<1>5. ASSUME NEW r \in Runs, ReadApplications(r) \/ CommitRun(r) \/ FailRun(r)
      PROVE  Inv'
  BY <1>5, ReadApplicationsInv, CommitRunInv, FailRunInv
<1>6. ASSUME NEW p \in Deletable, DeletePeriod(p)
      PROVE  Inv'
  BY <1>6, DeletePeriodInv
<1>7. QED
  BY <1>1, <1>2, <1>3, <1>4, <1>5, <1>6 DEF Next

-----------------------------------------------------------------------------
(* What the payslips of a member add up to, column by column.  No debit is *)
(* booked here.                                                            *)

Parts(s) == [p \in Periods |-> s[p].iuranPendaftaran]
Fees(s) == [p \in Periods |-> s[p].iuranBulanan]
Paid(s) == [p \in Periods |-> s[p].tabunganDeposito]
Accrued(s) == [p \in Periods |-> s[p].bunga]

\* The payslips s explain a column of the account a.
PartsExplain(s, a) == a.pokok = OpeningAccount.pokok + SumOf(Parts(s))
FeesExplain(s, a) == a.wajib = OpeningAccount.wajib + SumOf(Fees(s))
PaidExplain(s, a) == a.sukarela = OpeningAccount.sukarela + SumOf(Paid(s))
AccruedExplain(s, a) == a.bunga = OpeningAccount.bunga + SumOf(Accrued(s))

LEMMA ColumnTypes ==
  ASSUME NEW s \in [Periods -> Payslip]
  PROVE  /\ IsFiniteSet(Periods)
         /\ Parts(s) \in [Periods -> Int] /\ SumOf(Parts(s)) \in Int
         /\ Fees(s) \in [Periods -> Int] /\ SumOf(Fees(s)) \in Int
         /\ Paid(s) \in [Periods -> Int] /\ SumOf(Paid(s)) \in Int
         /\ Accrued(s) \in [Periods -> Int] /\ SumOf(Accrued(s)) \in Int
<1>1. IsFiniteSet(Periods)
  BY SavingsAssumption
<1>2. \A p \in Periods : s[p] \in Payslip
  OBVIOUS
<1>3. \A row \in Payslip : /\ row.iuranPendaftaran \in Int /\ row.iuranBulanan \in Int
                           /\ row.tabunganDeposito \in Int /\ row.bunga \in Int
  BY DEF Payslip
<1>4. /\ Parts(s) \in [Periods -> Int] /\ Fees(s) \in [Periods -> Int]
      /\ Paid(s) \in [Periods -> Int] /\ Accrued(s) \in [Periods -> Int]
  BY <1>2, <1>3 DEF Parts, Fees, Paid, Accrued
<1>5. QED
  BY <1>1, <1>4, SumOfInt

\* A new payslip for month p adds to every column what it shows more than the old.
ColumnsAdd(s, t, p) ==
  /\ SumOf(Parts(t)) = SumOf(Parts(s)) - s[p].iuranPendaftaran + t[p].iuranPendaftaran
  /\ SumOf(Fees(t)) = SumOf(Fees(s)) - s[p].iuranBulanan + t[p].iuranBulanan
  /\ SumOf(Paid(t)) = SumOf(Paid(s)) - s[p].tabunganDeposito + t[p].tabunganDeposito
  /\ SumOf(Accrued(t)) = SumOf(Accrued(s)) - s[p].bunga + t[p].bunga

LEMMA ColumnsChanged ==
  ASSUME NEW s \in [Periods -> Payslip], NEW t \in [Periods -> Payslip], NEW p \in Periods,
         \A x \in Periods \ {p} : t[x] = s[x]
  PROVE  ColumnsAdd(s, t, p)
<1>1. IsFiniteSet(Periods)
  BY SavingsAssumption
<1>2. SumOf(Parts(t)) = SumOf(Parts(s)) - s[p].iuranPendaftaran + t[p].iuranPendaftaran
  <2>1. PICK f, e : f = Parts(s) /\ e = Parts(t)
    OBVIOUS
  <2>2. f \in [Periods -> Int] /\ e \in [Periods -> Int]
    BY <2>1, ColumnTypes
  <2>3. \A x \in Periods \ {p} : e[x] = f[x]
    BY <2>1 DEF Parts
  <2>4. SumOf(e) = SumOf(f) - f[p] + e[p]
    BY <1>1, <2>2, <2>3, SumOfChanged
  <2>5. f[p] = s[p].iuranPendaftaran /\ e[p] = t[p].iuranPendaftaran
    BY <2>1 DEF Parts
  <2>6. QED
    BY <2>1, <2>4, <2>5
<1>3. SumOf(Fees(t)) = SumOf(Fees(s)) - s[p].iuranBulanan + t[p].iuranBulanan
  <2>1. PICK f, e : f = Fees(s) /\ e = Fees(t)
    OBVIOUS
  <2>2. f \in [Periods -> Int] /\ e \in [Periods -> Int]
    BY <2>1, ColumnTypes
  <2>3. \A x \in Periods \ {p} : e[x] = f[x]
    BY <2>1 DEF Fees
  <2>4. SumOf(e) = SumOf(f) - f[p] + e[p]
    BY <1>1, <2>2, <2>3, SumOfChanged
  <2>5. f[p] = s[p].iuranBulanan /\ e[p] = t[p].iuranBulanan
    BY <2>1 DEF Fees
  <2>6. QED
    BY <2>1, <2>4, <2>5
<1>4. SumOf(Paid(t)) = SumOf(Paid(s)) - s[p].tabunganDeposito + t[p].tabunganDeposito
  <2>1. PICK f, e : f = Paid(s) /\ e = Paid(t)
    OBVIOUS
  <2>2. f \in [Periods -> Int] /\ e \in [Periods -> Int]
    BY <2>1, ColumnTypes
  <2>3. \A x \in Periods \ {p} : e[x] = f[x]
    BY <2>1 DEF Paid
  <2>4. SumOf(e) = SumOf(f) - f[p] + e[p]
    BY <1>1, <2>2, <2>3, SumOfChanged
  <2>5. f[p] = s[p].tabunganDeposito /\ e[p] = t[p].tabunganDeposito
    BY <2>1 DEF Paid
  <2>6. QED
    BY <2>1, <2>4, <2>5
<1>5. SumOf(Accrued(t)) = SumOf(Accrued(s)) - s[p].bunga + t[p].bunga
  <2>1. PICK f, e : f = Accrued(s) /\ e = Accrued(t)
    OBVIOUS
  <2>2. f \in [Periods -> Int] /\ e \in [Periods -> Int]
    BY <2>1, ColumnTypes
  <2>3. \A x \in Periods \ {p} : e[x] = f[x]
    BY <2>1 DEF Accrued
  <2>4. SumOf(e) = SumOf(f) - f[p] + e[p]
    BY <1>1, <2>2, <2>3, SumOfChanged
  <2>5. f[p] = s[p].bunga /\ e[p] = t[p].bunga
    BY <2>1 DEF Accrued
  <2>6. QED
    BY <2>1, <2>4, <2>5
<1>6. QED
  BY <1>2, <1>3, <1>4, <1>5 DEF ColumnsAdd

\* A month of payroll for one member: its payslip explains what was paid into
\* the account also when the month was run before, and the fee and the
\* interest when it was not.
LEMMA MonthExplained ==
  ASSUME NEW a \in AccountRow, NEW s \in [Periods -> Payslip], NEW p \in Periods,
         NEW entrance \in Nat, NEW d \in Nat,
         NEW b, b = AccountAfter(a, entrance, d),
         NEW t, t = [s EXCEPT ![p] = PayslipAfter(@, a, entrance, d)]
  PROVE  /\ PartsExplain(s, a) => PartsExplain(t, b)
         /\ PaidExplain(s, a) => PaidExplain(t, b)
         /\ s[p].iuranBulanan = 0 /\ FeesExplain(s, a) => FeesExplain(t, b)
         /\ s[p].bunga = 0 /\ AccruedExplain(s, a) => AccruedExplain(t, b)
<1>1. PICK slip, i : /\ slip = PayslipAfter(s[p], a, entrance, d)
                     /\ i = MonthInterest(PaidIn(a, entrance, d))
  OBVIOUS
<1>2. s[p] \in Payslip
  OBVIOUS
<1>3. /\ b.pokok = a.pokok + entrance /\ b.wajib = a.wajib + MonthlyFee
      /\ b.sukarela = a.sukarela + d /\ b.bunga = a.bunga + i /\ i \in Int
  BY <1>1, AccountTyped
<1>4. /\ slip \in Payslip
      /\ slip.iuranPendaftaran = s[p].iuranPendaftaran + entrance
      /\ slip.iuranBulanan = MonthlyFee
      /\ slip.tabunganDeposito = s[p].tabunganDeposito + d
      /\ s[p].bunga = 0 => slip.bunga = i
  BY <1>1, <1>2, PayslipTyped
<1>5. slip \in Payslip /\ t = [s EXCEPT ![p] = slip]
  BY <1>1, <1>4
<1>6. t \in [Periods -> Payslip]
  BY <1>5
<1>7. t[p] = slip
  BY <1>5
<1>8. \A x \in Periods \ {p} : t[x] = s[x]
  BY <1>5
<1>9. ColumnsAdd(s, t, p)
  BY <1>6, <1>8, ColumnsChanged
<1>10. /\ SumOf(Parts(s)) \in Int /\ SumOf(Fees(s)) \in Int
       /\ SumOf(Paid(s)) \in Int /\ SumOf(Accrued(s)) \in Int
  BY ColumnTypes
<1>11. /\ a.pokok \in Int /\ a.wajib \in Int /\ a.sukarela \in Int /\ a.bunga \in Int
       /\ OpeningAccount.pokok \in Int /\ OpeningAccount.wajib \in Int
       /\ OpeningAccount.sukarela \in Int /\ OpeningAccount.bunga \in Int
  BY ConstantTypes DEF AccountRow
<1>12. /\ s[p].iuranPendaftaran \in Int /\ s[p].iuranBulanan \in Int
       /\ s[p].tabunganDeposito \in Int /\ s[p].bunga \in Int
  BY <1>2 DEF Payslip
<1>13. PartsExplain(s, a) => PartsExplain(t, b)
  BY <1>3, <1>4, <1>7, <1>9, <1>10, <1>11, <1>12 DEF PartsExplain, ColumnsAdd
<1>14. PaidExplain(s, a) => PaidExplain(t, b)
  BY <1>3, <1>4, <1>7, <1>9, <1>10, <1>11, <1>12 DEF PaidExplain, ColumnsAdd
<1>15. s[p].iuranBulanan = 0 /\ FeesExplain(s, a) => FeesExplain(t, b)
  BY <1>3, <1>4, <1>7, <1>9, <1>10, <1>11, <1>12, ConstantTypes DEF FeesExplain, ColumnsAdd
<1>16. s[p].bunga = 0 /\ AccruedExplain(s, a) => AccruedExplain(t, b)
  BY <1>3, <1>4, <1>7, <1>9, <1>10, <1>11, <1>12 DEF AccruedExplain, ColumnsAdd
<1>17. QED
  BY <1>13, <1>14, <1>15, <1>16

\* No month has been run for a member.
LEMMA NothingExplained ==
  ASSUME NEW s, s = [p \in Periods |-> NoPayslip]
  PROVE  /\ PartsExplain(s, OpeningAccount) /\ FeesExplain(s, OpeningAccount)
         /\ PaidExplain(s, OpeningAccount) /\ AccruedExplain(s, OpeningAccount)
<1>1. /\ DOMAIN Parts(s) = Periods /\ DOMAIN Fees(s) = Periods
      /\ DOMAIN Paid(s) = Periods /\ DOMAIN Accrued(s) = Periods
      /\ \A p \in Periods : /\ Parts(s)[p] = 0 /\ Fees(s)[p] = 0
                            /\ Paid(s)[p] = 0 /\ Accrued(s)[p] = 0
  BY DEF Parts, Fees, Paid, Accrued, NoPayslip
<1>2. /\ SumOf(Parts(s)) = 0 /\ SumOf(Fees(s)) = 0
      /\ SumOf(Paid(s)) = 0 /\ SumOf(Accrued(s)) = 0
  BY <1>1, SumOfZeros, SavingsAssumption
<1>3. QED
  BY <1>2, ConstantTypes
     DEF PartsExplain, FeesExplain, PaidExplain, AccruedExplain, AccountRow

\* Without debits, what the properties say of each member's rows.
LEMMA ExplainedByMember ==
  ASSUME debits = [m \in Members |-> <<>>], TypeOK
  PROVE  /\ (\A m \in Members : PartsExplain(payslip[m], account[m])) => PrincipalBooked
         /\ (\A m \in Members : FeesExplain(payslip[m], account[m])) => MandatoryBooked
         /\ (\A m \in Members : PaidExplain(payslip[m], account[m])) => SavingsBooked
         /\ (\A m \in Members : AccruedExplain(payslip[m], account[m])) => InterestBooked
<1>1. ASSUME NEW m \in Members
      PROVE  /\ SumOf([i \in DOMAIN debits[m] |-> debits[m][i].penarikan]) = 0
             /\ SumOf([i \in DOMAIN debits[m] |-> debits[m][i].bunga]) = 0
  <2>1. DOMAIN debits[m] = {}
    OBVIOUS
  <2>2. QED
    BY <2>1, SumOfNone DEF SumOf
<1>2. ASSUME NEW m \in Members
      PROVE  /\ SumOf(Parts(payslip[m])) \in Int /\ SumOf(Fees(payslip[m])) \in Int
             /\ SumOf(Paid(payslip[m])) \in Int /\ SumOf(Accrued(payslip[m])) \in Int
  BY ColumnTypes DEF TypeOK
<1>3. OpeningAccount.sukarela \in Int /\ OpeningAccount.bunga \in Int
  BY ConstantTypes DEF AccountRow
<1>4. (\A m \in Members : PartsExplain(payslip[m], account[m])) => PrincipalBooked
  BY DEF PartsExplain, PrincipalBooked, OverPeriods, Parts
<1>5. (\A m \in Members : FeesExplain(payslip[m], account[m])) => MandatoryBooked
  BY DEF FeesExplain, MandatoryBooked, OverPeriods, Fees
<1>6. (\A m \in Members : PaidExplain(payslip[m], account[m])) => SavingsBooked
  <2> SUFFICES ASSUME NEW m \in Members, PaidExplain(payslip[m], account[m])
               PROVE  account[m].sukarela = OpeningAccount.sukarela
                        + SumOf(Paid(payslip[m]))
                        - SumOf([i \in DOMAIN debits[m] |-> debits[m][i].penarikan])
    BY DEF SavingsBooked, OverPeriods, OverDebits, Paid
  <2>1. QED
    BY <1>1, <1>2, <1>3 DEF PaidExplain, ColumnsAdd
<1>7. (\A m \in Members : AccruedExplain(payslip[m], account[m])) => InterestBooked
  <2> SUFFICES ASSUME NEW m \in Members, AccruedExplain(payslip[m], account[m])
               PROVE  account[m].bunga = OpeningAccount.bunga
                        + SumOf(Accrued(payslip[m]))
                        + SumOf([i \in DOMAIN debits[m] |-> debits[m][i].bunga])
    BY DEF InterestBooked, OverPeriods, OverDebits, Accrued
  <2>1. QED
    BY <1>1, <1>2, <1>3 DEF AccruedExplain, ColumnsAdd
<1>8. QED
  BY <1>4, <1>5, <1>6, <1>7

-----------------------------------------------------------------------------
(* What the payslips explain, and when.                                    *)

PaymentsInv ==
  "DELETE" \notin irregular =>
    \A m \in Members : /\ PartsExplain(payslip[m], account[m])
                       /\ PaidExplain(payslip[m], account[m])

\* In regular months a run finds its period open, and an open period has no
\* fees and no interest booked yet.
MonthInv ==
  irregular = {} =>
    /\ \A m \in Members : /\ FeesExplain(payslip[m], account[m])
                          /\ AccruedExplain(payslip[m], account[m])
    /\ \A m \in Members : \A p \in Periods :
         period[p] # "PROCESSED" =>
           payslip[m][p].iuranBulanan = 0 /\ payslip[m][p].bunga = 0
    /\ \A r \in Runs : run[r] # Idle => period[run[r].period] = "OPEN"

BooksInv == PaymentsInv /\ MonthInv

LEMMA InitBooks == Init => BooksInv
<1> SUFFICES ASSUME Init
             PROVE  BooksInv
  OBVIOUS
<1>1. \A m \in Members : /\ PartsExplain(payslip[m], account[m])
                         /\ FeesExplain(payslip[m], account[m])
                         /\ PaidExplain(payslip[m], account[m])
                         /\ AccruedExplain(payslip[m], account[m])
  BY NothingExplained DEF Init, SavingsInit
<1>2. QED
  BY <1>1 DEF Init, SavingsInit, BooksInv, PaymentsInv, MonthInv, NoPayslip

\* The transaction of a run, member by member.
LEMMA CommitRunBooks ==
  ASSUME Inv, BooksInv, NEW r \in Runs, CommitRun(r)
  PROVE  BooksInv'
<1>1. PICK p, seen : p = run[r].period /\ seen = run[r].seen
  OBVIOUS
<1>2. run[r].op = "READ" /\ run[r] # Idle
  BY DEF CommitRun, Idle
<1>3. p \in Periods /\ seen \in [Members -> {NotApproved} \cup ApplicationRow]
  BY <1>1, <1>2 DEF Inv, TypeOK, RunRow, Idle
<1>4. /\ account' = [m \in Members |->
           IF Verified(m)
           THEN AccountAfter(account[m], FeeOf(seen[m], p), DepositOf(m, p))
           ELSE account[m]]
      /\ payslip' = [m \in Members |->
           IF Verified(m)
           THEN [payslip[m] EXCEPT ![p] =
                  PayslipAfter(@, account[m], FeeOf(seen[m], p), DepositOf(m, p))]
           ELSE payslip[m]]
      /\ period' = [period EXCEPT ![p] = "PROCESSED"]
      /\ run' = [run EXCEPT ![r] = Idle]
      /\ irregular' = irregular
  BY <1>1 DEF CommitRun
<1>5. ASSUME NEW m \in Members
      PROVE  FeeOf(seen[m], p) \in Nat /\ DepositOf(m, p) \in Nat
  <2>1. Charged(seen[m], p) => seen[m] \in ApplicationRow
    BY <1>3 DEF Charged, NotApproved
  <2>2. FeeOf(seen[m], p) \in Nat
    <3>1. CASE Charged(seen[m], p)
      BY <2>1, <3>1, ApplicationCharged
    <3>2. CASE ~Charged(seen[m], p)
      BY <3>2 DEF FeeOf
    <3>3. QED
      BY <3>1, <3>2
  <2>3. QED
    BY <2>2, ConstantTypes DEF DepositOf
<1>6. ASSUME NEW m \in Members
      PROVE  LET a == account[m]
                 s == payslip[m]
             IN  /\ PartsExplain(s, a) => PartsExplain(s, a)'
                 /\ PaidExplain(s, a) => PaidExplain(s, a)'
                 /\ s[p].iuranBulanan = 0 /\ FeesExplain(s, a) => FeesExplain(s, a)'
                 /\ s[p].bunga = 0 /\ AccruedExplain(s, a) => AccruedExplain(s, a)'
                 /\ \A x \in Periods \ {p} : s'[x] = s[x]
  <2>1. account[m] \in AccountRow /\ payslip[m] \in [Periods -> Payslip]
    BY DEF Inv, TypeOK
  <2>2. PICK a, s, b, t : a = account[m] /\ s = payslip[m] /\ b = account'[m] /\ t = payslip'[m]
    OBVIOUS
  <2>3. CASE Verified(m)
    <3>1. PICK fee \in Nat, d \in Nat : fee = FeeOf(seen[m], p) /\ d = DepositOf(m, p)
      BY <1>5
    <3>2. /\ b = AccountAfter(a, fee, d)
          /\ t = [s EXCEPT ![p] = PayslipAfter(@, a, fee, d)]
      BY <1>4, <2>2, <2>3, <3>1
    <3>3. /\ PartsExplain(s, a) => PartsExplain(t, b)
          /\ PaidExplain(s, a) => PaidExplain(t, b)
          /\ s[p].iuranBulanan = 0 /\ FeesExplain(s, a) => FeesExplain(t, b)
          /\ s[p].bunga = 0 /\ AccruedExplain(s, a) => AccruedExplain(t, b)
      BY <1>3, <2>1, <2>2, <3>2, MonthExplained
    <3>4. \A x \in Periods \ {p} : t[x] = s[x]
      BY <2>1, <2>2, <3>2
    <3>5. QED
      BY <2>2, <3>3, <3>4
         DEF PartsExplain, PaidExplain, FeesExplain, AccruedExplain, Parts, Paid, Fees, Accrued
  <2>4. CASE ~Verified(m)
    <3>1. account'[m] = account[m] /\ payslip'[m] = payslip[m]
      BY <1>4, <2>4
    <3>2. QED
      BY <3>1
         DEF PartsExplain, PaidExplain, FeesExplain, AccruedExplain, Parts, Paid, Fees, Accrued
  <2>5. QED
    BY <2>3, <2>4
<1>7. PaymentsInv'
  BY <1>4, <1>6 DEF BooksInv, PaymentsInv
<1>8. ASSUME irregular = {}
      PROVE  /\ \A m \in Members : /\ FeesExplain(payslip[m], account[m])'
                                   /\ AccruedExplain(payslip[m], account[m])'
             /\ \A m \in Members : \A x \in Periods :
                  period'[x] # "PROCESSED" =>
                    payslip'[m][x].iuranBulanan = 0 /\ payslip'[m][x].bunga = 0
             /\ \A s \in Runs : run'[s] # Idle => period'[run'[s].period] = "OPEN"
  <2>1. period[p] = "OPEN"
    BY <1>1, <1>2, <1>8 DEF BooksInv, MonthInv
  <2>2. \A m \in Members : payslip[m][p].iuranBulanan = 0 /\ payslip[m][p].bunga = 0
    BY <1>3, <1>8, <2>1 DEF BooksInv, MonthInv
  <2>3. \A m \in Members : /\ FeesExplain(payslip[m], account[m])'
                           /\ AccruedExplain(payslip[m], account[m])'
    BY <1>6, <1>8, <2>2 DEF BooksInv, MonthInv
  <2>4. period'[p] = "PROCESSED" /\ \A x \in Periods \ {p} : period'[x] = period[x]
    BY <1>3, <1>4 DEF Inv, TypeOK
  <2>5. \A m \in Members : \A x \in Periods \ {p} : payslip'[m][x] = payslip[m][x]
    BY <1>6
  <2>6. \A s \in Runs : run'[s] = Idle
    BY <1>2, <1>4, <1>8 DEF Inv, TypeOK, FeesInv, OneRun
  <2>7. QED
    BY <1>8, <2>3, <2>4, <2>5, <2>6 DEF BooksInv, MonthInv
<1>9. MonthInv'
  BY <1>4, <1>8 DEF MonthInv
<1>10. QED
  BY <1>7, <1>9 DEF BooksInv

\* A run begins: no other is under way in a regular month, which is not processed.
LEMMA BeginRunBooks ==
  ASSUME Inv, BooksInv, NEW r \in Runs, NEW p \in Periods, NEW force \in Forcing,
         BeginRun(r, p, force)
  PROVE  BooksInv'
<1>1. PICK q : q = [op |-> "CHECKED", period |-> p]
  OBVIOUS
<1>2. /\ run' = [run EXCEPT ![r] = q] /\ q.period = p
      /\ period' = [period EXCEPT ![p] = "OPEN"] /\ NoteRun(p)
      /\ UNCHANGED <<account, payslip>>
  BY <1>1 DEF BeginRun, savingsVars
<1>3. PaymentsInv'
  BY <1>2 DEF BooksInv, PaymentsInv, NoteRun, PartsExplain, PaidExplain, Parts, Paid
<1>4. ASSUME irregular' = {}
      PROVE  irregular = {} /\ (\A s \in Runs : run[s] = Idle) /\ period[p] # "PROCESSED"
  BY <1>2, <1>4 DEF NoteRun
<1>5. ASSUME irregular' = {}
      PROVE  \A s \in Runs : run'[s] # Idle => period'[run'[s].period] = "OPEN"
  <2>1. \A s \in Runs : run'[s] # Idle => run'[s] = q
    BY <1>2, <1>4, <1>5 DEF Inv, TypeOK
  <2>2. QED
    BY <1>2, <2>1 DEF Inv, TypeOK
<1>6. ASSUME irregular' = {}
      PROVE  \A m \in Members : \A x \in Periods :
               period'[x] # "PROCESSED" =>
                 payslip'[m][x].iuranBulanan = 0 /\ payslip'[m][x].bunga = 0
  BY <1>2, <1>4, <1>6 DEF Inv, TypeOK, BooksInv, MonthInv
<1>7. ASSUME irregular' = {}
      PROVE  \A m \in Members : /\ FeesExplain(payslip[m], account[m])'
                                /\ AccruedExplain(payslip[m], account[m])'
  BY <1>2, <1>4, <1>7 DEF BooksInv, MonthInv, FeesExplain, AccruedExplain, Fees, Accrued
<1>8. MonthInv'
  BY <1>5, <1>6, <1>7 DEF MonthInv
<1>9. QED
  BY <1>3, <1>8 DEF BooksInv

\* Steps that book nothing and open no period.
LEMMA NothingBooked ==
  ASSUME Inv, BooksInv, UNCHANGED <<account, payslip, period, irregular>>,
         \A s \in Runs : run'[s] # Idle => run[s] # Idle /\ run'[s].period = run[s].period
  PROVE  BooksInv'
  BY DEF BooksInv, PaymentsInv, MonthInv, PartsExplain, PaidExplain, FeesExplain,
         AccruedExplain, Parts, Paid, Fees, Accrued

LEMMA BooksStep == Inv /\ BooksInv /\ [Next]_vars => BooksInv'
<1> SUFFICES ASSUME Inv, BooksInv, [Next]_vars
             PROVE  BooksInv'
  OBVIOUS
<1>1. CASE UNCHANGED vars
  BY <1>1, NothingBooked DEF vars, savingsVars, payrollVars
<1>2. ASSUME NEW m \in Members, NEW p \in Periods, NEW plan \in Plans,
             ApproveMember(m, plan, p)
      PROVE  BooksInv'
  BY <1>2, NothingBooked DEF ApproveMember, savingsVars
<1>3. ASSUME NEW m \in Members, NEW p \in Periods, ApproveDeposit(m, p)
      PROVE  BooksInv'
  BY <1>3, NothingBooked DEF ApproveDeposit, savingsVars
<1>4. ASSUME NEW r \in Runs, NEW p \in Periods, NEW force \in Forcing,
             BeginRun(r, p, force)
      PROVE  BooksInv'
  BY <1>4, BeginRunBooks
<1>5. ASSUME NEW r \in Runs, ReadApplications(r)
      PROVE  BooksInv'
  <2>1. PICK q : q = [op |-> "READ", period |-> run[r].period, seen |-> application]
    OBVIOUS
  <2>2. run' = [run EXCEPT ![r] = q] /\ q.period = run[r].period /\ run[r] # Idle
    BY <1>5, <2>1 DEF ReadApplications, Idle
  <2>3. \A s \in Runs : run'[s] # Idle => run[s] # Idle /\ run'[s].period = run[s].period
    BY <2>2 DEF Inv, TypeOK
  <2>4. QED
    BY <1>5, <2>3, NothingBooked DEF ReadApplications, savingsVars
<1>6. ASSUME NEW r \in Runs, FailRun(r)
      PROVE  BooksInv'
  <2>1. \A s \in Runs : run'[s] # Idle => run[s] # Idle /\ run'[s].period = run[s].period
    BY <1>6 DEF FailRun, Inv, TypeOK
  <2>2. QED
    BY <1>6, <2>1, NothingBooked DEF FailRun, savingsVars
<1>7. ASSUME NEW r \in Runs, CommitRun(r)
      PROVE  BooksInv'
  BY <1>7, CommitRunBooks
<1>8. ASSUME NEW p \in Deletable, DeletePeriod(p)
      PROVE  BooksInv'
  BY <1>8 DEF DeletePeriod, BooksInv, PaymentsInv, MonthInv
<1>9. QED
  BY <1>1, <1>2, <1>3, <1>4, <1>5, <1>6, <1>7, <1>8 DEF Next

-----------------------------------------------------------------------------
\* What payroll collects is exact, for any fee, amounts, tenors, months and
\* members, however many months are forced or deleted: the deposits even when
\* runs of processPayroll overlap, the entrance fee when none do.
THEOREM ChargesAreExact == Spec => []ChargesExact
<1>1. Inv => ChargesExact
  BY DEF Inv, FeesInv, FeePaid, ChargesExact, EntranceFeeExact
<1>2. QED
  BY InitInv, NextInv, <1>1, PTL DEF Spec

\* The rows keep their types: no payment becomes negative, no count of a
\* deposit passes its tenor.
THEOREM RowsKeepTypes == Spec => []TypeOK
<1>1. Inv => TypeOK
  BY DEF Inv
<1>2. QED
  BY InitInv, NextInv, <1>1, PTL DEF Spec

\* The payslips explain what processPayroll paid into the principal and the
\* voluntary savings, whatever months are forced and however runs overlap, as
\* long as deletePeriod has not taken payslips away.
THEOREM PaymentsAreExplained == Spec => []PaymentsExplained
<1>1. Inv /\ BooksInv => PaymentsExplained
  BY ExplainedByMember DEF Inv, TypeOK, BooksInv, PaymentsInv, PaymentsExplained
<1>2. QED
  BY InitInv, NextInv, InitBooks, BooksStep, <1>1, PTL DEF Spec

\* A month that is neither forced nor deleted, and whose runs do not overlap,
\* charges every member one monthly fee and adds one month of interest,
\* however often its run fails and is started again.
THEOREM MonthIsChargedOnce == Spec => []MonthChargedOnce
<1>1. Inv /\ BooksInv => MonthChargedOnce
  BY ExplainedByMember DEF Inv, TypeOK, BooksInv, MonthInv, MonthChargedOnce
<1>2. QED
  BY InitInv, NextInv, InitBooks, BooksStep, <1>1, PTL DEF Spec

-----------------------------------------------------------------------------
(* The social fund, into which payroll pays the installments of excess     *)
(* loans back: for any amounts, rows and transactions.                     *)

Ledgers == [Ids -> {NoRow} \cup LedgerRow]

\* What each row means for the fund, nothing where there is none.
Effects(led) ==
  [j \in Ids |-> IF led[j] = NoRow THEN 0 ELSE Signed(led[j])]

BalanceUpTo(led, k) == SumOver(Effects(led), 1 .. k)

Undisbursed(led) == \A j \in Ids : led[j].type # "EXCESS_LOAN_DISBURSEMENT"

RowExact(led, k) == led[k] # NoRow => led[k].balanceAfter = BalanceUpTo(led, k)

\* What a transaction has checked of what it has read, whatever was written
\* since.
Checked(q) ==
  /\ q.op = "INSERT" => BalanceAfterInsert(q) >= 0
  /\ q.op = "UPDATE" => /\ q.row.type = "INITIAL_BALANCE"
                        /\ q.balance + q.amount - q.row.amount >= 0
  /\ q.op = "DELETE" => \/ q.row.type = "SANTUNAN"
                        \/ /\ q.row.type = "INITIAL_BALANCE"
                           /\ q.balance - q.row.amount >= 0

FundSound ==
  /\ FundTypeOK
  /\ \A k \in Ids : k > created => ledger[k] = NoRow
  /\ \A r \in Requests : request[r] # NoRequest => Checked(request[r])

\* As long as no two transactions overlap, the one there is has read what is
\* there, and each row that no disbursement comes before is exact.
ReadIsCurrent(q) ==
  /\ q.balance = balance
  /\ q.op \in {"UPDATE", "DELETE"} => q.row = ledger[q.id]

FundExact ==
  ~overlapped =>
    /\ \A r, s \in Requests : request[r] # NoRequest /\ request[s] # NoRequest => r = s
    /\ \A r \in Requests : request[r] # NoRequest => ReadIsCurrent(request[r])
    /\ balance = BalanceUpTo(ledger, MaxRows)
    /\ Undisbursed(ledger) => \A k \in Ids : RowExact(ledger, k)

-----------------------------------------------------------------------------
(* What the rows add up to.                                                *)

LEMMA RowsOrNone ==
  ASSUME NEW led \in Ledgers, NEW k \in Ids
  PROVE  /\ led[k] = NoRow <=> led[k] \notin LedgerRow
         /\ led[k] = NoRow <=> led[k].type = "NO_ROW"
  BY DEF Ledgers, LedgerRow, NoRow, Types

LEMMA EffectsInt ==
  ASSUME NEW led \in Ledgers
  PROVE  /\ Effects(led) \in [Ids -> Int]
         /\ \A k \in Ids : led[k] \in LedgerRow =>
              Signed(led[k]) \in Int /\ RecalculatedSign(led[k]) \in Int
<1>1. ASSUME NEW k \in Ids, led[k] \in LedgerRow
      PROVE  Signed(led[k]) \in Int /\ RecalculatedSign(led[k]) \in Int
  <2>1. led[k].amount \in Nat
    BY <1>1 DEF LedgerRow
  <2> QED
    BY <2>1 DEF Signed, RecalculatedSign
<1> QED
  BY <1>1, RowsOrNone DEF Effects

LEMMA IdsUpTo ==
  ASSUME MaxRows \in Nat
  PROVE  /\ \A i, k \in Int : IsFiniteSet(i .. k)
         /\ \A k \in 0 .. MaxRows : 1 .. k \subseteq Ids
         /\ \A i \in 0 .. MaxRows : \A k \in 0 .. MaxRows :
              i + 1 .. k \subseteq Ids
<1>1. \A i, k \in Int : IsFiniteSet(i .. k)
  BY FS_Interval
<1> QED
  BY <1>1 DEF Ids

LEMMA BalanceInt ==
  ASSUME MaxRows \in Nat, NEW led \in Ledgers, NEW k \in 0 .. MaxRows
  PROVE  BalanceUpTo(led, k) \in Int
<1>1. IsFiniteSet(1 .. k) /\ \A x \in 1 .. k : Effects(led)[x] \in Int
  BY IdsUpTo, EffectsInt
<1> QED
  BY <1>1, SumInt DEF BalanceUpTo

\* The rows after row i.
LEMMA BalanceSplit ==
  ASSUME MaxRows \in Nat, NEW led \in Ledgers,
         NEW k \in 0 .. MaxRows, NEW i \in 0 .. k
  PROVE  BalanceUpTo(led, k) = BalanceUpTo(led, i) + SumOver(Effects(led), i + 1 .. k)
<1>1. PICK S, T : S = 1 .. i /\ T = i + 1 .. k
  OBVIOUS
<1>2. S \cap T = {} /\ S \cup T = 1 .. k
  BY <1>1
<1>3. IsFiniteSet(S) /\ IsFiniteSet(T)
  BY <1>1, IdsUpTo
<1>4. \A x \in S \cup T : Effects(led)[x] \in Int
  BY <1>2, IdsUpTo, EffectsInt
<1>5. SumOver(Effects(led), S \cup T) = SumOver(Effects(led), S) + SumOver(Effects(led), T)
  BY <1>2, <1>3, <1>4, SumUnion
<1> QED
  BY <1>1, <1>2, <1>5 DEF BalanceUpTo

\* Where there is no row nothing is added.
LEMMA NoRowsBetween ==
  ASSUME MaxRows \in Nat, NEW led \in Ledgers,
         NEW k \in 0 .. MaxRows, NEW i \in 0 .. k,
         \A j \in i + 1 .. k : led[j] = NoRow
  PROVE  BalanceUpTo(led, k) = BalanceUpTo(led, i)
<1>1. PICK T : T = i + 1 .. k
  OBVIOUS
<1>2. IsFiniteSet(T) /\ \A j \in T : Effects(led)[j] = 0
  BY <1>1, IdsUpTo DEF Effects
<1>3. SumOver(Effects(led), T) = 0
  BY <1>2, SumZeros
<1>4. BalanceUpTo(led, i) \in Int
  BY BalanceInt
<1> QED
  BY <1>1, <1>3, <1>4, BalanceSplit

LEMMA BalanceOfNone ==
  ASSUME NEW led
  PROVE  BalanceUpTo(led, 0) = 0
<1>1. 1 .. 0 = {}
  OBVIOUS
<1> QED
  BY <1>1, SumOfNone DEF BalanceUpTo

\* The sums of the specification are over the rows there are.
LEMMA SumOfRows ==
  ASSUME MaxRows \in Nat, NEW led \in Ledgers, NEW k \in 0 .. MaxRows, NEW i \in 0 .. MaxRows,
         NEW f, \A j \in Rows(led) \cap (i + 1) .. k : f[j] = Signed(led[j])
  PROVE  SumOver(Effects(led), i + 1 .. k) = SumOver(f, Rows(led) \cap (i + 1) .. k)
<1>1. PICK S, T : S = i + 1 .. k /\ T = Rows(led) \cap (i + 1) .. k
  OBVIOUS
<1>2. IsFiniteSet(S) /\ T \in SUBSET S /\ S \subseteq Ids
  BY <1>1, IdsUpTo
<1>3. \A j \in S : Effects(led)[j] \in Int
  BY <1>2, EffectsInt
<1>4. \A j \in T : f[j] = Effects(led)[j]
  BY <1>1, <1>2 DEF Effects, Rows
<1>5. \A j \in S \ T : Effects(led)[j] = 0
  BY <1>1, <1>2 DEF Effects, Rows
<1>6. SumOver(Effects(led), S) = SumOver(f, T)
  BY <1>2, <1>3, <1>4, <1>5, SumSupport
<1> QED
  BY <1>1, <1>6

LEMMA SumUpToIsBalance ==
  ASSUME MaxRows \in Nat, ledger \in Ledgers, NEW k \in 0 .. MaxRows
  PROVE  SumUpTo(k) = BalanceUpTo(ledger, k)
<1>1. PICK f : f = [j \in Rows(ledger) |-> Signed(ledger[j])]
  OBVIOUS
<1>2. PICK z \in 0 .. MaxRows : z = 0
  OBVIOUS
<1>3. SumOver(Effects(ledger), z + 1 .. k) = SumOver(f, Rows(ledger) \cap (z + 1) .. k)
  BY <1>1, SumOfRows
<1>4. z + 1 = 1
  BY <1>2
<1>5. SumOver(Effects(ledger), 1 .. k) = SumOver(f, Rows(ledger) \cap 1 .. k)
  BY <1>3, <1>4
<1> QED
  BY <1>1, <1>5 DEF BalanceUpTo, SumUpTo

\* One row changes.
LEMMA RowChanged ==
  ASSUME MaxRows \in Nat, NEW led \in Ledgers, NEW new \in Ledgers, NEW i \in Ids,
         \A j \in Ids \ {i} : Effects(new)[j] = Effects(led)[j],
         NEW k \in 0 .. MaxRows
  PROVE  BalanceUpTo(new, k) =
           IF k < i THEN BalanceUpTo(led, k)
                    ELSE BalanceUpTo(led, k) - Effects(led)[i] + Effects(new)[i]
<1>1. PICK S, e, f : S = 1 .. k /\ f = Effects(led) /\ e = Effects(new)
  OBVIOUS
<1>2. IsFiniteSet(S) /\ S \subseteq Ids /\ (i \in S <=> ~(k < i))
  BY <1>1, IdsUpTo DEF Ids
<1>3. \A j \in S : f[j] \in Int
  BY <1>1, <1>2, EffectsInt
<1>4. e[i] \in Int
  BY <1>1, EffectsInt
<1>5. \A j \in S \ {i} : e[j] = f[j]
  BY <1>1, <1>2
<1>6. CASE i \in S
  <2>1. SumOver(e, S) = SumOver(f, S) - f[i] + e[i]
    BY <1>2, <1>3, <1>4, <1>5, <1>6, SumChanged
  <2> QED
    BY <1>1, <1>2, <1>6, <2>1 DEF BalanceUpTo
<1>7. CASE i \notin S
  <2>1. SumOver(e, S) = SumOver(f, S)
    BY <1>2, <1>5, <1>7, SumOfEqual
  <2> QED
    BY <1>1, <1>2, <1>7, <2>1 DEF BalanceUpTo
<1> QED
  BY <1>6, <1>7

LEMMA SameEffects ==
  ASSUME NEW led, NEW new, Effects(new) = Effects(led), NEW k
  PROVE  BalanceUpTo(new, k) = BalanceUpTo(led, k)
  BY DEF BalanceUpTo
-----------------------------------------------------------------------------
(* What recalculating does.                                                *)

\* Where the running balances start: with the last row before.
LEMMA LastBefore ==
  ASSUME MaxRows \in Nat, NEW led \in Ledgers, NEW i \in Ids,
         NEW before, before = Rows(led) \cap 1 .. i, before # {}
  PROVE  /\ Max(before) \in Ids /\ Max(before) <= i
         /\ led[Max(before)] \in LedgerRow
         /\ \A j \in Max(before) + 1 .. i : led[j] = NoRow
<1>1. i \in 0 .. MaxRows /\ before \subseteq 1 .. i /\ before \subseteq Ids
  BY IdsUpTo DEF Ids
<1>2. IsFiniteSet(before) /\ before \in SUBSET Int
  BY <1>1, IdsUpTo, FS_Subset
<1>3. PICK m : m = Max(before)
  OBVIOUS
<1>4. m \in before /\ \A y \in before : y <= m
  BY <1>2, <1>3, MaxOfFinite
<1>5. m \in Ids /\ m <= i /\ led[m] \in LedgerRow
  BY <1>1, <1>4, RowsOrNone DEF Rows
<1>6. ASSUME NEW j \in m + 1 .. i
      PROVE  led[j] = NoRow
  <2>1. j \in Ids /\ j \in 1 .. i /\ ~(j <= m)
    BY <1>5 DEF Ids
  <2>2. j \notin before
    BY <1>4, <2>1
  <2> QED
    BY <2>1, <2>2 DEF Rows
<1> QED
  BY <1>3, <1>5, <1>6

\* The balance that recalculating writes in row k.
NewBalance(led, i, k) ==
  (IF Rows(led) \cap 1 .. i = {} THEN 0
   ELSE led[Max(Rows(led) \cap 1 .. i)].balanceAfter)
    + SumOver([j \in Rows(led) |-> RecalculatedSign(led[j])],
              Rows(led) \cap (i + 1) .. k)

LEMMA RecalculatedRow ==
  ASSUME NEW led, NEW i, NEW k \in Ids
  PROVE  Recalculate(led, i)[k] =
           IF k <= i \/ led[k] = NoRow THEN led[k]
           ELSE [led[k] EXCEPT !.balanceAfter = NewBalance(led, i, k)]
  BY DEF Recalculate, RecalculatedBetween, NewBalance

LEMMA NewBalanceInt ==
  ASSUME MaxRows \in Nat, NEW led \in Ledgers, NEW i \in Ids, NEW k \in Ids
  PROVE  NewBalance(led, i, k) \in Int
<1>1. PICK f, T : /\ f = [j \in Rows(led) |-> RecalculatedSign(led[j])]
                  /\ T = Rows(led) \cap (i + 1) .. k
  OBVIOUS
<1>2. i \in 0 .. MaxRows /\ k \in 0 .. MaxRows
  BY DEF Ids
<1>3. IsFiniteSet(T)
  BY <1>1, <1>2, IdsUpTo, FS_Subset
<1>4. \A j \in T : f[j] \in Int
  BY <1>1, RowsOrNone, EffectsInt DEF Rows
<1>5. SumOver(f, T) \in Int
  BY <1>3, <1>4, SumInt
<1>6. PICK start : start = IF Rows(led) \cap 1 .. i = {} THEN 0
                           ELSE led[Max(Rows(led) \cap 1 .. i)].balanceAfter
  OBVIOUS
<1>7. start \in Int
  BY <1>6, LastBefore DEF LedgerRow
<1> QED
  BY <1>1, <1>5, <1>6, <1>7 DEF NewBalance

LEMMA Recalculated ==
  ASSUME MaxRows \in Nat, NEW led \in Ledgers, NEW i \in Ids,
         NEW new, new = Recalculate(led, i)
  PROVE  /\ new \in Ledgers /\ Effects(new) = Effects(led)
         /\ \A k \in Ids : new[k].type = led[k].type
         /\ \A k \in Ids : new[k] = NoRow <=> led[k] = NoRow
         /\ \A k \in Ids : k <= i => new[k] = led[k]
<1>1. DOMAIN new = Ids /\ new = [k \in Ids |-> new[k]]
  BY DEF Recalculate
<1> DEFINE row(k) == [led[k] EXCEPT !.balanceAfter = NewBalance(led, i, k)]
<1>0. \A k \in Ids :
        new[k] = IF k <= i \/ led[k] = NoRow THEN led[k] ELSE row(k)
  BY RecalculatedRow
<1> HIDE DEF row
<1>2. ASSUME NEW k \in Ids
      PROVE  /\ new[k] \in {NoRow} \cup LedgerRow
             /\ new[k].type = led[k].type /\ (new[k] = NoRow <=> led[k] = NoRow)
             /\ Effects(new)[k] = Effects(led)[k]
             /\ k <= i => new[k] = led[k]
  <2>1. CASE k <= i \/ led[k] = NoRow
    <3>1. new[k] = led[k]
      BY <1>0, <2>1
    <3> QED
      BY <3>1 DEF Ledgers, Effects
  <2>2. CASE ~(k <= i \/ led[k] = NoRow)
    <3>1. PICK b \in Int : b = NewBalance(led, i, k)
      BY NewBalanceInt
    <3>2. new[k] = [led[k] EXCEPT !.balanceAfter = b]
      BY <1>0, <2>2, <3>1 DEF row
    <3>3. led[k] \in LedgerRow
      BY <2>2, RowsOrNone
    <3>4. /\ new[k] \in LedgerRow
          /\ new[k].type = led[k].type /\ new[k].amount = led[k].amount
      BY <3>2, <3>3 DEF LedgerRow
    <3>5. new[k] # NoRow
      BY <3>4 DEF LedgerRow, NoRow, Types
    <3> QED
      BY <2>2, <3>4, <3>5 DEF Effects, Signed
  <2> QED
    BY <2>1, <2>2
<1>3. new \in Ledgers
  BY <1>1, <1>2 DEF Ledgers
<1>4. Effects(new) = Effects(led)
  BY <1>2 DEF Effects
<1> QED
  BY <1>2, <1>3, <1>4

\* Without disbursements, rows that are exact up to row i are exact after it
\* has been recalculated from there.
LEMMA RecalculatedExact ==
  ASSUME MaxRows \in Nat, NEW led \in Ledgers, NEW i \in Ids,
         NEW new, new = Recalculate(led, i),
         Undisbursed(led), \A k \in Ids : k <= i => RowExact(led, k),
         NEW k \in Ids
  PROVE  RowExact(new, k)
<1>1. BalanceUpTo(new, k) = BalanceUpTo(led, k)
  BY Recalculated, SameEffects
<1>2. CASE k <= i
  BY <1>1, <1>2, Recalculated DEF RowExact
<1>3. CASE ~(k <= i) /\ led[k] # NoRow
  <2>1. i \in 0 .. MaxRows /\ k \in 0 .. MaxRows /\ i \in 0 .. k
    BY <1>3 DEF Ids
  <2>2. PICK before : before = Rows(led) \cap 1 .. i
    OBVIOUS
  <2>3. PICK start : start = IF before = {} THEN 0 ELSE led[Max(before)].balanceAfter
    OBVIOUS
  <2>4. start = BalanceUpTo(led, i)
    <3>1. CASE before = {}
      <4>1. PICK z \in 0 .. i : z = 0
        BY <2>1
      <4>2. \A j \in z + 1 .. i : led[j] = NoRow
        BY <2>1, <2>2, <3>1, <4>1 DEF Rows, Ids
      <4>3. BalanceUpTo(led, i) = BalanceUpTo(led, z)
        BY <2>1, <4>2, NoRowsBetween
      <4> QED
        BY <2>3, <3>1, <4>1, <4>3, BalanceOfNone
    <3>2. CASE before # {}
      <4>1. PICK m : m = Max(before)
        OBVIOUS
      <4>2. /\ m \in Ids /\ m <= i /\ led[m] \in LedgerRow
            /\ \A j \in m + 1 .. i : led[j] = NoRow
        BY <2>2, <3>2, <4>1, LastBefore
      <4>3. led[m].balanceAfter = BalanceUpTo(led, m)
        BY <4>2, RowsOrNone DEF RowExact
      <4>4. m \in 0 .. i
        BY <2>1, <4>2 DEF Ids
      <4>5. BalanceUpTo(led, i) = BalanceUpTo(led, m)
        BY <2>1, <4>2, <4>4, NoRowsBetween
      <4> QED
        BY <2>3, <3>2, <4>1, <4>3, <4>5
    <3> QED
      BY <3>1, <3>2
  <2>5. PICK f : f = [j \in Rows(led) |-> RecalculatedSign(led[j])]
    OBVIOUS
  <2>6. \A j \in Rows(led) \cap (i + 1) .. k : f[j] = Signed(led[j])
    <3> SUFFICES ASSUME NEW j \in Rows(led)
                 PROVE  f[j] = Signed(led[j])
      OBVIOUS
    <3>1. j \in Ids /\ led[j].type # "EXCESS_LOAN_DISBURSEMENT"
      BY DEF Rows, Undisbursed
    <3> QED
      BY <2>5, <3>1 DEF Signed, RecalculatedSign
  <2>7. SumOver(Effects(led), i + 1 .. k) = SumOver(f, Rows(led) \cap (i + 1) .. k)
    BY <2>1, <2>6, SumOfRows
  <2>8. NewBalance(led, i, k) = start + SumOver(Effects(led), i + 1 .. k)
    BY <2>2, <2>3, <2>5, <2>7 DEF NewBalance
  <2>9. BalanceUpTo(led, k) = BalanceUpTo(led, i) + SumOver(Effects(led), i + 1 .. k)
    BY <2>1, BalanceSplit
  <2>10. NewBalance(led, i, k) = BalanceUpTo(led, k)
    BY <2>4, <2>8, <2>9
  <2>11. new[k] = [led[k] EXCEPT !.balanceAfter = NewBalance(led, i, k)]
    BY <1>3, RecalculatedRow
  <2>12. new[k].balanceAfter = NewBalance(led, i, k)
    <3>1. led[k] \in LedgerRow
      BY <1>3, RowsOrNone
    <3> QED
      BY <2>11, <3>1 DEF LedgerRow
  <2> QED
    BY <1>1, <2>10, <2>12 DEF RowExact
<1>4. CASE ~(k <= i) /\ led[k] = NoRow
  BY <1>4, Recalculated DEF RowExact
<1> QED
  BY <1>2, <1>3, <1>4
-----------------------------------------------------------------------------
(* Steps.                                                                  *)

FundInv == FundSound /\ FundExact

LEMMA FundInitially == FundInit => FundInv
<1> SUFFICES ASSUME FundInit
             PROVE  FundInv
  OBVIOUS
<1>1. MaxRows \in Nat
  BY FundAssumption
<1>2. ledger \in Ledgers /\ \A k \in Ids : ledger[k] = NoRow
  BY DEF FundInit, Ledgers
<1>3. FundSound
  <2>1. request \in [Requests -> {NoRequest} \cup RequestRow]
        /\ \A r \in Requests : request[r] = NoRequest
    BY DEF FundInit
  <2>2. balance \in Nat /\ created \in 0 .. MaxRows
    <3>1. balance = 0 /\ created = 0
      BY DEF FundInit
    <3> QED
      BY <1>1, <3>1
  <2>3. overlapped \in BOOLEAN
    BY DEF FundInit
  <2> QED
    BY <1>2, <2>1, <2>2, <2>3 DEF FundSound, FundTypeOK, Ledgers
<1>4. balance = BalanceUpTo(ledger, MaxRows)
  <2>1. PICK z \in 0 .. MaxRows : z = 0
    BY <1>1
  <2>2. MaxRows \in 0 .. MaxRows /\ \A j \in z + 1 .. MaxRows : ledger[j] = NoRow
    BY <1>1, <1>2, <2>1 DEF Ids
  <2>3. BalanceUpTo(ledger, MaxRows) = BalanceUpTo(ledger, z)
    BY <1>1, <1>2, <2>1, <2>2, NoRowsBetween
  <2> QED
    BY <2>1, <2>3, BalanceOfNone DEF FundInit
<1>5. FundExact
  BY <1>2, <1>4 DEF FundInit, FundExact, RowExact
<1> QED
  BY <1>3, <1>5 DEF FundInv

\* What a transaction that begins has read and checked.
LEMMA FundBegins ==
  ASSUME FundSound, NEW r \in Requests, Begin(r)
  PROVE  \E q : /\ q \in RequestRow /\ Checked(q) /\ ReadIsCurrent(q)
                /\ Enter(r, q)
<1>1. balance \in Nat /\ ledger \in Ledgers
  BY DEF FundSound, FundTypeOK, Ledgers
<1>2. \A amount \in Amounts \cup LoanAmounts : amount \in Nat \ {0}
  BY FundAssumption
<1>3. ASSUME NEW i \in Ids, NEW type \in {"INITIAL_BALANCE", "SANTUNAN"},
             ledger[i].type = type
      PROVE  ledger[i] \in LedgerRow /\ ledger[i].amount \in Nat \ {0}
  BY <1>1, <1>3, RowsOrNone DEF LedgerRow
<1>4. ASSUME NEW amount \in Amounts \cup LoanAmounts, NEW type \in Types,
             \/ BeginAdd(r, type, amount) /\ type \in {"INITIAL_BALANCE", "EXCESS_LOAN_REPAYMENT"}
             \/ BeginTake(r, type, amount)
      PROVE  \E q : /\ q \in RequestRow /\ Checked(q) /\ ReadIsCurrent(q)
                    /\ Enter(r, q)
  <2>1. PICK q : q = [op |-> "INSERT", type |-> type, amount |-> amount, balance |-> balance]
    OBVIOUS
  <2>2. Enter(r, q)
    BY <1>4, <2>1 DEF BeginAdd, BeginTake
  <2>3. q \in RequestRow
    BY <1>1, <1>2, <2>1 DEF RequestRow
  <2>4. q.op = "INSERT" /\ q.balance = balance /\ q.amount = amount /\ q.type = type
    BY <2>1
  <2>5. amount <= balance \/ type \in {"INITIAL_BALANCE", "EXCESS_LOAN_REPAYMENT"}
    BY <1>4 DEF BeginTake
  <2>6. BalanceAfterInsert(q) >= 0
    BY <1>1, <1>2, <2>4, <2>5 DEF BalanceAfterInsert
  <2>7. Checked(q) /\ ReadIsCurrent(q)
    BY <2>4, <2>6 DEF Checked, ReadIsCurrent
  <2> QED
    BY <2>2, <2>3, <2>7
<1>5. ASSUME NEW i \in Ids, NEW amount \in Amounts, BeginUpdate(r, i, amount)
      PROVE  \E q : /\ q \in RequestRow /\ Checked(q) /\ ReadIsCurrent(q)
                    /\ Enter(r, q)
  <2>1. PICK q : q = [op |-> "UPDATE", id |-> i, row |-> ledger[i], amount |-> amount,
                      balance |-> balance]
    OBVIOUS
  <2>2. /\ Enter(r, q)
        /\ ledger[i].type = "INITIAL_BALANCE" /\ balance + amount - ledger[i].amount >= 0
    BY <1>5, <2>1 DEF BeginUpdate
  <2>3. q \in RequestRow
    BY <1>1, <1>2, <1>3, <2>1, <2>2 DEF RequestRow
  <2>4. /\ q.op = "UPDATE" /\ q.balance = balance /\ q.amount = amount
        /\ q.row = ledger[i] /\ q.id = i
    BY <2>1
  <2>5. Checked(q) /\ ReadIsCurrent(q)
    BY <2>2, <2>4 DEF Checked, ReadIsCurrent
  <2> QED
    BY <2>2, <2>3, <2>5
<1>6. ASSUME NEW i \in Ids,
             BeginDeleteInitial(r, i) \/ BeginDeleteSantunan(r, i)
      PROVE  \E q : /\ q \in RequestRow /\ Checked(q) /\ ReadIsCurrent(q)
                    /\ Enter(r, q)
  <2>1. PICK q : q = [op |-> "DELETE", id |-> i, row |-> ledger[i],
                      amount |-> ledger[i].amount, balance |-> balance]
    OBVIOUS
  <2>2. /\ Enter(r, q)
        /\ \/ ledger[i].type = "SANTUNAN"
           \/ ledger[i].type = "INITIAL_BALANCE" /\ balance - ledger[i].amount >= 0
    BY <1>6, <2>1 DEF BeginDeleteInitial, BeginDeleteSantunan
  <2>3. q \in RequestRow
    BY <1>1, <1>3, <2>1, <2>2 DEF RequestRow
  <2>4. /\ q.op = "DELETE" /\ q.balance = balance
        /\ q.row = ledger[i] /\ q.id = i
    BY <2>1
  <2>5. Checked(q) /\ ReadIsCurrent(q)
    BY <2>2, <2>4 DEF Checked, ReadIsCurrent
  <2> QED
    BY <2>2, <2>3, <2>5
<1>7. \A type \in {"INITIAL_BALANCE", "EXCESS_LOAN_REPAYMENT", "SANTUNAN",
                   "EXCESS_LOAN_DISBURSEMENT"} : type \in Types
  BY DEF Types
<1>8. CASE \E amount \in Amounts :
             \/ BeginAdd(r, "INITIAL_BALANCE", amount)
             \/ BeginTake(r, "SANTUNAN", amount)
             \/ \E i \in Ids : BeginUpdate(r, i, amount)
  BY <1>4, <1>5, <1>7, <1>8
<1>9. CASE \E amount \in LoanAmounts :
             \/ BeginAdd(r, "EXCESS_LOAN_REPAYMENT", amount)
             \/ BeginTake(r, "EXCESS_LOAN_DISBURSEMENT", amount)
  BY <1>4, <1>7, <1>9
<1>10. CASE \E i \in Ids : BeginDeleteInitial(r, i) \/ BeginDeleteSantunan(r, i)
  BY <1>6, <1>10
<1> QED
  BY <1>8, <1>9, <1>10 DEF Begin

LEMMA FundEntered ==
  ASSUME FundInv, NEW r \in Requests, NEW q, q \in RequestRow, Checked(q),
         ReadIsCurrent(q), Enter(r, q)
  PROVE  FundInv'
<1>1. /\ request' = [request EXCEPT ![r] = q]
      /\ overlapped' = (overlapped \/ \E s \in Requests : request[s] # NoRequest)
      /\ UNCHANGED <<balance, ledger, created>>
  BY DEF Enter
<1>2. request \in [Requests -> {NoRequest} \cup RequestRow]
  BY DEF FundInv, FundSound, FundTypeOK
<1>3. \A s \in Requests : request'[s] = IF s = r THEN q ELSE request[s]
  BY <1>1, <1>2
<1>4. FundSound'
  <2>1. request' \in [Requests -> {NoRequest} \cup RequestRow]
    BY <1>1, <1>2
  <2>2. \A s \in Requests : request'[s] # NoRequest => Checked(request'[s])
    BY <1>3 DEF FundInv, FundSound
  <2>3. overlapped' \in BOOLEAN
    BY <1>1 DEF FundInv, FundSound, FundTypeOK
  <2> QED
    BY <1>1, <2>1, <2>2, <2>3 DEF FundInv, FundSound, FundTypeOK
<1>5. FundExact'
  <2> SUFFICES ASSUME ~overlapped'
               PROVE  FundExact'
    BY DEF FundExact
  <2>1. ~overlapped /\ \A s \in Requests : request[s] = NoRequest
    BY <1>1
  <2>2. \A s \in Requests : request'[s] # NoRequest => s = r /\ request'[s] = q
    BY <1>3, <2>1
  <2>3. \A s \in Requests : request'[s] # NoRequest => ReadIsCurrent(request[s])'
    <3> SUFFICES ASSUME NEW s \in Requests, request'[s] # NoRequest
                 PROVE  ReadIsCurrent(request[s])'
      OBVIOUS
    <3>1. request'[s] = q /\ balance' = balance /\ ledger' = ledger
      BY <1>1, <2>2
    <3> QED
      BY <3>1 DEF ReadIsCurrent
  <2>4. BalanceUpTo(ledger, MaxRows)' = BalanceUpTo(ledger, MaxRows)
    BY <1>1
  <2>5. Undisbursed(ledger)' = Undisbursed(ledger)
        /\ \A k \in Ids : RowExact(ledger, k)' = RowExact(ledger, k)
    BY <1>1
  <2> QED
    BY <1>1, <2>1, <2>2, <2>3, <2>4, <2>5 DEF FundInv, FundExact
<1> QED
  BY <1>4, <1>5 DEF FundInv

\* A transaction ends; if nothing overlapped, none is left.
LEMMA FundDone ==
  ASSUME FundInv, NEW r \in Requests, request[r] # NoRequest, Done(r)
  PROVE  /\ request' \in [Requests -> {NoRequest} \cup RequestRow]
         /\ overlapped' = overlapped /\ overlapped' \in BOOLEAN
         /\ \A s \in Requests : request'[s] # NoRequest => Checked(request'[s])
         /\ ~overlapped => \A s \in Requests : request'[s] = NoRequest
<1>1. request' = [request EXCEPT ![r] = NoRequest] /\ overlapped' = overlapped
  BY DEF Done
<1>2. /\ request \in [Requests -> {NoRequest} \cup RequestRow]
      /\ overlapped \in BOOLEAN
      /\ \A s \in Requests : request[s] # NoRequest => Checked(request[s])
  BY DEF FundInv, FundSound, FundTypeOK
<1>3. \A s \in Requests : request'[s] = IF s = r THEN NoRequest ELSE request[s]
  BY <1>1, <1>2
<1>4. ~overlapped => \A s \in Requests : request[s] # NoRequest => s = r
  BY DEF FundInv, FundExact
<1> QED
  BY <1>1, <1>2, <1>3, <1>4

\* It is enough to look at the balance and the rows.
LEMMA FundWritten ==
  ASSUME FundInv, NEW r \in Requests, request[r] # NoRequest, Done(r),
         balance' \in Nat, ledger' \in Ledgers, created' \in 0 .. MaxRows,
         \A k \in Ids : k > created' => ledger'[k] = NoRow,
         ~overlapped => balance' = BalanceUpTo(ledger', MaxRows),
         ~overlapped /\ Undisbursed(ledger') => \A k \in Ids : RowExact(ledger', k)
  PROVE  FundInv'
<1>1. FundSound'
  BY FundDone DEF FundSound, FundTypeOK, Ledgers
<1>2. BalanceUpTo(ledger, MaxRows)' = BalanceUpTo(ledger', MaxRows)
      /\ Undisbursed(ledger)' = Undisbursed(ledger')
      /\ \A k \in Ids : RowExact(ledger, k)' = RowExact(ledger', k)
  OBVIOUS
<1>3. FundExact'
  BY <1>2, FundDone DEF FundExact
<1> QED
  BY <1>1, <1>3 DEF FundInv

LEMMA FundInserted ==
  ASSUME MaxRows \in Nat, FundInv, NEW r \in Requests, CommitInsert(r)
  PROVE  FundInv'
<1>1. PICK q, i : q = request[r] /\ i = created + 1
  OBVIOUS
<1>2. PICK row : row = [type |-> q.type, amount |-> q.amount,
                        balanceAfter |-> BalanceAfterInsert(q)]
  OBVIOUS
<1>3. /\ q.op = "INSERT" /\ created < MaxRows /\ created' = i
      /\ balance' = BalanceAfterInsert(q)
      /\ ledger' = [ledger EXCEPT ![i] = row]
      /\ Done(r)
  BY <1>1, <1>2 DEF CommitInsert
<1>4. /\ ledger \in Ledgers /\ created \in 0 .. MaxRows
      /\ request[r] \in {NoRequest} \cup RequestRow
      /\ request[r] # NoRequest => Checked(request[r])
      /\ \A k \in Ids : k > created => ledger[k] = NoRow
  BY DEF FundInv, FundSound, FundTypeOK, Ledgers
<1>5. request[r] # NoRequest /\ q \in RequestRow
  BY <1>1, <1>3, <1>4 DEF NoRequest
<1>6. q.type \in Types /\ q.amount \in Nat \ {0} /\ q.balance \in Nat
  BY <1>3, <1>5 DEF RequestRow
<1>7. i \in Ids /\ i \in 0 .. MaxRows /\ ledger[i] = NoRow
  BY <1>1, <1>3, <1>4 DEF Ids
<1>8. /\ BalanceAfterInsert(q) \in Int /\ Signed(row) \in Int
      /\ BalanceAfterInsert(q) = q.balance + Signed(row)
  BY <1>2, <1>6 DEF BalanceAfterInsert, Signed
<1>9. BalanceAfterInsert(q) >= 0
  BY <1>1, <1>3, <1>4, <1>5 DEF Checked
<1>10. row \in LedgerRow /\ row # NoRow
  BY <1>2, <1>6, <1>8 DEF LedgerRow, NoRow, Types
<1>11. /\ ledger' \in Ledgers /\ ledger'[i] = row
       /\ \A k \in Ids \ {i} : ledger'[k] = ledger[k]
  BY <1>3, <1>4, <1>7, <1>10 DEF Ledgers
<1>12. /\ \A k \in Ids \ {i} : Effects(ledger')[k] = Effects(ledger)[k]
       /\ Effects(ledger)[i] = 0 /\ Effects(ledger')[i] = Signed(row)
  BY <1>7, <1>10, <1>11 DEF Effects
<1>13. ASSUME NEW k \in 0 .. MaxRows
       PROVE  BalanceUpTo(ledger', k) =
                IF k < i THEN BalanceUpTo(ledger, k)
                         ELSE BalanceUpTo(ledger, k) + Signed(row)
  <2>1. BalanceUpTo(ledger', k) =
          IF k < i THEN BalanceUpTo(ledger, k)
                   ELSE BalanceUpTo(ledger, k) - 0 + Signed(row)
    BY <1>4, <1>7, <1>11, <1>12, RowChanged
  <2>2. BalanceUpTo(ledger, k) \in Int
    BY <1>4, BalanceInt
  <2> QED
    BY <1>8, <2>1, <2>2
<1>14. ASSUME ~overlapped
       PROVE  /\ balance' = BalanceUpTo(ledger', MaxRows)
              /\ balance' = BalanceUpTo(ledger, MaxRows) + Signed(row)
  <2>1. q.balance = BalanceUpTo(ledger, MaxRows)
    BY <1>1, <1>5, <1>14 DEF FundInv, FundExact, ReadIsCurrent
  <2>2. MaxRows \in 0 .. MaxRows /\ ~(MaxRows < i)
    BY <1>7
  <2> QED
    BY <1>3, <1>8, <1>13, <2>1, <2>2
<1>15. ASSUME ~overlapped, Undisbursed(ledger'), NEW k \in Ids
       PROVE  RowExact(ledger', k)
  <2>1. k \in 0 .. MaxRows
    BY DEF Ids
  <2>2. CASE k < i
    <3>1. Undisbursed(ledger)
      <4>1. ledger[i].type = "NO_ROW"
        BY <1>4, <1>7, RowsOrNone
      <4>2. \A j \in Ids \ {i} : ledger[j].type # "EXCESS_LOAN_DISBURSEMENT"
        BY <1>11, <1>15 DEF Undisbursed
      <4> QED
        BY <4>1, <4>2 DEF Undisbursed
    <3>2. RowExact(ledger, k)
      BY <1>15, <3>1 DEF FundInv, FundExact
    <3> QED
      BY <1>11, <1>13, <2>1, <2>2, <3>2, <1>7 DEF RowExact, Ids
  <2>3. CASE k = i
    <3>1. \A j \in i + 1 .. MaxRows : ledger[j] = NoRow
      BY <1>1, <1>4, <1>7 DEF Ids
    <3>2. BalanceUpTo(ledger, MaxRows) = BalanceUpTo(ledger, i)
      BY <1>4, <1>7, <3>1, NoRowsBetween
    <3>3. BalanceUpTo(ledger', i) = BalanceUpTo(ledger, i) + Signed(row)
      BY <1>7, <1>13
    <3>4. row.balanceAfter = balance'
      BY <1>2, <1>3
    <3> QED
      BY <1>11, <1>14, <1>15, <2>3, <3>2, <3>3, <3>4 DEF RowExact
  <2>4. CASE k > i
    BY <1>1, <1>4, <1>7, <1>11, <2>4 DEF RowExact, Ids
  <2> QED
    BY <2>1, <1>7, <2>2, <2>3, <2>4
<1>16. \A k \in Ids : k > created' => ledger'[k] = NoRow
  BY <1>1, <1>3, <1>4, <1>7, <1>11 DEF Ids
<1>17. balance' \in Nat /\ created' \in 0 .. MaxRows
  BY <1>3, <1>7, <1>8, <1>9
<1> QED
  BY <1>3, <1>5, <1>11, <1>14, <1>15, <1>16, <1>17, FundWritten

\* A row there is, without which or with another amount the rows after it are
\* recalculated.
LEMMA FundRecalculated ==
  ASSUME MaxRows \in Nat, FundInv, NEW r \in Requests,
         request[r] \in RequestRow, request[r] # NoRequest, Done(r),
         NEW i \in Ids, ledger[i] # NoRow,
         NEW led \in Ledgers, \A k \in Ids \ {i} : led[k] = ledger[k],
         led[i].type \in {"NO_ROW", ledger[i].type},
         ~overlapped => ledger[i].type # "EXCESS_LOAN_DISBURSEMENT",
         ledger' = Recalculate(led, i), created' = created,
         balance' \in Nat,
         ~overlapped => balance' = balance - Effects(ledger)[i] + Effects(led)[i],
         ~overlapped /\ led[i] # NoRow =>
           led[i].balanceAfter =
             ledger[i].balanceAfter - Effects(ledger)[i] + Effects(led)[i]
  PROVE  FundInv'
<1>1. /\ ledger \in Ledgers /\ created \in 0 .. MaxRows
      /\ \A k \in Ids : k > created => ledger[k] = NoRow
  BY DEF FundInv, FundSound, FundTypeOK, Ledgers
<1>2. PICK new : new = ledger'
  OBVIOUS
<1>3. /\ new \in Ledgers /\ Effects(new) = Effects(led)
      /\ \A k \in Ids : new[k].type = led[k].type
      /\ \A k \in Ids : new[k] = NoRow <=> led[k] = NoRow
      /\ \A k \in Ids : k <= i => new[k] = led[k]
  BY <1>2, Recalculated
<1>4. \A k \in Ids : k > created' => ledger'[k] = NoRow
  BY <1>1, <1>2, <1>3
<1>5. \A j \in Ids \ {i} : Effects(led)[j] = Effects(ledger)[j]
  BY DEF Effects
<1>6. \A k \in 0 .. MaxRows :
        BalanceUpTo(led, k) =
          IF k < i THEN BalanceUpTo(ledger, k)
                   ELSE BalanceUpTo(ledger, k) - Effects(ledger)[i] + Effects(led)[i]
  BY <1>1, <1>5, RowChanged
<1>7. ASSUME ~overlapped
      PROVE  balance' = BalanceUpTo(new, MaxRows)
  <2>1. balance = BalanceUpTo(ledger, MaxRows)
    BY <1>7 DEF FundInv, FundExact
  <2>2. MaxRows \in 0 .. MaxRows /\ ~(MaxRows < i)
    BY DEF Ids
  <2>3. BalanceUpTo(led, MaxRows) = balance'
    BY <1>6, <1>7, <2>1, <2>2
  <2> QED
    BY <1>3, <2>3, SameEffects
<1>8. ASSUME ~overlapped, Undisbursed(new), NEW k \in Ids
      PROVE  RowExact(new, k)
  <2>1. Undisbursed(led)
    BY <1>3, <1>8 DEF Undisbursed
  <2>2. Undisbursed(ledger)
    BY <1>8, <2>1 DEF Undisbursed
  <2>3. \A j \in Ids : RowExact(ledger, j)
    BY <1>8, <2>2 DEF FundInv, FundExact
  <2>4. ASSUME NEW j \in Ids, j <= i
        PROVE  RowExact(led, j)
    <3>1. j \in 0 .. MaxRows /\ i \in 0 .. MaxRows
      BY DEF Ids
    <3>2. CASE j = i
      <4>1. ledger[i].balanceAfter = BalanceUpTo(ledger, i)
        BY <2>3 DEF RowExact
      <4>2. BalanceUpTo(led, i) = BalanceUpTo(ledger, i) - Effects(ledger)[i] + Effects(led)[i]
        BY <1>6, <3>1
      <4> QED
        BY <1>8, <3>2, <4>1, <4>2 DEF RowExact
    <3>3. CASE j # i
      <4>1. BalanceUpTo(led, j) = BalanceUpTo(ledger, j)
        BY <1>6, <2>4, <3>1, <3>3
      <4> QED
        BY <2>3, <3>3, <4>1 DEF RowExact
    <3> QED
      BY <3>2, <3>3
  <2> QED
    BY <1>2, <2>1, <2>4, RecalculatedExact
<1> QED
  BY <1>1, <1>2, <1>3, <1>4, <1>7, <1>8, FundWritten

LEMMA FundUpdated ==
  ASSUME MaxRows \in Nat, FundInv, NEW r \in Requests, CommitUpdate(r)
  PROVE  FundInv'
<1>1. PICK q, i : q = request[r] /\ i = q.id
  OBVIOUS
<1>2. PICK b : b = q.row.balanceAfter + Difference(q)
  OBVIOUS
<1>3. PICK row : row = [ledger[i] EXCEPT !.amount = q.amount, !.balanceAfter = b]
  OBVIOUS
<1>4. PICK led : led = [ledger EXCEPT ![i] = row]
  OBVIOUS
<1>5. /\ ledger \in Ledgers
      /\ request[r] \in {NoRequest} \cup RequestRow
      /\ request[r] # NoRequest => Checked(request[r])
  BY DEF FundInv, FundSound, FundTypeOK, Ledgers
<1>6. /\ q.op = "UPDATE" /\ ledger[i] # NoRow
      /\ balance' = q.balance + Difference(q)
      /\ Done(r) /\ created' = created
  BY <1>1 DEF CommitUpdate
<1>7. request[r] # NoRequest /\ q \in RequestRow
  BY <1>1, <1>5, <1>6 DEF NoRequest
<1>8. /\ i \in Ids /\ q.row \in LedgerRow /\ q.amount \in Nat \ {0}
      /\ q.balance \in Nat
  BY <1>1, <1>6, <1>7 DEF RequestRow
<1>9. /\ q.row.amount \in Nat \ {0} /\ q.row.balanceAfter \in Int
      /\ ledger[i] \in LedgerRow
  BY <1>5, <1>6, <1>8, RowsOrNone DEF LedgerRow
<1>10. Difference(q) = q.amount - q.row.amount /\ Difference(q) \in Int /\ b \in Int
  BY <1>2, <1>8, <1>9 DEF Difference
<1>11. /\ row \in LedgerRow /\ row.amount = q.amount /\ row.type = ledger[i].type
       /\ row.balanceAfter = b
  BY <1>3, <1>8, <1>9, <1>10 DEF LedgerRow
<1>12. ledger' = Recalculate(led, i)
  BY <1>1, <1>2, <1>3, <1>4, <1>5, <1>8 DEF CommitUpdate, Ledgers
<1>13. /\ led \in Ledgers /\ led[i] = row
       /\ \A k \in Ids \ {i} : led[k] = ledger[k]
  BY <1>4, <1>5, <1>8, <1>11 DEF Ledgers
<1>14. q.row.type = "INITIAL_BALANCE" /\ q.balance + q.amount - q.row.amount >= 0
  BY <1>1, <1>5, <1>6, <1>7 DEF Checked
<1>15. balance' \in Nat
  BY <1>6, <1>8, <1>9, <1>10, <1>14
<1>16. ASSUME ~overlapped
       PROVE  /\ q.row = ledger[i] /\ q.balance = balance
              /\ Effects(ledger)[i] = q.row.amount /\ Effects(led)[i] = q.amount
  <2>1. q.row = ledger[i] /\ q.balance = balance
    BY <1>1, <1>6, <1>7, <1>16 DEF FundInv, FundExact, ReadIsCurrent
  <2>2. row # NoRow
    BY <1>11 DEF LedgerRow, NoRow, Types
  <2> QED
    BY <1>6, <1>8, <1>11, <1>13, <1>14, <2>1, <2>2 DEF Effects, Signed
<1>17. ~overlapped => balance' = balance - Effects(ledger)[i] + Effects(led)[i]
  BY <1>6, <1>8, <1>9, <1>10, <1>16
<1>18. ~overlapped =>
         led[i].balanceAfter = ledger[i].balanceAfter - Effects(ledger)[i] + Effects(led)[i]
  BY <1>2, <1>8, <1>9, <1>10, <1>11, <1>13, <1>16
<1>19. ~overlapped => ledger[i].type # "EXCESS_LOAN_DISBURSEMENT"
  BY <1>14, <1>16
<1>20. led[i].type \in {"NO_ROW", ledger[i].type}
  BY <1>11, <1>13
<1> QED
  BY <1>1, <1>6, <1>7, <1>8, <1>12, <1>13, <1>15, <1>17, <1>18, <1>19, <1>20, FundRecalculated

LEMMA FundDeleted ==
  ASSUME MaxRows \in Nat, FundInv, NEW r \in Requests, CommitDelete(r)
  PROVE  FundInv'
<1>1. PICK q, i : q = request[r] /\ i = q.id
  OBVIOUS
<1>2. PICK led : led = [ledger EXCEPT ![i] = NoRow]
  OBVIOUS
<1>3. /\ ledger \in Ledgers
      /\ request[r] \in {NoRequest} \cup RequestRow
      /\ request[r] # NoRequest => Checked(request[r])
  BY DEF FundInv, FundSound, FundTypeOK, Ledgers
<1>4. /\ q.op = "DELETE" /\ ledger[i] # NoRow
      /\ balance' = q.balance + (IF q.row.type = "SANTUNAN" THEN q.row.amount
                                                            ELSE -q.row.amount)
      /\ ledger' = Recalculate(led, i)
      /\ Done(r) /\ created' = created
  BY <1>1, <1>2 DEF CommitDelete
<1>5. request[r] # NoRequest /\ q \in RequestRow
  BY <1>1, <1>3, <1>4 DEF NoRequest
<1>6. i \in Ids /\ q.row \in LedgerRow /\ q.balance \in Nat
  BY <1>1, <1>4, <1>5 DEF RequestRow
<1>7. q.row.amount \in Nat \ {0}
  BY <1>6 DEF LedgerRow
<1>8. /\ led \in Ledgers /\ led[i] = NoRow
      /\ \A k \in Ids \ {i} : led[k] = ledger[k]
  BY <1>2, <1>3, <1>6 DEF Ledgers
<1>9. \/ q.row.type = "SANTUNAN"
      \/ q.row.type = "INITIAL_BALANCE" /\ q.balance - q.row.amount >= 0
  BY <1>1, <1>3, <1>4, <1>5 DEF Checked
<1>10. balance' \in Nat
  BY <1>4, <1>6, <1>7, <1>9
<1>11. ASSUME ~overlapped
       PROVE  /\ balance' = balance - Effects(ledger)[i] + Effects(led)[i]
              /\ ledger[i].type # "EXCESS_LOAN_DISBURSEMENT"
  <2>1. q.row = ledger[i] /\ q.balance = balance
    BY <1>1, <1>4, <1>5, <1>11 DEF FundInv, FundExact, ReadIsCurrent
  <2>2. Effects(led)[i] = 0 /\ Effects(ledger)[i] = Signed(q.row)
    BY <1>4, <1>6, <1>8, <2>1 DEF Effects
  <2> QED
    BY <1>4, <1>6, <1>7, <1>9, <2>1, <2>2 DEF Signed
<1>12. led[i].type \in {"NO_ROW", ledger[i].type}
  BY <1>8 DEF NoRow
<1> QED
  BY <1>1, <1>4, <1>5, <1>6, <1>8, <1>10, <1>11, <1>12, FundRecalculated

LEMMA FundFails ==
  ASSUME MaxRows \in Nat, FundInv, NEW r \in Requests, Fail(r)
  PROVE  FundInv'
<1>1. /\ request[r] # NoRequest /\ Done(r)
      /\ balance' = balance /\ ledger' = ledger /\ created' = created
  BY DEF Fail
<1>2. /\ balance' \in Nat /\ ledger' \in Ledgers /\ created' \in 0 .. MaxRows
      /\ \A k \in Ids : k > created' => ledger'[k] = NoRow
  BY <1>1 DEF FundInv, FundSound, FundTypeOK, Ledgers
<1>3. /\ ~overlapped => balance' = BalanceUpTo(ledger', MaxRows)
      /\ ~overlapped /\ Undisbursed(ledger') => \A k \in Ids : RowExact(ledger', k)
  BY <1>1 DEF FundInv, FundExact
<1> QED
  BY <1>1, <1>2, <1>3, FundWritten

LEMMA FundStep ==
  ASSUME FundInv, [FundNext]_fundVars
  PROVE  FundInv'
<1>1. MaxRows \in Nat
  BY FundAssumption
<1>2. CASE UNCHANGED fundVars
  <2>1. /\ balance' = balance /\ ledger' = ledger /\ created' = created
        /\ request' = request /\ overlapped' = overlapped
    BY <1>2 DEF fundVars
  <2>2. FundSound'
    BY <2>1 DEF FundInv, FundSound, FundTypeOK
  <2>3. FundExact'
    BY <2>1 DEF FundInv, FundExact, ReadIsCurrent, RowExact, Undisbursed, BalanceUpTo, Effects
  <2> QED
    BY <2>2, <2>3 DEF FundInv
<1>3. ASSUME NEW r \in Requests, Begin(r)
      PROVE  FundInv'
  <2>1. FundSound
    BY DEF FundInv
  <2>2. PICK q : /\ q \in RequestRow /\ Checked(q) /\ ReadIsCurrent(q)
                 /\ Enter(r, q)
    BY <1>3, <2>1, FundBegins
  <2> QED
    BY <2>2, FundEntered
<1>4. ASSUME NEW r \in Requests, Commit(r)
      PROVE  FundInv'
  BY <1>1, <1>4, FundInserted, FundUpdated, FundDeleted DEF Commit
<1>5. ASSUME NEW r \in Requests, Fail(r)
      PROVE  FundInv'
  BY <1>1, <1>5, FundFails
<1> QED
  BY <1>2, <1>3, <1>4, <1>5 DEF FundNext

LEMMA FundKept == FundSpec => []FundInv
<1>1. FundInit => FundInv
  BY FundInitially
<1>2. FundInv /\ [FundNext]_fundVars => FundInv'
  BY FundStep
<1> QED
  BY <1>1, <1>2, PTL DEF FundSpec

\* The fund and its rows keep their types; the balance does not become
\* negative, however many transactions have read the same one.
THEOREM FundTypes == FundSpec => []FundTypeOK
<1>1. FundInv => FundTypeOK
  BY DEF FundInv, FundSound
<1> QED
  BY <1>1, FundKept, PTL

\* While no two transactions overlap the balance is what the ledger adds up
\* to, whatever was inserted, changed or deleted in it.
THEOREM FundIsLedger == FundSpec => []BalanceIsLedger
<1>1. FundInv => BalanceIsLedger
  <2> SUFFICES ASSUME FundInv, ~overlapped
               PROVE  balance = SumUpTo(MaxRows)
    BY DEF BalanceIsLedger
  <2>1. ledger \in Ledgers /\ balance = BalanceUpTo(ledger, MaxRows)
    BY DEF FundInv, FundSound, FundExact, FundTypeOK, Ledgers
  <2>2. MaxRows \in Nat /\ MaxRows \in 0 .. MaxRows
    BY FundAssumption
  <2> QED
    BY <2>1, <2>2, SumUpToIsBalance
<1> QED
  BY <1>1, FundKept, PTL

\* As long as no excess loan was taken from the fund, each row shows the
\* balance after it.
THEOREM FundRowsRun == FundSpec => []OfficersRunningBalances
<1>1. FundInv => OfficersRunningBalances
  <2> SUFFICES ASSUME FundInv, ~overlapped,
                      \A k \in Rows(ledger) : ledger[k].type # "EXCESS_LOAN_DISBURSEMENT",
                      NEW k \in Rows(ledger)
               PROVE  ledger[k].balanceAfter = SumUpTo(k)
    BY DEF OfficersRunningBalances, RunningBalances
  <2>1. ledger \in Ledgers
    BY DEF FundInv, FundSound, FundTypeOK, Ledgers
  <2>2. \A j \in Ids : ledger[j] = NoRow => ledger[j].type = "NO_ROW"
    BY <2>1, RowsOrNone
  <2>3. Undisbursed(ledger)
    BY <2>2 DEF Undisbursed, Rows
  <2>4. MaxRows \in Nat /\ k \in Ids /\ k \in 0 .. MaxRows /\ ledger[k] # NoRow
    BY FundAssumption DEF Rows, Ids
  <2>5. ledger[k].balanceAfter = BalanceUpTo(ledger, k)
    BY <2>3, <2>4 DEF FundInv, FundExact, RowExact
  <2> QED
    BY <2>1, <2>4, <2>5, SumUpToIsBalance
<1> QED
  BY <1>1, FundKept, PTL

=============================================================================
