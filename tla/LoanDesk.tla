------------------------------ MODULE LoanDesk ------------------------------
(***************************************************************************)
(* What a member does with a loan before the officers see it: drafts are   *)
(* made, changed, deleted and submitted (loan-crud.service.ts and          *)
(* loan-submission.service.ts) while administrators change the settings    *)
(* they are judged by.  LoanLifecycle has the whole life of a loan and     *)
(* abstracts from numbers, rates and limits; this module has these.        *)
(***************************************************************************)
EXTENDS LoanCalculation, NumberGenerator

CONSTANTS
  Loans,       \* slots for loan applications
  Requests,    \* slots for requests in flight at the same time
  Offered,     \* types of loans that are asked for
  Amounts,     \* amounts that are asked for
  Tenors,      \* tenors that are asked for
  AllSettings, \* what the settings, limits and the fund may be
  MaxNumbers,  \* bound: the highest running number of a day
  MaxOverlaps  \* bound: how many requests begin while another is in flight

ASSUME DeskAssumption ==
  /\ Offered \subseteq LoanTypes
  /\ Amounts \subseteq Nat \ {0}
  /\ Tenors \subseteq Nat \ {0}
  /\ AllSettings # {}
  /\ AllSettings \subseteq
       [rate : Nat, margin : Nat, min : Nat, plafond : Nat, maxGoods : Nat, maxTenor : Nat,
        fund : Nat]
  /\ MaxNumbers \in Nat
  /\ MaxOverlaps \in Nat

NotGiven == 0

Numbers == [kind : LoanTypes, seq : 1 .. MaxNumbers]

LoanRow ==
  [number : Numbers, type : LoanTypes, amount : Amounts \cup {0}, tenor : Tenors,
   terms : [rate : Nat, total : Nat, installment : Nat], status : {"DRAFT", "UNDER_REVIEW_DSP"}]

NoLoan == [status |-> "NONE"]

VARIABLES
  loan,       \* loan_applications
  order,      \* the loans there are in the order of createdAt
  settings,   \* the settings and limits in force
  request,    \* what each request in flight has seen and does next
  judgedBy,   \* history: the settings by which a loan was submitted
  overlaps,   \* history: how often requests overlapped
  undercut    \* history: whether a loan was deleted during a creation

vars == <<loan, order, settings, request, judgedBy, overlaps, undercut>>

overlapped == overlaps > 0

Idle == [op |-> "IDLE"]

TypeOK ==
  /\ loan \in [Loans -> {NoLoan} \cup LoanRow]
  /\ Range(order) = {l \in Loans : loan[l] # NoLoan}
  /\ \A i, j \in DOMAIN order : order[i] = order[j] => i = j
  /\ settings \in AllSettings
  /\ judgedBy \in [Loans -> AllSettings \cup {Idle}]
  /\ overlaps \in 0 .. MaxOverlaps

Init ==
  /\ loan = [l \in Loans |-> NoLoan]
  /\ order = <<>>
  /\ settings \in AllSettings
  /\ request = [r \in Requests |-> Idle]
  /\ judgedBy = [l \in Loans |-> Idle]
  /\ overlaps = 0
  /\ undercut = FALSE

-----------------------------------------------------------------------------
Is(r, op) == request[r].op = op

Enter(r, q) ==
  /\ request[r] = Idle
  /\ request' = [request EXCEPT ![r] = q]
  /\ overlaps' = IF \A x \in Requests : request[x] = Idle THEN overlaps ELSE overlaps + 1
  /\ overlaps' <= MaxOverlaps
  /\ UNCHANGED <<loan, order, settings, judgedBy, undercut>>

Done(r) == request' = [request EXCEPT ![r] = Idle]

LoanNumbers == [i \in DOMAIN order |-> loan[order[i]].number]

\* A phone loan starts without an amount and without terms.
Details(type, amount, tenor) ==
  IF type = "GOODS_PHONE" THEN NoTerms ELSE LoanDetails(settings, type, amount, tenor)

\* What is judged, calculated and looked up before the transaction begins.
BeginCreate(r, type, amount, tenor) ==
  LET asked == IF type = "GOODS_PHONE" THEN 0 ELSE amount
      n == NextNumber(LoanNumbers, type)
  IN  /\ ValidLoanAmount(settings, type, amount)
      /\ ValidLoanTenor(settings, tenor)
      /\ n.seq <= MaxNumbers
      /\ Enter(r, [op |-> "INSERT", type |-> type, amount |-> asked, tenor |-> tenor,
                   number |-> n, terms |-> Details(type, asked, tenor)])

\* The number is unique: if it is taken by now the insert fails.
Insert(r, l) ==
  LET q == request[r]
  IN  /\ Is(r, "INSERT")
      /\ loan[l] = NoLoan
      /\ ~Taken(LoanNumbers, q.number)
      /\ loan' = [loan EXCEPT ![l] =
           [number |-> q.number, type |-> q.type, amount |-> q.amount, tenor |-> q.tenor,
            terms |-> q.terms, status |-> "DRAFT"]]
      /\ order' = Append(order, l)
      /\ Done(r)
      /\ UNCHANGED <<settings, judgedBy, overlaps, undercut>>

-----------------------------------------------------------------------------
IsDraft(l) == loan[l].status = "DRAFT"

\* Mutant: the terms of the draft that was read are kept.
UpdatedTermsKept(row, amount, tenor) == row.terms

\* The terms are calculated again from what was read where nothing is given.
UpdatedTerms(row, amount, tenor) ==
  Details(row.type, IF amount = NotGiven THEN row.amount ELSE amount,
          IF tenor = NotGiven THEN row.tenor ELSE tenor)

\* A goods request carries a price, which is not judged and not the amount.
\* Requests that give neither field change nothing of what is modelled.
BeginUpdate(r, l, amount, tenor) ==
  LET given == IF loan[l].type \in {"CASH_LOAN", "EXCESS_LOAN"} THEN amount ELSE NotGiven
  IN  /\ IsDraft(l)
      /\ amount # NotGiven \/ tenor # NotGiven
      /\ given # NotGiven => ValidLoanAmount(settings, loan[l].type, given)
      /\ tenor # NotGiven => ValidLoanTenor(settings, tenor)
      /\ Enter(r, [op |-> "WRITE", loan |-> l, amount |-> given, tenor |-> tenor,
                   terms |-> UpdatedTerms(loan[l], given, tenor)])

\* The row is written by its id, whatever became of it.
Update(r) ==
  LET q == request[r]
      row == loan[q.loan]
  IN  /\ Is(r, "WRITE")
      /\ loan' = [loan EXCEPT ![q.loan] =
           [row EXCEPT !.amount = IF q.amount = NotGiven THEN row.amount ELSE q.amount,
                       !.tenor = IF q.tenor = NotGiven THEN row.tenor ELSE q.tenor,
                       !.terms = q.terms]]
      /\ Done(r)
      /\ UNCHANGED <<order, settings, judgedBy, overlaps, undercut>>

BeginDelete(r, l) ==
  /\ IsDraft(l)
  /\ Enter(r, [op |-> "DELETE", loan |-> l])

\* Whoever else has read the loan finds no row to write: it breaks off.
Delete(r) ==
  LET l == request[r].loan
  IN  /\ Is(r, "DELETE")
      /\ loan' = [loan EXCEPT ![l] = NoLoan]
      /\ order' = RemoveAt(order, CHOOSE i \in DOMAIN order : order[i] = l)
      /\ judgedBy' = [judgedBy EXCEPT ![l] = Idle]
      /\ undercut' = (undercut \/ \E x \in Requests : Is(x, "INSERT"))
      /\ request' = [x \in Requests |->
           IF request[x].op \in {"WRITE", "DELETE", "SUBMIT"} /\ request[x].loan = l
           THEN Idle ELSE request[x]]
      /\ UNCHANGED <<settings, overlaps>>

\* Mutant: only the amount is judged again.
SubmittableAmount(l) ==
  /\ IsDraft(l)
  /\ ValidLoanAmount(settings, loan[l].type, loan[l].amount)

\* A draft is judged again, by the settings in force now.
Submittable(l) ==
  /\ IsDraft(l)
  /\ ValidLoanAmount(settings, loan[l].type, loan[l].amount)
  /\ ValidLoanTenor(settings, loan[l].tenor)

BeginSubmit(r, l) ==
  /\ Submittable(l)
  /\ Enter(r, [op |-> "SUBMIT", loan |-> l, by |-> settings])

Submit(r) ==
  LET q == request[r]
  IN  /\ Is(r, "SUBMIT")
      /\ loan' = [loan EXCEPT ![q.loan].status = "UNDER_REVIEW_DSP"]
      /\ judgedBy' = [judgedBy EXCEPT ![q.loan] = q.by]
      /\ Done(r)
      /\ UNCHANGED <<order, settings, overlaps, undercut>>

-----------------------------------------------------------------------------
ChangeSettings(s) ==
  /\ s # settings
  /\ settings' = s
  /\ UNCHANGED <<loan, order, request, judgedBy, overlaps, undercut>>

\* A request is refused or breaks off; nothing of it was written.
Fail(r) ==
  /\ request[r] # Idle
  /\ Done(r)
  /\ UNCHANGED <<loan, order, settings, judgedBy, overlaps, undercut>>

Next ==
  \/ \E r \in Requests :
       \/ \E type \in Offered, amount \in Amounts, tenor \in Tenors :
            BeginCreate(r, type, amount, tenor)
       \/ \E l \in Loans :
            \/ Insert(r, l) \/ BeginDelete(r, l) \/ BeginSubmit(r, l)
            \/ \E amount \in Amounts \cup {NotGiven}, tenor \in Tenors \cup {NotGiven} :
                 BeginUpdate(r, l, amount, tenor)
       \/ Update(r) \/ Delete(r) \/ Submit(r) \/ Fail(r)
  \/ \E s \in AllSettings : ChangeSettings(s)

Spec == Init /\ [][Next]_vars

-----------------------------------------------------------------------------
(* Whoever asks for a number gets one that is free, however requests       *)
(* overlap and drafts are deleted, as long as no draft is deleted between  *)
(* the look-up and the insert of another: then the row created last may    *)
(* not have the highest number, and every request of the day is refused.   *)
NumbersAdvance ==
  ~undercut =>
    \A type \in Offered : ~Taken(LoanNumbers, NextNumber(LoanNumbers, type))

(* While nothing overlaps, a loan costs what its amount and tenor say,     *)
(* although its draft was changed field by field under changing rates, the *)
(* installments differ from the total by half a unit each, and what is     *)
(* under review kept the limits that were in force when it was submitted.  *)
TermsInOrder ==
  /\ TypeOK
  /\ ~overlapped =>
       \A l \in Range(order) :
         LET row == loan[l]
             difference == row.tenor * row.terms.installment - row.terms.total
         IN  /\ row.type # "GOODS_PHONE" =>
                  /\ \E s \in AllSettings : row.terms = LoanDetails(s, row.type, row.amount, row.tenor)
                  /\ row.terms.total >= row.amount
                  /\ -row.tenor <= 2 * difference /\ 2 * difference <= row.tenor
             /\ ~IsDraft(l) =>
                  /\ ValidLoanAmount(judgedBy[l], row.type, row.amount)
                  /\ ValidLoanTenor(judgedBy[l], row.tenor)

=============================================================================
