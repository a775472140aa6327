--------------------------- MODULE LoanDeskProofs ---------------------------
(***************************************************************************)
(* The desk at which loans are asked for: for any amounts, tenors,         *)
(* settings and requests.  A number that is given is free as long as no    *)
(* draft is deleted while another is made.  While nothing overlaps, a loan *)
(* costs what LoanDetails says and is within the limits it was judged by.  *)
(***************************************************************************)
EXTENDS LoanDesk, ArithmeticProofs, SequenceTheorems

Terms == [rate : Nat, total : Nat, installment : Nat]

AskedRow ==
  {Idle}
    \cup [op : {"INSERT"}, type : LoanTypes, amount : Amounts \cup {0}, tenor : Tenors,
          number : Numbers, terms : Terms]
    \cup [op : {"WRITE"}, loan : Loans, amount : Amounts \cup {0}, tenor : Tenors \cup {0},
          terms : Terms]
    \cup [op : {"DELETE"}, loan : Loans]
    \cup [op : {"SUBMIT"}, loan : Loans, by : AllSettings]

Ordered ==
  /\ order \in Seq(Loans)
  /\ \A i, j \in 1 .. Len(order) : order[i] = order[j] => i = j
  /\ \A l \in Loans : loan[l] # NoLoan <=> \E i \in 1 .. Len(order) : order[i] = l

\* Requests are of the types they have, and for loans there are.
DeskSound ==
  /\ loan \in [Loans -> {NoLoan} \cup LoanRow]
  /\ Ordered
  /\ settings \in AllSettings
  /\ judgedBy \in [Loans -> AllSettings \cup {Idle}]
  /\ overlaps \in 0 .. MaxOverlaps
  /\ undercut \in BOOLEAN
  /\ request \in [Requests -> AskedRow]
  /\ \A r \in Requests :
       request[r].op \in {"WRITE", "DELETE", "SUBMIT"} => loan[request[r].loan] # NoLoan

\* By some settings.
Costs(type, amount, tenor, terms) ==
  type # "GOODS_PHONE" =>
    \E s \in AllSettings : terms = LoanDetails(s, type, amount, tenor)

Valid(s, row) == ValidLoanAmount(s, row.type, row.amount) /\ ValidLoanTenor(s, row.tenor)

\* What a draft will be when it is written.
Amount(row, q) == IF q.amount = 0 THEN row.amount ELSE q.amount
Months(row, q) == IF q.tenor = 0 THEN row.tenor ELSE q.tenor

\* While nothing overlaps, what a request has read is what is there.
AskedInOrder(q) ==
  /\ q.op = "INSERT" => Costs(q.type, q.amount, q.tenor, q.terms)
  /\ q.op = "WRITE" =>
       LET row == loan[q.loan]
       IN  row.status = "DRAFT" /\ Costs(row.type, Amount(row, q), Months(row, q), q.terms)
  /\ q.op = "SUBMIT" => Valid(q.by, loan[q.loan])

DraftInOrder(l) ==
  LET row == loan[l]
  IN  row # NoLoan =>
        /\ Costs(row.type, row.amount, row.tenor, row.terms)
        /\ row.status # "DRAFT" => judgedBy[l] \in AllSettings /\ Valid(judgedBy[l], row)

DeskSerial ==
  overlaps = 0 =>
    /\ \A r, s \in Requests : request[r] # Idle /\ request[s] # Idle => r = s
    /\ \A r \in Requests : AskedInOrder(request[r])
    /\ \A l \in Loans : DraftInOrder(l)

NumberAt(i) == loan[order[i]].number

Increasing ==
  \A i, j \in 1 .. Len(order) :
    i < j /\ NumberAt(i).kind = NumberAt(j).kind => NumberAt(i).seq < NumberAt(j).seq

IsTaken(n) == \E i \in 1 .. Len(order) : NumberAt(i) = n

\* One more than the last of its kind.
IsNext(n) ==
  /\ n.seq \in Nat
  /\ \A i \in 1 .. Len(order) : NumberAt(i).kind = n.kind => NumberAt(i).seq < n.seq
  /\ n.seq = 1 \/ \E i \in 1 .. Len(order) :
                    NumberAt(i).kind = n.kind /\ NumberAt(i).seq + 1 = n.seq

\* A number that a request has looked up is still the next, or was given to
\* another, as long as no draft is deleted meanwhile.
DeskNumbers ==
  ~undercut =>
    /\ Increasing
    /\ \A r \in Requests :
         request[r].op = "INSERT" => IsTaken(request[r].number) \/ IsNext(request[r].number)

DeskInv == DeskSound /\ DeskSerial /\ DeskNumbers

-----------------------------------------------------------------------------
(* What the desk calculates, and the next number.                          *)

LEMMA TermsTyped ==
  ASSUME NEW s \in AllSettings,
         NEW type \in LoanTypes, NEW amount \in Nat, NEW tenor \in Nat \ {0}
  PROVE  LoanDetails(s, type, amount, tenor) \in Terms
<1>1. s.rate \in Nat /\ s.margin \in Nat
  BY DeskAssumption
<1>2. PICK terms : terms = LoanDetails(s, type, amount, tenor)
  OBVIOUS
<1>3. terms.total \in Nat /\ terms.installment \in Nat
  BY <1>1, <1>2, LoanDetailsExact
<1>4. PICK total, installment, rate :
        /\ terms = [rate |-> rate, total |-> total, installment |-> installment]
        /\ rate \in {0, s.rate}
  BY <1>2 DEF LoanDetails
<1>5. rate \in Nat /\ total \in Nat /\ installment \in Nat
  BY <1>1, <1>3, <1>4
<1> QED
  BY <1>2, <1>4, <1>5 DEF Terms

\* What is calculated by the settings in force.
LEMMA DetailsCost ==
  ASSUME settings \in AllSettings,
         NEW type \in LoanTypes, NEW amount \in Nat, NEW tenor \in Nat \ {0}
  PROVE  /\ Details(type, amount, tenor) \in Terms
         /\ Costs(type, amount, tenor, Details(type, amount, tenor))
<1>1. CASE type = "GOODS_PHONE"
  BY <1>1 DEF Details, Costs, NoTerms, Terms
<1>2. CASE type # "GOODS_PHONE"
  <2>1. Details(type, amount, tenor) = LoanDetails(settings, type, amount, tenor)
    BY <1>2 DEF Details
  <2> QED
    BY <2>1, TermsTyped DEF Costs
<1> QED
  BY <1>1, <1>2

LEMMA NumbersOfRows ==
  ASSUME DeskSound, NEW i \in 1 .. Len(order)
  PROVE  /\ order[i] \in Loans /\ loan[order[i]] \in LoanRow
         /\ loan[order[i]] # NoLoan
         /\ NumberAt(i) \in Numbers /\ NumberAt(i).seq \in Nat
<1>1. order[i] \in Loans /\ loan[order[i]] \in {NoLoan} \cup LoanRow
  BY ElementOfSeq DEF DeskSound, Ordered
<1>2. loan[order[i]] # NoLoan
  BY <1>1 DEF DeskSound, Ordered
<1>3. NumberAt(i) \in Numbers
  BY <1>1, <1>2 DEF NumberAt, LoanRow
<1>4. \A n \in Numbers : n.seq \in Nat
  BY DEF Numbers
<1> QED
  BY <1>1, <1>2, <1>3, <1>4

LEMMA NumbersTaken ==
  ASSUME DeskSound, NEW n
  PROVE  Taken(LoanNumbers, n) <=> IsTaken(n)
<1>1. DOMAIN order = 1 .. Len(order)
  BY LenProperties DEF DeskSound, Ordered
<1> QED
  BY <1>1 DEF Taken, LoanNumbers, Range, IsTaken, NumberAt

LEMMA NextIsNext ==
  ASSUME DeskSound, Increasing, NEW type
  PROVE  /\ NextNumber(LoanNumbers, type).kind = type
         /\ NextNumber(LoanNumbers, type).seq \in Nat \ {0}
         /\ IsNext(NextNumber(LoanNumbers, type))
<1>1. PICK n, numbers : /\ numbers = LoanNumbers
                        /\ n = NextNumber(numbers, type)
  OBVIOUS
<1>2. Len(order) \in Nat /\ DOMAIN order = 1 .. Len(order)
  BY LenProperties DEF DeskSound, Ordered
<1>3. DOMAIN numbers = 1 .. Len(order) /\ \A i \in 1 .. Len(order) : numbers[i] = NumberAt(i)
  BY <1>1, <1>2 DEF LoanNumbers, NumberAt
<1>4. PICK series : series = {i \in 1 .. Len(order) : NumberAt(i).kind = type}
  OBVIOUS
<1>5. series = OfSeries(numbers, type)
  BY <1>3, <1>4 DEF OfSeries
<1>6. n = [kind |-> type, seq |-> IF series = {} THEN 1 ELSE numbers[Max(series)].seq + 1]
  BY <1>1, <1>5 DEF NextNumber
<1>7. CASE series = {}
  BY <1>1, <1>4, <1>6, <1>7 DEF IsNext
<1>8. CASE series # {}
  <2>1. IsFiniteSet(series) /\ series \in SUBSET Int
    <3>1. IsFiniteSet(1 .. Len(order)) /\ series \subseteq 1 .. Len(order)
      BY <1>2, <1>4, FS_Interval
    <3>2. IsFiniteSet(series)
      BY <3>1, FS_Subset
    <3> QED
      BY <1>2, <3>1, <3>2
  <2>2. PICK m : m = Max(series)
    OBVIOUS
  <2>3. m = Max(series)
    BY <2>2 DEF Max, Max
  <2>4. m \in series /\ \A y \in series : y <= m
    BY <1>8, <2>1, <2>3, MaxOfFinite
  <2>5. m \in 1 .. Len(order) /\ NumberAt(m).kind = type /\ NumberAt(m).seq \in Nat
    BY <1>4, <2>4, NumbersOfRows
  <2>6. n.kind = type /\ n.seq = NumberAt(m).seq + 1
    BY <1>3, <1>6, <1>8, <2>2, <2>5
  <2>7. ASSUME NEW i \in 1 .. Len(order), NumberAt(i).kind = type
        PROVE  NumberAt(i).seq < n.seq
    <3>1. i <= m /\ NumberAt(i).seq \in Nat
      BY <1>4, <2>4, <2>7, NumbersOfRows
    <3>2. i # m => NumberAt(i).seq < NumberAt(m).seq
      BY <2>5, <2>7, <3>1 DEF Increasing
    <3> QED
      BY <2>5, <2>6, <3>1, <3>2
  <2> QED
    BY <1>1, <2>5, <2>6, <2>7 DEF IsNext
<1> QED
  BY <1>7, <1>8

\* Of a kind there is one next number.
LEMMA OneNext ==
  ASSUME DeskSound, NEW n, NEW o, n.kind = o.kind, IsNext(n), IsNext(o),
         n.seq # 0, o.seq # 0
  PROVE  n.seq = o.seq
<1>1. n.seq \in Nat /\ o.seq \in Nat
  BY DEF IsNext
<1>2. \A i \in 1 .. Len(order) : NumberAt(i).seq \in Nat
  BY NumbersOfRows
<1>3. ~(n.seq < o.seq)
  BY <1>1, <1>2 DEF IsNext
<1>4. ~(o.seq < n.seq)
  BY <1>1, <1>2 DEF IsNext
<1> QED
  BY <1>1, <1>3, <1>4

-----------------------------------------------------------------------------
(* Steps.                                                                  *)

LEMMA DeskInitially == Init => DeskInv
<1> SUFFICES ASSUME Init
             PROVE  DeskInv
  OBVIOUS
<1>1. MaxOverlaps \in Nat
  BY DeskAssumption
<1>2. /\ loan = [l \in Loans |-> NoLoan] /\ order = <<>>
      /\ settings \in AllSettings
      /\ request = [r \in Requests |-> Idle] /\ judgedBy = [l \in Loans |-> Idle]
      /\ overlaps = 0 /\ undercut = FALSE
  BY DEF Init
<1>3. order \in Seq(Loans) /\ Len(order) = 0
  BY <1>2, EmptySeq
<1>4. Ordered
  BY <1>2, <1>3 DEF Ordered
<1>5. DeskSound
  <2>1. overlaps \in 0 .. MaxOverlaps
    BY <1>1, <1>2
  <2>2. request \in [Requests -> AskedRow] /\ \A r \in Requests : request[r] = Idle
    BY <1>2 DEF AskedRow
  <2>3. Idle.op = "IDLE"
    BY DEF Idle
  <2> QED
    BY <1>2, <1>4, <2>1, <2>2, <2>3 DEF DeskSound
<1>6. \A r \in Requests : request[r] = Idle /\ request[r].op = "IDLE"
  BY <1>2 DEF Idle
<1>7. DeskSerial
  BY <1>2, <1>6 DEF DeskSerial, AskedInOrder, DraftInOrder
<1>8. DeskNumbers
  BY <1>3, <1>6 DEF DeskNumbers, Increasing
<1> QED
  BY <1>5, <1>7, <1>8 DEF DeskInv

\* What begins keeps the invariant if it is in order itself.
LEMMA DeskEntered ==
  ASSUME DeskInv, NEW r \in Requests, NEW q \in AskedRow,
         Enter(r, q),
         q.op \in {"WRITE", "DELETE", "SUBMIT"} => loan[q.loan] # NoLoan,
         overlaps = 0 => AskedInOrder(q),
         ~undercut /\ q.op = "INSERT" => IsNext(q.number)
  PROVE  DeskInv'
<1>1. /\ request' = [request EXCEPT ![r] = q]
      /\ overlaps' = IF \A x \in Requests : request[x] = Idle
                      THEN overlaps ELSE overlaps + 1
      /\ overlaps' <= MaxOverlaps
      /\ loan' = loan /\ order' = order /\ settings' = settings
      /\ judgedBy' = judgedBy /\ undercut' = undercut
  BY DEF Enter
<1>2. request \in [Requests -> AskedRow] /\ overlaps \in 0 .. MaxOverlaps /\ MaxOverlaps \in Nat
  BY DeskAssumption DEF DeskInv, DeskSound
<1>3. \A s \in Requests : request'[s] = IF s = r THEN q ELSE request[s]
  BY <1>1, <1>2
<1>4. DeskSound'
  <2>1. request' \in [Requests -> AskedRow]
    BY <1>1, <1>2
  <2>2. overlaps' \in 0 .. MaxOverlaps
    BY <1>1, <1>2
  <2>3. \A s \in Requests :
          request'[s].op \in {"WRITE", "DELETE", "SUBMIT"} => loan[request'[s].loan] # NoLoan
    BY <1>3 DEF DeskInv, DeskSound
  <2>4. Ordered'
    BY <1>1 DEF DeskInv, DeskSound, Ordered
  <2> QED
    BY <1>1, <2>1, <2>2, <2>3, <2>4 DEF DeskInv, DeskSound
<1>5. DeskSerial'
  <2> SUFFICES ASSUME overlaps' = 0
               PROVE  DeskSerial'
    BY DEF DeskSerial
  <2>1. overlaps = 0 /\ \A s \in Requests : request[s] = Idle
    BY <1>1, <1>2
  <2>2. \A s \in Requests : request'[s] # Idle => s = r
    BY <1>3, <2>1
  <2>3. ASSUME NEW s \in Requests
        PROVE  AskedInOrder(request[s])'
    <3>1. request'[s] = q \/ request'[s] = request[s]
      BY <1>3
    <3>2. AskedInOrder(q) /\ AskedInOrder(request[s])
      BY <2>1 DEF DeskInv, DeskSerial
    <3> QED
      BY <1>1, <3>1, <3>2 DEF AskedInOrder, Amount, Months, Costs, Valid
  <2>4. ASSUME NEW l \in Loans
        PROVE  DraftInOrder(l)'
    <3>1. DraftInOrder(l)
      BY <2>1 DEF DeskInv, DeskSerial
    <3> QED
      BY <1>1, <3>1 DEF DraftInOrder, Costs, Valid
  <2> QED
    BY <2>2, <2>3, <2>4 DEF DeskSerial
<1>6. DeskNumbers'
  <2> SUFFICES ASSUME ~undercut
               PROVE  DeskNumbers'
    BY <1>1 DEF DeskNumbers
  <2>1. Increasing'
    BY <1>1 DEF DeskInv, DeskNumbers, Increasing, NumberAt
  <2>2. ASSUME NEW s \in Requests, request'[s].op = "INSERT"
        PROVE  (IsTaken(request[s].number) \/ IsNext(request[s].number))'
    <3>1. IsTaken(request'[s].number) \/ IsNext(request'[s].number)
      BY <1>3, <2>2 DEF DeskInv, DeskNumbers
    <3> QED
      BY <1>1, <3>1 DEF IsTaken, IsNext, NumberAt
  <2> QED
    BY <2>1, <2>2 DEF DeskNumbers
<1> QED
  BY <1>4, <1>5, <1>6 DEF DeskInv

\* A request ends.
LEMMA DeskDone ==
  ASSUME DeskInv, NEW r \in Requests, request[r] # Idle, Done(r)
  PROVE  /\ request' \in [Requests -> AskedRow]
         /\ \A s \in Requests : request'[s] = Idle \/ (s # r /\ request'[s] = request[s])
         /\ overlaps = 0 => \A s \in Requests : request'[s] = Idle
<1>1. request' = [request EXCEPT ![r] = Idle] /\ request \in [Requests -> AskedRow]
  BY DEF Done, DeskInv, DeskSound
<1>2. request' \in [Requests -> AskedRow]
  BY <1>1 DEF AskedRow
<1>3. \A s \in Requests : request'[s] = IF s = r THEN Idle ELSE request[s]
  BY <1>1
<1>4. overlaps = 0 => \A s \in Requests : request[s] # Idle => s = r
  BY DEF DeskInv, DeskSerial
<1> QED
  BY <1>2, <1>3, <1>4

\* Which rows a request needs to be in order, when the others are idle.
LEMMA IdleInOrder ==
  ASSUME \A s \in Requests : request'[s] = Idle
  PROVE  \A s \in Requests : AskedInOrder(request[s])'
  BY DEF AskedInOrder, Idle

LEMMA DeskFails ==
  ASSUME DeskInv, NEW r \in Requests, Fail(r)
  PROVE  DeskInv'
<1>1. /\ request[r] # Idle /\ Done(r)
      /\ loan' = loan /\ order' = order /\ settings' = settings
      /\ judgedBy' = judgedBy /\ undercut' = undercut /\ overlaps' = overlaps
  BY DEF Fail
<1>2. /\ request' \in [Requests -> AskedRow]
      /\ \A s \in Requests : request'[s] = Idle \/ (s # r /\ request'[s] = request[s])
      /\ overlaps = 0 => \A s \in Requests : request'[s] = Idle
  BY <1>1, DeskDone
<1>3. Idle.op = "IDLE"
  BY DEF Idle
<1>4. DeskSound'
  <2>1. \A s \in Requests :
          request'[s].op \in {"WRITE", "DELETE", "SUBMIT"} => loan[request'[s].loan] # NoLoan
    BY <1>2, <1>3 DEF DeskInv, DeskSound
  <2>2. Ordered'
    BY <1>1 DEF DeskInv, DeskSound, Ordered
  <2> QED
    BY <1>1, <1>2, <2>1, <2>2 DEF DeskInv, DeskSound
<1>5. DeskSerial'
  <2> SUFFICES ASSUME overlaps = 0
               PROVE  DeskSerial'
    BY <1>1 DEF DeskSerial
  <2>1. \A s \in Requests : request'[s] = Idle
    BY <1>2
  <2>2. ASSUME NEW l \in Loans
        PROVE  DraftInOrder(l)'
    <3>1. DraftInOrder(l)
      BY DEF DeskInv, DeskSerial
    <3> QED
      BY <1>1, <3>1 DEF DraftInOrder, Costs, Valid
  <2> QED
    BY <2>1, <2>2, IdleInOrder DEF DeskSerial
<1>6. DeskNumbers'
  <2> SUFFICES ASSUME ~undercut
               PROVE  DeskNumbers'
    BY <1>1 DEF DeskNumbers
  <2>1. Increasing'
    BY <1>1 DEF DeskInv, DeskNumbers, Increasing, NumberAt
  <2>2. ASSUME NEW s \in Requests, request'[s].op = "INSERT"
        PROVE  (IsTaken(request[s].number) \/ IsNext(request[s].number))'
    <3>1. IsTaken(request'[s].number) \/ IsNext(request'[s].number)
      BY <1>2, <1>3, <2>2 DEF DeskInv, DeskNumbers
    <3> QED
      BY <1>1, <3>1 DEF IsTaken, IsNext, NumberAt
  <2> QED
    BY <2>1, <2>2 DEF DeskNumbers
<1> QED
  BY <1>4, <1>5, <1>6 DEF DeskInv

LEMMA SettingsChange ==
  ASSUME DeskInv, NEW s \in AllSettings, ChangeSettings(s)
  PROVE  DeskInv'
<1>1. /\ settings' = s
      /\ loan' = loan /\ order' = order /\ request' = request
      /\ judgedBy' = judgedBy /\ undercut' = undercut /\ overlaps' = overlaps
  BY DEF ChangeSettings
<1>2. Ordered' /\ DeskSound'
  BY <1>1 DEF DeskInv, DeskSound, Ordered
<1>3. DeskSerial'
  BY <1>1 DEF DeskInv, DeskSerial, AskedInOrder, DraftInOrder, Costs, Valid, Amount, Months
<1>4. DeskNumbers'
  BY <1>1 DEF DeskInv, DeskNumbers, Increasing, IsTaken, IsNext, NumberAt
<1> QED
  BY <1>2, <1>3, <1>4 DEF DeskInv

\* What begins is of the types it has, and in order.
LEMMA DeskBegins ==
  ASSUME DeskInv, NEW r \in Requests,
         \/ \E type \in Offered, amount \in Amounts, tenor \in Tenors :
              BeginCreate(r, type, amount, tenor)
         \/ \E l \in Loans :
              \/ BeginDelete(r, l) \/ BeginSubmit(r, l)
              \/ \E amount \in Amounts \cup {0}, tenor \in Tenors \cup {0} :
                   BeginUpdate(r, l, amount, tenor)
  PROVE  DeskInv'
<1>1. /\ Offered \subseteq LoanTypes /\ Amounts \subseteq Nat \ {0}
      /\ Tenors \subseteq Nat \ {0} /\ settings \in AllSettings /\ MaxNumbers \in Nat
      /\ DeskSound
  BY DeskAssumption DEF DeskInv, DeskSound
<1>2. ASSUME NEW type \in Offered, NEW amount \in Amounts, NEW tenor \in Tenors,
             BeginCreate(r, type, amount, tenor)
      PROVE  DeskInv'
  <2>1. PICK given, n, terms :
          /\ given = IF type = "GOODS_PHONE" THEN 0 ELSE amount
          /\ n = NextNumber(LoanNumbers, type)
          /\ terms = Details(type, given, tenor)
    OBVIOUS
  <2>2. PICK q : q = [op |-> "INSERT", type |-> type, amount |-> given, tenor |-> tenor,
                      number |-> n, terms |-> terms]
    OBVIOUS
  <2>3. n.seq <= MaxNumbers /\ Enter(r, q)
    BY <1>2, <2>1, <2>2 DEF BeginCreate
  <2>4. type \in LoanTypes /\ given \in Amounts \cup {0} /\ given \in Nat /\ tenor \in Nat \ {0}
    BY <1>1, <2>1
  <2>5. terms \in Terms /\ Costs(type, given, tenor, terms)
    BY <1>1, <2>1, <2>4, DetailsCost
  <2>6. n \in Numbers
    <3>1. PICK seq : n = [kind |-> type, seq |-> seq]
      BY <2>1 DEF NextNumber
    <3>2. CASE OfSeries(LoanNumbers, type) = {}
      <4>1. n.seq = 1
        BY <2>1, <3>2 DEF NextNumber
      <4> QED
        BY <1>1, <2>3, <2>4, <3>1, <4>1 DEF Numbers
    <3>3. CASE OfSeries(LoanNumbers, type) # {}
      <4>1. PICK series : series = OfSeries(LoanNumbers, type)
        OBVIOUS
      <4>2. Len(order) \in Nat /\ DOMAIN order = 1 .. Len(order)
        BY <1>1, LenProperties DEF DeskSound, Ordered
      <4>3. series \subseteq 1 .. Len(order)
        BY <4>1, <4>2 DEF OfSeries, LoanNumbers
      <4>4. IsFiniteSet(1 .. Len(order))
        BY <4>2, FS_Interval
      <4>5. IsFiniteSet(series)
        BY <4>3, <4>4, FS_Subset
      <4>6. Max(series) \in series
        BY <3>3, <4>1, <4>2, <4>3, <4>5, MaxOfFinite
      <4>7. Max(series) \in 1 .. Len(order)
        BY <4>3, <4>6 DEF Max, Max
      <4>8. LoanNumbers[Max(series)].seq \in Nat
        BY <1>1, <4>2, <4>7, NumbersOfRows DEF LoanNumbers, NumberAt
      <4>9. n.seq = LoanNumbers[Max(series)].seq + 1
        BY <2>1, <3>3, <4>1 DEF NextNumber
      <4> QED
        BY <1>1, <2>3, <2>4, <3>1, <4>8, <4>9 DEF Numbers
    <3> QED
      BY <3>2, <3>3
  <2>7. q \in AskedRow
    BY <2>2, <2>4, <2>5, <2>6 DEF AskedRow
  <2>8. /\ q.op = "INSERT" /\ q.type = type /\ q.amount = given /\ q.tenor = tenor
        /\ q.terms = terms /\ q.number = n
    BY <2>2
  <2>9. AskedInOrder(q)
    BY <2>5, <2>8 DEF AskedInOrder
  <2>10. ~undercut => IsNext(n)
    BY <1>1, <2>1, NextIsNext DEF DeskInv, DeskNumbers
  <2> QED
    BY <2>3, <2>7, <2>8, <2>9, <2>10, DeskEntered
<1>3. ASSUME NEW l \in Loans, loan[l].status = "DRAFT"
      PROVE  /\ loan[l] # NoLoan /\ loan[l] \in LoanRow
             /\ loan[l].type \in LoanTypes /\ loan[l].amount \in Amounts \cup {0}
             /\ loan[l].tenor \in Tenors
  <2>1. loan[l] # NoLoan
    BY <1>3 DEF NoLoan
  <2>2. loan[l] \in LoanRow
    BY <1>1, <2>1 DEF DeskSound
  <2> QED
    BY <2>1, <2>2 DEF LoanRow
<1>4. ASSUME NEW l \in Loans, BeginDelete(r, l)
      PROVE  DeskInv'
  <2>1. PICK q : q = [op |-> "DELETE", loan |-> l]
    OBVIOUS
  <2>2. loan[l].status = "DRAFT" /\ Enter(r, q)
    BY <1>4, <2>1 DEF BeginDelete, IsDraft
  <2>3. q \in AskedRow /\ q.op = "DELETE" /\ q.loan = l
    BY <2>1 DEF AskedRow
  <2>4. AskedInOrder(q)
    BY <2>3 DEF AskedInOrder
  <2>5. loan[q.loan] # NoLoan
    BY <1>3, <2>2, <2>3
  <2> QED
    BY <2>2, <2>3, <2>4, <2>5, DeskEntered
<1>5. ASSUME NEW l \in Loans, BeginSubmit(r, l)
      PROVE  DeskInv'
  <2>1. PICK q : q = [op |-> "SUBMIT", loan |-> l, by |-> settings]
    OBVIOUS
  <2>2. loan[l].status = "DRAFT" /\ Enter(r, q) /\ Valid(settings, loan[l])
    BY <1>5, <2>1 DEF BeginSubmit, Submittable, IsDraft, Valid
  <2>3. q \in AskedRow /\ q.op = "SUBMIT" /\ q.loan = l /\ q.by = settings
    BY <1>1, <2>1 DEF AskedRow
  <2>4. AskedInOrder(q)
    BY <2>2, <2>3 DEF AskedInOrder
  <2>5. loan[q.loan] # NoLoan
    BY <1>3, <2>2, <2>3
  <2> QED
    BY <2>2, <2>3, <2>4, <2>5, DeskEntered
<1>6. ASSUME NEW l \in Loans, NEW amount \in Amounts \cup {0}, NEW tenor \in Tenors \cup {0},
             BeginUpdate(r, l, amount, tenor)
      PROVE  DeskInv'
  <2>1. PICK given, terms :
          /\ given = IF loan[l].type \in {"CASH_LOAN", "EXCESS_LOAN"} THEN amount ELSE 0
          /\ terms = UpdatedTerms(loan[l], given, tenor)
    OBVIOUS
  <2>2. PICK q : q = [op |-> "WRITE", loan |-> l, amount |-> given, tenor |-> tenor,
                      terms |-> terms]
    OBVIOUS
  <2>3. loan[l].status = "DRAFT" /\ Enter(r, q)
    BY <1>6, <2>1, <2>2 DEF BeginUpdate, IsDraft, NotGiven
  <2>4. given \in Amounts \cup {0}
    BY <2>1
  <2>5. /\ q.op = "WRITE" /\ q.loan = l /\ q.amount = given /\ q.tenor = tenor
        /\ q.terms = terms
    BY <2>2
  <2>6. /\ terms = Details(loan[l].type, Amount(loan[l], q), Months(loan[l], q))
        /\ Amount(loan[l], q) \in Nat /\ Months(loan[l], q) \in Nat \ {0}
    <3>1. terms = Details(loan[l].type,
                    IF given = 0 THEN loan[l].amount ELSE given,
                    IF tenor = 0 THEN loan[l].tenor ELSE tenor)
      BY <2>1 DEF UpdatedTerms, NotGiven
    <3>2. /\ Amount(loan[l], q) = IF given = 0 THEN loan[l].amount ELSE given
          /\ Months(loan[l], q) = IF tenor = 0 THEN loan[l].tenor ELSE tenor
      BY <2>5 DEF Amount, Months
    <3>3. loan[l].amount \in Amounts \cup {0} /\ loan[l].tenor \in Tenors
      BY <1>3, <2>3
    <3>4. Amount(loan[l], q) \in Nat
      <4>1. \A a \in Amounts \cup {0} : a \in Nat
        BY <1>1
      <4> QED
        BY <2>4, <3>2, <3>3, <4>1
    <3>5. Months(loan[l], q) \in Tenors
      BY <3>2, <3>3
    <3>6. Months(loan[l], q) \in Nat \ {0}
      BY <1>1, <3>5
    <3> QED
      BY <3>1, <3>2, <3>4, <3>6
  <2>7. /\ terms \in Terms
        /\ Costs(loan[l].type, Amount(loan[l], q), Months(loan[l], q), terms)
    BY <1>1, <1>3, <2>3, <2>6, DetailsCost
  <2>8. q \in AskedRow
    BY <2>2, <2>4, <2>7 DEF AskedRow
  <2>9. AskedInOrder(q)
    BY <2>3, <2>5, <2>7 DEF AskedInOrder
  <2>10. loan[q.loan] # NoLoan
    BY <1>3, <2>3, <2>5
  <2> QED
    BY <2>3, <2>5, <2>8, <2>9, <2>10, DeskEntered
<1> QED
  BY <1>2, <1>4, <1>5, <1>6


\* What the requests that are left have, after a row was written.
LEMMA OthersSound ==
  ASSUME DeskInv, NEW r \in Requests, request[r] # Idle, Done(r),
         \A l \in Loans : loan[l] # NoLoan => loan'[l] # NoLoan
  PROVE  /\ request' \in [Requests -> AskedRow]
         /\ \A s \in Requests :
              request'[s].op \in {"WRITE", "DELETE", "SUBMIT"} => loan'[request'[s].loan] # NoLoan
<1>1. /\ request' \in [Requests -> AskedRow]
      /\ \A s \in Requests : request'[s] = Idle \/ (s # r /\ request'[s] = request[s])
  BY DeskDone
<1>2. ASSUME NEW s \in Requests, request'[s].op \in {"WRITE", "DELETE", "SUBMIT"}
      PROVE  loan'[request'[s].loan] # NoLoan
  <2>1. request'[s] = request[s]
    BY <1>1, <1>2 DEF Idle
  <2>2. request[s] \in AskedRow
    BY DEF DeskInv, DeskSound
  <2>3. request[s].loan \in Loans
    BY <1>2, <2>1, <2>2 DEF AskedRow, Idle
  <2>4. loan[request[s].loan] # NoLoan
    BY <1>2, <2>1 DEF DeskInv, DeskSound
  <2> QED
    BY <2>1, <2>3, <2>4
<1> QED
  BY <1>1, <1>2

LEMMA DraftInserted ==
  ASSUME DeskInv, NEW r \in Requests, NEW l \in Loans, Insert(r, l)
  PROVE  DeskInv'
<1>1. PICK q : q = request[r]
  OBVIOUS
<1>2. PICK row : row = [number |-> q.number, type |-> q.type, amount |-> q.amount,
                        tenor |-> q.tenor, terms |-> q.terms, status |-> "DRAFT"]
  OBVIOUS
<1>3. /\ q.op = "INSERT" /\ loan[l] = NoLoan
      /\ loan' = [loan EXCEPT ![l] = row] /\ order' = Append(order, l)
      /\ Done(r)
      /\ settings' = settings /\ judgedBy' = judgedBy /\ overlaps' = overlaps
      /\ undercut' = undercut
  BY <1>1, <1>2 DEF Insert, Is
<1>4. ~IsTaken(q.number)
  BY <1>1, NumbersTaken DEF Insert, DeskInv
<1>5. DeskSound
  BY DEF DeskInv
<1>6. q \in AskedRow /\ request[r] # Idle
  BY <1>1, <1>3, <1>5 DEF DeskSound, Idle
<1>7. /\ q.type \in LoanTypes /\ q.amount \in Amounts \cup {0} /\ q.tenor \in Tenors
      /\ q.number \in Numbers /\ q.terms \in Terms
  BY <1>3, <1>6 DEF AskedRow, Idle
<1>8. /\ row \in LoanRow /\ row # NoLoan
      /\ row.status = "DRAFT" /\ row.number = q.number /\ row.type = q.type
      /\ row.amount = q.amount /\ row.tenor = q.tenor /\ row.terms = q.terms
  BY <1>2, <1>7 DEF LoanRow, NoLoan, Terms
<1>9. /\ loan' \in [Loans -> {NoLoan} \cup LoanRow]
      /\ \A m \in Loans : loan'[m] = IF m = l THEN row ELSE loan[m]
  BY <1>3, <1>5, <1>8 DEF DeskSound
<1>10. /\ order \in Seq(Loans) /\ Len(order) \in Nat
       /\ \A i, j \in 1 .. Len(order) : order[i] = order[j] => i = j
       /\ \A m \in Loans : loan[m] # NoLoan <=> \E i \in 1 .. Len(order) : order[i] = m
       /\ \A i \in 1 .. Len(order) : order[i] \in Loans
  BY <1>5, ElementOfSeq, LenProperties DEF DeskSound, Ordered
<1>11. PICK n : n = Len(order)
  OBVIOUS
<1>12. /\ order' \in Seq(Loans) /\ Len(order') = n + 1 /\ n \in Nat
       /\ \A i \in 1 .. n : order'[i] = order[i]
       /\ order'[n + 1] = l
  BY <1>3, <1>10, <1>11, AppendProperties
<1>13. \A i \in 1 .. n : order[i] # l
  BY <1>3, <1>10, <1>11
<1>14. Ordered'
  <2>1. \A i, j \in 1 .. n + 1 : order'[i] = order'[j] => i = j
    <3> SUFFICES ASSUME NEW i \in 1 .. n + 1, NEW j \in 1 .. n + 1, order'[i] = order'[j]
                 PROVE  i = j
      OBVIOUS
    <3>1. (i \in 1 .. n \/ i = n + 1) /\ (j \in 1 .. n \/ j = n + 1)
      BY <1>12
    <3>2. CASE i \in 1 .. n /\ j \in 1 .. n
      BY <1>10, <1>11, <1>12, <3>2
    <3>3. CASE i = n + 1 /\ j \in 1 .. n
      BY <1>12, <1>13, <3>3
    <3>4. CASE i \in 1 .. n /\ j = n + 1
      BY <1>12, <1>13, <3>4
    <3> QED
      BY <3>1, <3>2, <3>3, <3>4
  <2>2. \A m \in Loans : loan'[m] # NoLoan <=> \E i \in 1 .. n + 1 : order'[i] = m
    <3> SUFFICES ASSUME NEW m \in Loans
                 PROVE  loan'[m] # NoLoan <=> \E i \in 1 .. n + 1 : order'[i] = m
      OBVIOUS
    <3>1. CASE m = l
      <4>1. n + 1 \in 1 .. n + 1
        BY <1>12
      <4> QED
        BY <1>8, <1>9, <1>12, <3>1, <4>1
    <3>2. CASE m # l
      <4>1. \A i \in 1 .. n + 1 : order'[i] = m => i \in 1 .. n /\ order[i] = m
        BY <1>12, <3>2
      <4>2. \A i \in 1 .. n : i \in 1 .. n + 1 /\ order'[i] = order[i]
        BY <1>12
      <4> QED
        BY <1>9, <1>10, <1>11, <3>2, <4>1, <4>2
    <3> QED
      BY <3>1, <3>2
  <2> QED
    BY <1>12, <2>1, <2>2 DEF Ordered
<1>15. DeskSound'
  <2>1. \A m \in Loans : loan[m] # NoLoan => loan'[m] # NoLoan
    BY <1>8, <1>9
  <2>2. /\ request' \in [Requests -> AskedRow]
        /\ \A s \in Requests :
             request'[s].op \in {"WRITE", "DELETE", "SUBMIT"} => loan'[request'[s].loan] # NoLoan
    BY <1>3, <1>6, <2>1, OthersSound
  <2> QED
    BY <1>3, <1>5, <1>9, <1>14, <2>2 DEF DeskSound
<1>16. DeskSerial'
  <2> SUFFICES ASSUME overlaps = 0
               PROVE  DeskSerial'
    BY <1>3 DEF DeskSerial
  <2>1. \A s \in Requests : request'[s] = Idle
    BY <1>3, <1>6, DeskDone
  <2>2. Costs(q.type, q.amount, q.tenor, q.terms)
    BY <1>1, <1>3 DEF DeskInv, DeskSerial, AskedInOrder
  <2>3. ASSUME NEW m \in Loans
        PROVE  DraftInOrder(m)'
    <3>1. DraftInOrder(m)
      BY DEF DeskInv, DeskSerial
    <3>2. CASE m = l
      BY <1>8, <1>9, <2>2, <3>2 DEF DraftInOrder, Costs
    <3>3. CASE m # l
      BY <1>3, <1>9, <3>1, <3>3 DEF DraftInOrder, Costs, Valid
    <3> QED
      BY <3>2, <3>3
  <2> QED
    BY <2>1, <2>3, IdleInOrder DEF DeskSerial
<1>17. DeskNumbers'
  <2> SUFFICES ASSUME ~undercut
               PROVE  DeskNumbers'
    BY <1>3 DEF DeskNumbers
  <2>1. Increasing /\ IsNext(q.number)
    BY <1>1, <1>3, <1>4 DEF DeskInv, DeskNumbers
  <2>2. /\ \A i \in 1 .. n : loan'[order'[i]].number = NumberAt(i)
        /\ loan'[order'[n + 1]].number = q.number
    BY <1>8, <1>9, <1>10, <1>11, <1>12, <1>13 DEF NumberAt
  <2>3. /\ \A i \in 1 .. n : NumberAt(i)' = NumberAt(i)
        /\ NumberAt(n + 1)' = q.number
    BY <2>2 DEF NumberAt
  <2>4. Increasing'
    <3> SUFFICES ASSUME NEW i \in 1 .. n + 1, NEW j \in 1 .. n + 1, i < j,
                        NumberAt(i)'.kind = NumberAt(j)'.kind
                 PROVE  NumberAt(i)'.seq < NumberAt(j)'.seq
      BY <1>12 DEF Increasing
    <3>1. i \in 1 .. n /\ (j \in 1 .. n \/ j = n + 1)
      BY <1>12
    <3>2. CASE j \in 1 .. n
      BY <1>11, <2>1, <2>3, <3>1, <3>2 DEF Increasing
    <3>3. CASE j = n + 1
      BY <1>11, <2>1, <2>3, <3>1, <3>3 DEF IsNext
    <3> QED
      BY <3>1, <3>2, <3>3
  <2>5. ASSUME NEW s \in Requests, request'[s].op = "INSERT"
        PROVE  (IsTaken(request[s].number) \/ IsNext(request[s].number))'
    <3>1. PICK p : p = request'[s]
      OBVIOUS
    <3>2. p = request[s]
      BY <1>3, <1>6, <2>5, <3>1, DeskDone DEF Idle
    <3>3. IsTaken(p.number) \/ IsNext(p.number)
      BY <2>5, <3>1, <3>2 DEF DeskInv, DeskNumbers
    <3>4. CASE \E i \in 1 .. n : NumberAt(i) = p.number
      <4>1. \E i \in 1 .. n + 1 : NumberAt(i)' = p.number
        BY <1>12, <2>3, <3>4
      <4> QED
        BY <1>12, <3>1, <4>1 DEF IsTaken
    <3>5. CASE IsNext(p.number) /\ p.number.kind = q.number.kind
      <4>1. p \in AskedRow /\ p.op = "INSERT"
        BY <1>5, <2>5, <3>1, <3>2 DEF DeskSound
      <4>2. p.number \in Numbers
        BY <4>1 DEF AskedRow, Idle
      <4>3. p.number.seq # 0 /\ q.number.seq # 0
        BY <1>7, <4>2 DEF Numbers
      <4>4. p.number.seq = q.number.seq
        BY <1>5, <2>1, <3>5, <4>3, OneNext
      <4>5. p.number = q.number
        BY <1>7, <3>5, <4>2, <4>4 DEF Numbers
      <4>6. n + 1 \in 1 .. n + 1 /\ NumberAt(n + 1)' = p.number
        BY <1>12, <2>3, <4>5
      <4> QED
        BY <1>12, <3>1, <4>6 DEF IsTaken
    <3>6. CASE IsNext(p.number) /\ p.number.kind # q.number.kind
      <4>1. \A i \in 1 .. n + 1 :
              NumberAt(i)'.kind = p.number.kind => i \in 1 .. n /\ NumberAt(i)' = NumberAt(i)
        BY <1>12, <2>3, <3>6
      <4>2. \A i \in 1 .. n + 1 :
              NumberAt(i)'.kind = p.number.kind => NumberAt(i)'.seq < p.number.seq
        BY <1>11, <3>6, <4>1 DEF IsNext
      <4>3. p.number.seq = 1 \/ \E i \in 1 .. n + 1 :
              NumberAt(i)'.kind = p.number.kind /\ NumberAt(i)'.seq + 1 = p.number.seq
        <5>1. p.number.seq = 1 \/ \E i \in 1 .. n :
                NumberAt(i).kind = p.number.kind /\ NumberAt(i).seq + 1 = p.number.seq
          BY <1>11, <3>6 DEF IsNext
        <5>2. \A i \in 1 .. n : i \in 1 .. n + 1 /\ NumberAt(i)' = NumberAt(i)
          BY <1>12, <2>3
        <5> QED
          BY <5>1, <5>2
      <4>4. p.number.seq \in Nat
        BY <3>6 DEF IsNext
      <4> QED
        BY <1>12, <3>1, <4>2, <4>3, <4>4 DEF IsNext
    <3> QED
      BY <1>11, <3>3, <3>4, <3>5, <3>6 DEF IsTaken
  <2> QED
    BY <2>4, <2>5 DEF DeskNumbers
<1> QED
  BY <1>15, <1>16, <1>17 DEF DeskInv


\* The row of a loan changes, but not its number; no loan comes or goes.
LEMMA DraftWritten ==
  ASSUME DeskInv, NEW r \in Requests, request[r] # Idle, Done(r),
         NEW l \in Loans, loan[l] # NoLoan,
         NEW row \in LoanRow, row.number = loan[l].number,
         loan' = [loan EXCEPT ![l] = row],
         judgedBy' \in [Loans -> AllSettings \cup {Idle}],
         order' = order, settings' = settings, overlaps' = overlaps, undercut' = undercut,
         overlaps = 0 =>
           /\ Costs(row.type, row.amount, row.tenor, row.terms)
           /\ row.status # "DRAFT" => judgedBy'[l] \in AllSettings /\ Valid(judgedBy'[l], row)
           /\ \A m \in Loans \ {l} : judgedBy'[m] = judgedBy[m],
         ~(request[r].op = "INSERT")
  PROVE  DeskInv'
<1>1. DeskSound
  BY DEF DeskInv
<1>2. row # NoLoan
  BY DEF LoanRow, NoLoan
<1>3. /\ loan' \in [Loans -> {NoLoan} \cup LoanRow]
      /\ \A m \in Loans : loan'[m] = IF m = l THEN row ELSE loan[m]
  BY <1>1 DEF DeskSound
<1>4. \A m \in Loans : loan'[m] # NoLoan <=> loan[m] # NoLoan
  BY <1>2, <1>3
<1>5. Ordered'
  BY <1>1, <1>4 DEF DeskSound, Ordered
<1>6. DeskSound'
  <2>1. /\ request' \in [Requests -> AskedRow]
        /\ \A s \in Requests :
             request'[s].op \in {"WRITE", "DELETE", "SUBMIT"} => loan'[request'[s].loan] # NoLoan
    BY <1>4, OthersSound
  <2> QED
    BY <1>1, <1>3, <1>5, <2>1 DEF DeskSound
<1>7. DeskSerial'
  <2> SUFFICES ASSUME overlaps = 0
               PROVE  DeskSerial'
    BY DEF DeskSerial
  <2>1. \A s \in Requests : request'[s] = Idle
    BY DeskDone
  <2>2. ASSUME NEW m \in Loans
        PROVE  DraftInOrder(m)'
    <3>1. DraftInOrder(m)
      BY DEF DeskInv, DeskSerial
    <3>2. CASE m = l
      BY <1>3, <3>2 DEF DraftInOrder, Costs, Valid
    <3>3. CASE m # l
      BY <1>3, <3>1, <3>3 DEF DraftInOrder, Costs, Valid
    <3> QED
      BY <3>2, <3>3
  <2> QED
    BY <2>1, <2>2, IdleInOrder DEF DeskSerial
<1>8. DeskNumbers'
  <2> SUFFICES ASSUME ~undercut
               PROVE  DeskNumbers'
    BY DEF DeskNumbers
  <2>1. \A i \in 1 .. Len(order) : NumberAt(i)' = NumberAt(i)
    BY <1>1, <1>3, NumbersOfRows DEF NumberAt
  <2>2. Increasing'
    BY <2>1 DEF DeskInv, DeskNumbers, Increasing
  <2>3. ASSUME NEW s \in Requests, request'[s].op = "INSERT"
        PROVE  (IsTaken(request[s].number) \/ IsNext(request[s].number))'
    <3>1. PICK p : p = request'[s]
      OBVIOUS
    <3>2. p = request[s]
      BY <2>3, <3>1, DeskDone DEF Idle
    <3>3. IsTaken(p.number) \/ IsNext(p.number)
      BY <2>3, <3>1, <3>2 DEF DeskInv, DeskNumbers
    <3> QED
      BY <2>1, <3>1, <3>3 DEF IsTaken, IsNext
  <2> QED
    BY <2>2, <2>3 DEF DeskNumbers
<1> QED
  BY <1>6, <1>7, <1>8 DEF DeskInv

LEMMA DraftUpdated ==
  ASSUME DeskInv, NEW r \in Requests, Update(r)
  PROVE  DeskInv'
<1>1. PICK q, l : q = request[r] /\ l = q.loan
  OBVIOUS
<1>2. PICK row : row = [loan[l] EXCEPT !.amount = Amount(loan[l], q),
                                        !.tenor = Months(loan[l], q),
                                        !.terms = q.terms]
  OBVIOUS
<1>3. /\ loan \in [Loans -> {NoLoan} \cup LoanRow] /\ q \in AskedRow
      /\ judgedBy \in [Loans -> AllSettings \cup {Idle}]
  BY <1>1 DEF DeskInv, DeskSound
<1>4. /\ q.op = "WRITE" /\ Done(r)
      /\ order' = order /\ settings' = settings /\ judgedBy' = judgedBy
      /\ overlaps' = overlaps /\ undercut' = undercut
  BY <1>1 DEF Update, Is
<1>5. request[r] # Idle
  BY <1>1, <1>4 DEF Idle
<1>6. /\ l \in Loans /\ q.amount \in Amounts \cup {0} /\ q.tenor \in Tenors \cup {0}
      /\ q.terms \in Terms
  BY <1>1, <1>3, <1>4 DEF AskedRow, Idle
<1>7. loan[l] # NoLoan /\ loan[l] \in LoanRow
  BY <1>1, <1>3, <1>4, <1>6 DEF DeskInv, DeskSound
<1>8. loan' = [loan EXCEPT ![l] = row]
  BY <1>1, <1>2 DEF Update, NotGiven, Amount, Months
<1>9. /\ row \in LoanRow /\ row.number = loan[l].number /\ row.type = loan[l].type
      /\ row.status = loan[l].status /\ row.terms = q.terms
      /\ row.amount = Amount(loan[l], q) /\ row.tenor = Months(loan[l], q)
  <2>1. Amount(loan[l], q) \in Amounts \cup {0} /\ Months(loan[l], q) \in Tenors
    BY <1>6, <1>7 DEF LoanRow, Amount, Months
  <2> QED
    BY <1>2, <1>6, <1>7, <2>1 DEF LoanRow, Terms
<1>10. overlaps = 0 => /\ Costs(row.type, row.amount, row.tenor, row.terms)
                        /\ row.status = "DRAFT"
  BY <1>1, <1>4, <1>9 DEF DeskInv, DeskSerial, AskedInOrder
<1> QED
  BY <1>1, <1>3, <1>4, <1>5, <1>6, <1>7, <1>8, <1>9, <1>10, DraftWritten

LEMMA DraftSubmitted ==
  ASSUME DeskInv, NEW r \in Requests, Submit(r)
  PROVE  DeskInv'
<1>1. PICK q, l : q = request[r] /\ l = q.loan
  OBVIOUS
<1>2. PICK row : row = [loan[l] EXCEPT !.status = "UNDER_REVIEW_DSP"]
  OBVIOUS
<1>3. /\ loan \in [Loans -> {NoLoan} \cup LoanRow] /\ q \in AskedRow
      /\ judgedBy \in [Loans -> AllSettings \cup {Idle}]
  BY <1>1 DEF DeskInv, DeskSound
<1>4. /\ q.op = "SUBMIT" /\ Done(r)
      /\ order' = order /\ settings' = settings
      /\ judgedBy' = [judgedBy EXCEPT ![l] = q.by]
      /\ overlaps' = overlaps /\ undercut' = undercut
  BY <1>1 DEF Submit, Is
<1>5. request[r] # Idle
  BY <1>1, <1>4 DEF Idle
<1>6. l \in Loans /\ q.by \in AllSettings
  BY <1>1, <1>3, <1>4 DEF AskedRow, Idle
<1>7. loan[l] # NoLoan /\ loan[l] \in LoanRow
  BY <1>1, <1>3, <1>4, <1>6 DEF DeskInv, DeskSound
<1>8. loan' = [loan EXCEPT ![l] = row]
  BY <1>1, <1>2, <1>3, <1>6 DEF Submit
<1>9. /\ row \in LoanRow /\ row.number = loan[l].number /\ row.type = loan[l].type
      /\ row.terms = loan[l].terms /\ row.amount = loan[l].amount
      /\ row.tenor = loan[l].tenor
  BY <1>2, <1>7 DEF LoanRow
<1>10. /\ judgedBy' \in [Loans -> AllSettings \cup {Idle}]
       /\ judgedBy'[l] = q.by /\ \A m \in Loans \ {l} : judgedBy'[m] = judgedBy[m]
  BY <1>3, <1>4, <1>6
<1>11. ASSUME overlaps = 0
       PROVE  /\ Costs(row.type, row.amount, row.tenor, row.terms)
              /\ Valid(q.by, row)
  <2>1. DraftInOrder(l) /\ Valid(q.by, loan[l])
    BY <1>1, <1>4, <1>6, <1>11 DEF DeskInv, DeskSerial, AskedInOrder
  <2> QED
    BY <1>7, <1>9, <2>1 DEF DraftInOrder, Valid
<1> QED
  BY <1>1, <1>4, <1>5, <1>6, <1>7, <1>8, <1>9, <1>10, <1>11, DraftWritten


\* t is s, of length n, without its element at the position at.
IsWithout(t, s, n, at) ==
  n = Len(s) /\ at \in 1 .. n /\ t = SubSeq(s, 1, at - 1) \o SubSeq(s, at + 1, n)

LEMMA WithoutOne ==
  ASSUME NEW S, NEW s \in Seq(S), NEW n, NEW at, NEW t, IsWithout(t, s, n, at)
  PROVE  /\ t \in Seq(S) /\ Len(t) = n - 1
         /\ \A i \in 1 .. n - 1 : t[i] = s[IF i < at THEN i ELSE i + 1]
<1>1. /\ n = Len(s) /\ at \in 1 .. n
      /\ t = SubSeq(s, 1, at - 1) \o SubSeq(s, at + 1, n)
  BY DEF IsWithout
<1>2. n \in Nat /\ at \in 1 .. n /\ \A i \in 1 .. n : s[i] \in S
  BY <1>1, LenProperties, ElementOfSeq
<1>3. PICK u, v : u = SubSeq(s, 1, at - 1) /\ v = SubSeq(s, at + 1, n)
  OBVIOUS
<1>4. /\ u \in Seq(S) /\ Len(u) = at - 1
      /\ \A i \in 1 .. at - 1 : u[i] = s[i]
  <2>1. \A i \in 1 .. at - 1 : s[i] \in S
    BY <1>2
  <2>2. /\ u \in Seq(S) /\ Len(u) = IF 1 <= at - 1 THEN (at - 1) - 1 + 1 ELSE 0
        /\ \A i \in 1 .. (at - 1) - 1 + 1 : u[i] = s[1 + i - 1]
    BY <1>2, <1>3, <2>1, SubSeqProperties
  <2> QED
    BY <1>2, <2>2
<1>5. /\ v \in Seq(S) /\ Len(v) = n - at
      /\ \A i \in 1 .. n - at : v[i] = s[at + i]
  <2>1. \A i \in at + 1 .. n : s[i] \in S
    BY <1>2
  <2>2. /\ v \in Seq(S) /\ Len(v) = IF at + 1 <= n THEN n - (at + 1) + 1 ELSE 0
        /\ \A i \in 1 .. n - (at + 1) + 1 : v[i] = s[(at + 1) + i - 1]
    BY <1>2, <1>3, <2>1, SubSeqProperties
  <2> QED
    BY <1>2, <2>2
<1>6. /\ t \in Seq(S) /\ Len(t) = (at - 1) + (n - at)
      /\ \A i \in 1 .. (at - 1) + (n - at) :
           t[i] = IF i <= at - 1 THEN u[i] ELSE v[i - (at - 1)]
  <2>1. t = u \o v
    BY <1>1, <1>3
  <2>2. u \in Seq(S) /\ v \in Seq(S)
    BY <1>4, <1>5
  <2>3. /\ u \o v \in Seq(S) /\ Len(u \o v) = Len(u) + Len(v)
        /\ \A i \in 1 .. Len(u) + Len(v) :
             (u \o v)[i] = IF i <= Len(u) THEN u[i] ELSE v[i - Len(u)]
    BY <2>2, ConcatProperties, Zenon
  <2> QED
    BY <1>4, <1>5, <2>1, <2>3, Zenon
<1>7. Len(t) = n - 1 /\ (at - 1) + (n - at) = n - 1
  <2>1. (at - 1) + (n - at) = n - 1
    BY <1>2
  <2> QED
    BY <1>6, <2>1, Zenon
<1>8. ASSUME NEW i \in 1 .. n - 1
      PROVE  t[i] = s[IF i < at THEN i ELSE i + 1]
  <2>1. t[i] = IF i <= at - 1 THEN u[i] ELSE v[i - (at - 1)]
    BY <1>6, <1>7, Zenon
  <2>2. CASE i < at
    <3>1. i \in 1 .. at - 1 /\ i <= at - 1
      BY <1>2, <2>2
    <3>2. t[i] = u[i] /\ u[i] = s[i]
      BY <1>4, <2>1, <3>1, Zenon
    <3> QED
      BY <2>2, <3>2, Zenon
  <2>3. CASE ~(i < at)
    <3>1. i - (at - 1) \in 1 .. n - at /\ at + (i - (at - 1)) = i + 1 /\ ~(i <= at - 1)
      BY <1>2, <2>3
    <3> QED
      BY <1>5, <2>1, <2>3, <3>1
  <2> QED
    BY <2>2, <2>3
<1> QED
  BY <1>1, <1>6, <1>7, <1>8

LEMMA DraftDeleted ==
  ASSUME DeskInv, NEW r \in Requests, Delete(r)
  PROVE  DeskInv'
<1>1. PICK l : l = request[r].loan
  OBVIOUS
<1>2. DeskSound
  BY DEF DeskInv
<1>3. /\ request[r].op = "DELETE" /\ loan' = [loan EXCEPT ![l] = NoLoan]
      /\ order' = RemoveAt(order, CHOOSE i \in DOMAIN order : order[i] = l)
      /\ judgedBy' = [judgedBy EXCEPT ![l] = Idle]
      /\ undercut' = (undercut \/ \E x \in Requests : request[x].op = "INSERT")
      /\ request' = [x \in Requests |->
           IF request[x].op \in {"WRITE", "DELETE", "SUBMIT"} /\ request[x].loan = l
           THEN Idle ELSE request[x]]
      /\ settings' = settings /\ overlaps' = overlaps
  BY <1>1 DEF Delete, Is
<1>4. request[r] \in AskedRow /\ request[r] # Idle
  BY <1>2, <1>3 DEF DeskSound, Idle
<1>5. l \in Loans
  BY <1>1, <1>3, <1>4 DEF AskedRow, Idle
<1>6. loan[l] # NoLoan
  BY <1>1, <1>2, <1>3 DEF DeskSound
<1>7. /\ order \in Seq(Loans) /\ Len(order) \in Nat /\ DOMAIN order = 1 .. Len(order)
      /\ \A i, j \in 1 .. Len(order) : order[i] = order[j] => i = j
      /\ \A m \in Loans : loan[m] # NoLoan <=> \E i \in 1 .. Len(order) : order[i] = m
  BY <1>2, LenProperties DEF DeskSound, Ordered
<1>8. PICK at : at = CHOOSE i \in DOMAIN order : order[i] = l
  OBVIOUS
<1>9. at \in 1 .. Len(order) /\ order[at] = l
  BY <1>5, <1>6, <1>7, <1>8
<1>10. order' = SubSeq(order, 1, at - 1) \o SubSeq(order, at + 1, Len(order))
  BY <1>3, <1>8 DEF RemoveAt
<1>11. PICK n : n = Len(order)
  OBVIOUS
<1>12. /\ order' \in Seq(Loans) /\ Len(order') = n - 1 /\ n \in Nat /\ at \in 1 .. n
       /\ \A i \in 1 .. n - 1 : order'[i] = order[IF i < at THEN i ELSE i + 1]
  <2>1. PICK after : after = order'
    OBVIOUS
  <2>2. order \in Seq(Loans) /\ n = Len(order) /\ n \in Nat /\ at \in 1 .. n
    BY <1>7, <1>9, <1>11
  <2>3. after = SubSeq(order, 1, at - 1) \o SubSeq(order, at + 1, n)
    BY <1>10, <1>11, <2>1
  <2>4. /\ after \in Seq(Loans) /\ Len(after) = n - 1
        /\ \A i \in 1 .. n - 1 : after[i] = order[IF i < at THEN i ELSE i + 1]
    <3>1. order \in Seq(Loans) /\ IsWithout(after, order, n, at)
      BY <2>2, <2>3 DEF IsWithout
    <3> QED
      BY <3>1, WithoutOne
  <2> QED
    BY <2>1, <2>2, <2>4
<1> DEFINE from(i) == IF i < at THEN i ELSE i + 1
<1>13. /\ \A i \in 1 .. n - 1 : from(i) \in 1 .. n /\ from(i) # at
       /\ \A i \in 1 .. n - 1 : order'[i] = order[from(i)]
       /\ \A i, j \in 1 .. n - 1 : i < j => from(i) < from(j)
       /\ \A i, j \in 1 .. n - 1 : from(i) = from(j) => i = j
       /\ \A k \in 1 .. n : k # at => \E i \in 1 .. n - 1 : from(i) = k
  <2>1. \A i \in 1 .. n - 1 : from(i) \in 1 .. n /\ from(i) # at
    BY <1>12
  <2>2. \A i, j \in 1 .. n - 1 : i < j => from(i) < from(j)
    BY <1>12
  <2>3. \A i, j \in 1 .. n - 1 : from(i) = from(j) => i = j
    BY <1>12
  <2>4. ASSUME NEW k \in 1 .. n, k # at
        PROVE  \E i \in 1 .. n - 1 : from(i) = k
    <3>1. CASE k < at
      <4>1. k \in 1 .. n - 1 /\ from(k) = k
        BY <1>12, <3>1
      <4> QED
        BY <4>1
    <3>2. CASE ~(k < at)
      <4>1. k - 1 \in 1 .. n - 1 /\ from(k - 1) = k
        BY <1>12, <2>4, <3>2
      <4> QED
        BY <4>1
    <3> QED
      BY <3>1, <3>2
  <2>5. \A i \in 1 .. n - 1 : order'[i] = order[from(i)]
    BY <1>12
  <2> QED
    BY <2>1, <2>2, <2>3, <2>4, <2>5
<1> HIDE DEF from
<1>14. /\ loan' \in [Loans -> {NoLoan} \cup LoanRow]
       /\ \A m \in Loans : loan'[m] = IF m = l THEN NoLoan ELSE loan[m]
       /\ judgedBy' \in [Loans -> AllSettings \cup {Idle}]
       /\ \A m \in Loans \ {l} : judgedBy'[m] = judgedBy[m]
  BY <1>2, <1>3, <1>5 DEF DeskSound
<1>15. Ordered'
  <2>1. \A i, j \in 1 .. n - 1 : order'[i] = order'[j] => i = j
    BY <1>7, <1>11, <1>12, <1>13
  <2>2. ASSUME NEW m \in Loans
        PROVE  loan'[m] # NoLoan <=> \E i \in 1 .. n - 1 : order'[i] = m
    <3>1. CASE m = l
      BY <1>7, <1>9, <1>11, <1>12, <1>13, <1>14, <3>1
    <3>2. CASE m # l
      <4>1. loan[m] # NoLoan <=> \E k \in 1 .. n : k # at /\ order[k] = m
        BY <1>7, <1>9, <1>11, <3>2
      <4>2. ASSUME NEW k \in 1 .. n, k # at, order[k] = m
            PROVE  \E i \in 1 .. n - 1 : order'[i] = m
        <5>1. PICK i \in 1 .. n - 1 : from(i) = k
          BY <1>13, <4>2
        <5> QED
          BY <1>13, <4>2, <5>1
      <4>3. ASSUME NEW i \in 1 .. n - 1, order'[i] = m
            PROVE  \E k \in 1 .. n : k # at /\ order[k] = m
        <5>1. from(i) \in 1 .. n /\ from(i) # at /\ order[from(i)] = m
          BY <1>13, <4>3
        <5> QED
          BY <5>1
      <4>4. loan'[m] = loan[m]
        BY <1>14, <3>2
      <4> QED
        BY <4>1, <4>2, <4>3, <4>4
    <3> QED
      BY <3>1, <3>2
  <2> QED
    BY <1>12, <2>1, <2>2 DEF Ordered
<1>16. \A s \in Requests :
         \/ request'[s] = Idle
         \/ request'[s] = request[s]
            /\ ~(request[s].op \in {"WRITE", "DELETE", "SUBMIT"} /\ request[s].loan = l)
  BY <1>3
<1>17. request'[r] = Idle /\ Idle.op = "IDLE"
  BY <1>1, <1>3 DEF Idle
<1>18. DeskSound'
  <2>1. request' \in [Requests -> AskedRow]
    BY <1>2, <1>3 DEF DeskSound, AskedRow
  <2>2. ASSUME NEW s \in Requests, request'[s].op \in {"WRITE", "DELETE", "SUBMIT"}
        PROVE  loan'[request'[s].loan] # NoLoan
    <3>1. request'[s] = request[s] /\ request[s].loan # l
      BY <1>16, <1>17, <2>2
    <3>2. request[s] \in AskedRow
      BY <1>2 DEF DeskSound
    <3>3. request[s].loan \in Loans
      BY <2>2, <3>1, <3>2 DEF AskedRow, Idle
    <3>4. loan[request[s].loan] # NoLoan
      BY <1>2, <2>2, <3>1 DEF DeskSound
    <3> QED
      BY <1>14, <3>1, <3>3, <3>4
  <2>3. undercut' \in BOOLEAN
    BY <1>3
  <2> QED
    BY <1>2, <1>3, <1>14, <1>15, <2>1, <2>2, <2>3 DEF DeskSound
<1>19. DeskSerial'
  <2> SUFFICES ASSUME overlaps = 0
               PROVE  DeskSerial'
    BY <1>3 DEF DeskSerial
  <2>1. \A s \in Requests : request[s] # Idle => s = r
    BY <1>4 DEF DeskInv, DeskSerial
  <2>2. \A s \in Requests : request'[s] = Idle
    BY <1>16, <1>17, <2>1
  <2>3. ASSUME NEW m \in Loans
        PROVE  DraftInOrder(m)'
    <3>1. DraftInOrder(m)
      BY DEF DeskInv, DeskSerial
    <3>2. CASE m = l
      BY <1>14, <3>2 DEF DraftInOrder
    <3>3. CASE m # l
      BY <1>14, <3>1, <3>3 DEF DraftInOrder, Costs, Valid
    <3> QED
      BY <3>2, <3>3
  <2> QED
    BY <2>2, <2>3, IdleInOrder DEF DeskSerial
<1>20. DeskNumbers'
  <2> SUFFICES ASSUME ~undercut'
               PROVE  DeskNumbers'
    BY DEF DeskNumbers
  <2>1. ~undercut /\ \A x \in Requests : request[x].op # "INSERT"
    BY <1>3
  <2>2. \A s \in Requests : request'[s].op # "INSERT"
    BY <1>16, <1>17, <2>1
  <2>3. \A i \in 1 .. n - 1 : NumberAt(i)' = NumberAt(from(i))
    <3> SUFFICES ASSUME NEW i \in 1 .. n - 1
                 PROVE  loan'[order'[i]].number = loan[order[from(i)]].number
      BY DEF NumberAt
    <3>1. order'[i] = order[from(i)] /\ from(i) \in 1 .. n /\ from(i) # at
      BY <1>12, <1>13
    <3>2. order[from(i)] \in Loans /\ order[from(i)] # l
      BY <1>7, <1>9, <1>11, <3>1, ElementOfSeq
    <3> QED
      BY <1>14, <3>1, <3>2
  <2>4. Increasing
    BY <2>1 DEF DeskInv, DeskNumbers
  <2>5. Increasing'
    <3> SUFFICES ASSUME NEW i \in 1 .. n - 1, NEW j \in 1 .. n - 1, i < j,
                        NumberAt(i)'.kind = NumberAt(j)'.kind
                 PROVE  NumberAt(i)'.seq < NumberAt(j)'.seq
      BY <1>12 DEF Increasing
    <3>1. from(i) \in 1 .. n /\ from(j) \in 1 .. n /\ from(i) < from(j)
      BY <1>13
    <3> QED
      BY <1>11, <2>3, <2>4, <3>1 DEF Increasing
  <2> QED
    BY <2>2, <2>5 DEF DeskNumbers
<1> QED
  BY <1>18, <1>19, <1>20 DEF DeskInv

LEMMA DeskStep ==
  ASSUME DeskInv, [Next]_vars
  PROVE  DeskInv'
<1>1. CASE UNCHANGED vars
  <2>1. /\ loan' = loan /\ order' = order /\ settings' = settings /\ request' = request
        /\ judgedBy' = judgedBy /\ overlaps' = overlaps /\ undercut' = undercut
    BY <1>1 DEF vars
  <2>2. DeskSound'
    BY <2>1 DEF DeskInv, DeskSound, Ordered
  <2>3. DeskSerial'
    BY <2>1 DEF DeskInv, DeskSerial, AskedInOrder, DraftInOrder, Costs, Valid, Amount, Months
  <2>4. DeskNumbers'
    BY <2>1 DEF DeskInv, DeskNumbers, Increasing, IsTaken, IsNext, NumberAt
  <2> QED
    BY <2>2, <2>3, <2>4 DEF DeskInv
<1>2. ASSUME NEW r \in Requests,
             \/ \E type \in Offered, amount \in Amounts, tenor \in Tenors :
                  BeginCreate(r, type, amount, tenor)
             \/ \E l \in Loans :
                  \/ BeginDelete(r, l) \/ BeginSubmit(r, l)
                  \/ \E amount \in Amounts \cup {0}, tenor \in Tenors \cup {0} :
                       BeginUpdate(r, l, amount, tenor)
      PROVE  DeskInv'
  BY <1>2, DeskBegins
<1>3. ASSUME NEW r \in Requests, NEW l \in Loans, Insert(r, l)
      PROVE  DeskInv'
  BY <1>3, DraftInserted
<1>4. ASSUME NEW r \in Requests,
             Update(r) \/ Delete(r) \/ Submit(r) \/ Fail(r)
      PROVE  DeskInv'
  BY <1>4, DraftUpdated, DraftDeleted, DraftSubmitted, DeskFails
<1>5. ASSUME NEW s \in AllSettings, ChangeSettings(s)
      PROVE  DeskInv'
  BY <1>5, SettingsChange
<1> QED
  BY <1>1, <1>2, <1>3, <1>4, <1>5 DEF Next, NotGiven

LEMMA DeskKept == Spec => []DeskInv
<1>1. Init => DeskInv
  BY DeskInitially
<1>2. DeskInv /\ [Next]_vars => DeskInv'
  BY DeskStep
<1> QED
  BY <1>1, <1>2, PTL DEF Spec

\* The next number of a day is free, however requests overlap and drafts are
\* deleted, as long as none is deleted while a number that was looked up waits
\* to be written.
THEOREM NextNumbersAreFree == Spec => []NumbersAdvance
<1>1. DeskInv => NumbersAdvance
  <2> SUFFICES ASSUME DeskInv, ~undercut, NEW type \in Offered
               PROVE  ~Taken(LoanNumbers, NextNumber(LoanNumbers, type))
    BY DEF NumbersAdvance
  <2>1. PICK n : n = NextNumber(LoanNumbers, type)
    OBVIOUS
  <2>2. DeskSound /\ IsNext(n)
    BY <2>1, NextIsNext DEF DeskInv, DeskNumbers
  <2>3. ~IsTaken(n)
    BY <2>2, NumbersOfRows DEF IsNext, IsTaken
  <2> QED
    BY <2>1, <2>2, <2>3, NumbersTaken
<1> QED
  BY <1>1, DeskKept, PTL

\* The rows of the desk keep their types. Without overlapping a draft that was
\* changed field by field under changing rates costs what its amount and tenor
\* say, to half a unit for each month, and a loan under review is within the
\* limits by which it was submitted.
THEOREM DraftsInOrder == Spec => []TermsInOrder
<1>1. DeskInv => TypeOK
  <2> SUFFICES ASSUME DeskInv
               PROVE  TypeOK
    OBVIOUS
  <2>1. DeskSound /\ order \in Seq(Loans) /\ DOMAIN order = 1 .. Len(order)
    BY LenProperties DEF DeskInv, DeskSound, Ordered
  <2>2. Range(order) = {l \in Loans : loan[l] # NoLoan}
    <3>1. \A i \in 1 .. Len(order) : order[i] \in Loans
      BY <2>1, ElementOfSeq
    <3>2. \A l \in Range(order) : \E i \in 1 .. Len(order) : l = order[i]
      BY <2>1 DEF Range
    <3>3. \A i \in 1 .. Len(order) : order[i] \in Range(order)
      BY <2>1 DEF Range
    <3>4. \A l \in Loans :
            loan[l] # NoLoan <=> \E i \in 1 .. Len(order) : order[i] = l
      BY <2>1 DEF DeskSound, Ordered
    <3>5. \A l \in Range(order) : l \in Loans /\ loan[l] # NoLoan
      BY <3>1, <3>2, <3>4
    <3>6. \A l \in Loans : loan[l] # NoLoan => l \in Range(order)
      BY <3>3, <3>4
    <3> QED
      BY <3>5, <3>6
  <2> QED
    BY <2>1, <2>2 DEF TypeOK, DeskSound, Ordered
<1>2. ASSUME DeskInv, overlaps = 0, NEW l \in Range(order)
      PROVE  LET row == loan[l]
                 difference == row.tenor * row.terms.installment - row.terms.total
             IN  /\ row.type # "GOODS_PHONE" =>
                      /\ \E s \in AllSettings :
                           row.terms = LoanDetails(s, row.type, row.amount, row.tenor)
                      /\ row.terms.total >= row.amount
                      /\ -row.tenor <= 2 * difference /\ 2 * difference <= row.tenor
                 /\ ~IsDraft(l) =>
                      /\ ValidLoanAmount(judgedBy[l], row.type, row.amount)
                      /\ ValidLoanTenor(judgedBy[l], row.tenor)
  <2>1. l \in Loans /\ loan[l] # NoLoan
    BY <1>1, <1>2 DEF TypeOK
  <2>2. loan[l] \in LoanRow
    BY <1>2, <2>1 DEF DeskInv, DeskSound
  <2>3. PICK row : row = loan[l]
    OBVIOUS
  <2>4. row.type \in LoanTypes /\ row.amount \in Nat /\ row.tenor \in Nat \ {0}
    <3>1. row.type \in LoanTypes /\ row.amount \in Amounts \cup {0} /\ row.tenor \in Tenors
      BY <2>2, <2>3 DEF LoanRow
    <3>2. \A a \in Amounts \cup {0} : a \in Nat
      BY <1>2, DeskAssumption
    <3>3. \A a \in Tenors : a \in Nat \ {0}
      BY <1>2, DeskAssumption
    <3> QED
      BY <3>1, <3>2, <3>3
  <2>5. DraftInOrder(l)
    BY <1>2, <2>1 DEF DeskInv, DeskSerial
  <2>6. ASSUME row.type # "GOODS_PHONE"
        PROVE  LET difference == row.tenor * row.terms.installment - row.terms.total
               IN  /\ \E s \in AllSettings :
                        row.terms = LoanDetails(s, row.type, row.amount, row.tenor)
                   /\ row.terms.total >= row.amount
                   /\ -row.tenor <= 2 * difference /\ 2 * difference <= row.tenor
    <3>1. PICK s \in AllSettings :
                 row.terms = LoanDetails(s, row.type, row.amount, row.tenor)
      BY <2>1, <2>3, <2>5, <2>6 DEF DraftInOrder, Costs
    <3>2. s.rate \in Nat /\ s.margin \in Nat
      BY <1>2, DeskAssumption
    <3>3. PICK terms : terms = row.terms
      OBVIOUS
    <3>4. /\ terms.total >= row.amount
          /\ -row.tenor <= 2 * (row.tenor * terms.installment - terms.total)
          /\ 2 * (row.tenor * terms.installment - terms.total) <= row.tenor
      BY <2>4, <3>1, <3>2, <3>3, LoanDetailsExact
    <3> QED
      BY <3>1, <3>3, <3>4
  <2>7. ASSUME ~IsDraft(l)
        PROVE  /\ ValidLoanAmount(judgedBy[l], row.type, row.amount)
               /\ ValidLoanTenor(judgedBy[l], row.tenor)
    BY <2>1, <2>3, <2>5, <2>7 DEF DraftInOrder, IsDraft, Valid
  <2> QED
    BY <2>3, <2>6, <2>7
<1>3. DeskInv => TermsInOrder
  <2> SUFFICES ASSUME DeskInv
               PROVE  TermsInOrder
    OBVIOUS
  <2>1. overlapped <=> overlaps > 0
    BY DEF overlapped
  <2>2. overlaps \in Nat
    BY DEF DeskInv, DeskSound
  <2> QED
    BY <1>1, <1>2, <2>1, <2>2 DEF TermsInOrder
<1> QED
  BY <1>3, DeskKept, PTL

=============================================================================
