----------------------------- MODULE SocialFund -----------------------------
(***************************************************************************)
(* The social fund: one balance and the ledger of transactions that        *)
(* explains it.  Officers add, change and delete initial balances and      *)
(* grant and delete benefits, santunan (social-fund.service.ts); the       *)
(* authorization of an excess loan takes from the fund and payroll puts    *)
(* the installments back.  All of them read the balance in a transaction,  *)
(* without a lock, and later write the new balance they calculated.        *)
(***************************************************************************)
EXTENDS Sums

CONSTANTS
  Requests,      \* slots of transactions in flight at the same time
  Amounts,       \* the amounts officers enter
  LoanAmounts,   \* the amounts of excess loans and of their installments
  MaxRows,       \* bound: how many ledger rows are ever created
  MaxBalance     \* bound: nothing begins while the balance is higher

ASSUME FundAssumption ==
  /\ Amounts \subseteq Nat \ {0}
  /\ LoanAmounts \subseteq Nat \ {0}
  /\ MaxRows \in Nat
  /\ MaxBalance \in Nat

\* Ledger rows in the order of createdAt.
Ids == 1 .. MaxRows

Types == {"INITIAL_BALANCE", "SANTUNAN", "EXCESS_LOAN_DISBURSEMENT",
          "EXCESS_LOAN_REPAYMENT"}

LedgerRow == [type: Types, amount: Nat \ {0}, balanceAfter: Int]

NoRow == [type |-> "NO_ROW"]

VARIABLES
  balance,   \* social_fund_balance.currentBalance
  ledger,    \* social_fund_transactions
  created,   \* how many rows have been created
  request,   \* the transactions in flight and what they have read
  overlapped \* history: two transactions have been in flight at once

fundVars == <<balance, ledger, created, request, overlapped>>

NoRequest == [op |-> "IDLE"]

RequestRow ==
  [op: {"INSERT"}, type: Types, amount: Nat \ {0}, balance: Nat]
    \cup
  [op: {"UPDATE", "DELETE"}, id: Ids, row: LedgerRow, amount: Nat \ {0},
   balance: Nat]

FundTypeOK ==
  /\ balance \in Nat
  /\ ledger \in [Ids -> {NoRow} \cup LedgerRow]
  /\ created \in 0 .. MaxRows
  /\ request \in [Requests -> {NoRequest} \cup RequestRow]
  /\ overlapped \in BOOLEAN

FundInit ==
  /\ balance = 0
  /\ ledger = [i \in Ids |-> NoRow]
  /\ created = 0
  /\ request = [r \in Requests |-> NoRequest]
  /\ overlapped = FALSE

-----------------------------------------------------------------------------
Enter(r, row) ==
  /\ request[r] = NoRequest
  /\ balance <= MaxBalance
  /\ request' = [request EXCEPT ![r] = row]
  /\ overlapped' = (overlapped \/ \E q \in Requests : request[q] # NoRequest)
  /\ UNCHANGED <<balance, ledger, created>>

Done(r) ==
  /\ request' = [request EXCEPT ![r] = NoRequest]
  /\ UNCHANGED overlapped

\* createInitialBalance, and replenishSocialFund of payroll.
BeginAdd(r, type, amount) ==
  Enter(r, [op |-> "INSERT", type |-> type, amount |-> amount, balance |-> balance])

\* createSantunan, and deductSocialFund of the loan authorization.
BeginTake(r, type, amount) ==
  /\ amount <= balance
  /\ Enter(r, [op |-> "INSERT", type |-> type, amount |-> amount, balance |-> balance])

BalanceAfterInsert(q) ==
  IF q.type \in {"SANTUNAN", "EXCESS_LOAN_DISBURSEMENT"}
  THEN q.balance - q.amount ELSE q.balance + q.amount

CommitInsert(r) ==
  LET q == request[r]
  IN  /\ q.op = "INSERT"
      /\ created < MaxRows
      /\ created' = created + 1
      /\ balance' = BalanceAfterInsert(q)
      /\ ledger' = [ledger EXCEPT ![created + 1] =
           [type |-> q.type, amount |-> q.amount,
            balanceAfter |-> BalanceAfterInsert(q)]]
      /\ Done(r)

-----------------------------------------------------------------------------
\* recalculateBalancesAfter: the rows created after row i of the ledger led
\* are run through again.  Only a santunan is subtracted.
RecalculatedSign(row) == IF row.type = "SANTUNAN" THEN -row.amount ELSE row.amount

Rows(led) == {k \in Ids : led[k] # NoRow}

\* What the rows after row i, up to row k, add up to.
RecalculatedBetween(led, i, k) ==
  SumOver([j \in Rows(led) |-> RecalculatedSign(led[j])], Rows(led) \cap (i + 1) .. k)

\* Mutant: the running balance starts from nothing.
RecalculateFromZero(led, i) ==
  [k \in Ids |->
     IF k <= i \/ led[k] = NoRow THEN led[k]
     ELSE [led[k] EXCEPT !.balanceAfter = RecalculatedBetween(led, i, k)]]

Recalculate(led, i) ==
  LET before == Rows(led) \cap 1 .. i
      start == IF before = {} THEN 0 ELSE led[Max(before)].balanceAfter
  IN  [k \in Ids |->
         IF k <= i \/ led[k] = NoRow THEN led[k]
         ELSE [led[k] EXCEPT !.balanceAfter = start + RecalculatedBetween(led, i, k)]]

\* updateInitialBalance: the balance may not become negative.
BeginUpdate(r, i, amount) ==
  /\ ledger[i].type = "INITIAL_BALANCE"
  /\ balance + amount - ledger[i].amount >= 0
  /\ Enter(r, [op |-> "UPDATE", id |-> i, row |-> ledger[i], amount |-> amount,
               balance |-> balance])

\* Mutant: the old amount is not taken off.
DifferenceUnreverted(q) == q.amount

Difference(q) == q.amount - q.row.amount

CommitUpdate(r) ==
  LET q == request[r]
      updated == [ledger EXCEPT ![q.id] =
                    [@ EXCEPT !.amount = q.amount,
                              !.balanceAfter = q.row.balanceAfter + Difference(q)]]
  IN  /\ q.op = "UPDATE"
      /\ ledger[q.id] # NoRow
      /\ balance' = q.balance + Difference(q)
      /\ ledger' = Recalculate(updated, q.id)
      /\ Done(r)
      /\ UNCHANGED created

\* Mutant: what a deleted initial balance leaves is not asked.
BeginDeleteInitialUnasked(r, i) ==
  /\ ledger[i].type = "INITIAL_BALANCE"
  /\ Enter(r, [op |-> "DELETE", id |-> i, row |-> ledger[i],
               amount |-> ledger[i].amount, balance |-> balance])

\* deleteInitialBalance: the balance may not become negative.
BeginDeleteInitial(r, i) ==
  /\ ledger[i].type = "INITIAL_BALANCE"
  /\ balance - ledger[i].amount >= 0
  /\ Enter(r, [op |-> "DELETE", id |-> i, row |-> ledger[i],
               amount |-> ledger[i].amount, balance |-> balance])

\* deleteSantunan: the amount goes back to the fund.
BeginDeleteSantunan(r, i) ==
  /\ ledger[i].type = "SANTUNAN"
  /\ Enter(r, [op |-> "DELETE", id |-> i, row |-> ledger[i],
               amount |-> ledger[i].amount, balance |-> balance])

CommitDelete(r) ==
  LET q == request[r]
  IN  /\ q.op = "DELETE"
      /\ ledger[q.id] # NoRow
      /\ balance' = q.balance + (IF q.row.type = "SANTUNAN" THEN q.row.amount
                                                            ELSE -q.row.amount)
      /\ ledger' = Recalculate([ledger EXCEPT ![q.id] = NoRow], q.id)
      /\ Done(r)
      /\ UNCHANGED created

\* The transaction rolls back: its row is gone, or the process dies.
Fail(r) ==
  /\ request[r] # NoRequest
  /\ Done(r)
  /\ UNCHANGED <<balance, ledger, created>>

-----------------------------------------------------------------------------
Begin(r) ==
  \/ \E amount \in Amounts :
       \/ BeginAdd(r, "INITIAL_BALANCE", amount)
       \/ BeginTake(r, "SANTUNAN", amount)
       \/ \E i \in Ids : BeginUpdate(r, i, amount)
  \/ \E amount \in LoanAmounts :
       \/ BeginAdd(r, "EXCESS_LOAN_REPAYMENT", amount)
       \/ BeginTake(r, "EXCESS_LOAN_DISBURSEMENT", amount)
  \/ \E i \in Ids : BeginDeleteInitial(r, i) \/ BeginDeleteSantunan(r, i)

Commit(r) == CommitInsert(r) \/ CommitUpdate(r) \/ CommitDelete(r)

FundNext == \E r \in Requests : Begin(r) \/ Commit(r) \/ Fail(r)

FundSpec == FundInit /\ [][FundNext]_fundVars

-----------------------------------------------------------------------------
\* What a row means for the fund.
Signed(row) ==
  IF row.type \in {"SANTUNAN", "EXCESS_LOAN_DISBURSEMENT"}
  THEN -row.amount ELSE row.amount

SumUpTo(k) ==
  SumOver([j \in Rows(ledger) |-> Signed(ledger[j])], Rows(ledger) \cap 1 .. k)

\* The balance is what the ledger adds up to, whatever was changed or deleted
\* in it: while no two transactions overlap.
BalanceIsLedger == ~overlapped => balance = SumUpTo(MaxRows)

\* "Recalculate balanceAfter for all transactions after this one"
\* (social-fund.service.ts:150 and 189): each row shows the balance after it.
RunningBalances ==
  ~overlapped =>
    \A k \in Rows(ledger) : ledger[k].balanceAfter = SumUpTo(k)

\* That is so as long as no excess loan takes from the fund.
OfficersRunningBalances ==
  (\A k \in Rows(ledger) : ledger[k].type # "EXCESS_LOAN_DISBURSEMENT")
    => RunningBalances

=============================================================================
