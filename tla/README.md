# Kamorina in TLA+

Kamorina is the back office of an employees' savings and loan cooperative: a
NestJS backend (`src/backend`) on PostgreSQL through Prisma, with a Redis queue
for mail, and a Next.js frontend that only calls it. This directory specifies
the parts of the backend that handle members and their money, and the queue that
mails them, checks them with TLC on small instances and proves with TLAPS, for
instances of every size, all that is checked but one liveness property.

Paths below are relative to `src/backend/src/`.

## 1. The system

### Components

| Component | State it keeps | Operations that change it | What makes it correct | Here |
|---|---|---|---|---|
| Loan life cycle (`loan/services`, `loan/handlers`) | loan_applications, loan_approvals, loan_history, loan_disbursements, loan_authorizations, loan_installments | createDraft, updateDraft, deleteDraft, submitLoan, reviseLoan, processApproval, processDisbursement, processAuthorization | three signatures in turn before any money; terms frozen by the first signature; one pay-out and one schedule for a loan | `LoanLifecycle`, `LoanWorkflow` |
| Loan repayment and collection (`loan-repayment/services`, `payroll/services/loan-*.processor.ts`) | loan_repayments, repayment_approvals, loan_installments.isPaid, loan status | createRepayment, processApproval, the repayment and installment processors | each installment taken once; a completed loan is paid, and paid in full; nothing that was due is forgotten | `LoanRepayment` |
| Savings accounts | savings_accounts (pokok, wajib, sukarela, bunga), savings_transactions | payroll and withdrawals write them | every balance is what the transactions explain | `SavingsAccount` |
| Savings withdrawal (`savings/savings-withdrawal.service.ts`) | savings_withdrawals and their approvals, disbursements, authorizations | createWithdrawal, processApproval, confirmDisbursement, confirmAuthorization, cancelWithdrawal | two signatures and a disbursement before a debit; one debit; withdrawals take out no more than was paid in | `SavingsWithdrawal` |
| Payroll (`payroll/payroll.service.ts`, `payroll/services`) | payroll_periods; the accounts, entrance fees, deposits and loans it charges | processPayroll (daily job or by hand, with or without force), deletePeriod | a month is charged once; the entrance fee once; a deposit up to its tenor | `Payroll` (savings), `LoanRepayment` (loans) |
| Social fund (`social-fund/social-fund.service.ts`) | social_fund_balance, social_fund_transactions | initial balances: create, update, delete; santunan: create, delete; taken from by excess loans, replenished by payroll | the balance is what the ledger adds up to, and so is every running balance | `SocialFund` |
| Deposits (`deposit/deposit.service.ts`, `payroll/services/deposit-savings.processor.ts`) | deposit_applications and approvals | create, processApproval, the collection by payroll | two signatures before anything is collected; what is collected is booked; a collection ends | `Deposit` |
| Deposit changes (`deposit/deposit-change.service.ts`) | deposit_change_requests and approvals | createDraft, updateDraft, submitChangeRequest, createStopRequest, processApproval with fee and penalty, cancelChangeRequest | one change at a time; the fee is the one that is due; nothing is collected of a stopped deposit; no review gets stuck | `DepositChange` |
| Authentication and users (`auth/auth.service.ts`, `users/users.service.ts`) | users, their verification and reset tokens | register (and its undoing), verifyEmail, forgotPassword, resetPassword; create, change and remove a user | a link works for as long as its mail promises; a reset link once, and not after its hour | `UserAccount` |
| Member applications (`member-application`) | member_applications, approvals, the user's verification, the new savings account | submitApplication (again after a rejection), processApproval | exactly the verified members have a savings account; two signatures | `MemberApplication` |
| Mail queue (`mail`) | the jobs in Redis, email_logs | queue one or a batch, process, retry, resend, pause, clean | every mail settles; the log tells what happened; retries do not duplicate | `MailQueue`, `MailDelivery` |
| Loan calculation and validation (`loan/services`, `loan/handlers`) | none | calculateLoanDetails, validateLoanAmount, validateLoanTenor | terms fit amount and tenor; limits hold at submission | `LoanCalculation`, `LoanDesk` |
| Number generators (`loan-number.service.ts` and four like it) | none; the number of the row created last | next number of a day | nobody is given a number that is taken | `NumberGenerator`, `LoanDesk` |
| Master data, settings, profiles, uploads, mail configuration | single rows | create, update, delete, import | references, unique names | not modelled |
| Savings book, dashboard, reports, email logs, frontend | none | queries | nothing changes | not modelled |

### How they interact

* An officer's or a member's HTTP request runs a service method. It reads rows,
  checks guards on what it read, and then runs one Prisma transaction
  (PostgreSQL, READ COMMITTED) that writes by primary key. What it checked is
  not checked again. Several requests run at once: every `await` lets another
  in, and there may be several servers.
* The authorization of a loan takes excess loans from the social fund and writes
  the installments; payroll collects them, settles approved repayments, and puts
  what excess loans bring back into the fund.
* Payroll also collects entrance fees, monthly fees and deposits for the savings
  accounts and adds a month's interest. Withdrawals and the fees of deposit
  changes debit the same accounts and recalculate the interest. The balance is
  asked only when a withdrawal is requested, by no debit.
* Approved member applications and deposits are where payroll's charges start.
* A registration depends on its mail, which is sent at once: when that fails the
  user is deleted again. All other mails and notifications are queued or sent
  after the transactions, their errors are caught and logged, and nothing in the
  services depends on them. The queue is a component of its own.
* Removing a user takes its application, account, loans and deposits along
  (`onDelete: Cascade`).

### What is hard

* **Overlapping requests.** Read, guard, and write by id without a condition:
  two officers of one step, a cancellation during an approval, two requests for
  the whole balance. The unique columns (one authorization and one disbursement
  for each loan or withdrawal) are all that keeps money from being paid twice.
* **Checked early, used late.** A withdrawal is checked against the balance when it
  is requested and paid days later; the fee of a deposit change may have been
  taken in between. A change of a deposit is checked at its draft.
* **Values calculated from what was read.** The fund's balance, the interest of
  an account, the paid part of an entrance fee and the amount of a repayment
  are written as values; balances of accounts are incremented in the database.
* **Doing a month again.** A processed month can be forced, or deleted and run
  again; some columns are set, others are incremented.
* **Stale amounts.** A repayment is collected with the amount of its creation,
  after months of payroll that collected installments.
* **Failure.** Transactions roll back (a unique column, a timeout of 60 s for
  payroll, a lost connection, a crash); the payroll period is created outside of
  its transaction, a stop request is written in three steps without one, a
  registration is undone by hand.
* **Mail.** A worker can die after the mail server accepted a mail and before the
  log or the queue knows; the attempt is repeated, and an officer may resend.
* **Limits.** Rounded installments and interest, the last installment of a
  tenor, a fund that is spent.

`PROJECT.json` lists these hazards at their lines with the properties that
cover them, and those no property covers yet with the reason.

## 2. The modules

Every handler is two steps (or three, when its transaction reads again before
it writes): `Begin...` reads, checks the guards and keeps what it has read in
`request[r]`; `Commit...` is the transaction, whose only conditions are those of
the database: the rows exist, the unique columns stay unique. Anything may
happen between the two. `Fail` is a transaction that rolls back, or a process
that dies; it may happen at any time. `Requests` is the set of slots for
requests in flight.

A property that only holds when requests come one after another says
`~overlapped => ...` with a history variable (`irregular` in `Payroll`), so that
one run shows what holds with overlapping and what holds without. Where the
history is a counter, `MaxOverlaps` bounds it. `LoanLifecycle` uses a run with one
slot instead. Definitions after a comment `Mutant:` are plausible bugs: put in
the place of the definition that follows, each of them breaks a property. They
are not part of the specification.

* `LoanLifecycle` - all rows of the loan services. `CreateDraft` is one step,
  because nobody else knows the new row. `approvals[l]` is a sequence of batches
  since each submission appends three rows and overlapping submissions leave
  several; `find()` may take any of them. The deletion of a draft cascades, as
  the schema says. The authorization reads the balance of the social fund in
  the transaction (`ReadFund`) and writes the difference (`CommitAuthorize`,
  `DeductFund`). Amounts are members of a small set, which stands for the fixed
  limits; the limit by the fund is modelled. Dates and interest are left out;
  the installment is represented by the amount and tenor it is calculated from.
* `LoanWorkflow` - what these services promise, with no requests or tables:
  draft, three signatures on frozen terms, booking, pay-out of exactly those
  terms. `LoanLifecycle!ImplementsWorkflow` is the refinement mapping.
* `LoanCalculation` - `calculateLoanDetails`, the amount limits of each loan type
  and the tenor limit, as operators on integers. `RoundedQuotient` is
  `Math.round` of a fraction; the binary fractions of the code are exact here.
* `NumberGenerator` - the next running number of a day: one more than the row
  created last, or 1.
* `LoanDesk` composes the two: drafts are created, changed, deleted and submitted
  while an administrator changes rates and limits. It has the numbers and terms
  that `LoanLifecycle` abstracts from, and stops at the submission. The limit of
  a member's class is one value of the settings.
* `LoanRepayment` - installments and repayments of disbursed loans, and payroll
  as far as loans are concerned. Time is `next`, the period whose cutoff comes
  next. Money is counted in the unit installments are rounded to. A run of
  payroll is one step: two runs wait for each other at the savings accounts, before
  either has read a loan. It takes the approved repayments first
  and then the installments due in the month. The cutoff day itself, which the
  code counts to this month for installments and to the next for repayments, is
  not told apart. The rows of the social fund are only a sum here.
* `SavingsAccount` - the account, the transactions that explain it, what payroll
  books in it, what a debit does, and the sums the properties compare. Payroll's
  transaction of a period is a `payslip`, transactions without a period are
  `debits`.
* `SavingsWithdrawal` extends it with withdrawals and with the two others who
  move the same balance: payroll (`PayMonth`) and the fee that the last
  signature of a deposit change takes (`BeginCharge`, `CommitCharge`; the rest of
  a change is in `DepositChange`). `ReadAccount` is the read inside the transaction
  of an authorization or a fee. The penalty for an early withdrawal lowers only
  what is handed out and is left out.
* `Payroll` extends it with entrance fees, deposits and periods. Two runs wait
  for each other at the first row that both write, and before that only the
  member applications have been read. So a run is `BeginRun` (look up, create or
  reset the period, outside the transaction), `ReadApplications`, and
  `CommitRun` for all the rest. A member has at most one deposit. The entrance
  fee is even, so that its halves are exact.
* `Deposit` extends it with the life of a deposit, and payroll as far as deposits
  are concerned, here in two steps: what is due is read, then collected.
* `DepositChange` extends `Deposit` with changes of amount or tenor and stops. The
  three writes of `createStopRequest` are three steps that may break off between;
  `interrupted` remembers that. The last signature of a change writes amount and
  tenor of the request as it was read, whatever has become of the deposit, and
  leaves status and count alone; that of a stop writes the status. Both debit
  the fee, whatever the balance is.
* `UserAccount` - users, the two kinds of tokens, and the links in the mails sent
  to them. Registration writes the user, sends the mail and, when that fails,
  deletes the user; `SendVerification` and `UndoRegister` are steps of their own.
  Reset tokens expire at any time (`Expire`). Verification tokens do not, whatever
  their mail says: `Lapse` only notes that the day of the mail is over.
* `MemberApplication` extends it with applications in rounds, the two approvals,
  and the savings account the last one opens.
* `MailQueue` - Redis, workers and logs. A job is queued, taken, tried and retried
  after a delay; a worker creates the log, hands the mail over, writes the log
  and reports to the queue in four steps. A crash takes all workers and requests
  and keeps Redis and the database; the queue gives a stalled job back
  (`Recover`) as often as its options say. The mail server may accept and its
  answer be lost. Officers resend failed logs, pause, resume and clean.
* `MailDelivery` - what the queue promises of one mail: sent only after it was
  queued, completed only if a copy went out, settled for good. `MailQueue!Delivers`
  says that the queue implements it.
* `SocialFund` - balance and ledger. All users of the fund, the loan
  authorization and payroll included, are two steps: read the balance, write the
  new one with the row. Changing and deleting a row recalculates the later ones
  in the same transaction. Who may get a santunan is left out.
* `MC...` - instances for TLC: small sets, symmetries.
* `Sums` - `SumOver`, the sum of a function over a set, and `SumOf`, over its domain.
* `...Proofs` - the proofs (section 5): `LoanLifecycleProofs`, `LoanDeskProofs`,
  `LoanRepaymentProofs`, `PayrollProofs` (also of `SocialFund`),
  `SavingsWithdrawalProofs`, `DepositProofs`, `MembershipProofs` (also of `MailQueue`),
  and `ArithmeticProofs` with what sums, quotients and loans compute. The names of
  `SocialFund` and `MailQueue` carry a prefix (`FundInit`, `MailNext`) where another
  module extended with them has the plain one.

`map` in `PROJECT.json` gives the lines of each definition. Most bulk operations
are loops over the single ones, each element with its own transaction; they are
sequences of the actions.

## 3. The runs

`tlc -config <run>.cfg <module>`; `Desk` takes two minutes, `Membership` one and a half, the
others about one.

| Run | Instance | What it shows |
|---|---|---|
| `LoanSerial` | 2 loans (excess or phone), 1 request at a time | The approval rows tell the same as status and step (`ReviewConsistent`); each pay-out is taken off the fund once and for the loan's amount (`LedgerBalances`); decisions are not changed (`DecidedStepsStay`); the services implement `LoanWorkflow` (`ImplementsWorkflow`) |
| `LoanOverlap` | 1 excess loan, 2 overlapping requests | Types; the three signatures and the booking come before the money (`PayoutIsSigned`); one pay-out (`PaidOutOnce`); installments exactly for authorized loans (`ScheduleIffAuthorized`) |
| `Desk` | 2 drafts of cash or goods, 2 slots that overlap once, rates that rise and limits that fall, 2 numbers a day | A free number is found unless a draft was deleted during a creation (`NumbersAdvance`). Without overlapping: terms are those of amount and tenor under some rate that was in force, installments add up to the total but for half a unit each, and what is under review kept the limits of its submission (`TermsInOrder`) |
| `Repayment` | 1 loan of 2 installments, 2 repayments, 2 slots that overlap once, months run before or after the cutoff, forced, deleted and run again | A loan is completed exactly when no installment is open (`CompletedIffPaid`); installments are charged once, and excess loans replenish the fund (`MoneyAccounted`); nothing due in a month that was run after its cutoff stays open (`DueIsCollected`). Without overlapping: one repayment under review, both approvals before it is collected, and a completed loan has brought back all of it up to rounding (`RepaymentsCover`) |
| `RepaymentOfPaidLoan` | the same, 1 slot | *Violation*, see below |
| `Withdrawal` | 2 withdrawals of one member, 2 slots, a month, the fee of a deposit change | However requests overlap: the voluntary savings are what the transactions say (`SavingsBooked`), two approvals and a disbursement come before a debit, which happens once (`PaidAsSigned`). Without overlapping: one pending withdrawal, explained interest, and withdrawals take out no more than was paid in, so that an account is overdrawn by no more than fees have taken (`SerialWithdrawals`); final states stay (`FinalStays`) |
| `WithdrawalOverdrawn` | the same, no fees | *Violation* |
| `Payroll` | 1 member, 2 months, 2 runs; force, deletion, failure | Deposits collect exactly what they count and end with the last installment; without overlapping runs the entrance fee is charged exactly once, however months are forced or deleted (`ChargesExact`). While nothing is deleted: payslips explain principal and voluntary savings (`PaymentsExplained`). When nothing irregular happened, but runs may fail: a month is charged once (`MonthChargedOnce`) |
| `Deposit` | 1 deposit, 2 changes or stops, 2 months, a fee that changes, 2 slots that overlap once | What is collected and charged is booked (`AllBooked`). Without overlapping: signatures and one change at a time (`DepositsInOrder`), an active deposit has months left unless payroll outran a change (`CollectionEnds`), reviews can be decided unless a stop request broke off (`ReviewIsOpen`), a completed deposit stays so (`CompletedStays`); fees are those that were due (`FeesAreDue`) |
| `Membership` | 1 person, 2 user rows, 2 tokens, 2 rounds of application, 2 slots that overlap once | Without overlapping, links work for as long as their mails promise (`LinksWork`); exactly the verified members have savings, unless an administrator appointed them (`MembersHaveSavings`); and, again without overlapping, two officers signed and every review can go on (`MembershipInOrder`) |
| `Mail` | 1 mail, 3 attempts, 2 crashes, 1 stall, 2 requests to resend | `MailDelivery` is implemented (`Delivers`); logs tell the truth and retries alone do not duplicate (`CopiesAreKnown`); SENT stays (`SentStays`); every mail settles (`EveryMailSettles`) |
| `Fund` | 2 overlapping transactions, 3 rows | The balance does not become negative (`FundTypeOK`). Without overlapping: it is what the ledger adds up to (`BalanceIsLedger`), and without excess loans each row shows the balance after it (`OfficersRunningBalances`) |

### What the code says and does not keep

Two runs show it:

* `WithdrawalOverdrawn`: two overlapping requests for the whole balance are both
  accepted and both paid; the balance becomes negative
  (`savings/savings-withdrawal.service.ts:139`).
* `RepaymentOfPaidLoan`: payroll collects a repayment for its full amount also
  when installments completed the loan while it was under review
  (`payroll/services/loan-repayment.processor.ts:28`), although "only a disbursed
  loan can be repaid" (`repayment-calculation.service.ts:76`).

The premises of properties mark more of the kind. They were met while modelling
and are excluded by name, so that the properties say when the code is right:

* A withdrawal of everything is requested, a deposit change is approved and its
  fee taken from the same balance (`deposit/deposit-change.service.ts:1107` and
  `1178`), and the withdrawal is paid all the same
  (`savings/savings-withdrawal.service.ts:885`): the balance becomes negative with
  nothing overlapping. `SerialWithdrawals` counts the fees (`FeesTaken`). Given the
  constants of `Withdrawal` and one slot, TLC shows it as a violation of
  `NeverOverdrawn`; `WithdrawalOverdrawn` has no fees, so that overlapping alone is
  to blame there.
* The mail with the verification link says "Link ini akan kadaluarsa dalam 24 jam"
  (`mail/mail.service.ts:184`), but `verifyEmail` never asks for the time
  (`auth/auth.service.ts:215`) and nothing stores it: the link verifies for ever.
  `Lapse` notes that the day is over; `LinksWork` promises nothing after it, and
  `BeginVerify` accepts the link all the same.
* Editing the price of a goods draft leaves the loan's amount and installment at
  the old price (`loan/services/loan-crud.service.ts:187`).
* Two runs of payroll both pass the check "already processed" and charge the
  monthly fee twice, with one payslip (`payroll/payroll.service.ts:125`). A
  forced month adds the fee and the interest once more, too.
* `recalculateBalancesAfter` subtracts rows of type SANTUNAN only; after a pay-out
  of an excess loan it writes balances that are too high
  (`social-fund/social-fund.service.ts:578`).
* A stop request that breaks off between its three writes leaves a request
  nobody can decide (`deposit/deposit-change.service.ts:313`).
* A tenor that payroll has passed by the time the change is signed leaves an
  active deposit of which nothing is collected any more
  (`deposit/deposit-change.service.ts:1131`). And payroll, which writes the status
  with each installment, makes a deposit active again that was stopped after
  payroll had read it (`payroll/services/deposit-savings.processor.ts:111`).
* After a draft is deleted during the creation of another, the row created last
  may not have the highest number; then every creation of the day is refused
  (`loan/services/loan-number.service.ts:25`).

### Bounds, and why they are enough

* Two requests: every conflict in this code is between one read and one write
  of another transaction, so that a pair shows it. One slot: nothing overlaps.
  `MaxOverlaps` 1: two requests overlap once in a behaviour, at any place; what a
  second pair could add would start from a state the first has spoiled.
* `OneChangeOverlaps` (`Deposit`) is a state constraint: once something has
  overlapped, one change exists at most. So two changes are looked at when they
  come one after another, and overlapping when there is one. The run has no
  liveness property that a constraint could weaken.
* One loan, member, person, deposit or repayment under overlapping requests: apart
  from the social fund and the period, rows of different owners share no state.
  Two loans in `LoanSerial` share the fund; two withdrawals share the account;
  two repayments share the loan; two drafts share the series of numbers.
* One mail: jobs share only the workers and the pause. What the logs say of any
  number of mails, attempts and crashes is proved (section 5).
* `MaxTenor` 2, `Tenor` 2, `DepositTenor` 2: a first, a last, and with `force`
  one more attempt after the last. `Total` 3 with tenor 2 makes rounding visible,
  and so do the amounts 1000 and 2503 in `Desk`. `AnnualRate` 600 makes a month's
  interest half the balance, so that it is visible with balances of a few units;
  halves do get rounded.
* `LastPeriod` and `Periods` 2: a month and the one after it, before and after
  the cutoff. `Withdrawal` has one month, which may fall anywhere between the
  steps of two withdrawals, and one fee: the property counts what fees take, so
  that a second one adds nothing to tell apart.
* `MaxFees` 4: no run of payroll starts for a member who has paid four monthly
  fees; it stops forcing one month for ever. `MaxRows` 3 and `MaxBalance` 3: so
  many ledger rows are created (a row before, the changed one, a row after), and
  nothing begins with a higher balance. `MaxUsers`, `MaxTokens` and `MaxRounds` 2:
  a user that was removed and comes back, a link and the one that replaces it,
  an application and the next one after a rejection. `Attempts` 3 is a first, a
  middle and a last one (a single mail has 5 in the code, `mail/mail.types.ts:480`). `MaxCopies` 1: an
  officer does not resend a log that was sent. `MaxNumbers` 2. Ids (`Loans`,
  `Withdrawals`, `Repayments`, `Changes`) are finite, and used once, but for the
  slots of `Desk`.
* `CHECK_DEADLOCK FALSE`: the system does stop when all ids are used and every
  case is closed. `Mail` never does: officers can always pause and resume.
* Symmetry is used for slots and ids only; `Mail`, which has the liveness
  property, uses none.

### Fairness

`MailQueue` assumes weak fairness, for each job, of `Promote` (the timer of the
queue that wakes delayed jobs), `Take` (a worker takes the next job unless the
queue is paused), `Recover` (the queue's check for stalled jobs) and of the steps
of the worker. BullMQ runs these timers and workers as long as the server is up,
and the server is restarted when it dies (`restart: always` in
`docker-compose.prod.yml`, `unless-stopped` in `docker-compose.yml`); the number
of crashes is finite. The mail server is not assumed to ever
accept anything, nor an officer to resume a paused queue: `EveryMailSettles` says
that if the queue is paused for the last time some day, then every queued mail
is sent or given up.

No other module assumes fairness. A request is carried by a person; officers may
never decide. Payroll is looked at once a day and runs only on the payroll day:
when that run fails nothing runs the month again, so that "a month is eventually
charged" is not promised by anything in the code.

## 4. The abstract specifications

`LoanLifecycle!ImplementsWorkflow` says that the loan services implement
`LoanWorkflow` when no two requests overlap. `stage` is a function of the status,
`signed` the number of steps with an approved row, `terms` amount and tenor, and
`debt` what the installments say. It excludes that a revision follows the first
signature, that a rejected or paid loan moves again, that a signature is counted
twice, and that the installments are for anything but the terms that were signed.

`MailQueue!Delivers` says that the queue implements `MailDelivery` for each mail,
whatever crashes, stalls, is lost, resent or cleaned. It excludes that a mail is
sent that nobody queued, that a job is completed of which no copy went out, and
that a settled job is tried again by the queue.

## 5. What is proved

The theorems below hold for every value of the constants that the named
assumptions admit; a run shows the same formulas on one instance and was there
first. All properties of the passing runs are proved but one, the liveness of
mails. Each module has one lemma per action (or per group of actions that leave
the same rows alone) and a last step that combines them.

Three arguments return:

* *Reads and writes.* A handler acts on what it has read, so a property of the
  rows alone is not inductive. Where it must hold however requests overlap, the
  invariant says the same of the rows and of what every request has read, and the
  proof is that nothing written meanwhile can spoil it: rows that are only ever
  added, a unique column, a check that the transaction repeats.
* *Nothing overlaps.* Where the code only keeps a property as long as requests come
  one after another, the invariant is `~overlapped => Serial` (or `overlaps = 0`):
  there is one request, what it has read is what is still there
  (`RequestCurrent`), and what it found allows what it is going to write.
* *Sums.* What the properties add up is `SumOver` (module `Sums`), the fold of the
  community modules. `ArithmeticProofs` proves what it computes: that the order CHOOSE takes
  does not matter, what one element adds, what a change of one value does, that
  zeros do not count, that disjoint sets add. The induction principles of the
  library have an operator as a parameter; `Induction` and `SetInduction` state
  them with sets in its place, so that they can be cited.

### Loans

`LoanLifecycleProofs`, for every number of loans and of requests, every set of
amounts and every fund, under `ConstantsAssumption` (amounts are positive, the
tenor limit is positive, the fund is a natural number):

* `TypeCorrect` - `Spec => []TypeOK`. The part that is not routine is that the
  fund stays a natural number although the balance is read before it is
  written: what a request has read is itself a natural number that was checked
  against the amount in the same step.
* `SignedBeforePayout` - `Spec => []PayoutIsSigned`. The property is not
  inductive: a commit acts on the step and status that its request has seen.
  The strengthening says, of the loan row and of every request's `seen` row
  alike, that a step or status that lies behind an approval has that approval in
  the history, that a loan with a disbursement has all three, and that an
  authorization in flight is for a loan with a disbursement.
  Histories only grow, except when the loan is deleted with all its rows, after
  which no request on it can commit. This carries the facts over from the read
  to the write.
* `ScheduledWhenAuthorized` - `Spec => []ScheduleIffAuthorized`: both are written
  by the authorization and both go with the deletion.
* `PaidAtMostOnce` - `Spec => []PaidOutOnce`: each ledger entry is for a loan
  that is authorized or deleted, and the unique authorization row admits one.

and with the hypothesis `Serial` (one slot, whatever its name):

* `ServicesImplementWorkflow` - `Spec => ImplementsWorkflow`
* `ReviewToldByRows` - `Spec => []ReviewConsistent`
* `DecisionsStay` - `Spec => DecidedStepsStay`
* `LedgerAddsUp` - `Spec => []LedgerBalances`

The invariant is that the status of a loan tells all of its rows
(`LoanOrdered`): which of the three approval rows are approved, whether there is
a schedule, that the installment belongs to the amount. It is kept because what
the one request has read is still what is there when it writes
(`RequestCurrent`), and that is what overlapping takes away. The refinement then
is one lemma per commit, that it is the step of the workflow (or a stutter) for
its loan and nothing for others.

### Repayments, and the desk

`LoanRepaymentProofs`, for any loans, tenor, total and number of periods, under
`RepaymentAssumption`:

* `RepaymentTypes` - `Spec => []TypeOK`
* `LoansCompletedWhenPaid` - `Spec => []CompletedIffPaid`
* `DueInstallmentsCollected` - `Spec => []DueIsCollected`. Both together with the
  types of the rows are inductive, however requests overlap, because only payroll
  writes these rows and it reads and writes them in one transaction. What remains
  to show is that a new loan owes nothing in a month that has already been run,
  and that each run takes all that is due.
* `MoneyIsAccounted` - `Spec => []MoneyAccounted`, however requests overlap. What a
  request has calculated may be stale when payroll collects it, but only too
  high: installments are paid, never unpaid (`AmountsSuffice`). And nobody has
  asked to repay a loan that is not disbursed (`PendingUntouched`).
* `RepaymentsCoverLoans` - `Spec => []RepaymentsCover`, while nothing overlaps: one
  repayment is under review for a loan, and until it is completed only
  installments were collected for it (`OpenByInstallments`). That each of them is
  off by half a unit gives the bound of the property.

`LoanDeskProofs`, for any amounts, tenors, settings, series and requests, under
`DeskAssumption` (settings are records of natural numbers, amounts and tenors are
positive):

* `NextNumbersAreFree` - `Spec => []NumbersAdvance`. Numbers of a kind increase in the
  order of creation, and a number that a request has looked up is the next one
  or has been given to another in the meantime (`DeskNumbers`). Deleting a draft
  keeps the first, and takes the second away from requests that have looked.
* `DraftsInOrder` - `Spec => []TermsInOrder`. While nothing overlaps, the terms a request
  carries are those of what the row will be when it is written, and what it
  wants to submit is within the limits it was judged by (`AskedInOrder`).

`ArithmeticProofs`:

* `LoanDetailsExact`: for all amounts, tenors and rates, the total is not below the
  amount, an excess loan has no interest, and the installments differ from the
  total by half a unit each at most. It rests on `RoundedQuotientBound`, that
  `Math.round` is off by a half at most.

### Payroll, and the social fund

`PayrollProofs`, for any members, periods, runs, fees, tenor and rate, under
`SavingsAssumption` and `PayrollAssumption`:

* `RowsKeepTypes` - `Spec => []TypeOK`
* `ChargesAreExact` - `Spec => []ChargesExact`. Deposits are exact without more, since
  a run reads and writes them in one transaction. The entrance fee is read
  before, so that its half needs `FeesInv`: without overlapping there is one run
  at most; what it has read of an application is what is there, or the member was
  approved since; and the principal is what has been paid of the fee.
* `PaymentsAreExplained` - `Spec => []PaymentsExplained`: a run adds the same to an
  account and to the payslip of its period. That is one change of one value in a
  sum over periods, whichever run it is and however often the month was run.
* `MonthIsChargedOnce` - `Spec => []MonthChargedOnce`. It needs `MonthInv`: when
  nothing irregular happened, a run in flight finds its period open, and a period
  that is not processed has no fee and no interest on its payslips.

The same module, for any amounts, rows and transactions of `SocialFund`, under
`FundAssumption`:

* `FundTypes` - `FundSpec => []FundTypeOK`, however transactions overlap: each has checked that
  what it will write is not negative (`Checked`).
* `FundIsLedger` - `FundSpec => []BalanceIsLedger`
* `FundRowsRun` - `FundSpec => []OfficersRunningBalances`. The two are proved together
  (`FundExact`): without overlapping, what a transaction has read is what is there;
  the balance is the sum over the ledger; and, if no excess loan was disbursed,
  each row shows the sum up to it. Changing or deleting a row recalculates the
  later ones from the last row before it, which is exact, and between two rows
  only what is recalculated lies.

### Savings withdrawals

`SavingsWithdrawalProofs`, for any withdrawals, requests and months, under
`SavingsAssumption` and `WithdrawalAssumption`:

* `WithdrawalTypes` - `Spec => []TypeOK`
* `WithdrawalsPaidAsSigned` - `Spec => []PaidAsSigned`. As for loans, a request acts
  on the step it has read. The invariant says of each withdrawal and of what each
  request has read alike that the step is backed by the rows of the steps before
  it (`RowsBacked`, `RequestsBacked`). These rows are only added, which carries
  the facts from the read to the write; the unique authorization does the rest.
* `SavingsAreBooked` - `Spec => []SavingsBooked`: every step that changes an account
  adds the same to the sum of its payslips and debits.
* `SerialWithdrawalsHold` - `Spec => []SerialWithdrawals`, while nothing overlaps: a
  member has asked for no more than there was, for one withdrawal at a time
  (`OneEach`), and payroll only adds, so that without the fees the account would
  still cover what is pending (`Covered`, `Funds`). A fee lowers the balance and
  raises what fees have taken by the same amount, one row of a sum over the
  debits (`FeesAreSummed`). That an account is not overdrawn at all is neither
  proved nor true (section 3).
* `FinalWithdrawalsStay` - `Spec => FinalStays`: what a request has read is pending,
  and it is what is there.

### Deposits

`DepositProofs`, for any members, deposits, changes, amounts, tenors, fees and
periods, under `SavingsAssumption`, `DepositAssumption` and `FeeAssumption`:

* `EverythingIsBooked` - `Spec => []AllBooked`, whatever overlaps: payroll collects
  what it has read of the deposits and books the same amounts.
* `DepositsStayInOrder` - `Spec => []DepositsInOrder`
* `FeesStayDue` - `Spec => []FeesAreDue`
* `CollectionComesToItsEnd` - `Spec => []CollectionEnds`
* `ReviewStaysOpen` - `Spec => []ReviewIsOpen`
* `CompletedDepositsStay` - `Spec => CompletedStays`

The last five share one invariant, `SerialInv`: while nothing overlaps, step,
status, count and records of a deposit and of a change agree (`DepositOrdered`,
`ChangeOrdered`), one change of a deposit is pending, its fee is charged when it
is approved and not before (`FeeOrdered`). A change that was submitted has its
records, unless a stop request is about to write them or broke off (`Opened`).
Unless payroll ran while a change was under review, there is always something
left to collect, also by the new tenor (`Ends`).

### Members and mail

`MembershipProofs`, for any persons, ids, tokens, rounds and requests, under
`AccountAssumption` and `MemberAssumption`:

* `MembershipTypes` - `Spec => []TypeOK`
* `MembersAlwaysHaveSavings` - `Spec => []MembersHaveSavings`. The strengthening is
  that an application belongs to a user there is (`RowsOfUsers`), which the
  cascade keeps, so that the last approval opens the account of somebody.
* `LinksAlwaysWork` - `Spec => []LinksWork`, while nothing overlaps: who is not
  verified has a link for the day its mail promises, or is being registered, or
  the registration was broken off or an administrator made the user. The code
  keeps more, because it never asks for the day: the invariant (`Reached`) says
  the same without it. A reset token has one owner and is used once
  (`TokensInOrder`).
* `MembershipStaysInOrder` - `Spec => []MembershipInOrder`, from the same invariant:
  the step under review is open and the one before it approved
  (`ApplicationInOrder`).

The same module, for any number of mails, attempts, workers, crashes, stalls and
resends, under `MailAssumption`:

* `SentLogsStay` - `MailSpec => SentStays`
* `SentMailWentOut` - a log that says SENT is one of which a copy went out
* `QueueTypes` - `MailSpec => []MailTypeOK`, with the bound on the number of logs: no
  attempt has two logs, so there are no more than attempts and stalls (`Tried`).
* `CopiesStayKnown` - `MailSpec => []CopiesAreKnown`: as long as nothing faulty happened to
  a mail, at most one log has a copy, that of the attempt that succeeds
  (`CopiedOnce`).
* `QueueDelivers` - `MailSpec => Delivers`: each step changes one mail as `MailDelivery`
  says, or none.

The newest log of a job is pending and untouched while a worker is on it
(`OwnLog`), and a log that is being resent has said FAILED (`ResendsFailed`), so
that nobody writes FAILED over SENT, as long as no two officers resend one log.

### Only model-checked

* `EveryMailSettles`: liveness under fairness is out of reach of the installed
  provers.
* That the mutants break the properties, and that the two violations of section 3
  are reached: these are behaviours, and a run shows them.
* `Spec` of the modules without requests of their own (`LoanWorkflow`,
  `MailDelivery`): they state what is promised; the refinements are proved.

## 6. What comes next

In this order:

1. Master data with `LoanDesk`: `bulkUpdateLoanLimits` deletes the limits of a class
   and creates the new ones without a transaction, so that a submission between
   may find none; and `golongan.service.ts` looks for identical ranges of years
   where its comment says overlapping ones. The proof of `DraftsInOrder` does not
   depend on what the limits are.
2. More that holds however requests overlap. Where a property says
   `~overlapped =>`, parts of it often need less: in `DepositProofs` the signatures
   of a deposit by the argument of `PaidAsSigned`, in `LoanRepaymentProofs` those of
   a repayment.
3. Two mails in one run of `MailQueue`, so that the pause and the workers are
   contended; the instance takes about four minutes and grows quickly.

## 7. Not modelled, and why

* Notifications, and which mails are queued when: they are sent after the
  transactions and nothing depends on them. Templates and the configuration of
  the mail server are text and single rows.
* Queries, exports, reports and the dashboard change nothing.
* Profiles and uploads are input and output.
* Master data and settings are single rows; the settings are constants of the
  modules, or change at any time where a property depends on it (`LoanDesk`,
  `DepositChange`).
* Roles and guards of the controllers: who may call an operation, not what it
  does.
* Bulk variants: loops over the single operations, each element with its own
  transaction.
* The withdrawal processor of payroll, which is commented out in the code.
* Years of service, which are read off the employee number: they choose the class
  whose limit is one value here.
* The frontend: pages that call the services and keep nothing the services rely
  on. They are more than half of the lines, which is why `map` covers under a
  tenth of the implementation while the services that change state are modelled
  in full.
