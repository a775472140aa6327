------------------------- MODULE MemberApplication --------------------------
(***************************************************************************)
(* How a user becomes a member (member-application.service.ts): the user   *)
(* submits, two officers sign, the last signature verifies the member and  *)
(* opens the savings account; after a rejection the user submits again.    *)
(* Rows go with the user when it is removed (onDelete: Cascade).           *)
(***************************************************************************)
EXTENDS UserAccount

CONSTANTS
  Permanent, \* employees with a permanent contract (TETAP)
  MaxRounds  \* bound: how often a user submits

ASSUME MemberAssumption ==
  /\ Permanent \subseteq Persons
  /\ MaxRounds \in Nat

Steps == {"DIVISI_SIMPAN_PINJAM", "KETUA"}

NoStep == "NO_STEP"

Decisions == {"OPEN", "APPROVED", "REJECTED"}

AllOpen == [s \in Steps |-> "OPEN"]

ApplicationRow ==
  [status : {"UNDER_REVIEW", "APPROVED", "REJECTED"}, step : Steps \cup {NoStep},
   round : 1 .. MaxRounds, approvals : [Steps -> Decisions]]

NoApplication == [status |-> "NONE", step |-> NoStep, round |-> 0]

VARIABLES
  application, \* member_applications with their approvals
  savings,     \* persons with a savings account
  appointed    \* history: persons whose membership an administrator has set

memberVars == <<application, savings, appointed>>

vars == <<accountVars, memberVars>>

RequestRows(ops, ids, keys) == [op : ops, person : Persons, id : ids, key : keys]

\* What a request in flight knows: the id of the user it has read, and the
\* token, the round or the approval it works on.
RequestRow ==
  RequestRows({"REGISTER"}, {0}, {NoKey})
    \cup RequestRows({"SEND_VERIFICATION", "UNDO", "VERIFY", "FORGOT"}, Ids, {NoKey})
    \cup RequestRows({"SEND_RESET", "WITHDRAW", "RESET"}, Ids, [token : Tokens])
    \cup RequestRows({"SUBMIT"}, Ids, [round : 0 .. MaxRounds])
    \cup RequestRows({"APPROVE", "REJECT"}, Ids, [round : 1 .. MaxRounds, step : Steps])

TypeOK ==
  /\ AccountTypeOK
  /\ request \in [Requests -> {Idle} \cup RequestRow]
  /\ application \in [Persons -> {NoApplication} \cup ApplicationRow]
  /\ savings \subseteq Persons
  /\ appointed \subseteq Persons

Init ==
  /\ AccountInit
  /\ application = [p \in Persons |-> NoApplication]
  /\ savings = {}
  /\ appointed = {}

-----------------------------------------------------------------------------
\* submitApplication: nothing is under review or approved.
BeginSubmit(r, p) ==
  /\ MayLogIn(p)
  /\ p \in Permanent
  /\ ~user[p].memberVerified
  /\ application[p].status \notin {"UNDER_REVIEW", "APPROVED"}
  /\ Enter(r, "SUBMIT", p, [round |-> application[p].round])
  /\ UNCHANGED memberVars

\* Mutant: the approvals of the round before are kept.
ApprovalsAgainOld(p) == IF application[p] = NoApplication THEN AllOpen ELSE application[p].approvals

\* The approvals of the round before are deleted.
ApprovalsAgain(p) == AllOpen

\* Who saw no application inserts one, which is unique; who saw a rejected one
\* updates the row and counts the round.
CommitSubmit(r) ==
  LET q == request[r]
      p == q.person
  IN  /\ Is(r, "SUBMIT")
      /\ StillThere(q)
      /\ application[p] = NoApplication <=> q.key.round = 0
      /\ application[p].round < MaxRounds
      /\ application' = [application EXCEPT ![p] =
           [status |-> "UNDER_REVIEW", step |-> "DIVISI_SIMPAN_PINJAM",
            round |-> application[p].round + 1, approvals |-> ApprovalsAgain(p)]]
      /\ Done(r)
      /\ UNCHANGED <<user, created, tokenVars, links, broken, savings, appointed>>

Decidable(p) ==
  /\ application[p].status = "UNDER_REVIEW"
  /\ application[p].step \in Steps
  /\ application[p].approvals[application[p].step] = "OPEN"

BeginDecision(r, p, op) ==
  /\ Decidable(p)
  /\ Enter(r, op, p, [round |-> application[p].round, step |-> application[p].step])
  /\ UNCHANGED memberVars

\* The record of the approval that was read is still there.
Deciding(r, op) ==
  LET q == request[r]
  IN  /\ Is(r, op)
      /\ StillThere(q)
      /\ application[q.person].round = q.key.round

CommitReject(r) ==
  LET q == request[r]
  IN  /\ Deciding(r, "REJECT")
      /\ application' = [application EXCEPT
           ![q.person].approvals[q.key.step] = "REJECTED",
           ![q.person].status = "REJECTED", ![q.person].step = NoStep]
      /\ Done(r)
      /\ UNCHANGED <<user, created, tokenVars, links, broken, savings, appointed>>

\* The first signature only moves the step.
CommitFirst(r) ==
  LET q == request[r]
  IN  /\ Deciding(r, "APPROVE")
      /\ q.key.step # "KETUA"
      /\ application' = [application EXCEPT
           ![q.person].approvals[q.key.step] = "APPROVED", ![q.person].step = "KETUA"]
      /\ Done(r)
      /\ UNCHANGED <<user, created, tokenVars, links, broken, savings, appointed>>

\* Mutant: the account is opened outside the transaction, which may fail.
OpenedLater(p) == {savings, savings \cup {p}}

\* The last signature opens the account, in the same transaction.
Opened(p) == {savings \cup {p}}

\* The savings account of a user is unique: a second one fails.
CommitLast(r) ==
  LET q == request[r]
      p == q.person
  IN  /\ Deciding(r, "APPROVE")
      /\ q.key.step = "KETUA"
      /\ p \notin savings
      /\ savings' \in Opened(p)
      /\ user' = [user EXCEPT ![p].memberVerified = TRUE]
      /\ application' = [application EXCEPT
           ![p].approvals["KETUA"] = "APPROVED",
           ![p].status = "APPROVED", ![p].step = NoStep]
      /\ Done(r)
      /\ UNCHANGED <<created, tokenVars, links, broken, appointed>>

-----------------------------------------------------------------------------
\* Whoever deletes the user deletes what belongs to it.
Cascade(p) ==
  /\ application' = [application EXCEPT ![p] = NoApplication]
  /\ savings' = savings \ {p}
  /\ appointed' = appointed \ {p}

Undo(r) ==
  /\ UndoRegister(r)
  /\ Cascade(request[r].person)

Remove(p) ==
  /\ AdminRemove(p)
  /\ Cascade(p)

Appoint(p, member) ==
  /\ appointed' = IF member = (user[p] # NoUser /\ user[p].memberVerified)
                  THEN appointed ELSE appointed \cup {p}
  /\ UNCHANGED <<application, savings>>

Administer(p) ==
  \/ Remove(p)
  \/ \E verified, member \in BOOLEAN :
       (AdminCreate(p, verified, member) \/ AdminUpdate(p, verified, member)) /\ Appoint(p, member)

Next ==
  \/ AccountNext /\ UNCHANGED memberVars
  \/ \E r \in Requests :
       \/ \E p \in Persons :
            BeginSubmit(r, p) \/ BeginDecision(r, p, "APPROVE") \/ BeginDecision(r, p, "REJECT")
       \/ CommitSubmit(r) \/ CommitReject(r) \/ CommitFirst(r) \/ CommitLast(r) \/ Undo(r)
  \/ \E p \in Persons : Administer(p)

Spec == Init /\ [][Next]_vars

-----------------------------------------------------------------------------
(* However requests overlap, exactly the verified members have a savings   *)
(* account, so that payroll finds one for each; an administrator who sets  *)
(* the membership of a user by hand opens none.                            *)
MembersHaveSavings ==
  \A p \in Persons \ appointed :
    p \in savings <=> user[p] # NoUser /\ user[p].memberVerified

(* While nothing overlaps, a savings account was signed by both officers in *)
(* the same round, and what is under review can be decided.                 *)
MembershipInOrder ==
  /\ TypeOK
  /\ ~overlapped =>
       \A p \in Persons :
         /\ p \in savings <=> application[p].status = "APPROVED"
         /\ p \in savings => \A s \in Steps : application[p].approvals[s] = "APPROVED"
         /\ application[p].status = "UNDER_REVIEW" => Decidable(p)

=============================================================================
