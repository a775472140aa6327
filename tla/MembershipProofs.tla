-------------------------- MODULE MembershipProofs --------------------------
(***************************************************************************)
(* Exactly the verified members have a savings account, for any number of  *)
(* persons and requests and however these overlap: the type invariant of   *)
(* MemberApplication with what requests in flight know, and the invariant  *)
(* that makes it inductive: an application belongs to a user there is.     *)
(* While nothing overlaps, links work as they were mailed and both         *)
(* officers have signed for who was approved.  The last part is about the  *)
(* queue of their mails: what its logs tell of the copies that went out,   *)
(* and that it implements MailDelivery.                                    *)
(***************************************************************************)
EXTENDS MemberApplication, MailQueue, ArithmeticProofs, SequenceTheorems

\* An application goes with its user (onDelete: Cascade).
RowsOfUsers ==
  \A p \in Persons : application[p] # NoApplication => user[p] # NoUser

Inv == TypeOK /\ RowsOfUsers /\ MembersHaveSavings

-----------------------------------------------------------------------------
\* A user is a row with an id or there is none.
LEMMA UserRows ==
  ASSUME TypeOK, NEW p \in Persons
  PROVE  /\ user[p] \in UserRow \/ user[p] = NoUser
         /\ user[p] \in UserRow <=> user[p] # NoUser
         /\ user[p] # NoUser => user[p].id \in Ids
         /\ user[p].id \in Ids => user[p] # NoUser
  BY AccountAssumption DEF TypeOK, AccountTypeOK, UserRow, NoUser, Ids

\* An application is a row with a round or there is none.
LEMMA ApplicationRows ==
  ASSUME TypeOK, NEW p \in Persons
  PROVE  /\ application[p] \in ApplicationRow \/ application[p] = NoApplication
         /\ application[p].round \in 0 .. MaxRounds
         /\ application[p].round # 0 <=> application[p] # NoApplication
         /\ application[p] = NoApplication => application[p].status = "NONE"
         /\ application[p].status = "UNDER_REVIEW" => application[p] \in ApplicationRow
  BY MemberAssumption DEF TypeOK, ApplicationRow, NoApplication

\* What a request in flight has read, by what it is about to do.
LEMMA RequestFacts ==
  ASSUME TypeOK, NEW r \in Requests, request[r] # Idle
  PROVE  LET q == request[r]
         IN  /\ q \in RequestRow
             /\ q.person \in Persons
             /\ q.op # "REGISTER" => q.id \in Ids
             /\ q.op \in {"SEND_RESET", "WITHDRAW", "RESET"} => q.key.token \in Tokens
             /\ q.op = "SUBMIT" => q.key.round \in 0 .. MaxRounds
             /\ q.op \in {"APPROVE", "REJECT"} =>
                  q.key.round \in 1 .. MaxRounds /\ q.key.step \in Steps
  <1>1. request[r] \in RequestRow
    BY DEF TypeOK
  <1> QED
    BY <1>1 DEF RequestRow, RequestRows

\* A request whose user is still there has a user.
LEMMA HasUser ==
  ASSUME TypeOK, NEW r \in Requests, request[r] # Idle, request[r].op # "REGISTER",
         StillThere(request[r])
  PROVE  user[request[r].person] \in UserRow
  BY RequestFacts, UserRows DEF StillThere

LEMMA InitInv == Init => Inv
  BY AccountAssumption, MemberAssumption
     DEF Init, AccountInit, Inv, TypeOK, AccountTypeOK, RowsOfUsers, MembersHaveSavings,
         NoUser, NoApplication

-----------------------------------------------------------------------------
\* A request that begins writes nothing.
LEMMA EnterInv ==
  ASSUME Inv, NEW r \in Requests, NEW p \in Persons, NEW op, NEW key,
         Enter(r, op, p, key), UNCHANGED memberVars,
         [op |-> op, person |-> p, id |-> user[p].id, key |-> key] \in RequestRow
  PROVE  Inv'
  <1>1. overlaps' \in 0 .. MaxOverlaps
    BY AccountAssumption DEF Inv, TypeOK, AccountTypeOK, Enter, Overlap
  <1>2. TypeOK'
    BY <1>1 DEF Inv, TypeOK, AccountTypeOK, Enter, memberVars, tokenVars
  <1>3. RowsOfUsers' /\ MembersHaveSavings'
    BY DEF Inv, RowsOfUsers, MembersHaveSavings, Enter, memberVars
  <1> QED
    BY <1>2, <1>3 DEF Inv

\* Rows of users that change, but neither appear nor disappear nor become
\* members, leave the members as they are.
LEMMA MembersKept ==
  ASSUME Inv, TypeOK', UNCHANGED memberVars,
         \A p \in Persons :
           /\ user'[p] = NoUser <=> user[p] = NoUser
           /\ user[p] # NoUser => user'[p].memberVerified = user[p].memberVerified
  PROVE  Inv'
  BY DEF Inv, RowsOfUsers, MembersHaveSavings, memberVars

LEMMA BeginRegisterInv ==
  ASSUME Inv, NEW r \in Requests, NEW p \in Persons, BeginRegister(r, p), UNCHANGED memberVars
  PROVE  Inv'
  <1>1. [op |-> "REGISTER", person |-> p, id |-> user[p].id, key |-> NoKey] \in RequestRow
    BY DEF BeginRegister, RequestRow, RequestRows, NoUser
  <1> QED
    BY <1>1, EnterInv DEF BeginRegister

LEMMA BeginVerifyInv ==
  ASSUME Inv, NEW r \in Requests, NEW p \in Persons, BeginVerify(r, p), UNCHANGED memberVars
  PROVE  Inv'
  <1>1. [op |-> "VERIFY", person |-> p, id |-> user[p].id, key |-> NoKey] \in RequestRow
    BY UserRows DEF Inv, BeginVerify, RequestRow, RequestRows
  <1> QED
    BY <1>1, EnterInv DEF BeginVerify

LEMMA BeginForgotInv ==
  ASSUME Inv, NEW r \in Requests, NEW p \in Persons, BeginForgot(r, p), UNCHANGED memberVars
  PROVE  Inv'
  <1>1. [op |-> "FORGOT", person |-> p, id |-> user[p].id, key |-> NoKey] \in RequestRow
    BY UserRows DEF Inv, BeginForgot, MayLogIn, RequestRow, RequestRows
  <1> QED
    BY <1>1, EnterInv DEF BeginForgot

LEMMA BeginResetInv ==
  ASSUME Inv, NEW r \in Requests, NEW p \in Persons, NEW t \in Tokens,
         BeginReset(r, p, t), UNCHANGED memberVars
  PROVE  Inv'
  <1>1. [op |-> "RESET", person |-> p, id |-> user[p].id, key |-> [token |-> t]] \in RequestRow
    BY UserRows DEF Inv, BeginReset, RequestRow, RequestRows
  <1> QED
    BY <1>1, EnterInv DEF BeginReset

LEMMA BeginSubmitInv ==
  ASSUME Inv, NEW r \in Requests, NEW p \in Persons, BeginSubmit(r, p)
  PROVE  Inv'
  <1> DEFINE key == [round |-> application[p].round]
  <1>1. [op |-> "SUBMIT", person |-> p, id |-> user[p].id, key |-> key] \in RequestRow
    BY UserRows, ApplicationRows DEF Inv, BeginSubmit, MayLogIn, RequestRow, RequestRows
  <1> QED
    BY <1>1, EnterInv DEF BeginSubmit

LEMMA BeginDecisionInv ==
  ASSUME Inv, NEW r \in Requests, NEW p \in Persons, NEW op \in {"APPROVE", "REJECT"},
         BeginDecision(r, p, op)
  PROVE  Inv'
  <1> DEFINE key == [round |-> application[p].round, step |-> application[p].step]
  <1>1. application[p] \in ApplicationRow /\ application[p].step \in Steps
    BY ApplicationRows DEF Inv, BeginDecision, Decidable
  <1>2. user[p].id \in Ids
    BY <1>1, ApplicationRows, UserRows DEF Inv, RowsOfUsers, BeginDecision, Decidable, NoApplication
  <1>3. key \in [round : 1 .. MaxRounds, step : Steps]
    BY <1>1 DEF ApplicationRow
  <1>4. [op |-> op, person |-> p, id |-> user[p].id, key |-> key] \in RequestRow
    BY <1>2, <1>3 DEF RequestRow, RequestRows
  <1> QED
    BY <1>4, EnterInv DEF BeginDecision

-----------------------------------------------------------------------------
\* A request that goes on or ends stays a request.
LEMMA ContinueType ==
  ASSUME TypeOK, NEW r \in Requests, NEW op, NEW id, NEW key, Continue(r, op, id, key),
         [op |-> op, person |-> request[r].person, id |-> id, key |-> key] \in RequestRow
  PROVE  request' \in [Requests -> {Idle} \cup RequestRow] /\ overlaps' = overlaps
  BY DEF TypeOK, Continue

LEMMA DoneType ==
  ASSUME TypeOK, NEW r \in Requests, Done(r)
  PROVE  request' \in [Requests -> {Idle} \cup RequestRow] /\ overlaps' = overlaps
  BY DEF TypeOK, Done

\* A new user that is no member yet, or whom an administrator appoints.
LEMMA InsertInv ==
  ASSUME Inv, NEW p \in Persons, NEW mailed \in BOOLEAN, NEW verified \in BOOLEAN,
         NEW member \in BOOLEAN, Insert(p, mailed, verified, member),
         member => p \in appointed',
         appointed \subseteq appointed', appointed' \subseteq Persons,
         UNCHANGED <<application, savings>>
  PROVE  /\ user' \in [Persons -> {NoUser} \cup UserRow]
         /\ created' \in Ids
         /\ RowsOfUsers'
         /\ MembersHaveSavings'
  <1> DEFINE row == [id |-> created + 1, toVerify |-> mailed, emailVerified |-> verified,
                     memberVerified |-> member, reset |-> NoToken]
  <1>1. created' \in Ids /\ created' = created + 1
    BY AccountAssumption DEF Inv, TypeOK, AccountTypeOK, Insert, Ids
  <1>2. row \in UserRow /\ row # NoUser /\ row.memberVerified = member
    BY <1>1, AccountAssumption DEF UserRow, NoUser, Ids
  <1>3. user' = [user EXCEPT ![p] = row]
    BY DEF Insert
  <1>4. user \in [Persons -> {NoUser} \cup UserRow]
    BY DEF Inv, TypeOK, AccountTypeOK
  <1> HIDE DEF row
  <1>5. user' \in [Persons -> {NoUser} \cup UserRow]
    BY <1>2, <1>3, <1>4
  <1>6. RowsOfUsers'
    BY <1>2, <1>3, <1>4 DEF Inv, RowsOfUsers
  <1>7. MembersHaveSavings'
    <2> SUFFICES ASSUME NEW e \in Persons \ appointed'
                 PROVE  e \in savings <=> user'[e] # NoUser /\ user'[e].memberVerified
      BY DEF MembersHaveSavings
    <2>1. e \in savings <=> user[e] # NoUser /\ user[e].memberVerified
      BY DEF Inv, MembersHaveSavings
    <2>2. CASE e = p
      BY <1>2, <1>3, <1>4, <2>1, <2>2 DEF Insert
    <2>3. CASE e # p
      BY <1>3, <1>4, <2>1, <2>3
    <2> QED
      BY <2>2, <2>3
  <1> QED
    BY <1>1, <1>5, <1>6, <1>7

LEMMA CommitRegisterInv ==
  ASSUME Inv, NEW r \in Requests, CommitRegister(r), UNCHANGED memberVars
  PROVE  Inv'
  <1> DEFINE p == request[r].person
  <1>1. p \in Persons
    BY RequestFacts DEF Inv, CommitRegister, Is, Idle
  <1>2. /\ user' \in [Persons -> {NoUser} \cup UserRow]
        /\ created' \in Ids
        /\ RowsOfUsers'
        /\ MembersHaveSavings'
    BY <1>1, InsertInv DEF CommitRegister, memberVars, Inv, TypeOK
  <1>3. [op |-> "SEND_VERIFICATION", person |-> p, id |-> created + 1, key |-> NoKey]
          \in RequestRow
    BY <1>1, <1>2 DEF CommitRegister, Insert, RequestRow, RequestRows
  <1>4. request' \in [Requests -> {Idle} \cup RequestRow] /\ overlaps' = overlaps
    BY <1>3, ContinueType DEF Inv, CommitRegister
  <1>5. TypeOK'
    BY <1>2, <1>4 DEF Inv, TypeOK, AccountTypeOK, CommitRegister, memberVars, tokenVars
  <1> QED
    BY <1>2, <1>5 DEF Inv

LEMMA SendVerificationInv ==
  ASSUME Inv, NEW r \in Requests, NEW arrives \in BOOLEAN, NEW ok \in BOOLEAN,
         SendVerification(r, arrives, ok), UNCHANGED memberVars
  PROVE  Inv'
  <1>1. request[r].person \in Persons /\ request[r].id \in Ids
    BY RequestFacts DEF Inv, SendVerification, Is, Idle
  <1>2. [op |-> "UNDO", person |-> request[r].person, id |-> request[r].id, key |-> NoKey]
          \in RequestRow
    BY <1>1 DEF RequestRow, RequestRows
  <1>3. request' \in [Requests -> {Idle} \cup RequestRow] /\ overlaps' = overlaps
    BY <1>2, ContinueType, DoneType DEF Inv, SendVerification, AfterSending
  <1>4. TypeOK'
    BY <1>1, <1>3 DEF Inv, TypeOK, AccountTypeOK, SendVerification, memberVars, tokenVars
  <1> QED
    BY <1>4, MembersKept DEF SendVerification

LEMMA CommitVerifyInv ==
  ASSUME Inv, NEW r \in Requests, CommitVerify(r), UNCHANGED memberVars
  PROVE  Inv'
  <1> DEFINE p == request[r].person
  <1>1. p \in Persons /\ user[p] \in UserRow
    BY RequestFacts, HasUser DEF Inv, CommitVerify, Is, Idle
  <1>2. request' \in [Requests -> {Idle} \cup RequestRow] /\ overlaps' = overlaps
    BY DoneType DEF Inv, CommitVerify
  <1>3. TypeOK'
    BY <1>1, <1>2 DEF Inv, TypeOK, AccountTypeOK, CommitVerify, UserRow, memberVars, tokenVars
  <1> QED
    BY <1>1, <1>3, MembersKept
    DEF Inv, TypeOK, AccountTypeOK, CommitVerify, UserRow, NoUser

LEMMA CommitForgotInv ==
  ASSUME Inv, NEW r \in Requests, CommitForgot(r), UNCHANGED memberVars
  PROVE  Inv'
  <1> DEFINE p == request[r].person
  <1>1. p \in Persons /\ request[r].id \in Ids /\ user[p] \in UserRow
    BY RequestFacts, HasUser DEF Inv, CommitForgot, Is, Idle
  <1>2. issued' \in Tokens /\ issued' = issued + 1
    BY AccountAssumption DEF Inv, TypeOK, AccountTypeOK, CommitForgot, Tokens, NoToken
  <1>3. [op |-> "SEND_RESET", person |-> p, id |-> request[r].id,
         key |-> [token |-> issued + 1]] \in RequestRow
    BY <1>1, <1>2 DEF RequestRow, RequestRows
  <1>4. request' \in [Requests -> {Idle} \cup RequestRow] /\ overlaps' = overlaps
    BY <1>3, ContinueType DEF Inv, CommitForgot
  <1>5. TypeOK'
    BY <1>1, <1>2, <1>4
    DEF Inv, TypeOK, AccountTypeOK, CommitForgot, UserRow, memberVars
  <1> QED
    BY <1>1, <1>5, MembersKept
    DEF Inv, TypeOK, AccountTypeOK, CommitForgot, UserRow, NoUser

LEMMA SendResetInv ==
  ASSUME Inv, NEW r \in Requests, NEW arrives \in BOOLEAN, NEW ok \in BOOLEAN,
         SendReset(r, arrives, ok), UNCHANGED memberVars
  PROVE  Inv'
  <1> DEFINE q == request[r]
  <1>1. /\ q \in RequestRow /\ q.op = "SEND_RESET"
        /\ q.person \in Persons /\ q.id \in Ids /\ q.key.token \in Tokens
    BY RequestFacts DEF Inv, SendReset, Is, Idle
  <1>2. q.key \in [token : Tokens]
    BY <1>1 DEF RequestRow, RequestRows
  <1>3. [op |-> "WITHDRAW", person |-> q.person, id |-> q.id, key |-> q.key] \in RequestRow
    BY <1>1, <1>2 DEF RequestRow, RequestRows
  <1>4. request' \in [Requests -> {Idle} \cup RequestRow] /\ overlaps' = overlaps
    BY <1>3, ContinueType, DoneType DEF Inv, SendReset
  <1>5. TypeOK'
    BY <1>1, <1>4 DEF Inv, TypeOK, AccountTypeOK, SendReset, memberVars
  <1> QED
    BY <1>5, MembersKept DEF SendReset

LEMMA WithdrawTokenInv ==
  ASSUME Inv, NEW r \in Requests, WithdrawToken(r), UNCHANGED memberVars
  PROVE  Inv'
  <1> DEFINE p == request[r].person
  <1>1. p \in Persons /\ user[p] \in UserRow
    BY RequestFacts, HasUser DEF Inv, WithdrawToken, Is, Idle
  <1>2. request' \in [Requests -> {Idle} \cup RequestRow] /\ overlaps' = overlaps
    BY DoneType DEF Inv, WithdrawToken
  <1>3. TypeOK'
    BY <1>1, <1>2 DEF Inv, TypeOK, AccountTypeOK, WithdrawToken, UserRow, memberVars, tokenVars
  <1> QED
    BY <1>1, <1>3, MembersKept
    DEF Inv, TypeOK, AccountTypeOK, WithdrawToken, UserRow, NoUser

LEMMA ExpireInv ==
  ASSUME Inv, NEW p \in Persons, Expire(p), UNCHANGED memberVars
  PROVE  Inv'
  <1>1. user[p] \in UserRow
    BY UserRows DEF Inv, Expire
  <1>2. TypeOK'
    BY <1>1 DEF Inv, TypeOK, AccountTypeOK, Expire, UserRow, memberVars
  <1> QED
    BY <1>1, <1>2, MembersKept
    DEF Inv, TypeOK, AccountTypeOK, Expire, UserRow, NoUser

LEMMA LapseInv ==
  ASSUME Inv, NEW p \in Persons, Lapse(p), UNCHANGED memberVars
  PROVE  Inv'
  <1>1. user[p].id \in Ids
    BY UserRows DEF Inv, Lapse
  <1>2. TypeOK'
    BY <1>1 DEF Inv, TypeOK, AccountTypeOK, Lapse, memberVars
  <1> QED
    BY <1>2, MembersKept DEF Lapse

LEMMA CommitResetInv ==
  ASSUME Inv, NEW r \in Requests, CommitReset(r), UNCHANGED memberVars
  PROVE  Inv'
  <1> DEFINE p == request[r].person
  <1>1. p \in Persons /\ user[p] \in UserRow /\ request[r].key.token \in Tokens
    BY RequestFacts, HasUser DEF Inv, CommitReset, Is, Idle
  <1>2. request' \in [Requests -> {Idle} \cup RequestRow] /\ overlaps' = overlaps
    BY DoneType DEF Inv, CommitReset
  <1>3. uses' \in [Tokens -> Nat]
    BY <1>1 DEF Inv, TypeOK, AccountTypeOK, CommitReset
  <1>4. TypeOK'
    BY <1>1, <1>2, <1>3
    DEF Inv, TypeOK, AccountTypeOK, CommitReset, TokenAfter, UserRow, memberVars
  <1> QED
    BY <1>1, <1>4, MembersKept
    DEF Inv, TypeOK, AccountTypeOK, CommitReset, TokenAfter, UserRow, NoUser

LEMMA FailInv ==
  ASSUME Inv, NEW r \in Requests, Fail(r), UNCHANGED memberVars
  PROVE  Inv'
  <1>1. request[r].op \in {"SEND_VERIFICATION", "UNDO"} => request[r].id \in Ids
    BY RequestFacts DEF Inv, Fail
  <1>2. request' \in [Requests -> {Idle} \cup RequestRow] /\ overlaps' = overlaps
    BY DoneType DEF Inv, Fail
  <1>3. TypeOK'
    BY <1>1, <1>2 DEF Inv, TypeOK, AccountTypeOK, Fail, memberVars, tokenVars
  <1> QED
    BY <1>3, MembersKept DEF Fail

-----------------------------------------------------------------------------
LEMMA CommitSubmitInv ==
  ASSUME Inv, NEW r \in Requests, CommitSubmit(r)
  PROVE  Inv'
  <1> DEFINE p == request[r].person
             row == [status |-> "UNDER_REVIEW", step |-> "DIVISI_SIMPAN_PINJAM",
                     round |-> application[p].round + 1, approvals |-> ApprovalsAgain(p)]
  <1>1. p \in Persons /\ user[p] \in UserRow
    BY RequestFacts, HasUser DEF Inv, CommitSubmit, Is, Idle
  <1>2. row \in ApplicationRow
    <2>1. application[p].round + 1 \in 1 .. MaxRounds
      BY <1>1, ApplicationRows, MemberAssumption DEF Inv, CommitSubmit
    <2> QED
      BY <2>1 DEF ApplicationRow, ApprovalsAgain, AllOpen, Steps, Decisions
  <1>3. application' = [application EXCEPT ![p] = row]
    BY DEF CommitSubmit
  <1> HIDE DEF row
  <1>4. request' \in [Requests -> {Idle} \cup RequestRow] /\ overlaps' = overlaps
    BY DoneType DEF Inv, CommitSubmit
  <1>5. TypeOK'
    BY <1>1, <1>2, <1>3, <1>4 DEF Inv, TypeOK, AccountTypeOK, CommitSubmit, tokenVars
  <1>6. RowsOfUsers'
    BY <1>1, <1>3, UserRows DEF Inv, TypeOK, RowsOfUsers, CommitSubmit
  <1>7. MembersHaveSavings'
    BY DEF Inv, MembersHaveSavings, CommitSubmit
  <1> QED
    BY <1>5, <1>6, <1>7 DEF Inv

\* The application an officer has read is still there when it is decided.
LEMMA DecidingFacts ==
  ASSUME Inv, NEW r \in Requests, NEW op \in {"APPROVE", "REJECT"}, Deciding(r, op)
  PROVE  LET q == request[r]
         IN  /\ q.person \in Persons
             /\ q.key.step \in Steps
             /\ user[q.person] \in UserRow
             /\ application[q.person] \in ApplicationRow
  <1>1. /\ request[r] # Idle /\ request[r].op \in {"APPROVE", "REJECT"}
        /\ StillThere(request[r])
        /\ application[request[r].person].round = request[r].key.round
    BY DEF Deciding, Is, Idle
  <1>2. /\ request[r].person \in Persons
        /\ request[r].key.round \in 1 .. MaxRounds /\ request[r].key.step \in Steps
    BY <1>1, RequestFacts DEF Inv
  <1>3. application[request[r].person] # NoApplication
    BY <1>1, <1>2, ApplicationRows, MemberAssumption DEF Inv
  <1> QED
    BY <1>1, <1>2, <1>3, HasUser, ApplicationRows DEF Inv

LEMMA CommitRejectInv ==
  ASSUME Inv, NEW r \in Requests, CommitReject(r)
  PROVE  Inv'
  <1> DEFINE p == request[r].person
  <1>1. /\ p \in Persons /\ request[r].key.step \in Steps
        /\ user[p] \in UserRow /\ application[p] \in ApplicationRow
    BY DecidingFacts DEF CommitReject
  <1>2. request' \in [Requests -> {Idle} \cup RequestRow] /\ overlaps' = overlaps
    BY DoneType DEF Inv, CommitReject
  <1>3. application' \in [Persons -> {NoApplication} \cup ApplicationRow]
    BY <1>1 DEF Inv, TypeOK, CommitReject, ApplicationRow, Decisions, NoStep
  <1>4. TypeOK'
    BY <1>1, <1>2, <1>3 DEF Inv, TypeOK, AccountTypeOK, CommitReject, tokenVars
  <1>5. RowsOfUsers'
    BY <1>1, UserRows DEF Inv, TypeOK, RowsOfUsers, CommitReject
  <1>6. MembersHaveSavings'
    BY DEF Inv, MembersHaveSavings, CommitReject
  <1> QED
    BY <1>4, <1>5, <1>6 DEF Inv

LEMMA CommitFirstInv ==
  ASSUME Inv, NEW r \in Requests, CommitFirst(r)
  PROVE  Inv'
  <1> DEFINE p == request[r].person
  <1>1. /\ p \in Persons /\ request[r].key.step \in Steps
        /\ user[p] \in UserRow /\ application[p] \in ApplicationRow
    BY DecidingFacts DEF CommitFirst
  <1>2. request' \in [Requests -> {Idle} \cup RequestRow] /\ overlaps' = overlaps
    BY DoneType DEF Inv, CommitFirst
  <1>3. application' \in [Persons -> {NoApplication} \cup ApplicationRow]
    BY <1>1 DEF Inv, TypeOK, CommitFirst, ApplicationRow, Decisions, Steps
  <1>4. TypeOK'
    BY <1>1, <1>2, <1>3 DEF Inv, TypeOK, AccountTypeOK, CommitFirst, tokenVars
  <1>5. RowsOfUsers'
    BY <1>1, UserRows DEF Inv, TypeOK, RowsOfUsers, CommitFirst
  <1>6. MembersHaveSavings'
    BY DEF Inv, MembersHaveSavings, CommitFirst
  <1> QED
    BY <1>4, <1>5, <1>6 DEF Inv

\* The last signature: the member and the account come in one step.
LEMMA CommitLastInv ==
  ASSUME Inv, NEW r \in Requests, CommitLast(r)
  PROVE  Inv'
  <1> DEFINE p == request[r].person
  <1>1. /\ p \in Persons
        /\ user[p] \in UserRow /\ application[p] \in ApplicationRow
    BY DecidingFacts DEF CommitLast
  <1>2. request' \in [Requests -> {Idle} \cup RequestRow] /\ overlaps' = overlaps
    BY DoneType DEF Inv, CommitLast
  <1>3. application' \in [Persons -> {NoApplication} \cup ApplicationRow]
    BY <1>1 DEF Inv, TypeOK, CommitLast, ApplicationRow, Decisions, Steps, NoStep
  <1>4. savings' = savings \cup {p}
    BY DEF CommitLast, Opened
  <1>5. user' = [user EXCEPT ![p] = [user[p] EXCEPT !.memberVerified = TRUE]]
    BY DEF CommitLast
  <1>6. user' \in [Persons -> {NoUser} \cup UserRow]
    BY <1>1, <1>5 DEF Inv, TypeOK, AccountTypeOK, UserRow
  <1>7. TypeOK'
    BY <1>1, <1>2, <1>3, <1>4, <1>6 DEF Inv, TypeOK, AccountTypeOK, CommitLast, tokenVars
  <1>8. user'[p] # NoUser /\ user'[p].memberVerified
    BY <1>1, <1>5 DEF Inv, TypeOK, AccountTypeOK, UserRow, NoUser
  <1>9. \A e \in Persons : e # p => user'[e] = user[e] /\ application'[e] = application[e]
    BY <1>5 DEF Inv, TypeOK, AccountTypeOK, CommitLast
  <1>10. RowsOfUsers'
    BY <1>8, <1>9 DEF Inv, RowsOfUsers
  <1>11. MembersHaveSavings'
    BY <1>1, <1>4, <1>8, <1>9 DEF Inv, MembersHaveSavings, CommitLast
  <1> QED
    BY <1>7, <1>10, <1>11 DEF Inv

-----------------------------------------------------------------------------
\* A removed user takes the application and the savings account along.
LEMMA DeletedInv ==
  ASSUME Inv, NEW p \in Persons, Delete(p), Cascade(p)
  PROVE  /\ user' \in [Persons -> {NoUser} \cup UserRow]
         /\ promised' \in [Persons -> {NoToken} \cup Tokens]
         /\ application' \in [Persons -> {NoApplication} \cup ApplicationRow]
         /\ savings' \subseteq Persons
         /\ appointed' \subseteq Persons
         /\ RowsOfUsers'
         /\ MembersHaveSavings'
  <1>1. /\ user' \in [Persons -> {NoUser} \cup UserRow]
        /\ promised' \in [Persons -> {NoToken} \cup Tokens]
        /\ application' \in [Persons -> {NoApplication} \cup ApplicationRow]
        /\ savings' \subseteq Persons
        /\ appointed' \subseteq Persons
    BY DEF Inv, TypeOK, AccountTypeOK, Delete, Cascade
  <1>2. user'[p] = NoUser /\ application'[p] = NoApplication /\ p \notin savings'
    BY DEF Inv, TypeOK, AccountTypeOK, Delete, Cascade
  <1>3. \A e \in Persons : e # p =>
          /\ user'[e] = user[e] /\ application'[e] = application[e]
          /\ e \in savings' <=> e \in savings
          /\ e \in appointed' <=> e \in appointed
    BY DEF Inv, TypeOK, AccountTypeOK, Delete, Cascade
  <1>4. RowsOfUsers'
    BY <1>2, <1>3 DEF Inv, RowsOfUsers
  <1>5. MembersHaveSavings'
    BY <1>2, <1>3 DEF Inv, MembersHaveSavings
  <1> QED
    BY <1>1, <1>4, <1>5

LEMMA UndoInv ==
  ASSUME Inv, NEW r \in Requests, Undo(r)
  PROVE  Inv'
  <1>1. request[r].person \in Persons
    BY RequestFacts DEF Inv, Undo, UndoRegister, Is, Idle
  <1>2. request' \in [Requests -> {Idle} \cup RequestRow] /\ overlaps' = overlaps
    BY DoneType DEF Inv, Undo, UndoRegister
  <1>3. TypeOK' /\ RowsOfUsers' /\ MembersHaveSavings'
    BY <1>1, <1>2, DeletedInv DEF Inv, TypeOK, AccountTypeOK, Undo, UndoRegister
  <1> QED
    BY <1>3 DEF Inv

LEMMA RemoveInv ==
  ASSUME Inv, NEW p \in Persons, Remove(p)
  PROVE  Inv'
  <1>1. overlaps' \in 0 .. MaxOverlaps
    BY AccountAssumption DEF Inv, TypeOK, AccountTypeOK, Remove, AdminRemove, Overlap
  <1>2. TypeOK' /\ RowsOfUsers' /\ MembersHaveSavings'
    BY <1>1, DeletedInv DEF Inv, TypeOK, AccountTypeOK, Remove, AdminRemove
  <1> QED
    BY <1>2 DEF Inv

LEMMA AdminCreateInv ==
  ASSUME Inv, NEW p \in Persons, NEW verified \in BOOLEAN, NEW member \in BOOLEAN,
         AdminCreate(p, verified, member), Appoint(p, member)
  PROVE  Inv'
  <1>1. /\ member => p \in appointed'
        /\ appointed \subseteq appointed' /\ appointed' \subseteq Persons
    BY DEF Inv, TypeOK, Appoint, AdminCreate, Insert
  <1>2. /\ user' \in [Persons -> {NoUser} \cup UserRow]
        /\ created' \in Ids
        /\ RowsOfUsers'
        /\ MembersHaveSavings'
    BY <1>1, InsertInv DEF AdminCreate, Appoint
  <1>3. overlaps' \in 0 .. MaxOverlaps
    BY AccountAssumption DEF Inv, TypeOK, AccountTypeOK, AdminCreate, Overlap
  <1>4. broken' \subseteq Ids
    BY <1>2 DEF Inv, TypeOK, AccountTypeOK, AdminCreate, Insert
  <1>5. TypeOK'
    BY <1>1, <1>2, <1>3, <1>4
    DEF Inv, TypeOK, AccountTypeOK, AdminCreate, Appoint, tokenVars
  <1> QED
    BY <1>2, <1>5 DEF Inv

LEMMA AdminUpdateInv ==
  ASSUME Inv, NEW p \in Persons, NEW verified \in BOOLEAN, NEW member \in BOOLEAN,
         AdminUpdate(p, verified, member), Appoint(p, member)
  PROVE  Inv'
  <1> DEFINE row == [user[p] EXCEPT !.emailVerified = verified, !.memberVerified = member]
  <1>1. user[p] \in UserRow /\ user[p].id \in Ids
    BY UserRows DEF Inv, AdminUpdate
  <1>2. row \in UserRow /\ row # NoUser /\ row.memberVerified = member
    BY <1>1 DEF UserRow, NoUser
  <1>3. user' = [user EXCEPT ![p] = row]
    BY DEF AdminUpdate
  <1> HIDE DEF row
  <1>4. overlaps' \in 0 .. MaxOverlaps
    BY AccountAssumption DEF Inv, TypeOK, AccountTypeOK, AdminUpdate, Overlap
  <1>5. TypeOK'
    BY <1>1, <1>2, <1>3, <1>4
    DEF Inv, TypeOK, AccountTypeOK, AdminUpdate, Appoint, tokenVars
  <1>6. user'[p] = row /\ \A e \in Persons : e # p => user'[e] = user[e]
    BY <1>3 DEF Inv, TypeOK, AccountTypeOK
  <1>7. RowsOfUsers'
    BY <1>2, <1>6 DEF Inv, RowsOfUsers, Appoint
  <1>8. MembersHaveSavings'
    <2> SUFFICES ASSUME NEW e \in Persons \ appointed'
                 PROVE  e \in savings' <=> user'[e] # NoUser /\ user'[e].memberVerified
      BY DEF MembersHaveSavings
    <2>1. e \notin appointed /\ savings' = savings
      BY DEF Appoint
    <2>2. e \in savings <=> user[e] # NoUser /\ user[e].memberVerified
      BY <2>1 DEF Inv, MembersHaveSavings
    <2>3. CASE e = p
      <3>1. member = (user[p] # NoUser /\ user[p].memberVerified)
        BY <2>3 DEF Appoint
      <3> QED
        BY <1>2, <1>6, <2>1, <2>2, <2>3, <3>1 DEF AdminUpdate
    <2>4. CASE e # p
      BY <1>6, <2>1, <2>2, <2>4
    <2> QED
      BY <2>3, <2>4
  <1> QED
    BY <1>5, <1>7, <1>8 DEF Inv

-----------------------------------------------------------------------------
LEMMA AccountInv ==
  ASSUME Inv, AccountNext, UNCHANGED memberVars
  PROVE  Inv'
  BY BeginRegisterInv, BeginVerifyInv, BeginForgotInv, BeginResetInv, SendVerificationInv,
     SendResetInv, CommitRegisterInv, CommitVerifyInv, CommitForgotInv, WithdrawTokenInv,
     CommitResetInv, FailInv, ExpireInv, LapseInv, Zenon
  DEF AccountNext

LEMMA AdministerInv ==
  ASSUME Inv, NEW p \in Persons, Administer(p)
  PROVE  Inv'
  BY RemoveInv, AdminCreateInv, AdminUpdateInv DEF Administer

LEMMA StepInv == Inv /\ [Next]_vars => Inv'
  <1> SUFFICES ASSUME Inv, [Next]_vars
               PROVE  Inv'
    OBVIOUS
  <1>1. CASE AccountNext /\ UNCHANGED memberVars
    BY <1>1, AccountInv
  <1>2. ASSUME NEW r \in Requests, NEW p \in Persons, BeginSubmit(r, p)
        PROVE  Inv'
    BY <1>2, BeginSubmitInv
  <1>3. ASSUME NEW r \in Requests, NEW p \in Persons,
               BeginDecision(r, p, "APPROVE") \/ BeginDecision(r, p, "REJECT")
        PROVE  Inv'
    BY <1>3, BeginDecisionInv
  <1>4. ASSUME NEW r \in Requests,
               CommitSubmit(r) \/ CommitReject(r) \/ CommitFirst(r) \/ CommitLast(r) \/ Undo(r)
        PROVE  Inv'
    BY <1>4, CommitSubmitInv, CommitRejectInv, CommitFirstInv, CommitLastInv, UndoInv
  <1>5. ASSUME NEW p \in Persons, Administer(p)
        PROVE  Inv'
    BY <1>5, AdministerInv
  <1>6. CASE UNCHANGED vars
    <2>1. TypeOK' /\ RowsOfUsers' /\ MembersHaveSavings'
      BY <1>6 DEF Inv, TypeOK, AccountTypeOK, RowsOfUsers, MembersHaveSavings,
                  vars, accountVars, memberVars, tokenVars
    <2> QED
      BY <2>1 DEF Inv
  <1> QED
    BY <1>1, <1>2, <1>3, <1>4, <1>5, <1>6 DEF Next

\* Users, applications and what requests know of them keep their types.
THEOREM MembershipTypes == Spec => []TypeOK
  <1>1. Inv => TypeOK
    BY DEF Inv
  <1> QED
    BY <1>1, InitInv, StepInv, PTL DEF Spec

\* However registrations, approvals and removals overlap, exactly the verified
\* members have a savings account, those aside whom an administrator
\* appointed: the last signature verifies and opens in one transaction, and
\* a removed user takes the account along.
THEOREM MembersAlwaysHaveSavings == Spec => []MembersHaveSavings
  <1>1. Inv => MembersHaveSavings
    BY DEF Inv
  <1> QED
    BY <1>1, InitInv, StepInv, PTL DEF Spec

-----------------------------------------------------------------------------
(* As long as nothing overlaps.                                            *)

OneRequest == \A r, s \in Requests : request[r] # Idle /\ request[s] # Idle => r = s

Owns(p, t) == user[p] # NoUser /\ user[p].reset = t

\* A request in flight has read what is still there.
RequestCurrent(q) ==
  LET p == q.person
  IN  /\ q.op \in {"SEND_VERIFICATION", "UNDO"} => user[p] # NoUser /\ user[p].id = q.id
      /\ q.op = "SEND_VERIFICATION" => user[p].toVerify
      /\ q.op = "SEND_RESET" => Owns(p, q.key.token)
      /\ q.op \in {"SEND_RESET", "WITHDRAW"} => promised[p] = NoToken
      /\ q.op = "RESET" => /\ q.key.token <= issued /\ uses[q.key.token] = 0
                           /\ \A e \in Persons : Owns(e, q.key.token) => e = p
      /\ q.op = "SUBMIT" => application[p].status \notin {"UNDER_REVIEW", "APPROVED"}
      /\ q.op \in {"APPROVE", "REJECT"} =>
           application[p].status = "UNDER_REVIEW" /\ application[p].step = q.key.step

RequestsCurrent == \A r \in Requests : RequestCurrent(request[r])

Registering(p) ==
  \E r \in Requests : /\ request[r].op \in {"SEND_VERIFICATION", "UNDO"}
                      /\ request[r].person = p

\* Who is not verified has a link, or is about to get one.
Reached(p) ==
  user[p] # NoUser /\ ~user[p].emailVerified =>
    \/ user[p].id \in broken
    \/ user[p].toVerify /\ user[p].id \in links
    \/ Registering(p)

UsersReached == \A p \in Persons : Reached(p)

\* A token that is not used up has one owner, a promised one works.
TokensInOrder ==
  /\ \A t \in Tokens : uses[t] <= 1 /\ (uses[t] # 0 => t <= issued)
  /\ \A p \in Persons, t \in Tokens : Owns(p, t) => t <= issued /\ uses[t] = 0
  /\ \A p, e \in Persons, t \in Tokens : Owns(p, t) /\ Owns(e, t) => p = e
  /\ \A p \in Persons : promised[p] # NoToken => Owns(p, promised[p]) /\ promised[p] \in resets

ApplicationInOrder(row) ==
  /\ row.status = "UNDER_REVIEW" =>
       /\ row.step \in Steps
       /\ row.approvals[row.step] = "OPEN"
       /\ row.step = "DIVISI_SIMPAN_PINJAM" => row.approvals = AllOpen
       /\ row.step = "KETUA" => row.approvals["DIVISI_SIMPAN_PINJAM"] = "APPROVED"
  /\ row.status = "APPROVED" => \A s \in Steps : row.approvals[s] = "APPROVED"

ApplicationsInOrder ==
  \A p \in Persons : /\ ApplicationInOrder(application[p])
                     /\ p \in savings <=> application[p].status = "APPROVED"

Good == OneRequest /\ RequestsCurrent /\ UsersReached /\ TokensInOrder /\ ApplicationsInOrder

SerialInv == overlaps = 0 => Good

LEMMA IdleFacts == Idle.op = "IDLE"
  BY DEF Idle

\* What is in flight is all that is in flight.
LEMMA OnlyOne ==
  ASSUME OneRequest, NEW r \in Requests, request[r] # Idle
  PROVE  /\ \A s \in Requests \ {r} : request[s] = Idle
         /\ \A p : Registering(p) =>
              request[r].op \in {"SEND_VERIFICATION", "UNDO"} /\ p = request[r].person
  <1>1. \A s \in Requests \ {r} : request[s] = Idle
    BY DEF OneRequest
  <1>2. ASSUME NEW p, Registering(p)
        PROVE  request[r].op \in {"SEND_VERIFICATION", "UNDO"} /\ p = request[r].person
    <2>1. PICK s \in Requests : /\ request[s].op \in {"SEND_VERIFICATION", "UNDO"}
                                /\ request[s].person = p
      BY <1>2 DEF Registering
    <2>2. s = r
      BY <1>1, <2>1, IdleFacts
    <2> QED
      BY <2>1, <2>2
  <1> QED
    BY <1>1, <1>2

LEMMA DoneCurrent ==
  ASSUME TypeOK, OneRequest, NEW r \in Requests, request[r] # Idle, Done(r)
  PROVE  OneRequest' /\ RequestsCurrent'
  <1>1. \A s \in Requests : request'[s] = Idle
    BY OnlyOne DEF Done, TypeOK
  <1> QED
    BY <1>1, IdleFacts DEF OneRequest, RequestsCurrent, RequestCurrent

LEMMA WrittenCurrent ==
  ASSUME TypeOK, OneRequest, NEW r \in Requests, \A s \in Requests \ {r} : request[s] = Idle,
         NEW q, request' = [request EXCEPT ![r] = q], RequestCurrent(q)'
  PROVE  /\ OneRequest' /\ RequestsCurrent' /\ request'[r] = q
         /\ \A s \in Requests \ {r} : request'[s] = Idle
  <1>1. request'[r] = q /\ \A s \in Requests \ {r} : request'[s] = Idle
    BY DEF TypeOK
  <1>2. RequestCurrent(Idle)'
    BY IdleFacts DEF RequestCurrent
  <1> QED
    BY <1>1, <1>2 DEF OneRequest, RequestsCurrent

LEMMA GoodKept ==
  ASSUME Good, UNCHANGED <<user, issued, resets, promised, uses, links, broken, request,
                           application, savings>>
  PROVE  Good'
  <1>1. TokensInOrder' /\ ApplicationsInOrder'
    BY DEF Good, TokensInOrder, Owns, ApplicationsInOrder
  <1>2. OneRequest' /\ RequestsCurrent' /\ UsersReached'
    BY DEF Good, OneRequest, RequestsCurrent, RequestCurrent, Owns, UsersReached, Reached,
           Registering
  <1> QED
    BY <1>1, <1>2 DEF Good

\* A request begins when nothing is in flight.
LEMMA EnterGood ==
  ASSUME Inv, Good, overlaps' = 0, NEW r \in Requests, NEW p \in Persons, NEW op, NEW key,
         Enter(r, op, p, key), UNCHANGED memberVars,
         NEW q, q = [op |-> op, person |-> p, id |-> user[p].id, key |-> key], RequestCurrent(q)
  PROVE  Good'
  <1>1. \A s \in Requests : request[s] = Idle
    BY AccountAssumption DEF Enter, Overlap, Inv, TypeOK, AccountTypeOK
  <1>2. /\ UNCHANGED <<user, created, issued, resets, promised, uses, links, broken>>
        /\ UNCHANGED <<application, savings>>
        /\ request' = [request EXCEPT ![r] = q]
    BY DEF Enter, tokenVars, memberVars
  <1>3. RequestCurrent(q)'
    BY <1>2 DEF RequestCurrent, Owns
  <1>4. OneRequest' /\ RequestsCurrent'
    BY <1>1, <1>2, <1>3, WrittenCurrent DEF Good, Inv
  <1>5. UsersReached'
    <2>1. \A e \in Persons : ~Registering(e)
      BY <1>1, IdleFacts DEF Registering
    <2> QED
      BY <1>2, <2>1 DEF Good, UsersReached, Reached
  <1>6. TokensInOrder' /\ ApplicationsInOrder'
    BY <1>2 DEF Good, TokensInOrder, Owns, ApplicationsInOrder
  <1> QED
    BY <1>4, <1>5, <1>6 DEF Good

LEMMA BeginUserGood ==
  ASSUME Inv, Good, overlaps' = 0, NEW r \in Requests, NEW p \in Persons, UNCHANGED memberVars,
         BeginRegister(r, p) \/ BeginVerify(r, p) \/ BeginForgot(r, p)
  PROVE  Good'
  <1>1. PICK op \in {"REGISTER", "VERIFY", "FORGOT"} : Enter(r, op, p, NoKey)
    BY DEF BeginRegister, BeginVerify, BeginForgot
  <1>2. PICK q : q = [op |-> op, person |-> p, id |-> user[p].id, key |-> NoKey]
    OBVIOUS
  <1>3. RequestCurrent(q)
    BY <1>2 DEF RequestCurrent
  <1> QED
    BY <1>1, <1>2, <1>3, EnterGood

LEMMA BeginResetGood ==
  ASSUME Inv, Good, overlaps' = 0, NEW r \in Requests, NEW p \in Persons, NEW t \in Tokens,
         UNCHANGED memberVars, BeginReset(r, p, t)
  PROVE  Good'
  <1>1. PICK key : key = [token |-> t]
    OBVIOUS
  <1>2. PICK q : q = [op |-> "RESET", person |-> p, id |-> user[p].id, key |-> key]
    OBVIOUS
  <1>3. Owns(p, t) /\ q.op = "RESET" /\ q.key.token = t /\ q.person = p
    BY <1>1, <1>2 DEF BeginReset, Owns
  <1>4. t <= issued /\ uses[t] = 0 /\ \A e \in Persons : Owns(e, t) => e = p
    BY <1>3 DEF Good, TokensInOrder
  <1>5. RequestCurrent(q)
    BY <1>3, <1>4 DEF RequestCurrent
  <1> QED
    BY <1>1, <1>2, <1>5, EnterGood DEF BeginReset

LEMMA BeginSubmitGood ==
  ASSUME Inv, Good, overlaps' = 0, NEW r \in Requests, NEW p \in Persons, BeginSubmit(r, p)
  PROVE  Good'
  <1>1. PICK key : key = [round |-> application[p].round]
    OBVIOUS
  <1>2. PICK q : q = [op |-> "SUBMIT", person |-> p, id |-> user[p].id, key |-> key]
    OBVIOUS
  <1>3. RequestCurrent(q)
    BY <1>2 DEF RequestCurrent, BeginSubmit
  <1> QED
    BY <1>1, <1>2, <1>3, EnterGood DEF BeginSubmit

LEMMA BeginDecisionGood ==
  ASSUME Inv, Good, overlaps' = 0, NEW r \in Requests, NEW p \in Persons,
         NEW op \in {"APPROVE", "REJECT"}, BeginDecision(r, p, op)
  PROVE  Good'
  <1>1. PICK key : key = [round |-> application[p].round, step |-> application[p].step]
    OBVIOUS
  <1>2. PICK q : q = [op |-> op, person |-> p, id |-> user[p].id, key |-> key]
    OBVIOUS
  <1>3. RequestCurrent(q)
    BY <1>1, <1>2 DEF RequestCurrent, BeginDecision, Decidable
  <1> QED
    BY <1>1, <1>2, <1>3, EnterGood DEF BeginDecision


-----------------------------------------------------------------------------
(* What writing the row of a user does.                                    *)

\* The rows of others and their tokens stay.
UserWritten(p, row) ==
  /\ user' = [user EXCEPT ![p] = row]
  /\ UNCHANGED <<issued, uses, resets>>
  /\ \A e \in Persons \ {p} : promised'[e] = promised[e]

LEMMA TokensWritten ==
  ASSUME TypeOK, TokensInOrder, NEW p \in Persons, NEW row, UserWritten(p, row),
         row # NoUser => row.reset = NoToken \/ (user[p] # NoUser /\ row.reset = user[p].reset),
         \/ promised'[p] = NoToken
         \/ promised'[p] = promised[p] /\ row # NoUser /\ row.reset = user[p].reset
  PROVE  TokensInOrder'
  <1>1. user'[p] = row /\ \A e \in Persons \ {p} : user'[e] = user[e]
    BY DEF UserWritten, TypeOK, AccountTypeOK
  <1>2. UNCHANGED <<issued, uses, resets>> /\ \A e \in Persons \ {p} : promised'[e] = promised[e]
    BY DEF UserWritten
  <1>3. ASSUME NEW e \in Persons, NEW t \in Tokens, Owns(e, t)'
        PROVE  Owns(e, t)
    <2>1. t # NoToken
      BY DEF Tokens, NoToken
    <2> QED
      BY <1>1, <1>3, <2>1 DEF Owns
  <1>4. ASSUME NEW e \in Persons, promised'[e] # NoToken
        PROVE  Owns(e, promised[e])' /\ promised'[e] \in resets'
    <2>1. promised'[e] = promised[e] /\ Owns(e, promised[e]) /\ promised[e] \in resets
      BY <1>2, <1>4 DEF TokensInOrder
    <2>2. CASE e = p
      <3>1. row # NoUser /\ row.reset = promised[e]
        BY <1>4, <2>1, <2>2 DEF Owns
      <3>2. user'[e].reset = promised'[e] /\ user'[e] # NoUser
        BY <1>1, <2>1, <2>2, <3>1
      <3> QED
        BY <1>2, <2>1, <3>2 DEF Owns
    <2>3. CASE e # p
      <3>1. user'[e].reset = promised'[e] /\ user'[e] # NoUser
        BY <1>1, <2>1, <2>3 DEF Owns
      <3> QED
        BY <1>2, <2>1, <3>1 DEF Owns
    <2> QED
      BY <2>2, <2>3
  <1>5. \A t \in Tokens : uses'[t] <= 1 /\ (uses'[t] # 0 => t <= issued')
    BY <1>2 DEF TokensInOrder
  <1>6. \A e \in Persons, t \in Tokens : Owns(e, t)' => t <= issued' /\ uses'[t] = 0
    BY <1>2, <1>3 DEF TokensInOrder
  <1>7. \A d, e \in Persons, t \in Tokens : Owns(d, t)' /\ Owns(e, t)' => d = e
    BY <1>3 DEF TokensInOrder
  <1> QED
    BY <1>4, <1>5, <1>6, <1>7 DEF TokensInOrder

\* A user that was reached, or a registration, stays so when the user's row does.
LEMMA ReachedWritten ==
  ASSUME TypeOK, UsersReached, NEW p \in Persons, NEW row, user' = [user EXCEPT ![p] = row],
         broken \subseteq broken', links \subseteq links',
         \A e \in Persons \ {p} : ~Registering(e),
         Reached(p)'
  PROVE  UsersReached'
  <1>1. \A e \in Persons \ {p} : user'[e] = user[e]
    BY DEF TypeOK, AccountTypeOK
  <1>2. \A e \in Persons \ {p} : Reached(e)'
    BY <1>1 DEF UsersReached, Reached
  <1> QED
    BY <1>2 DEF UsersReached

LEMMA ApplicationsSame ==
  ASSUME ApplicationsInOrder, UNCHANGED <<application, savings>>
  PROVE  ApplicationsInOrder'
  BY DEF ApplicationsInOrder

\* An administrator acts, or a token expires.
LEMMA AdminGood ==
  ASSUME Inv, Good, NEW p \in Persons, NEW row, UserWritten(p, row), UNCHANGED request,
         \A s \in Requests : request[s] = Idle,
         row # NoUser => row.reset = NoToken \/ (user[p] # NoUser /\ row.reset = user[p].reset),
         \/ promised'[p] = NoToken
         \/ promised'[p] = promised[p] /\ row # NoUser /\ row.reset = user[p].reset,
         broken \subseteq broken', links \subseteq links', ApplicationsInOrder', Reached(p)'
  PROVE  Good'
  <1>1. TokensInOrder'
    BY TokensWritten DEF Good, Inv
  <1>2. UsersReached'
    <2>1. \A e \in Persons : ~Registering(e)
      BY IdleFacts DEF Registering
    <2> QED
      BY <2>1, ReachedWritten DEF Good, Inv, UserWritten
  <1>3. OneRequest' /\ RequestsCurrent'
    BY IdleFacts DEF OneRequest, RequestsCurrent, RequestCurrent
  <1> QED
    BY <1>1, <1>2, <1>3 DEF Good

\* When the one request that was in flight ends.
LEMMA EndGood ==
  ASSUME Inv, Good, NEW r \in Requests, request[r] # Idle, Done(r),
         NEW p \in Persons, p = request[r].person, NEW row, UserWritten(p, row),
         row # NoUser => row.reset = NoToken \/ (user[p] # NoUser /\ row.reset = user[p].reset),
         \/ promised'[p] = NoToken
         \/ promised'[p] = promised[p] /\ row # NoUser /\ row.reset = user[p].reset,
         broken \subseteq broken', links \subseteq links', ApplicationsInOrder', Reached(p)'
  PROVE  Good'
  <1>1. TokensInOrder'
    BY TokensWritten DEF Good, Inv
  <1>2. UsersReached'
    <2>1. \A e \in Persons \ {p} : ~Registering(e)
      BY OnlyOne DEF Good
    <2> QED
      BY <2>1, ReachedWritten DEF Good, Inv, UserWritten
  <1>3. OneRequest' /\ RequestsCurrent'
    BY DoneCurrent DEF Good, Inv
  <1> QED
    BY <1>1, <1>2, <1>3 DEF Good

\* When it ends and leaves the users and their tokens.
LEMMA EndQuietGood ==
  ASSUME Inv, Good, NEW r \in Requests, request[r] # Idle, Done(r),
         UNCHANGED <<user, issued, resets, promised, uses, links, broken>>,
         request[r].op \notin {"SEND_VERIFICATION", "UNDO"},
         ApplicationsInOrder'
  PROVE  Good'
  <1>1. TokensInOrder'
    BY DEF Good, TokensInOrder, Owns
  <1>2. UsersReached'
    <2>1. \A e \in Persons : ~Registering(e)
      BY OnlyOne DEF Good
    <2> QED
      BY <2>1 DEF Good, UsersReached, Reached
  <1>3. OneRequest' /\ RequestsCurrent'
    BY DoneCurrent DEF Good, Inv
  <1> QED
    BY <1>1, <1>2, <1>3 DEF Good

-----------------------------------------------------------------------------
LEMMA CommitRegisterGood ==
  ASSUME Inv, Good, NEW r \in Requests, CommitRegister(r), UNCHANGED memberVars
  PROVE  Good'
  <1>1. PICK p \in Persons : p = request[r].person
    BY RequestFacts DEF Inv, CommitRegister, Is, Idle
  <1>2. PICK row : row = [id |-> created + 1, toVerify |-> TRUE, emailVerified |-> FALSE,
                          memberVerified |-> FALSE, reset |-> NoToken]
    OBVIOUS
  <1>3. PICK q : q = [op |-> "SEND_VERIFICATION", person |-> p, id |-> created + 1, key |-> NoKey]
    OBVIOUS
  <1>4. /\ request[r] # Idle /\ request[r].op = "REGISTER" /\ user[p] = NoUser
        /\ user' = [user EXCEPT ![p] = row] /\ request' = [request EXCEPT ![r] = q]
        /\ UNCHANGED <<issued, resets, promised, uses, links, broken, application, savings>>
    BY <1>1, <1>2, <1>3, IdleFacts
       DEF CommitRegister, Is, Insert, Continue, tokenVars, memberVars
  <1>5. row # NoUser /\ row.reset = NoToken /\ row.id = q.id /\ row.toVerify
    BY <1>2, <1>3 DEF NoUser
  <1>6. promised[p] = NoToken
    BY <1>4 DEF Good, TokensInOrder, Owns
  <1>7. user'[p] = row
    BY <1>4 DEF Inv, TypeOK, AccountTypeOK
  <1>8. TokensInOrder'
    <2>1. UserWritten(p, row)
      BY <1>4 DEF UserWritten
    <2> QED
      BY <1>4, <1>5, <1>6, <2>1, TokensWritten DEF Good, Inv
  <1>9. RequestCurrent(q)'
    BY <1>3, <1>5, <1>7 DEF RequestCurrent
  <1>10. \A s \in Requests \ {r} : request[s] = Idle
    BY <1>4, OnlyOne DEF Good
  <1>11. OneRequest' /\ RequestsCurrent' /\ request'[r] = q
    BY <1>4, <1>9, <1>10, WrittenCurrent DEF Good, Inv
  <1>12. UsersReached'
    <2>1. \A e \in Persons \ {p} : ~Registering(e)
      BY <1>4, OnlyOne DEF Good
    <2>2. Registering(p)'
      BY <1>3, <1>11 DEF Registering
    <2>3. Reached(p)'
      BY <2>2 DEF Reached
    <2> QED
      BY <1>4, <2>1, <2>3, ReachedWritten DEF Good, Inv
  <1>13. ApplicationsInOrder'
    BY <1>4, ApplicationsSame DEF Good
  <1> QED
    BY <1>8, <1>11, <1>12, <1>13 DEF Good

LEMMA SendVerificationGood ==
  ASSUME Inv, Good, NEW r \in Requests, NEW arrives \in BOOLEAN, NEW ok \in BOOLEAN,
         SendVerification(r, arrives, ok), UNCHANGED memberVars
  PROVE  Good'
  <1>1. /\ request[r] # Idle /\ request[r].op = "SEND_VERIFICATION"
        /\ UNCHANGED <<user, issued, resets, promised, uses, broken, application, savings>>
        /\ links' = IF arrives THEN links \cup {request[r].id} ELSE links
    BY IdleFacts DEF SendVerification, Is, tokenVars, memberVars
  <1>2. PICK p \in Persons : p = request[r].person
    BY <1>1, RequestFacts DEF Inv
  <1>3. user[p] # NoUser /\ user[p].id = request[r].id /\ user[p].toVerify
    BY <1>1, <1>2 DEF Good, RequestsCurrent, RequestCurrent
  <1>4. TokensInOrder' /\ ApplicationsInOrder'
    BY <1>1 DEF Good, TokensInOrder, Owns, ApplicationsInOrder
  <1>5. \A e \in Persons \ {p} : Reached(e)'
    <2>1. \A e \in Persons \ {p} : ~Registering(e)
      BY <1>1, <1>2, OnlyOne DEF Good
    <2> QED
      BY <1>1, <2>1 DEF Good, UsersReached, Reached
  <1>6. CASE ok
    <2>1. Done(r) /\ arrives
      BY <1>6 DEF SendVerification, AfterSending
    <2>2. OneRequest' /\ RequestsCurrent'
      BY <1>1, <2>1, DoneCurrent DEF Good, Inv
    <2>3. Reached(p)'
      BY <1>1, <1>3, <2>1 DEF Reached
    <2>4. UsersReached'
      BY <1>5, <2>3 DEF UsersReached
    <2> QED
      BY <1>4, <2>2, <2>4 DEF Good
  <1>7. CASE ~ok
    <2>1. PICK q : q = [op |-> "UNDO", person |-> p, id |-> request[r].id, key |-> NoKey]
      OBVIOUS
    <2>2. request' = [request EXCEPT ![r] = q]
      BY <1>2, <1>7, <2>1 DEF SendVerification, AfterSending, Continue
    <2>3. RequestCurrent(q)'
      BY <1>1, <1>3, <2>1 DEF RequestCurrent
    <2>4. OneRequest' /\ RequestsCurrent' /\ request'[r] = q
      BY <1>1, <2>2, <2>3, OnlyOne, WrittenCurrent DEF Good, Inv
    <2>5. Registering(p)'
      BY <2>1, <2>4 DEF Registering
    <2>6. UsersReached'
      BY <1>5, <2>5 DEF UsersReached, Reached
    <2> QED
      BY <1>4, <2>4, <2>6 DEF Good
  <1> QED
    BY <1>6, <1>7


\* A user that goes takes the application along.
LEMMA CascadeInOrder ==
  ASSUME TypeOK, ApplicationsInOrder, NEW p \in Persons, Cascade(p)
  PROVE  ApplicationsInOrder'
  <1>1. /\ application'[p] = NoApplication /\ p \notin savings'
        /\ \A e \in Persons \ {p} : /\ application'[e] = application[e]
                                    /\ e \in savings' <=> e \in savings
    BY DEF Cascade, TypeOK
  <1>2. ApplicationInOrder(NoApplication) /\ NoApplication.status = "NONE"
    BY DEF ApplicationInOrder, NoApplication
  <1>3. ASSUME NEW e \in Persons
        PROVE  /\ ApplicationInOrder(application[e])'
               /\ e \in savings' <=> application'[e].status = "APPROVED"
    BY <1>1, <1>2 DEF ApplicationsInOrder, ApplicationInOrder
  <1> QED
    BY <1>3 DEF ApplicationsInOrder

LEMMA UndoGood ==
  ASSUME Inv, Good, NEW r \in Requests, Undo(r)
  PROVE  Good'
  <1>1. request[r] # Idle /\ request[r].op = "UNDO" /\ Done(r)
    BY IdleFacts DEF Undo, UndoRegister, Is
  <1>2. PICK p \in Persons : p = request[r].person
    BY <1>1, RequestFacts DEF Inv
  <1>3. Delete(p) /\ Cascade(p) /\ UNCHANGED <<issued, resets, uses, links, broken>>
    BY <1>2 DEF Undo, UndoRegister
  <1>4. UserWritten(p, NoUser) /\ promised'[p] = NoToken /\ user'[p] = NoUser
    BY <1>3 DEF Delete, UserWritten, Inv, TypeOK, AccountTypeOK
  <1>5. Reached(p)'
    BY <1>4 DEF Reached
  <1>6. ApplicationsInOrder'
    BY <1>3, CascadeInOrder DEF Good, Inv
  <1> QED
    BY <1>1, <1>2, <1>3, <1>4, <1>5, <1>6, EndGood

LEMMA CommitVerifyGood ==
  ASSUME Inv, Good, NEW r \in Requests, CommitVerify(r), UNCHANGED memberVars
  PROVE  Good'
  <1>1. /\ request[r] # Idle /\ request[r].op = "VERIFY" /\ StillThere(request[r]) /\ Done(r)
        /\ UNCHANGED <<issued, resets, promised, uses, links, broken, application, savings>>
    BY IdleFacts DEF CommitVerify, Is, tokenVars, memberVars
  <1>2. PICK p \in Persons : p = request[r].person
    BY <1>1, RequestFacts DEF Inv
  <1>3. user[p] \in UserRow /\ user[p] # NoUser
    BY <1>1, <1>2, HasUser, UserRows DEF Inv
  <1>4. PICK row : row = [user[p] EXCEPT !.emailVerified = TRUE, !.toVerify = FALSE]
    OBVIOUS
  <1>5. row # NoUser /\ row.reset = user[p].reset /\ row.emailVerified
    BY <1>3, <1>4 DEF UserRow, NoUser
  <1>6. user' = [user EXCEPT ![p] = row]
    BY <1>2, <1>4 DEF CommitVerify, Inv, TypeOK, AccountTypeOK
  <1>7. UserWritten(p, row) /\ Reached(p)'
    BY <1>1, <1>5, <1>6 DEF UserWritten, Reached, Inv, TypeOK, AccountTypeOK
  <1>8. ApplicationsInOrder'
    BY <1>1, ApplicationsSame DEF Good
  <1> QED
    BY <1>1, <1>2, <1>3, <1>5, <1>7, <1>8, EndGood

LEMMA WithdrawTokenGood ==
  ASSUME Inv, Good, NEW r \in Requests, WithdrawToken(r), UNCHANGED memberVars
  PROVE  Good'
  <1>1. /\ request[r] # Idle /\ request[r].op = "WITHDRAW" /\ StillThere(request[r]) /\ Done(r)
        /\ UNCHANGED <<issued, resets, promised, uses, links, broken, application, savings>>
    BY IdleFacts DEF WithdrawToken, Is, tokenVars, memberVars
  <1>2. PICK p \in Persons : p = request[r].person
    BY <1>1, RequestFacts DEF Inv
  <1>3. user[p] \in UserRow /\ user[p] # NoUser
    BY <1>1, <1>2, HasUser, UserRows DEF Inv
  <1>4. PICK row : row = [user[p] EXCEPT !.reset = NoToken]
    OBVIOUS
  <1>5. /\ row.reset = NoToken /\ row.id = user[p].id
        /\ row.emailVerified = user[p].emailVerified /\ row.toVerify = user[p].toVerify
    BY <1>3, <1>4 DEF UserRow
  <1>6. user' = [user EXCEPT ![p] = row]
    BY <1>2, <1>4 DEF WithdrawToken, Inv, TypeOK, AccountTypeOK
  <1>7. ~Registering(p)
    BY <1>1, OnlyOne DEF Good
  <1>8. Reached(p)'
    <2>1. user'[p] = row
      BY <1>6 DEF Inv, TypeOK, AccountTypeOK
    <2> QED
      BY <1>1, <1>3, <1>5, <1>7, <2>1 DEF Good, UsersReached, Reached
  <1>9. UserWritten(p, row) /\ promised'[p] = NoToken
    BY <1>1, <1>2, <1>6 DEF UserWritten, Good, RequestsCurrent, RequestCurrent
  <1>10. ApplicationsInOrder'
    BY <1>1, ApplicationsSame DEF Good
  <1> QED
    BY <1>1, <1>2, <1>5, <1>8, <1>9, <1>10, EndGood

LEMMA CommitForgotGood ==
  ASSUME Inv, Good, NEW r \in Requests, CommitForgot(r), UNCHANGED memberVars
  PROVE  Good'
  <1>1. /\ request[r] # Idle /\ request[r].op = "FORGOT" /\ StillThere(request[r])
        /\ issued < MaxTokens /\ issued' = issued + 1
        /\ UNCHANGED <<created, resets, uses, links, broken, application, savings>>
    BY IdleFacts DEF CommitForgot, Is, memberVars
  <1>2. PICK p \in Persons : p = request[r].person
    BY <1>1, RequestFacts DEF Inv
  <1>3. user[p] \in UserRow /\ user[p] # NoUser
    BY <1>1, <1>2, HasUser, UserRows DEF Inv
  <1>4. PICK n \in Tokens : n = issued + 1 /\ issued \in Nat
    BY <1>1, AccountAssumption DEF Inv, TypeOK, AccountTypeOK, Tokens, NoToken
  <1>5. PICK row : row = [user[p] EXCEPT !.reset = n]
    OBVIOUS
  <1>6. /\ row # NoUser /\ row.reset = n /\ row.id = user[p].id
        /\ row.emailVerified = user[p].emailVerified /\ row.toVerify = user[p].toVerify
    BY <1>3, <1>5 DEF UserRow, NoUser
  <1>7. PICK q : q = [op |-> "SEND_RESET", person |-> p, id |-> request[r].id,
                      key |-> [token |-> n]]
    OBVIOUS
  <1>8. /\ user' = [user EXCEPT ![p] = row] /\ promised' = [promised EXCEPT ![p] = NoToken]
        /\ request' = [request EXCEPT ![r] = q]
    BY <1>2, <1>4, <1>5, <1>7 DEF CommitForgot, Continue, Inv, TypeOK, AccountTypeOK
  <1>9. /\ user'[p] = row /\ promised'[p] = NoToken
        /\ \A e \in Persons \ {p} : user'[e] = user[e] /\ promised'[e] = promised[e]
    BY <1>8 DEF Inv, TypeOK, AccountTypeOK
  <1>10. RequestCurrent(q)'
    BY <1>6, <1>7, <1>9 DEF RequestCurrent, Owns
  <1>11. OneRequest' /\ RequestsCurrent'
    BY <1>1, <1>8, <1>10, OnlyOne, WrittenCurrent DEF Good, Inv
  <1>12. UsersReached'
    <2>1. \A e \in Persons : ~Registering(e)
      BY <1>1, OnlyOne DEF Good
    <2>2. Reached(p)'
      BY <1>1, <1>3, <1>6, <1>9, <2>1 DEF Good, UsersReached, Reached
    <2> QED
      BY <1>1, <1>8, <2>1, <2>2, ReachedWritten DEF Good, Inv
  <1>13. TokensInOrder'
    <2>1. /\ \A t \in Tokens : t \in Nat /\ uses[t] <= 1 /\ (uses[t] # 0 => t <= issued)
          /\ uses[n] = 0
      BY <1>4 DEF Good, TokensInOrder, Tokens
    <2>2. \A t \in Tokens : uses'[t] <= 1 /\ (uses'[t] # 0 => t <= issued')
      BY <1>1, <1>4, <2>1
    <2>3. \A e \in Persons, t \in Tokens : Owns(e, t)' =>
            \/ e = p /\ t = n
            \/ e # p /\ t # n /\ Owns(e, t) /\ t <= issued
      <3>1. \A e \in Persons, t \in Tokens : Owns(e, t) => t <= issued
        BY DEF Good, TokensInOrder
      <3> QED
        BY <1>4, <1>6, <1>9, <2>1, <3>1 DEF Owns
    <2>4. \A e \in Persons, t \in Tokens : Owns(e, t)' => t <= issued' /\ uses'[t] = 0
      <3>1. \A e \in Persons, t \in Tokens : Owns(e, t) => uses[t] = 0
        BY DEF Good, TokensInOrder
      <3> QED
        BY <1>1, <1>4, <2>1, <2>3, <3>1
    <2>5. \A d, e \in Persons, t \in Tokens : Owns(d, t)' /\ Owns(e, t)' => d = e
      BY <2>3 DEF Good, TokensInOrder
    <2>6. ASSUME NEW e \in Persons, promised'[e] # NoToken
          PROVE  Owns(e, promised[e])' /\ promised'[e] \in resets'
      <3>1. e # p
        BY <1>9, <2>6
      <3>2. promised'[e] = promised[e] /\ user'[e] = user[e]
        BY <1>9, <3>1
      <3>3. Owns(e, promised[e]) /\ promised[e] \in resets
        BY <2>6, <3>2 DEF Good, TokensInOrder
      <3> QED
        BY <1>1, <3>2, <3>3 DEF Owns
    <2> QED
      BY <2>2, <2>4, <2>5, <2>6 DEF TokensInOrder
  <1>14. ApplicationsInOrder'
    BY <1>1, ApplicationsSame DEF Good
  <1> QED
    BY <1>11, <1>12, <1>13, <1>14 DEF Good

LEMMA SendResetGood ==
  ASSUME Inv, Good, NEW r \in Requests, NEW arrives \in BOOLEAN, NEW ok \in BOOLEAN,
         SendReset(r, arrives, ok), UNCHANGED memberVars
  PROVE  Good'
  <1>1. /\ request[r] # Idle /\ request[r].op = "SEND_RESET"
        /\ UNCHANGED <<user, created, issued, uses, links, broken, application, savings>>
        /\ resets' = IF arrives THEN resets \cup {request[r].key.token} ELSE resets
    BY IdleFacts DEF SendReset, Is, memberVars
  <1>2. PICK p \in Persons, t \in Tokens : p = request[r].person /\ t = request[r].key.token
    BY <1>1, RequestFacts DEF Inv
  <1>3. Owns(p, t) /\ promised[p] = NoToken
    BY <1>1, <1>2 DEF Good, RequestsCurrent, RequestCurrent
  <1>4. ApplicationsInOrder'
    BY <1>1, ApplicationsSame DEF Good
  <1>5. UsersReached'
    <2>1. \A e \in Persons : ~Registering(e)
      BY <1>1, OnlyOne DEF Good
    <2> QED
      BY <1>1, <2>1 DEF Good, UsersReached, Reached
  <1>6. /\ \A s \in Tokens : uses'[s] <= 1 /\ (uses'[s] # 0 => s <= issued')
        /\ \A e \in Persons, s \in Tokens : Owns(e, s)' => s <= issued' /\ uses'[s] = 0
        /\ \A d, e \in Persons, s \in Tokens : Owns(d, s)' /\ Owns(e, s)' => d = e
    BY <1>1 DEF Good, TokensInOrder, Owns
  <1>7. CASE ok
    <2>1. Done(r) /\ arrives /\ promised' = [promised EXCEPT ![p] = t]
      BY <1>2, <1>7 DEF SendReset
    <2>2. OneRequest' /\ RequestsCurrent'
      BY <1>1, <2>1, DoneCurrent DEF Good, Inv
    <2>3. ASSUME NEW e \in Persons, promised'[e] # NoToken
          PROVE  Owns(e, promised[e])' /\ promised'[e] \in resets'
      <3>1. promised'[e] = (IF e = p THEN t ELSE promised[e])
        BY <2>1 DEF Inv, TypeOK, AccountTypeOK
      <3>2. CASE e = p
        BY <1>1, <1>2, <1>3, <2>1, <3>1, <3>2 DEF Owns
      <3>3. CASE e # p
        <4>1. Owns(e, promised[e]) /\ promised[e] \in resets
          BY <2>3, <3>1, <3>3 DEF Good, TokensInOrder
        <4> QED
          BY <1>1, <3>1, <3>3, <4>1 DEF Owns
      <3> QED
        BY <3>2, <3>3
    <2>4. TokensInOrder'
      BY <1>6, <2>3 DEF TokensInOrder
    <2> QED
      BY <1>4, <1>5, <2>2, <2>4 DEF Good
  <1>8. CASE ~ok
    <2>1. PICK q : q = [op |-> "WITHDRAW", person |-> p, id |-> request[r].id,
                        key |-> request[r].key]
      OBVIOUS
    <2>2. request' = [request EXCEPT ![r] = q] /\ promised' = promised
      BY <1>2, <1>8, <2>1 DEF SendReset, Continue
    <2>3. RequestCurrent(q)'
      BY <1>3, <2>1, <2>2 DEF RequestCurrent
    <2>4. OneRequest' /\ RequestsCurrent'
      BY <1>1, <2>2, <2>3, OnlyOne, WrittenCurrent DEF Good, Inv
    <2>5. \A e \in Persons : promised'[e] # NoToken =>
            Owns(e, promised[e])' /\ promised'[e] \in resets'
      BY <1>1, <2>2 DEF Good, TokensInOrder, Owns
    <2>6. TokensInOrder'
      BY <1>6, <2>5 DEF TokensInOrder
    <2> QED
      BY <1>4, <1>5, <2>4, <2>6 DEF Good
  <1> QED
    BY <1>7, <1>8


LEMMA CommitResetGood ==
  ASSUME Inv, Good, NEW r \in Requests, CommitReset(r), UNCHANGED memberVars
  PROVE  Good'
  <1>1. /\ request[r] # Idle /\ request[r].op = "RESET" /\ StillThere(request[r]) /\ Done(r)
        /\ UNCHANGED <<issued, resets, links, broken, application, savings>>
    BY IdleFacts DEF CommitReset, Is, memberVars
  <1>2. PICK p \in Persons, t \in Tokens : p = request[r].person /\ t = request[r].key.token
    BY <1>1, RequestFacts DEF Inv
  <1>3. user[p] \in UserRow /\ user[p] # NoUser
    BY <1>1, <1>2, HasUser, UserRows DEF Inv
  <1>4. PICK row : row = [user[p] EXCEPT !.reset = NoToken]
    OBVIOUS
  <1>5. /\ row.reset = NoToken /\ row.id = user[p].id
        /\ row.emailVerified = user[p].emailVerified /\ row.toVerify = user[p].toVerify
    BY <1>3, <1>4 DEF UserRow
  <1>6. /\ user' = [user EXCEPT ![p] = row] /\ promised' = [promised EXCEPT ![p] = NoToken]
        /\ uses' = [uses EXCEPT ![t] = @ + 1]
    BY <1>2, <1>4 DEF CommitReset, TokenAfter, Inv, TypeOK, AccountTypeOK
  <1>7. /\ user'[p] = row /\ promised'[p] = NoToken /\ uses'[t] = uses[t] + 1
        /\ \A e \in Persons \ {p} : user'[e] = user[e] /\ promised'[e] = promised[e]
        /\ \A s \in Tokens \ {t} : uses'[s] = uses[s]
    BY <1>6 DEF Inv, TypeOK, AccountTypeOK
  <1>8. t <= issued /\ uses[t] = 0 /\ \A e \in Persons : Owns(e, t) => e = p
    BY <1>1, <1>2 DEF Good, RequestsCurrent, RequestCurrent
  <1>9. OneRequest' /\ RequestsCurrent'
    BY <1>1, DoneCurrent DEF Good, Inv
  <1>10. UsersReached'
    <2>1. \A e \in Persons : ~Registering(e)
      BY <1>1, OnlyOne DEF Good
    <2>2. Reached(p)'
      BY <1>1, <1>3, <1>5, <1>7, <2>1 DEF Good, UsersReached, Reached
    <2> QED
      BY <1>1, <1>6, <2>1, <2>2, ReachedWritten DEF Good, Inv
  <1>11. TokensInOrder'
    <2>1. \A s \in Tokens : uses'[s] <= 1 /\ (uses'[s] # 0 => s <= issued')
      BY <1>1, <1>7, <1>8 DEF Good, TokensInOrder
    <2>2. ASSUME NEW e \in Persons, NEW s \in Tokens, Owns(e, s)'
          PROVE  Owns(e, s) /\ e # p
      <3>1. s # NoToken
        BY DEF Tokens, NoToken
      <3> QED
        BY <1>5, <1>7, <2>2, <3>1 DEF Owns
    <2>3. \A e \in Persons, s \in Tokens : Owns(e, s)' => s <= issued' /\ uses'[s] = 0
      <3>1. \A e \in Persons, s \in Tokens : Owns(e, s)' => s # t
        BY <1>8, <2>2
      <3> QED
        BY <1>1, <1>7, <2>2, <3>1 DEF Good, TokensInOrder
    <2>4. \A d, e \in Persons, s \in Tokens : Owns(d, s)' /\ Owns(e, s)' => d = e
      BY <2>2 DEF Good, TokensInOrder
    <2>5. ASSUME NEW e \in Persons, promised'[e] # NoToken
          PROVE  Owns(e, promised[e])' /\ promised'[e] \in resets'
      <3>1. promised'[e] = promised[e] /\ user'[e] = user[e]
        BY <1>7, <2>5
      <3>2. Owns(e, promised[e]) /\ promised[e] \in resets
        BY <2>5, <3>1 DEF Good, TokensInOrder
      <3> QED
        BY <1>1, <3>1, <3>2 DEF Owns
    <2> QED
      BY <2>1, <2>3, <2>4, <2>5 DEF TokensInOrder
  <1>12. ApplicationsInOrder'
    BY <1>1, ApplicationsSame DEF Good
  <1> QED
    BY <1>9, <1>10, <1>11, <1>12 DEF Good

LEMMA ExpireGood ==
  ASSUME Inv, Good, NEW p \in Persons, Expire(p), UNCHANGED memberVars
  PROVE  Good'
  <1>1. /\ user[p] # NoUser /\ \A r \in Requests : ~(Is(r, "SEND_RESET") /\ request[r].person = p)
        /\ UNCHANGED <<issued, resets, uses, links, broken, request, application, savings>>
        /\ promised' = [promised EXCEPT ![p] = NoToken]
    BY DEF Expire, memberVars
  <1>2. user[p] \in UserRow
    BY <1>1, UserRows DEF Inv
  <1>3. PICK row : row = [user[p] EXCEPT !.reset = NoToken]
    OBVIOUS
  <1>4. /\ row # NoUser /\ row.reset = NoToken /\ row.id = user[p].id
        /\ row.emailVerified = user[p].emailVerified /\ row.toVerify = user[p].toVerify
    BY <1>2, <1>3 DEF UserRow, NoUser
  <1>5. user' = [user EXCEPT ![p] = row]
    BY <1>3 DEF Expire, Inv, TypeOK, AccountTypeOK
  <1>6. /\ user'[p] = row /\ promised'[p] = NoToken
        /\ \A e \in Persons \ {p} : user'[e] = user[e] /\ promised'[e] = promised[e]
    BY <1>1, <1>5 DEF Inv, TypeOK, AccountTypeOK
  <1>7. UserWritten(p, row)
    BY <1>1, <1>5, <1>6 DEF UserWritten
  <1>8. TokensInOrder'
    BY <1>4, <1>6, <1>7, TokensWritten DEF Good, Inv
  <1>9. UsersReached'
    <2>1. \A e \in Persons : Registering(e)' <=> Registering(e)
      BY <1>1 DEF Registering
    <2> QED
      BY <1>1, <1>4, <1>6, <2>1 DEF Good, UsersReached, Reached
  <1>10. ASSUME NEW r \in Requests
         PROVE  RequestCurrent(request[r])'
    <2>1. CASE request[r] = Idle
      BY <1>1, <2>1, IdleFacts DEF RequestCurrent
    <2>2. CASE request[r] # Idle
      <3>1. PICK e \in Persons : e = request[r].person
        BY <2>2, RequestFacts DEF Inv
      <3>2. RequestCurrent(request[r]) /\ request'[r] = request[r]
        BY <1>1 DEF Good, RequestsCurrent
      <3>3. request[r].op = "SEND_RESET" => e # p
        BY <1>1, <3>1 DEF Is
      <3>4. /\ user'[e].id = user[e].id /\ user'[e].toVerify = user[e].toVerify
            /\ user[e] # NoUser => user'[e] # NoUser
            /\ promised[e] = NoToken => promised'[e] = NoToken
            /\ e # p => user'[e] = user[e]
        BY <1>4, <1>6
      <3>5. request[r].op = "RESET" =>
              /\ request[r].key.token \in Tokens
              /\ \A d \in Persons : Owns(d, request[r].key.token)' => Owns(d, request[r].key.token)
        <4>1. ASSUME request[r].op = "RESET"
              PROVE  request[r].key.token \in Tokens /\ request[r].key.token # NoToken
          BY <2>2, <4>1, RequestFacts DEF Inv, Tokens, NoToken
        <4> QED
          BY <1>1, <1>4, <1>6, <4>1 DEF Owns
      <3> QED
        BY <1>1, <3>1, <3>2, <3>3, <3>4, <3>5 DEF RequestCurrent, Owns
    <2> QED
      BY <2>1, <2>2
  <1>11. OneRequest' /\ RequestsCurrent'
    BY <1>1, <1>10 DEF Good, OneRequest, RequestsCurrent
  <1>12. ApplicationsInOrder'
    BY <1>1, ApplicationsSame DEF Good
  <1> QED
    BY <1>8, <1>9, <1>11, <1>12 DEF Good

\* That a link is a day old changes nothing: its token stays.
LEMMA LapseGood ==
  ASSUME Inv, Good, NEW p \in Persons, Lapse(p), UNCHANGED memberVars
  PROVE  Good'
  <1>1. UNCHANGED <<user, issued, resets, promised, uses, links, broken, request,
                    application, savings>>
    BY DEF Lapse, memberVars
  <1> QED
    BY <1>1, GoodKept

LEMMA FailGood ==
  ASSUME Inv, Good, NEW r \in Requests, Fail(r), UNCHANGED memberVars
  PROVE  Good'
  <1>1. /\ request[r] # Idle /\ Done(r)
        /\ UNCHANGED <<user, issued, resets, promised, uses, links, application, savings>>
        /\ broken' = IF request[r].op \in {"SEND_VERIFICATION", "UNDO"}
                     THEN broken \cup {request[r].id} ELSE broken
    BY DEF Fail, tokenVars, memberVars
  <1>2. OneRequest' /\ RequestsCurrent'
    BY <1>1, DoneCurrent DEF Good, Inv
  <1>3. TokensInOrder' /\ ApplicationsInOrder'
    BY <1>1 DEF Good, TokensInOrder, Owns, ApplicationsInOrder
  <1>4. ASSUME NEW e \in Persons
        PROVE  Reached(e)'
    <2>1. CASE Registering(e)
      <3>1. request[r].op \in {"SEND_VERIFICATION", "UNDO"} /\ e = request[r].person
        BY <1>1, <2>1, OnlyOne DEF Good
      <3>2. user[e].id = request[r].id
        BY <3>1 DEF Good, RequestsCurrent, RequestCurrent
      <3> QED
        BY <1>1, <3>1, <3>2 DEF Reached
    <2>2. CASE ~Registering(e)
      BY <1>1, <2>2 DEF Good, UsersReached, Reached
    <2> QED
      BY <2>1, <2>2
  <1> QED
    BY <1>2, <1>3, <1>4 DEF Good, UsersReached

-----------------------------------------------------------------------------
\* The row of an application is written.
LEMMA ApplicationWritten ==
  ASSUME TypeOK, ApplicationsInOrder, NEW p \in Persons, NEW row,
         application' = [application EXCEPT ![p] = row], ApplicationInOrder(row),
         \A e \in Persons \ {p} : e \in savings' <=> e \in savings,
         p \in savings' <=> row.status = "APPROVED"
  PROVE  ApplicationsInOrder'
  <1>1. application'[p] = row /\ \A e \in Persons \ {p} : application'[e] = application[e]
    BY DEF TypeOK
  <1>2. ASSUME NEW e \in Persons
        PROVE  /\ ApplicationInOrder(application[e])'
               /\ e \in savings' <=> application'[e].status = "APPROVED"
    BY <1>1 DEF ApplicationsInOrder, ApplicationInOrder
  <1> QED
    BY <1>2 DEF ApplicationsInOrder

LEMMA CommitSubmitGood ==
  ASSUME Inv, Good, NEW r \in Requests, CommitSubmit(r)
  PROVE  Good'
  <1>1. /\ request[r] # Idle /\ request[r].op = "SUBMIT" /\ Done(r)
        /\ UNCHANGED <<user, issued, resets, promised, uses, links, broken, savings>>
    BY IdleFacts DEF CommitSubmit, Is, tokenVars
  <1>2. PICK p \in Persons : p = request[r].person
    BY <1>1, RequestFacts DEF Inv
  <1>3. PICK row : row = [status |-> "UNDER_REVIEW", step |-> "DIVISI_SIMPAN_PINJAM",
                          round |-> application[p].round + 1, approvals |-> AllOpen]
    OBVIOUS
  <1>4. application' = [application EXCEPT ![p] = row]
    BY <1>2, <1>3 DEF CommitSubmit, ApprovalsAgain
  <1>5. ApplicationInOrder(row) /\ row.status = "UNDER_REVIEW"
    BY <1>3 DEF ApplicationInOrder, AllOpen, Steps
  <1>6. p \notin savings
    BY <1>1, <1>2 DEF Good, RequestsCurrent, RequestCurrent, ApplicationsInOrder
  <1>7. ApplicationsInOrder'
    BY <1>1, <1>4, <1>5, <1>6, ApplicationWritten DEF Good, Inv
  <1> QED
    BY <1>1, <1>7, EndQuietGood

\* What an officer decides is what is there.
LEMMA DecidingInOrder ==
  ASSUME Inv, Good, NEW r \in Requests, NEW op \in {"APPROVE", "REJECT"}, Deciding(r, op)
  PROVE  LET p == request[r].person
         IN  /\ request[r] # Idle /\ request[r].op = op /\ p \in Persons
             /\ application[p] \in ApplicationRow /\ application[p].status = "UNDER_REVIEW"
             /\ application[p].step = request[r].key.step /\ request[r].key.step \in Steps
             /\ ApplicationInOrder(application[p]) /\ p \notin savings
  <1>1. request[r] # Idle /\ request[r].op = op
    BY IdleFacts DEF Deciding, Is
  <1>2. PICK p \in Persons : /\ p = request[r].person /\ application[p] \in ApplicationRow
                             /\ request[r].key.step \in Steps
    BY DecidingFacts
  <1>3. application[p].status = "UNDER_REVIEW" /\ application[p].step = request[r].key.step
    BY <1>1, <1>2 DEF Good, RequestsCurrent, RequestCurrent
  <1>4. ApplicationInOrder(application[p]) /\ p \notin savings
    BY <1>3 DEF Good, ApplicationsInOrder
  <1> QED
    BY <1>1, <1>2, <1>3, <1>4

LEMMA CommitRejectGood ==
  ASSUME Inv, Good, NEW r \in Requests, CommitReject(r)
  PROVE  Good'
  <1>1. Deciding(r, "REJECT")
    BY DEF CommitReject
  <1>2. PICK p \in Persons, s \in Steps :
          /\ p = request[r].person /\ s = request[r].key.step /\ p \notin savings
          /\ request[r] # Idle /\ request[r].op = "REJECT" /\ application[p] \in ApplicationRow
    BY <1>1, DecidingInOrder
  <1>3. PICK row : row = [application[p] EXCEPT !.approvals[s] = "REJECTED",
                                                !.status = "REJECTED", !.step = NoStep]
    OBVIOUS
  <1>4. row.status = "REJECTED"
    BY <1>2, <1>3 DEF ApplicationRow
  <1>5. application' = [application EXCEPT ![p] = row]
    BY <1>2, <1>3 DEF CommitReject, Inv, TypeOK
  <1>6. /\ Done(r)
        /\ UNCHANGED <<user, issued, resets, promised, uses, links, broken, savings>>
    BY DEF CommitReject, tokenVars
  <1>7. ApplicationInOrder(row)
    BY <1>4 DEF ApplicationInOrder
  <1>8. ApplicationsInOrder'
    BY <1>2, <1>4, <1>5, <1>6, <1>7, ApplicationWritten DEF Good, Inv
  <1> QED
    BY <1>2, <1>6, <1>8, EndQuietGood

LEMMA CommitFirstGood ==
  ASSUME Inv, Good, NEW r \in Requests, CommitFirst(r)
  PROVE  Good'
  <1>1. Deciding(r, "APPROVE") /\ request[r].key.step # "KETUA"
    BY DEF CommitFirst
  <1>2. PICK p \in Persons :
          /\ p = request[r].person /\ request[r].key.step = "DIVISI_SIMPAN_PINJAM"
          /\ p \notin savings /\ request[r] # Idle /\ request[r].op = "APPROVE"
          /\ application[p] \in ApplicationRow /\ application[p].status = "UNDER_REVIEW"
          /\ application[p].approvals = AllOpen
    BY <1>1, DecidingInOrder DEF ApplicationInOrder, Steps
  <1>3. PICK row : row = [application[p] EXCEPT
                            !.approvals["DIVISI_SIMPAN_PINJAM"] = "APPROVED", !.step = "KETUA"]
    OBVIOUS
  <1>4. /\ row.status = "UNDER_REVIEW" /\ row.step = "KETUA"
        /\ row.approvals["DIVISI_SIMPAN_PINJAM"] = "APPROVED" /\ row.approvals["KETUA"] = "OPEN"
    BY <1>2, <1>3 DEF ApplicationRow, AllOpen, Steps
  <1>5. application' = [application EXCEPT ![p] = row]
    BY <1>2, <1>3 DEF CommitFirst, Inv, TypeOK
  <1>6. /\ Done(r)
        /\ UNCHANGED <<user, issued, resets, promised, uses, links, broken, savings>>
    BY DEF CommitFirst, tokenVars
  <1>7. ApplicationInOrder(row)
    BY <1>4 DEF ApplicationInOrder, Steps
  <1>8. ApplicationsInOrder'
    BY <1>2, <1>4, <1>5, <1>6, <1>7, ApplicationWritten DEF Good, Inv
  <1> QED
    BY <1>2, <1>6, <1>8, EndQuietGood

LEMMA CommitLastGood ==
  ASSUME Inv, Good, NEW r \in Requests, CommitLast(r)
  PROVE  Good'
  <1>1. Deciding(r, "APPROVE") /\ request[r].key.step = "KETUA"
    BY DEF CommitLast
  <1>2. PICK p \in Persons :
          /\ p = request[r].person /\ request[r] # Idle /\ request[r].op = "APPROVE"
          /\ application[p] \in ApplicationRow
          /\ application[p].approvals["DIVISI_SIMPAN_PINJAM"] = "APPROVED"
    BY <1>1, DecidingInOrder DEF ApplicationInOrder
  <1>3. PICK row : row = [application[p] EXCEPT !.approvals["KETUA"] = "APPROVED",
                                                !.status = "APPROVED", !.step = NoStep]
    OBVIOUS
  <1>4. row.status = "APPROVED" /\ \A s \in Steps : row.approvals[s] = "APPROVED"
    BY <1>2, <1>3 DEF ApplicationRow, Steps
  <1>5. application' = [application EXCEPT ![p] = row] /\ savings' = savings \cup {p}
    BY <1>2, <1>3 DEF CommitLast, Opened, Inv, TypeOK
  <1>6. /\ Done(r)
        /\ UNCHANGED <<issued, resets, promised, uses, links, broken>>
    BY DEF CommitLast, tokenVars
  <1>7. ApplicationInOrder(row)
    BY <1>4 DEF ApplicationInOrder
  <1>8. ApplicationsInOrder'
    BY <1>4, <1>5, <1>7, ApplicationWritten DEF Good, Inv
  <1>9. user[p] \in UserRow /\ user[p] # NoUser
    BY <1>1, <1>2, DecidingFacts, UserRows DEF Inv
  <1>10. PICK new : new = [user[p] EXCEPT !.memberVerified = TRUE]
    OBVIOUS
  <1>11. /\ new # NoUser /\ new.reset = user[p].reset /\ new.id = user[p].id
         /\ new.emailVerified = user[p].emailVerified /\ new.toVerify = user[p].toVerify
    BY <1>9, <1>10 DEF UserRow, NoUser
  <1>12. user' = [user EXCEPT ![p] = new]
    BY <1>2, <1>10 DEF CommitLast, Inv, TypeOK, AccountTypeOK
  <1>13. UserWritten(p, new)
    BY <1>6, <1>12 DEF UserWritten
  <1>14. Reached(p)'
    <2>1. ~Registering(p)
      BY <1>2, OnlyOne DEF Good
    <2>2. user'[p] = new
      BY <1>12 DEF Inv, TypeOK, AccountTypeOK
    <2> QED
      BY <1>6, <1>9, <1>11, <2>1, <2>2 DEF Good, UsersReached, Reached
  <1> QED
    BY <1>2, <1>6, <1>8, <1>9, <1>11, <1>13, <1>14, EndGood


-----------------------------------------------------------------------------
\* What an administrator does alone overlaps with nothing.
LEMMA AloneFacts ==
  ASSUME TypeOK, Overlap, overlaps' = 0
  PROVE  \A s \in Requests : request[s] = Idle
  BY AccountAssumption DEF Overlap, TypeOK, AccountTypeOK

LEMMA RemoveGood ==
  ASSUME Inv, Good, overlaps' = 0, NEW p \in Persons, Remove(p)
  PROVE  Good'
  <1>1. /\ Delete(p) /\ Cascade(p) /\ Overlap
        /\ UNCHANGED <<issued, resets, uses, links, broken, request>>
    BY DEF Remove, AdminRemove
  <1>2. UserWritten(p, NoUser) /\ promised'[p] = NoToken /\ user'[p] = NoUser
    BY <1>1 DEF Delete, UserWritten, Inv, TypeOK, AccountTypeOK
  <1>3. Reached(p)'
    BY <1>2 DEF Reached
  <1>4. ApplicationsInOrder'
    BY <1>1, CascadeInOrder DEF Good, Inv
  <1>5. \A s \in Requests : request[s] = Idle
    BY <1>1, AloneFacts DEF Inv
  <1> QED
    BY <1>1, <1>2, <1>3, <1>4, <1>5, AdminGood

LEMMA AdminCreateGood ==
  ASSUME Inv, Good, overlaps' = 0, NEW p \in Persons, NEW verified \in BOOLEAN,
         NEW member \in BOOLEAN, AdminCreate(p, verified, member), Appoint(p, member)
  PROVE  Good'
  <1>1. PICK row : row = [id |-> created + 1, toVerify |-> FALSE, emailVerified |-> verified,
                          memberVerified |-> member, reset |-> NoToken]
    OBVIOUS
  <1>2. /\ user[p] = NoUser /\ user' = [user EXCEPT ![p] = row] /\ Overlap
        /\ broken' = broken \cup {row.id}
        /\ UNCHANGED <<issued, resets, promised, uses, links, request, application, savings>>
    BY <1>1 DEF AdminCreate, Insert, Appoint, tokenVars
  <1>3. row.reset = NoToken
    BY <1>1
  <1>4. promised'[p] = NoToken
    BY <1>2 DEF Good, TokensInOrder, Owns
  <1>5. UserWritten(p, row)
    BY <1>2 DEF UserWritten
  <1>6. Reached(p)'
    BY <1>2 DEF Reached, Inv, TypeOK, AccountTypeOK
  <1>7. ApplicationsInOrder'
    BY <1>2, ApplicationsSame DEF Good
  <1>8. \A s \in Requests : request[s] = Idle
    BY <1>2, AloneFacts DEF Inv
  <1> QED
    BY <1>2, <1>3, <1>4, <1>5, <1>6, <1>7, <1>8, AdminGood

LEMMA AdminUpdateGood ==
  ASSUME Inv, Good, overlaps' = 0, NEW p \in Persons, NEW verified \in BOOLEAN,
         NEW member \in BOOLEAN, AdminUpdate(p, verified, member), Appoint(p, member)
  PROVE  Good'
  <1>1. user[p] \in UserRow /\ user[p] # NoUser
    BY UserRows DEF Inv, AdminUpdate
  <1>2. PICK row : row = [user[p] EXCEPT !.emailVerified = verified, !.memberVerified = member]
    OBVIOUS
  <1>3. /\ row # NoUser /\ row.reset = user[p].reset /\ row.id = user[p].id
        /\ row.emailVerified = verified /\ row.toVerify = user[p].toVerify
    BY <1>1, <1>2 DEF UserRow, NoUser
  <1>4. /\ user' = [user EXCEPT ![p] = row] /\ Overlap
        /\ broken' = IF verified THEN broken ELSE broken \cup {user[p].id}
        /\ UNCHANGED <<issued, resets, promised, uses, links, request, application, savings>>
    BY <1>2 DEF AdminUpdate, Appoint, tokenVars
  <1>5. UserWritten(p, row)
    BY <1>4 DEF UserWritten
  <1>6. Reached(p)'
    <2>1. user'[p] = row
      BY <1>4 DEF Inv, TypeOK, AccountTypeOK
    <2> QED
      BY <1>3, <1>4, <2>1 DEF Reached
  <1>7. ApplicationsInOrder'
    BY <1>4, ApplicationsSame DEF Good
  <1>8. \A s \in Requests : request[s] = Idle
    BY <1>4, AloneFacts DEF Inv
  <1>9. broken \subseteq broken' /\ links \subseteq links' /\ promised'[p] = promised[p]
    BY <1>4
  <1> QED
    BY <1>1, <1>3, <1>4, <1>5, <1>6, <1>7, <1>8, <1>9, AdminGood

-----------------------------------------------------------------------------
\* Overlaps are only counted up.
LEMMA OverlapsCounted ==
  ASSUME TypeOK, [Next]_vars, overlaps' = 0
  PROVE  overlaps = 0
  <1>1. overlaps \in Nat
    BY AccountAssumption DEF TypeOK, AccountTypeOK
  <1>2. /\ Overlap => overlaps' \in {overlaps, overlaps + 1}
        /\ \A r : Done(r) => overlaps' = overlaps
        /\ \A r, op, id, key : Continue(r, op, id, key) => overlaps' = overlaps
    BY DEF Overlap, Done, Continue
  <1>3. \A r, op, p, key : Enter(r, op, p, key) => Overlap
    BY DEF Enter
  <1>4. overlaps' \in {overlaps, overlaps + 1}
    <2>1. CASE UNCHANGED vars
      BY <2>1 DEF vars, accountVars
    <2>2. CASE AccountNext
      <3>1. ASSUME NEW r \in Requests, NEW p \in Persons,
                   \/ BeginRegister(r, p) \/ BeginVerify(r, p) \/ BeginForgot(r, p)
                   \/ \E t \in Tokens : BeginReset(r, p, t)
            PROVE  overlaps' \in {overlaps, overlaps + 1}
        BY <1>2, <1>3, <3>1 DEF BeginRegister, BeginVerify, BeginForgot, BeginReset
      <3>2. ASSUME NEW r \in Requests, NEW arrives \in BOOLEAN, NEW ok \in BOOLEAN,
                   SendVerification(r, arrives, ok) \/ SendReset(r, arrives, ok)
            PROVE  overlaps' \in {overlaps, overlaps + 1}
        BY <1>2, <3>2 DEF SendVerification, AfterSending, SendReset
      <3>3. ASSUME NEW r \in Requests,
                   \/ CommitRegister(r) \/ CommitVerify(r) \/ CommitForgot(r)
                   \/ WithdrawToken(r) \/ CommitReset(r) \/ Fail(r)
            PROVE  overlaps' \in {overlaps, overlaps + 1}
        BY <1>2, <3>3 DEF CommitRegister, CommitVerify, CommitForgot, WithdrawToken,
                          CommitReset, Fail
      <3>4. ASSUME NEW p \in Persons, Expire(p) \/ Lapse(p)
            PROVE  overlaps' \in {overlaps, overlaps + 1}
        BY <3>4 DEF Expire, Lapse
      <3> QED
        BY <2>2, <3>1, <3>2, <3>3, <3>4 DEF AccountNext
    <2>3. ASSUME NEW r \in Requests, NEW p \in Persons,
                 \/ BeginSubmit(r, p)
                 \/ BeginDecision(r, p, "APPROVE") \/ BeginDecision(r, p, "REJECT")
          PROVE  overlaps' \in {overlaps, overlaps + 1}
      BY <1>2, <1>3, <2>3 DEF BeginSubmit, BeginDecision
    <2>4. ASSUME NEW r \in Requests,
                 CommitSubmit(r) \/ CommitReject(r) \/ CommitFirst(r) \/ CommitLast(r) \/ Undo(r)
          PROVE  overlaps' \in {overlaps, overlaps + 1}
      BY <1>2, <2>4 DEF CommitSubmit, CommitReject, CommitFirst, CommitLast, Undo, UndoRegister
    <2>5. ASSUME NEW p \in Persons, Administer(p)
          PROVE  overlaps' \in {overlaps, overlaps + 1}
      BY <1>2, <2>5 DEF Administer, Remove, AdminRemove, AdminCreate, AdminUpdate
    <2> QED
      BY <2>1, <2>2, <2>3, <2>4, <2>5 DEF Next
  <1> QED
    BY <1>1, <1>4

LEMMA SerialInit == Init => SerialInv
  <1> SUFFICES ASSUME Init
               PROVE  Good
    BY DEF SerialInv
  <1>1. /\ \A p \in Persons : /\ user[p] = NoUser /\ promised[p] = NoToken
                              /\ application[p] = NoApplication
        /\ \A t \in Tokens : uses[t] = 0
        /\ \A r \in Requests : request[r] = Idle
        /\ savings = {}
    BY DEF Init, AccountInit
  <1>2. OneRequest /\ RequestsCurrent
    BY <1>1, IdleFacts DEF OneRequest, RequestsCurrent, RequestCurrent
  <1>3. UsersReached
    BY <1>1 DEF UsersReached, Reached
  <1>4. TokensInOrder
    BY <1>1 DEF TokensInOrder, Owns
  <1>5. ApplicationsInOrder
    BY <1>1 DEF ApplicationsInOrder, ApplicationInOrder, NoApplication
  <1> QED
    BY <1>2, <1>3, <1>4, <1>5 DEF Good

LEMMA AccountGood ==
  ASSUME Inv, Good, overlaps' = 0, AccountNext, UNCHANGED memberVars
  PROVE  Good'
  <1>1. ASSUME NEW r \in Requests, NEW p \in Persons,
               BeginRegister(r, p) \/ BeginVerify(r, p) \/ BeginForgot(r, p)
        PROVE  Good'
    BY <1>1, BeginUserGood
  <1>2. ASSUME NEW r \in Requests, NEW p \in Persons, NEW t \in Tokens, BeginReset(r, p, t)
        PROVE  Good'
    BY <1>2, BeginResetGood
  <1>3. ASSUME NEW r \in Requests, NEW arrives \in BOOLEAN, NEW ok \in BOOLEAN,
               SendVerification(r, arrives, ok) \/ SendReset(r, arrives, ok)
        PROVE  Good'
    BY <1>3, SendVerificationGood, SendResetGood
  <1>4. ASSUME NEW r \in Requests,
               \/ CommitRegister(r) \/ CommitVerify(r) \/ CommitForgot(r)
               \/ WithdrawToken(r) \/ CommitReset(r) \/ Fail(r)
        PROVE  Good'
    BY <1>4, CommitRegisterGood, CommitVerifyGood, CommitForgotGood, WithdrawTokenGood,
       CommitResetGood, FailGood
  <1>5. ASSUME NEW p \in Persons, Expire(p) \/ Lapse(p)
        PROVE  Good'
    BY <1>5, ExpireGood, LapseGood
  <1> QED
    BY <1>1, <1>2, <1>3, <1>4, <1>5 DEF AccountNext

LEMMA GoodStep ==
  ASSUME Inv, Good, [Next]_vars, overlaps' = 0
  PROVE  Good'
  <1>1. CASE AccountNext /\ UNCHANGED memberVars
    BY <1>1, AccountGood
  <1>2. ASSUME NEW r \in Requests, NEW p \in Persons, BeginSubmit(r, p)
        PROVE  Good'
    BY <1>2, BeginSubmitGood
  <1>3. ASSUME NEW r \in Requests, NEW p \in Persons,
               BeginDecision(r, p, "APPROVE") \/ BeginDecision(r, p, "REJECT")
        PROVE  Good'
    BY <1>3, BeginDecisionGood
  <1>4. ASSUME NEW r \in Requests,
               CommitSubmit(r) \/ CommitReject(r) \/ CommitFirst(r) \/ CommitLast(r) \/ Undo(r)
        PROVE  Good'
    BY <1>4, CommitSubmitGood, CommitRejectGood, CommitFirstGood, CommitLastGood, UndoGood
  <1>5. ASSUME NEW p \in Persons, Administer(p)
        PROVE  Good'
    BY <1>5, RemoveGood, AdminCreateGood, AdminUpdateGood DEF Administer
  <1>6. CASE UNCHANGED vars
    <2>1. UNCHANGED <<user, issued, resets, promised, uses, links, broken, request,
                      application, savings>>
      BY <1>6 DEF vars, accountVars, memberVars, tokenVars
    <2> QED
      BY <2>1, GoodKept
  <1> QED
    BY <1>1, <1>2, <1>3, <1>4, <1>5, <1>6 DEF Next

LEMMA SerialStep == Inv /\ SerialInv /\ [Next]_vars => SerialInv'
  <1> SUFFICES ASSUME Inv, SerialInv, [Next]_vars, overlaps' = 0
               PROVE  Good'
    BY DEF SerialInv
  <1>1. overlaps = 0
    BY OverlapsCounted DEF Inv
  <1> QED
    BY <1>1, GoodStep DEF SerialInv

LEMMA SpecSerial == Spec => [](Inv /\ SerialInv)
  <1>1. Init => Inv /\ SerialInv
    BY InitInv, SerialInit
  <1>2. Inv /\ SerialInv /\ [Next]_vars => (Inv /\ SerialInv)'
    BY StepInv, SerialStep
  <1> QED
    BY <1>1, <1>2, PTL DEF Spec

LEMMA NotOverlapped ==
  ASSUME Inv, SerialInv, ~overlapped
  PROVE  Good
  <1>1. overlaps \in Nat
    BY AccountAssumption DEF Inv, TypeOK, AccountTypeOK
  <1> QED
    BY <1>1 DEF SerialInv, overlapped

(* As long as no requests overlap, links work for as long as their mails    *)
(* promise: whoever is not verified has one for a day, unless the           *)
(* registration was broken off or an administrator made the user; the link  *)
(* of the last answered reset request works until its hour is over; and no  *)
(* link works twice.  For this a token that was not used has at most one    *)
(* owner.  (The code keeps more: Reached does not ask for the day.)         *)
THEOREM LinksAlwaysWork == Spec => []LinksWork
  <1>1. ASSUME Inv, SerialInv
        PROVE  LinksWork
    <2> SUFFICES ASSUME ~overlapped
                 PROVE  /\ \A p \in Persons :
                             user[p] # NoUser /\ ~user[p].emailVerified
                                 /\ (\A r \in Requests : request[r] = Idle) =>
                               \/ user[p].id \in broken \cup lapsed
                               \/ user[p].toVerify /\ user[p].id \in links
                        /\ \A p \in Persons :
                             promised[p] # NoToken =>
                               /\ user[p] # NoUser
                               /\ user[p].reset = promised[p]
                               /\ promised[p] \in resets
                        /\ \A t \in Tokens : uses[t] <= 1
      BY DEF LinksWork
    <2>1. UsersReached /\ TokensInOrder
      BY <1>1, NotOverlapped DEF Good
    <2>2. ASSUME NEW p \in Persons, \A r \in Requests : request[r] = Idle
          PROVE  ~Registering(p)
      BY <2>2, IdleFacts DEF Registering
    <2>3. \A p \in Persons :
            user[p] # NoUser /\ ~user[p].emailVerified
                /\ (\A r \in Requests : request[r] = Idle) =>
              \/ user[p].id \in broken \cup lapsed
              \/ user[p].toVerify /\ user[p].id \in links
      BY <2>1, <2>2 DEF UsersReached, Reached
    <2>4. \A p \in Persons :
            promised[p] # NoToken =>
              user[p] # NoUser /\ user[p].reset = promised[p] /\ promised[p] \in resets
      BY <2>1 DEF TokensInOrder, Owns
    <2>5. \A t \in Tokens : uses[t] <= 1
      BY <2>1 DEF TokensInOrder
    <2> QED
      BY <2>3, <2>4, <2>5
  <1> QED
    BY <1>1, SpecSerial, PTL

(* As long as no requests overlap, a savings account goes with an           *)
(* application that both officers approved in its last round, and what is   *)
(* under review can be decided; all rows keep their types, also when        *)
(* requests overlap.                                                       *)
THEOREM MembershipStaysInOrder == Spec => []MembershipInOrder
  <1>1. ASSUME Inv, SerialInv
        PROVE  MembershipInOrder
    <2>1. ASSUME ~overlapped, NEW p \in Persons
          PROVE  /\ p \in savings <=> application[p].status = "APPROVED"
                 /\ p \in savings => \A s \in Steps : application[p].approvals[s] = "APPROVED"
                 /\ application[p].status = "UNDER_REVIEW" => Decidable(p)
      <3>1. /\ ApplicationInOrder(application[p])
            /\ p \in savings <=> application[p].status = "APPROVED"
        BY <1>1, <2>1, NotOverlapped DEF Good, ApplicationsInOrder
      <3> QED
        BY <3>1 DEF ApplicationInOrder, Decidable
    <2> QED
      BY <1>1, <2>1 DEF MembershipInOrder, Inv
  <1> QED
    BY <1>1, SpecSerial, PTL

-----------------------------------------------------------------------------
(* The mail queue.  The log of the attempt in progress is nobody else's,   *)
(* and a log that is being resent has said FAILED before: so a log that    *)
(* says SENT keeps saying so.                                              *)

LogRow == [status : {"PENDING", "SENT", "FAILED"}, copies : Nat, resends : Nat]

\* Without the bounds, which only the sums of MailQueue would tell.
LogTypes ==
  /\ worker \in [Jobs -> WorkerSteps]
  /\ logs \in [Jobs -> Seq(LogRow)]
  /\ resentTwice \in BOOLEAN

\* The newest log is pending and untouched while the worker is on it.
OwnLog(j) ==
  worker[j] \in {"LOGGED", "ACCEPTED"} =>
    /\ Newest(j) \in DOMAIN logs[j]
    /\ logs[j][Newest(j)].status = "PENDING"
    /\ logs[j][Newest(j)].resends = 0
    /\ worker[j] = "ACCEPTED" => logs[j][Newest(j)].copies > 0

SentWentOut(log) == log.status = "SENT" => log.copies > 0

\* One request at a time resends a log, which says FAILED until it is done.
ResendsFailed(log) ==
  ~resentTwice /\ log.resends > 0 => log.resends = 1 /\ log.status = "FAILED"

LogInv(log) == SentWentOut(log) /\ ResendsFailed(log)

MailInv ==
  /\ LogTypes
  /\ \A j \in Jobs : OwnLog(j)
  /\ \A j \in Jobs : \A i \in DOMAIN logs[j] : LogInv(logs[j][i])

\* What SentStays says of one step.
SentKept ==
  \A j \in Jobs : \A i \in DOMAIN logs[j] :
    logs[j][i].status = "SENT" /\ ~resentTwice' => logs'[j][i].status = "SENT"

-----------------------------------------------------------------------------
LEMMA InitMailInv == MailInit => MailInv
  <1> SUFFICES ASSUME MailInit
               PROVE  MailInv
    OBVIOUS
  <1>1. \A j \in Jobs : logs[j] = <<>> /\ DOMAIN logs[j] = {} /\ worker[j] = "NONE"
    BY DEF MailInit
  <1>2. <<>> \in Seq(LogRow)
    OBVIOUS
  <1>3. LogTypes
    BY <1>2 DEF MailInit, LogTypes, WorkerSteps
  <1> QED
    BY <1>1, <1>3 DEF MailInv, OwnLog

\* A log of a sequence of logs is one.
LEMMA LogRows ==
  ASSUME LogTypes, NEW j \in Jobs
  PROVE  /\ logs[j] \in Seq(LogRow)
         /\ Len(logs[j]) \in Nat
         /\ DOMAIN logs[j] = 1 .. Len(logs[j])
         /\ \A i \in DOMAIN logs[j] : logs[j][i] \in LogRow
  <1>1. logs[j] \in Seq(LogRow)
    BY DEF LogTypes
  <1> QED
    BY <1>1, ElementOfSeq, LenProperties

\* Steps that leave the logs alone, and put no worker on one.
LEMMA LogsUntouched ==
  ASSUME MailInv, UNCHANGED <<logs, resentTwice>>, worker' \in [Jobs -> WorkerSteps],
         \A j \in Jobs : worker'[j] = worker[j] \/ worker'[j] \notin {"LOGGED", "ACCEPTED"}
  PROVE  MailInv' /\ SentKept
  <1>1. LogTypes'
    BY DEF MailInv, LogTypes
  <1>2. \A j \in Jobs : OwnLog(j)'
    BY DEF MailInv, OwnLog, Newest
  <1>3. \A j \in Jobs : \A i \in DOMAIN logs'[j] : LogInv(logs[j][i])'
    BY DEF MailInv, LogInv, SentWentOut, ResendsFailed
  <1>4. SentKept
    BY DEF SentKept
  <1> QED
    BY <1>1, <1>2, <1>3, <1>4 DEF MailInv

\* A step that writes log i of job j.
LEMMA LogWritten ==
  ASSUME MailInv, NEW j \in Jobs, NEW i \in DOMAIN logs[j], NEW row \in LogRow,
         logs' = [logs EXCEPT ![j] = [@ EXCEPT ![i] = row]],
         worker' \in [Jobs -> WorkerSteps],
         \A k \in Jobs \ {j} : worker'[k] = worker[k],
         resentTwice' \in BOOLEAN, resentTwice => resentTwice',
         LogInv(row)', OwnLog(j)',
         logs[j][i].status = "SENT" /\ ~resentTwice' => row.status = "SENT"
  PROVE  MailInv' /\ SentKept
  <1>1. logs[j] \in Seq(LogRow)
    BY LogRows DEF MailInv
  <1>2. [logs[j] EXCEPT ![i] = row] \in Seq(LogRow)
    BY <1>1, ExceptSeq
  <1>3. /\ logs' \in [Jobs -> Seq(LogRow)]
        /\ logs'[j] = [logs[j] EXCEPT ![i] = row]
        /\ \A k \in Jobs : k # j => logs'[k] = logs[k]
    BY <1>2 DEF MailInv, LogTypes
  <1>4. /\ DOMAIN logs'[j] = DOMAIN logs[j]
        /\ logs'[j][i] = row
        /\ \A m \in DOMAIN logs[j] : m # i => logs'[j][m] = logs[j][m]
    BY <1>3
  <1>5. LogTypes'
    BY <1>3 DEF LogTypes
  <1>6. \A k \in Jobs : OwnLog(k)'
    BY <1>3 DEF MailInv, OwnLog, Newest
  <1>7. \A log : LogInv(log) => LogInv(log)'
    BY DEF LogInv, SentWentOut, ResendsFailed
  <1>8. ASSUME NEW k \in Jobs, NEW m \in DOMAIN logs'[k], NEW log, log = logs'[k][m]
        PROVE  LogInv(log)'
    <2>1. CASE k = j /\ m = i
      BY <1>4, <1>8, <2>1
    <2>2. CASE ~(k = j /\ m = i)
      <3>1. m \in DOMAIN logs[k] /\ log = logs[k][m]
        BY <1>3, <1>4, <1>8, <2>2
      <3> QED
        BY <3>1, <1>7 DEF MailInv
    <2> QED
      BY <2>1, <2>2
  <1>9. \A k \in Jobs : \A m \in DOMAIN logs'[k] : LogInv(logs[k][m])'
    BY <1>8 DEF LogInv, SentWentOut, ResendsFailed
  <1>10. SentKept
    BY <1>3, <1>4 DEF SentKept
  <1> QED
    BY <1>5, <1>6, <1>9, <1>10 DEF MailInv

-----------------------------------------------------------------------------
\* The worker of a job begins a log of its own.
LEMMA LogCreated ==
  ASSUME MailInv, NEW j \in Jobs, Work(j, "TAKEN", "LOGGED"),
         logs' = [logs EXCEPT ![j] = Append(@, NewLog)]
  PROVE  MailInv' /\ SentKept
  <1>1. NewLog \in LogRow
    BY DEF NewLog, LogRow
  <1>2. logs[j] \in Seq(LogRow) /\ Len(logs[j]) \in Nat /\ DOMAIN logs[j] = 1 .. Len(logs[j])
    BY LogRows DEF MailInv
  <1>3. /\ logs' \in [Jobs -> Seq(LogRow)]
        /\ logs'[j] = Append(logs[j], NewLog)
        /\ \A k \in Jobs : k # j => logs'[k] = logs[k]
    BY <1>1, <1>2, AppendProperties DEF MailInv, LogTypes
  <1>4. /\ DOMAIN logs'[j] = 1 .. Len(logs[j]) + 1
        /\ Len(logs'[j]) = Len(logs[j]) + 1
        /\ \A i \in DOMAIN logs[j] : logs'[j][i] = logs[j][i]
        /\ logs'[j][Len(logs[j]) + 1] = NewLog
    BY <1>1, <1>2, <1>3, AppendProperties
  <1>5. /\ worker' \in [Jobs -> WorkerSteps]
        /\ worker'[j] = "LOGGED"
        /\ \A k \in Jobs : k # j => worker'[k] = worker[k]
        /\ resentTwice' = resentTwice
    BY DEF Work, MailInv, LogTypes, WorkerSteps
  <1>6. LogTypes'
    BY <1>3, <1>5 DEF MailInv, LogTypes
  <1>7. ASSUME NEW k \in Jobs
        PROVE  OwnLog(k)'
    <2>1. CASE k = j
      BY <1>2, <1>4, <1>5, <2>1 DEF OwnLog, Newest, NewLog
    <2>2. CASE k # j
      BY <1>3, <1>5, <2>2 DEF MailInv, OwnLog, Newest
    <2> QED
      BY <2>1, <2>2
  <1>8. LogInv(NewLog)'
    BY DEF LogInv, SentWentOut, ResendsFailed, NewLog
  <1>9. \A log : LogInv(log) => LogInv(log)'
    BY <1>5 DEF LogInv, SentWentOut, ResendsFailed
  <1>10. ASSUME NEW k \in Jobs, NEW m \in DOMAIN logs'[k], NEW log, log = logs'[k][m]
         PROVE  LogInv(log)'
    <2>1. CASE k = j /\ m = Len(logs[j]) + 1
      BY <1>4, <1>8, <1>10, <2>1
    <2>2. CASE ~(k = j /\ m = Len(logs[j]) + 1)
      <3>1. m \in DOMAIN logs[k] /\ log = logs[k][m]
        BY <1>2, <1>3, <1>4, <1>10, <2>2
      <3> QED
        BY <3>1, <1>9 DEF MailInv
    <2> QED
      BY <2>1, <2>2
  <1>11. \A k \in Jobs : \A m \in DOMAIN logs'[k] : LogInv(logs[k][m])'
    BY <1>10 DEF LogInv, SentWentOut, ResendsFailed
  <1>12. SentKept
    BY <1>3, <1>4 DEF SentKept
  <1> QED
    BY <1>6, <1>7, <1>11, <1>12 DEF MailInv

\* What a step of the worker of job j does to the workers.
LEMMA WorkSteps ==
  ASSUME MailInv, NEW j \in Jobs, NEW from \in WorkerSteps, NEW to \in WorkerSteps, Work(j, from, to)
  PROVE  /\ worker' \in [Jobs -> WorkerSteps]
         /\ worker[j] = from /\ worker'[j] = to
         /\ \A k \in Jobs \ {j} : worker'[k] = worker[k]
         /\ resentTwice' = resentTwice
  BY DEF Work, MailInv, LogTypes

LEMMA CreateLogInv ==
  ASSUME MailInv, NEW j \in Jobs, CreateLog(j)
  PROVE  MailInv' /\ SentKept
  <1>1. CASE Work(j, "TAKEN", "LOGGED") /\ logs' = [logs EXCEPT ![j] = Append(@, NewLog)]
    BY <1>1, LogCreated
  <1>2. CASE Work(j, "TAKEN", "THROWN") /\ UNCHANGED logs
    <2>1. "TAKEN" \in WorkerSteps /\ "THROWN" \in WorkerSteps
      BY DEF WorkerSteps
    <2>2. /\ worker' \in [Jobs -> WorkerSteps]
          /\ \A k \in Jobs : worker'[k] = worker[k] \/ worker'[k] = "THROWN"
          /\ resentTwice' = resentTwice
      BY <1>2, <2>1, WorkSteps
    <2> QED
      BY <1>2, <2>2, LogsUntouched
  <1> QED
    BY <1>1, <1>2 DEF CreateLog

\* The log of the attempt in progress.
LEMMA NewestLog ==
  ASSUME MailInv, NEW j \in Jobs, worker[j] \in {"LOGGED", "ACCEPTED"}
  PROVE  /\ Newest(j) \in DOMAIN logs[j]
         /\ logs[j][Newest(j)] \in LogRow
         /\ logs[j][Newest(j)].status = "PENDING"
         /\ logs[j][Newest(j)].resends = 0
         /\ worker[j] = "ACCEPTED" => logs[j][Newest(j)].copies > 0
  BY LogRows DEF MailInv, OwnLog

LEMMA SendMailInv ==
  ASSUME MailInv, NEW j \in Jobs, SendMail(j)
  PROVE  MailInv' /\ SentKept
  <1>1. worker[j] = "LOGGED"
    BY DEF SendMail, Work
  <1>2. PICK i, log : i = Newest(j) /\ log = logs[j][i]
    OBVIOUS
  <1>3. /\ i \in DOMAIN logs[j] /\ log \in LogRow /\ log = logs[j][i]
        /\ log.status = "PENDING" /\ log.resends = 0
    BY <1>1, <1>2, NewestLog
  <1>4. {"LOGGED", "ACCEPTED", "THROWN"} \subseteq WorkerSteps
    BY DEF WorkerSteps
  <1>5. CASE /\ Work(j, "LOGGED", "ACCEPTED")
             /\ logs' = [logs EXCEPT ![j][Newest(j)].copies = @ + 1]
    <2>1. PICK row : row = [log EXCEPT !.copies = @ + 1]
      OBVIOUS
    <2>2. /\ row \in LogRow
          /\ row.status = "PENDING" /\ row.resends = 0 /\ row.copies > 0
      BY <1>3, <2>1 DEF LogRow
    <2>3. logs' = [logs EXCEPT ![j] = [@ EXCEPT ![i] = row]]
      BY <1>2, <1>5, <2>1 DEF MailInv, LogTypes
    <2>4. LogInv(row)'
      BY <2>2 DEF LogInv, SentWentOut, ResendsFailed
    <2>5. /\ Len(logs'[j]) = Len(logs[j]) /\ DOMAIN logs'[j] = DOMAIN logs[j]
          /\ logs'[j][i] = row
      BY <1>3, <2>2, <2>3, LogRows, ExceptSeq DEF MailInv, LogTypes
    <2>6. OwnLog(j)'
      BY <1>2, <1>3, <2>2, <2>5 DEF OwnLog, Newest
    <2> QED
      BY <1>3, <1>4, <1>5, <2>2, <2>3, <2>4, <2>6, WorkSteps, LogWritten DEF MailInv, LogTypes
  <1>6. CASE Work(j, "LOGGED", "THROWN") /\ Refused(j, Newest(j))
    <2>1. PICK copy \in {0, 1}, status \in {"FAILED", log.status} :
            logs' = [logs EXCEPT ![j][i].copies = @ + copy, ![j][i].status = status]
      BY <1>2, <1>6 DEF Refused, StatusAfter
    <2>2. PICK row : row = [log EXCEPT !.copies = @ + copy, !.status = status]
      OBVIOUS
    <2>3. /\ row \in LogRow
          /\ row.status # "SENT" /\ row.resends = 0
      <3>1. PICK n \in Nat : n = log.copies + copy
        BY <1>3, <2>1 DEF LogRow
      <3>2. row = [log EXCEPT !.copies = n, !.status = status]
        BY <2>2, <3>1
      <3> QED
        BY <1>3, <2>1, <3>2 DEF LogRow
    <2>4. logs' = [logs EXCEPT ![j] = [@ EXCEPT ![i] = row]]
      BY <1>2, <2>1, <2>2 DEF MailInv, LogTypes
    <2>5. LogInv(row)'
      BY <2>3 DEF LogInv, SentWentOut, ResendsFailed
    <2>6. worker'[j] = "THROWN"
      BY <1>4, <1>6, WorkSteps
    <2>7. OwnLog(j)'
      BY <2>6 DEF OwnLog
    <2> QED
      BY <1>3, <1>4, <1>6, <2>3, <2>4, <2>5, <2>7, WorkSteps, LogWritten DEF MailInv, LogTypes
  <1> QED
    BY <1>5, <1>6 DEF SendMail

LEMMA LogSentInv ==
  ASSUME MailInv, NEW j \in Jobs, LogSent(j)
  PROVE  MailInv' /\ SentKept
  <1>1. worker[j] = "ACCEPTED" /\ Work(j, "ACCEPTED", "RETURNED")
    BY DEF LogSent, Work
  <1>2. PICK i, log : i = Newest(j) /\ log = logs[j][i]
    OBVIOUS
  <1>3. /\ i \in DOMAIN logs[j] /\ log \in LogRow /\ log = logs[j][i]
        /\ log.resends = 0 /\ log.copies > 0
    BY <1>1, <1>2, NewestLog
  <1>4. {"ACCEPTED", "RETURNED"} \subseteq WorkerSteps
    BY DEF WorkerSteps
  <1>5. PICK row : row = [log EXCEPT !.status = "SENT"]
    OBVIOUS
  <1>6. /\ row \in LogRow
        /\ row.status = "SENT" /\ row.resends = 0 /\ row.copies > 0
    BY <1>3, <1>5 DEF LogRow
  <1>7. logs' = [logs EXCEPT ![j] = [@ EXCEPT ![i] = row]]
    BY <1>2, <1>5 DEF LogSent, StatusAfter, MailInv, LogTypes
  <1>8. LogInv(row)'
    BY <1>6 DEF LogInv, SentWentOut, ResendsFailed
  <1>9. worker'[j] = "RETURNED"
    BY <1>1, <1>4, WorkSteps
  <1>10. OwnLog(j)'
    BY <1>9 DEF OwnLog
  <1> QED
    BY <1>1, <1>3, <1>4, <1>6, <1>7, <1>8, <1>10, WorkSteps, LogWritten DEF MailInv, LogTypes

-----------------------------------------------------------------------------
\* The log being resent is not the one a worker is on: it says FAILED.
LEMMA BeginResendInv ==
  ASSUME MailInv, NEW j \in Jobs, NEW i, BeginResend(j, i)
  PROVE  MailInv' /\ SentKept
  <1>1. PICK log : log = logs[j][i]
    OBVIOUS
  <1>2. /\ i \in DOMAIN logs[j] /\ log \in LogRow /\ log.status = "FAILED"
        /\ LogInv(log)
    BY <1>1, LogRows DEF BeginResend, Resendable, MailInv
  <1>3. PICK row : row = [log EXCEPT !.resends = @ + 1]
    OBVIOUS
  <1>4. row \in LogRow /\ row.status = "FAILED" /\ row.resends = log.resends + 1
    BY <1>2, <1>3 DEF LogRow
  <1>5. logs' = [logs EXCEPT ![j] = [@ EXCEPT ![i] = row]]
    BY <1>1, <1>3 DEF BeginResend, MailInv, LogTypes
  <1>6. /\ resentTwice' = (resentTwice \/ log.resends > 0)
        /\ worker' = worker
    BY <1>1 DEF BeginResend
  <1>7. LogInv(row)'
    <2>1. ~resentTwice' => ~(log.resends > 0)
      BY <1>6, Zenon
    <2>2. ~(log.resends > 0) => row.resends = 1
      BY <1>2, <1>4 DEF LogRow
    <2> QED
      BY <1>4, <2>1, <2>2, Zenon DEF LogInv, SentWentOut, ResendsFailed
  <1>8. OwnLog(j)'
    <2>1. CASE worker[j] \in {"LOGGED", "ACCEPTED"}
      <3>1. i # Newest(j)
        BY <1>1, <1>2, <2>1, NewestLog
      <3>2. /\ Len(logs'[j]) = Len(logs[j]) /\ DOMAIN logs'[j] = DOMAIN logs[j]
            /\ \A k \in DOMAIN logs[j] : k # i => logs'[j][k] = logs[j][k]
        BY <1>2, <1>4, <1>5, LogRows, ExceptSeq DEF MailInv, LogTypes
      <3> QED
        BY <1>6, <2>1, <3>1, <3>2, NewestLog DEF OwnLog, Newest
    <2>2. CASE worker[j] \notin {"LOGGED", "ACCEPTED"}
      BY <1>6, <2>2 DEF OwnLog
    <2> QED
      BY <2>1, <2>2
  <1>9. resentTwice' \in BOOLEAN /\ (resentTwice => resentTwice')
    BY <1>6 DEF MailInv, LogTypes
  <1>10. worker' \in [Jobs -> WorkerSteps] /\ \A k \in Jobs \ {j} : worker'[k] = worker[k]
    BY <1>6 DEF MailInv, LogTypes
  <1> QED
    BY <1>1, <1>2, <1>4, <1>5, <1>7, <1>8, <1>9, <1>10, LogWritten

LEMMA ResendInv ==
  ASSUME MailInv, NEW j \in Jobs, NEW i, Resend(j, i)
  PROVE  MailInv' /\ SentKept
  <1>1. PICK log : log = logs[j][i]
    OBVIOUS
  <1>2. /\ i \in DOMAIN logs[j] /\ log \in LogRow /\ log.resends > 0
        /\ LogInv(log)
    BY <1>1, LogRows DEF Resend, MailInv
  <1>3. PICK copy \in {0, 1} : \E status \in {log.status, "FAILED", StatusAfter(copy = 1)} :
          logs' = [logs EXCEPT ![j][i] = [status |-> status, copies |-> @.copies + copy,
                                          resends |-> @.resends - 1]]
    <2>1. PICK copy \in {0, 1} :
            \E status \in {logs[j][i].status, StatusAfter(FALSE), StatusAfter(copy = 1)} :
              logs' = [logs EXCEPT ![j][i] = [status |-> status, copies |-> @.copies + copy,
                                              resends |-> @.resends - 1]]
      BY DEF Resend
    <2>2. StatusAfter(FALSE) = "FAILED"
      BY DEF StatusAfter
    <2> QED
      BY <1>1, <2>1, <2>2
  <1>4. PICK status \in {log.status, "FAILED", StatusAfter(copy = 1)} :
          logs' = [logs EXCEPT ![j][i] = [status |-> status, copies |-> @.copies + copy,
                                          resends |-> @.resends - 1]]
    BY <1>3
  <1>5. PICK row : row = [status |-> status, copies |-> log.copies + copy,
                          resends |-> log.resends - 1]
    OBVIOUS
  <1>6. /\ log.copies \in Nat /\ log.resends \in Nat
        /\ status \in {"PENDING", "SENT", "FAILED"}
        /\ status = "SENT" => log.status = "SENT" \/ copy = 1
    BY <1>2, <1>4 DEF LogRow, StatusAfter
  <1>7. /\ row \in LogRow
        /\ row.status = status /\ row.copies = log.copies + copy
        /\ row.resends = log.resends - 1
    BY <1>2, <1>3, <1>5, <1>6 DEF LogRow
  <1>8. logs' = [logs EXCEPT ![j] = [@ EXCEPT ![i] = row]]
    BY <1>1, <1>4, <1>5 DEF MailInv, LogTypes
  <1>9. resentTwice' = resentTwice /\ worker' = worker
    BY DEF Resend
  <1>10. LogInv(row)'
    BY <1>2, <1>3, <1>6, <1>7, <1>9 DEF LogInv, SentWentOut, ResendsFailed
  <1>11. OwnLog(j)'
    <2>1. CASE worker[j] \in {"LOGGED", "ACCEPTED"}
      <3>1. i # Newest(j)
        BY <1>1, <1>2, <2>1, NewestLog
      <3>2. /\ Len(logs'[j]) = Len(logs[j]) /\ DOMAIN logs'[j] = DOMAIN logs[j]
            /\ \A k \in DOMAIN logs[j] : k # i => logs'[j][k] = logs[j][k]
        BY <1>2, <1>7, <1>8, LogRows, ExceptSeq DEF MailInv, LogTypes
      <3> QED
        BY <1>9, <2>1, <3>1, <3>2, NewestLog DEF OwnLog, Newest
    <2>2. CASE worker[j] \notin {"LOGGED", "ACCEPTED"}
      BY <1>9, <2>2 DEF OwnLog
    <2> QED
      BY <2>1, <2>2
  <1>12. log.status = "SENT" => resentTwice
    BY <1>2 DEF LogInv, ResendsFailed
  <1>13. /\ resentTwice' \in BOOLEAN /\ (resentTwice => resentTwice')
         /\ worker' \in [Jobs -> WorkerSteps] /\ \A k \in Jobs \ {j} : worker'[k] = worker[k]
         /\ (logs[j][i].status = "SENT" /\ ~resentTwice' => row.status = "SENT")
    BY <1>1, <1>9, <1>12 DEF MailInv, LogTypes
  <1> QED
    BY <1>2, <1>7, <1>8, <1>10, <1>11, <1>13, LogWritten

\* A crash loses the workers and the requests, and keeps the logs.
LEMMA CrashInv ==
  ASSUME MailInv, Crash
  PROVE  MailInv' /\ SentKept
  <1>1. /\ worker' = [j \in Jobs |-> "NONE"]
        /\ logs' = [j \in Jobs |-> [i \in DOMAIN logs[j] |-> [logs[j][i] EXCEPT !.resends = 0]]]
        /\ resentTwice' = resentTwice
    BY DEF Crash
  <1>2. ASSUME NEW j \in Jobs
        PROVE  /\ logs'[j] \in Seq(LogRow)
               /\ DOMAIN logs'[j] = DOMAIN logs[j]
               /\ \A i \in DOMAIN logs[j] : /\ logs'[j][i].status = logs[j][i].status
                                            /\ logs'[j][i].copies = logs[j][i].copies
                                            /\ logs'[j][i].resends = 0
    <2>1. /\ Len(logs[j]) \in Nat /\ DOMAIN logs[j] = 1 .. Len(logs[j])
          /\ \A i \in DOMAIN logs[j] : logs[j][i] \in LogRow
      BY LogRows DEF MailInv
    <2>2. logs'[j] = [i \in 1 .. Len(logs[j]) |-> [logs[j][i] EXCEPT !.resends = 0]]
      BY <1>1, <2>1
    <2>3. \A i \in 1 .. Len(logs[j]) :
            LET row == [logs[j][i] EXCEPT !.resends = 0]
            IN  /\ row \in LogRow /\ row.status = logs[j][i].status
                /\ row.copies = logs[j][i].copies /\ row.resends = 0
      BY <2>1 DEF LogRow
    <2>4. logs'[j] \in Seq(LogRow)
      BY <2>1, <2>2, <2>3, IsASeq
    <2> QED
      BY <2>1, <2>2, <2>3, <2>4
  <1>3. logs' = [j \in Jobs |-> logs'[j]]
    BY <1>1
  <1>4. LogTypes'
    BY <1>1, <1>2, <1>3 DEF MailInv, LogTypes, WorkerSteps
  <1>5. \A j \in Jobs : OwnLog(j)'
    BY <1>1 DEF OwnLog
  <1>6. \A j \in Jobs : \A i \in DOMAIN logs'[j] : LogInv(logs[j][i])'
    BY <1>2 DEF MailInv, LogInv, SentWentOut, ResendsFailed
  <1>7. SentKept
    BY <1>2 DEF SentKept
  <1> QED
    BY <1>4, <1>5, <1>6, <1>7 DEF MailInv

LEMMA StepMailInv == MailInv /\ [MailNext]_mailVars => MailInv' /\ SentKept
  <1> SUFFICES ASSUME MailInv, [MailNext]_mailVars
               PROVE  MailInv' /\ SentKept
    OBVIOUS
  <1>1. ASSUME UNCHANGED <<worker, logs, resentTwice>>
        PROVE  MailInv' /\ SentKept
    BY <1>1, LogsUntouched DEF MailInv, LogTypes
  <1>2. CASE \/ \E n \in 1 .. MaxBatch : BeginBatch(n)
             \/ AddToQueue \/ AddFails
             \/ \E j \in Jobs : Promote(j) \/ Recover(j) \/ Clean(j)
             \/ Pause(TRUE) \/ Pause(FALSE)
    BY <1>1, <1>2 DEF BeginBatch, AddToQueue, AddFails, Promote, Recover, Clean, Pause
  <1>3. ASSUME NEW j \in Jobs, Take(j) \/ Finish(j)
        PROVE  MailInv' /\ SentKept
    <2>1. /\ worker' \in [Jobs -> WorkerSteps]
          /\ \A k \in Jobs : worker'[k] = worker[k] \/ worker'[k] \in {"TAKEN", "NONE"}
          /\ UNCHANGED <<logs, resentTwice>>
      BY <1>3 DEF Take, Finish, MailInv, LogTypes, WorkerSteps
    <2> QED
      BY <2>1, LogsUntouched
  <1>4. ASSUME NEW j \in Jobs, CreateLog(j) \/ SendMail(j) \/ LogSent(j)
        PROVE  MailInv' /\ SentKept
    BY <1>4, CreateLogInv, SendMailInv, LogSentInv
  <1>5. ASSUME NEW j \in Jobs, NEW i, BeginResend(j, i) \/ Resend(j, i)
        PROVE  MailInv' /\ SentKept
    BY <1>5, BeginResendInv, ResendInv
  <1>6. CASE Crash
    BY <1>6, CrashInv
  <1>7. CASE UNCHANGED mailVars
    BY <1>1, <1>7 DEF mailVars
  <1> QED
    BY <1>2, <1>3, <1>4, <1>5, <1>6, <1>7 DEF MailNext, Worker

\* A log that says SENT is not changed any more, however the attempts of its
\* job, crashes and officers go on, unless two requests resend it at once.
THEOREM SentLogsStay == MailSpec => SentStays
  <1>1. MailInv /\ [MailNext]_mailVars => [SentKept]_mailVars
    BY StepMailInv
  <1>2. MailInv /\ [MailNext]_mailVars => MailInv'
    BY StepMailInv
  <1> QED
    BY <1>1, <1>2, InitMailInv, PTL DEF MailSpec, SentStays, SentKept

\* A mail whose log says SENT went out, whatever crashed or was resent.
THEOREM SentMailWentOut ==
  MailSpec => [](\A j \in Jobs : \A i \in DOMAIN logs[j] :
               logs[j][i].status = "SENT" => logs[j][i].copies > 0)
  <1>1. MailInv => \A j \in Jobs : \A i \in DOMAIN logs[j] :
                 logs[j][i].status = "SENT" => logs[j][i].copies > 0
    BY DEF MailInv, LogInv, SentWentOut
  <1>2. MailInv /\ [MailNext]_mailVars => MailInv'
    BY StepMailInv
  <1> QED
    BY <1>1, <1>2, InitMailInv, PTL DEF MailSpec

-----------------------------------------------------------------------------
(* Jobs, their attempts and the copies that went out.                      *)

JobRow == [state : JobStates, attemptsMade : 0 .. Attempts, stalls : 0 .. MaxStalls + 1]

\* A job in the queue has an attempt left, and no attempt has two logs.
Tried(row, step, n) ==
  /\ step # "NONE" => row.state = "ACTIVE"
  /\ row.state = "NEW" => row.attemptsMade = 0 /\ row.stalls = 0 /\ n = 0
  /\ row.state \in {"WAITING", "DELAYED", "ACTIVE"} =>
       row.attemptsMade < Attempts /\ row.stalls <= MaxStalls
  /\ row.state \in {"WAITING", "DELAYED"} \/ step = "TAKEN" => n <= row.attemptsMade + row.stalls
  /\ row.state = "ACTIVE" => n <= row.attemptsMade + row.stalls + 1
  /\ n <= Attempts + MaxStalls

\* Without faults at most one log has a copy, that of the attempt that succeeds.
CopiedOnce(rows, row, step) ==
  /\ \A i \in DOMAIN rows :
       /\ rows[i].copies <= 1 /\ rows[i].resends = 0
       /\ rows[i].copies > 0 =>
            /\ rows[i].status # "FAILED"
            /\ step \in {"ACCEPTED", "RETURNED"} \/ row.state \in {"COMPLETED", "CLEANED"}
  /\ \A i, k \in DOMAIN rows : rows[i].copies > 0 /\ rows[k].copies > 0 => i = k

HasCopy(rows) == \E i \in DOMAIN rows : rows[i].copies > 0

JobInv(j) ==
  /\ Tried(job[j], worker[j], Len(logs[j]))
  /\ \A i \in DOMAIN logs[j] : logs[j][i].resends <= MaxResends
  /\ worker[j] = "RETURNED" => HasCopy(logs[j])
  /\ j \notin faulty => CopiedOnce(logs[j], job[j], worker[j])

\* Jobs are added in order, and those of the batch are still to be added.
BatchInv ==
  /\ batch \in [first : 0 .. MaxJobs, next : 0 .. MaxJobs, last : 0 .. MaxJobs]
  /\ \A i, j \in Jobs : i <= j /\ job[i].state = "NEW" => job[j].state = "NEW"
  /\ batch # NoBatch =>
       /\ batch.next \in Jobs /\ batch.next <= batch.last
       /\ job[batch.next].state = "NEW"
       /\ \A i \in Jobs : i < batch.next => job[i].state # "NEW"

QueueInv ==
  /\ job \in [Jobs -> JobRow]
  /\ \A j \in Jobs : JobInv(j)
  /\ BatchInv
  /\ paused \in BOOLEAN /\ crashes \in 0 .. MaxCrashes /\ faulty \subseteq Jobs

-----------------------------------------------------------------------------
(* The copies of a job.                                                    *)

Column(rows) == [i \in DOMAIN rows |-> rows[i].copies]

LEMMA ColumnNat ==
  ASSUME NEW rows \in Seq(LogRow)
  PROVE  /\ DOMAIN rows = 1 .. Len(rows) /\ Len(rows) \in Nat
         /\ IsFiniteSet(DOMAIN rows)
         /\ \A i \in DOMAIN rows : rows[i] \in LogRow
         /\ Column(rows) \in [DOMAIN rows -> Nat]
         /\ SumOf(Column(rows)) \in Nat
  <1>1. DOMAIN rows = 1 .. Len(rows) /\ Len(rows) \in Nat
    BY LenProperties
  <1>2. IsFiniteSet(DOMAIN rows)
    BY <1>1, FS_Interval
  <1>3. \A i \in DOMAIN rows : rows[i] \in LogRow
    BY <1>1, ElementOfSeq
  <1>4. Column(rows) \in [DOMAIN rows -> Nat]
    BY <1>3 DEF Column, LogRow
  <1> QED
    BY <1>1, <1>2, <1>3, <1>4, SumOfNat

LEMMA CopiesPositive ==
  ASSUME NEW rows \in Seq(LogRow), HasCopy(rows)
  PROVE  SumOf(Column(rows)) > 0
  <1>1. PICK i \in DOMAIN rows : rows[i].copies > 0
    BY DEF HasCopy
  <1>2. Column(rows)[i] <= SumOf(Column(rows))
    BY ColumnNat, SumOfBounds
  <1>3. Column(rows)[i] = rows[i].copies /\ rows[i].copies \in Nat /\ SumOf(Column(rows)) \in Nat
    BY ColumnNat DEF Column, LogRow
  <1> QED
    BY <1>1, <1>2, <1>3

LEMMA CopiesWritten ==
  ASSUME NEW rows \in Seq(LogRow), NEW i \in DOMAIN rows, NEW row \in LogRow,
         NEW new, DOMAIN new = DOMAIN rows, new[i] = row,
         \A k \in DOMAIN rows : k # i => new[k] = rows[k]
  PROVE  SumOf(Column(new)) = SumOf(Column(rows)) - rows[i].copies + row.copies
  <1>1. PICK S, f, e : S = DOMAIN rows /\ f = Column(rows) /\ e = Column(new)
    OBVIOUS
  <1>2. IsFiniteSet(S) /\ f \in [S -> Int] /\ i \in S
    <2>1. f \in [S -> Nat] /\ IsFiniteSet(S)
      BY <1>1, ColumnNat
    <2> QED
      BY <1>1, <2>1
  <1>3. e \in [S -> Int] /\ e[i] = row.copies /\ f[i] = rows[i].copies
    <2>1. e = [k \in S |-> IF k = i THEN row.copies ELSE rows[k].copies]
      BY <1>1 DEF Column
    <2>2. row.copies \in Int /\ \A k \in S : rows[k].copies \in Int
      BY <1>1, ColumnNat DEF LogRow
    <2> QED
      BY <1>1, <2>1, <2>2 DEF Column
  <1>4. \A k \in S \ {i} : e[k] = f[k]
    BY <1>1 DEF Column
  <1>5. PICK z \in S : z = i
    BY <1>2
  <1>6. \A k \in S \ {z} : e[k] = f[k]
    BY <1>4, <1>5
  <1>7. SumOf(e) = SumOf(f) - f[z] + e[z]
    BY <1>2, <1>3, <1>6, SumOfChanged
  <1> QED
    BY <1>1, <1>3, <1>5, <1>7

LEMMA CopiesAppended ==
  ASSUME NEW rows \in Seq(LogRow), NEW new, new = Append(rows, NewLog)
  PROVE  SumOf(Column(new)) = SumOf(Column(rows))
  <1>1. PICK n, f, e : n = Len(rows) /\ f = Column(rows) /\ e = Column(new)
    OBVIOUS
  <1>2. n \in Nat /\ f \in [1 .. n -> Nat]
    BY <1>1, ColumnNat
  <1>3. NewLog \in LogRow
    BY DEF NewLog, LogRow
  <1>4. new \in Seq(LogRow) /\ Len(new) = n + 1 /\ new[n + 1] = NewLog
        /\ \A i \in 1 .. n : new[i] = rows[i]
    BY <1>1, <1>3, AppendProperties
  <1>5. e \in [1 .. n + 1 -> Nat] /\ DOMAIN new = 1 .. n + 1
    BY <1>1, <1>4, ColumnNat
  <1>6. e[n + 1] = 0 /\ \A i \in 1 .. n : e[i] = f[i]
    BY <1>1, <1>2, <1>4, <1>5, ColumnNat DEF Column, NewLog
  <1>7. f \in [1 .. n -> Int] /\ e \in [1 .. n + 1 -> Int]
    BY <1>2, <1>5
  <1>8. SumOf(e) = SumOf(f) + e[n + 1]
    BY <1>2, <1>6, <1>7, SumOfAppended
  <1> QED
    BY <1>1, <1>6, <1>8, ColumnNat

\* One log with a copy is one copy.
LEMMA CopiesOnce ==
  ASSUME NEW rows \in Seq(LogRow), NEW row, NEW step, CopiedOnce(rows, row, step)
  PROVE  SumOf(Column(rows)) <= 1
  <1>1. PICK S, f : S = DOMAIN rows /\ f = Column(rows)
    OBVIOUS
  <1>2. IsFiniteSet(S) /\ f \in [S -> Nat]
    BY <1>1, ColumnNat
  <1>3. \A i \in S : f[i] <= 1
    BY <1>1 DEF Column, CopiedOnce
  <1>4. \A i, k \in S : f[i] > 0 /\ f[k] > 0 => i = k
    BY <1>1 DEF Column, CopiedOnce
  <1>5. CASE \A i \in S : f[i] = 0
    <2>1. SumOf(f) = 0
      BY <1>2, <1>5, SumOfZeros
    <2> QED
      BY <1>1, <2>1
  <1>6. CASE \E z \in S : f[z] # 0
    <2>1. PICK z \in S : f[z] # 0
      BY <1>6
    <2>2. f[z] > 0 /\ f[z] = 1
      BY <1>2, <1>3, <2>1
    <2>3. \A i \in S \ {z} : f[i] = 0
      BY <1>2, <1>4, <2>2
    <2>4. PICK e : e = [i \in S |-> 0]
      OBVIOUS
    <2>5. e \in [S -> Int] /\ f \in [S -> Int] /\ e[z] = 0 /\ SumOf(e) = 0
      <3>1. DOMAIN e = S /\ \A i \in S : e[i] = 0
        BY <2>4
      <3>2. SumOf(e) = 0
        BY <1>2, <3>1, SumOfZeros
      <3> QED
        BY <1>2, <2>4, <3>2
    <2>6. \A i \in S \ {z} : f[i] = e[i]
      BY <2>3, <2>4
    <2>7. SumOf(f) = SumOf(e) - e[z] + f[z]
      BY <1>2, <2>1, <2>5, <2>6, SumOfChanged
    <2> QED
      BY <1>1, <2>2, <2>5, <2>7
  <1> QED
    BY <1>5, <1>6

LEMMA CopiesOfLogs ==
  ASSUME LogTypes, NEW j \in Jobs
  PROVE  CopiesOf(j) = SumOf(Column(logs[j])) /\ CopiesOf(j) \in Nat
  BY LogRows, ColumnNat DEF CopiesOf, Column

-----------------------------------------------------------------------------
(* The steps of MailDelivery.                                              *)

Promised ==
  [Delivery!Next]_<<[j \in Jobs |-> StatusOf(j)], [j \in Jobs |-> CopiesOf(j)]>>

\* What MailDelivery lets happen to one mail, or nothing.
StatusStep(j) ==
  /\ CopiesOf(j)' = CopiesOf(j)
  /\ \/ StatusOf(j)' = StatusOf(j)
     \/ StatusOf(j) = "NEW" /\ StatusOf(j)' = "QUEUED"
     \/ StatusOf(j) = "QUEUED" /\ StatusOf(j)' = "COMPLETED" /\ CopiesOf(j) > 0
     \/ StatusOf(j) = "QUEUED" /\ StatusOf(j)' = "FAILED"
     \/ StatusOf(j) \in {"COMPLETED", "FAILED"} /\ StatusOf(j)' = "FORGOTTEN"

CopyStep(j) ==
  /\ StatusOf(j)' = StatusOf(j)
  /\ \/ CopiesOf(j)' = CopiesOf(j)
     \/ StatusOf(j) # "NEW" /\ CopiesOf(j)' = CopiesOf(j) + 1

LEMMA DeliveryStep ==
  ASSUME NEW x \in Jobs, StatusStep(x) \/ CopyStep(x),
         \A k \in Jobs \ {x} : StatusOf(k)' = StatusOf(k) /\ CopiesOf(k)' = CopiesOf(k)
  PROVE  Promised
  <1>1. PICK s, c : s = [j \in Jobs |-> StatusOf(j)] /\ c = [j \in Jobs |-> CopiesOf(j)]
    OBVIOUS
  <1>2. PICK t, d : t = [j \in Jobs |-> StatusOf(j)'] /\ d = [j \in Jobs |-> CopiesOf(j)']
    OBVIOUS
  <1>3. s[x] = StatusOf(x) /\ c[x] = CopiesOf(x)
    BY <1>1
  <1>4. /\ StatusOf(x)' = StatusOf(x) => t = s
        /\ CopiesOf(x)' = CopiesOf(x) => d = c
    BY <1>1, <1>2
  <1>5. /\ t = [s EXCEPT ![x] = StatusOf(x)']
        /\ d = [c EXCEPT ![x] = CopiesOf(x)']
    BY <1>1, <1>2
  <1>6. Promised <=> (\/ t = s /\ d = c
                      \/ \E y \in Jobs :
                           \/ s[y] = "NEW" /\ t = [s EXCEPT ![y] = "QUEUED"] /\ d = c
                           \/ s[y] # "NEW" /\ d = [c EXCEPT ![y] = @ + 1] /\ t = s
                           \/ /\ s[y] = "QUEUED" /\ c[y] > 0
                              /\ t = [s EXCEPT ![y] = "COMPLETED"] /\ d = c
                           \/ s[y] = "QUEUED" /\ t = [s EXCEPT ![y] = "FAILED"] /\ d = c
                           \/ /\ s[y] \in {"COMPLETED", "FAILED"}
                              /\ t = [s EXCEPT ![y] = "FORGOTTEN"] /\ d = c)
    BY <1>1, <1>2 DEF Promised, Delivery!Next, Delivery!Queue, Delivery!Deliver,
       Delivery!Complete, Delivery!Fail, Delivery!Forget
  <1>7. CASE StatusStep(x)
    BY <1>3, <1>4, <1>5, <1>6, <1>7 DEF StatusStep
  <1>8. CASE CopyStep(x)
    BY <1>3, <1>4, <1>5, <1>6, <1>8 DEF CopyStep
  <1> QED
    BY <1>7, <1>8

\* A step of one job, that keeps what is true of it.
LEMMA JobChanged ==
  ASSUME QueueInv, NEW x \in Jobs, StatusStep(x) \/ CopyStep(x), JobInv(x)', BatchInv',
         job' \in [Jobs -> JobRow],
         \A k \in Jobs \ {x} :
           /\ job'[k] = job[k] /\ worker'[k] = worker[k] /\ logs'[k] = logs[k],
         faulty' = faulty \/ faulty' = faulty \cup {x},
         UNCHANGED <<paused, crashes>>
  PROVE  QueueInv' /\ Promised
  <1>1. \A k \in Jobs \ {x} : StatusOf(k)' = StatusOf(k) /\ CopiesOf(k)' = CopiesOf(k)
    BY DEF StatusOf, CopiesOf
  <1>2. ASSUME NEW k \in Jobs \ {x}
        PROVE  JobInv(k)'
    <2>1. k \notin faulty' => k \notin faulty
      OBVIOUS
    <2>2. JobInv(k)
      BY DEF QueueInv
    <2> QED
      BY <2>1, <2>2 DEF JobInv
  <1>3. faulty' \subseteq Jobs
    BY DEF QueueInv
  <1>4. QueueInv'
    BY <1>2, <1>3 DEF QueueInv
  <1> QED
    BY <1>1, <1>4, DeliveryStep

LEMMA JobStep ==
  ASSUME QueueInv, NEW x \in Jobs, StatusStep(x) \/ CopyStep(x), JobInv(x)',
         job' \in [Jobs -> JobRow],
         \A k \in Jobs \ {x} :
           /\ job'[k] = job[k] /\ worker'[k] = worker[k] /\ logs'[k] = logs[k],
         job'[x].state = "NEW" <=> job[x].state = "NEW",
         faulty' = faulty \/ faulty' = faulty \cup {x},
         UNCHANGED <<batch, paused, crashes>>
  PROVE  QueueInv' /\ Promised
  <1>1. \A j \in Jobs : job'[j].state = "NEW" <=> job[j].state = "NEW"
    OBVIOUS
  <1>2. BatchInv'
    BY <1>1 DEF QueueInv, BatchInv
  <1> QED
    BY <1>2, JobChanged

-----------------------------------------------------------------------------
(* The steps of the queue, which leave the logs alone.                     *)

LEMMA Bounds ==
  /\ MaxJobs \in Nat /\ MaxJobs > 0 /\ Attempts \in Nat /\ Attempts > 0
  /\ MaxStalls \in Nat /\ MaxCrashes \in Nat /\ MaxResends \in Nat
  BY MailAssumption

\* What is known of a job.
LEMMA JobFacts ==
  ASSUME MailInv, QueueInv, NEW j \in Jobs
  PROVE  /\ job[j] \in JobRow
         /\ job[j].state \in JobStates
         /\ job[j].attemptsMade \in Nat /\ job[j].attemptsMade <= Attempts
         /\ job[j].stalls \in Nat /\ job[j].stalls <= MaxStalls + 1
         /\ worker[j] \in WorkerSteps
         /\ logs[j] \in Seq(LogRow) /\ Len(logs[j]) \in Nat
         /\ DOMAIN logs[j] = 1 .. Len(logs[j])
         /\ Tried(job[j], worker[j], Len(logs[j]))
  <1>1. job[j] \in JobRow
    BY DEF QueueInv
  <1>2. /\ job[j].state \in JobStates
        /\ job[j].attemptsMade \in 0 .. Attempts
        /\ job[j].stalls \in 0 .. MaxStalls + 1
    BY <1>1 DEF JobRow
  <1>3. /\ job[j].attemptsMade \in Nat /\ job[j].attemptsMade <= Attempts
        /\ job[j].stalls \in Nat /\ job[j].stalls <= MaxStalls + 1
    BY <1>2, Bounds
  <1>4. worker[j] \in WorkerSteps
    BY DEF MailInv, LogTypes
  <1>5. Tried(job[j], worker[j], Len(logs[j]))
    BY DEF QueueInv, JobInv
  <1> QED
    BY <1>1, <1>2, <1>3, <1>4, <1>5, LogRows DEF MailInv

\* A worker or a settled job has the copy before and after, or none has one.
LEMMA CopiedOnceKept ==
  ASSUME NEW rows, NEW row, NEW step, NEW new, NEW next, CopiedOnce(rows, row, step),
         step \in {"ACCEPTED", "RETURNED"} \/ row.state \in {"COMPLETED", "CLEANED"} =>
           next \in {"ACCEPTED", "RETURNED"} \/ new.state \in {"COMPLETED", "CLEANED"}
  PROVE  CopiedOnce(rows, new, next)
  BY DEF CopiedOnce

LEMMA JobMoved ==
  ASSUME MailInv, QueueInv, NEW j \in Jobs, NEW row \in JobRow, StatusStep(j),
         job' = [job EXCEPT ![j] = row],
         \A k \in Jobs \ {j} : worker'[k] = worker[k],
         UNCHANGED <<logs, batch, paused, crashes, faulty>>,
         job[j].state # "NEW", row.state # "NEW",
         Tried(row, worker'[j], Len(logs[j])),
         worker'[j] = "RETURNED" => worker[j] = "RETURNED",
         worker[j] \in {"ACCEPTED", "RETURNED"} \/ job[j].state \in {"COMPLETED", "CLEANED"} =>
           worker'[j] \in {"ACCEPTED", "RETURNED"} \/ row.state \in {"COMPLETED", "CLEANED"}
  PROVE  QueueInv' /\ Promised
  <1>1. /\ job' \in [Jobs -> JobRow] /\ job'[j] = row
        /\ \A k \in Jobs \ {j} : job'[k] = job[k]
    BY DEF QueueInv
  <1>2. JobInv(j)
    BY DEF QueueInv
  <1>3. j \notin faulty => CopiedOnce(logs[j], row, worker'[j])
    BY <1>2, CopiedOnceKept DEF JobInv
  <1>4. JobInv(j)'
    BY <1>1, <1>2, <1>3 DEF JobInv
  <1> QED
    BY <1>1, <1>4, JobStep

LEMMA LogsKept ==
  ASSUME NEW j \in Jobs, UNCHANGED logs
  PROVE  CopiesOf(j)' = CopiesOf(j)
  BY DEF CopiesOf

LEMMA PromoteQueue ==
  ASSUME MailInv, QueueInv, NEW j \in Jobs, Promote(j)
  PROVE  QueueInv' /\ Promised
  <1>1. PICK row : row = [job[j] EXCEPT !.state = "WAITING"]
    OBVIOUS
  <1>2. /\ row \in JobRow /\ row.state = "WAITING"
        /\ row.attemptsMade = job[j].attemptsMade /\ row.stalls = job[j].stalls
    BY <1>1, JobFacts DEF JobRow, JobStates
  <1>3. job' = [job EXCEPT ![j] = row] /\ job[j].state = "DELAYED"
    BY <1>1 DEF Promote, InState
  <1>4. UNCHANGED <<batch, worker, logs, paused, crashes, faulty>>
    BY DEF Promote
  <1>5. worker[j] = "NONE"
    BY <1>3, JobFacts DEF Tried
  <1>6. Tried(row, worker[j], Len(logs[j]))
    BY <1>2, <1>3, <1>5, JobFacts DEF Tried
  <1>7. StatusStep(j)
    <2>1. job'[j] = row
      BY <1>3 DEF QueueInv
    <2> QED
      BY <1>2, <1>3, <1>4, <2>1, LogsKept DEF StatusStep, StatusOf
  <1> QED
    BY <1>2, <1>3, <1>4, <1>5, <1>6, <1>7, JobMoved

LEMMA TakeQueue ==
  ASSUME MailInv, QueueInv, NEW j \in Jobs, Take(j)
  PROVE  QueueInv' /\ Promised
  <1>1. PICK row : row = [job[j] EXCEPT !.state = "ACTIVE"]
    OBVIOUS
  <1>2. /\ row \in JobRow /\ row.state = "ACTIVE"
        /\ row.attemptsMade = job[j].attemptsMade /\ row.stalls = job[j].stalls
    BY <1>1, JobFacts DEF JobRow, JobStates
  <1>3. job' = [job EXCEPT ![j] = row] /\ job[j].state = "WAITING"
    BY <1>1 DEF Take, InState
  <1>4. UNCHANGED <<batch, logs, paused, crashes, faulty>>
    BY DEF Take
  <1>5. worker'[j] = "TAKEN" /\ \A k \in Jobs \ {j} : worker'[k] = worker[k]
    BY DEF Take, MailInv, LogTypes
  <1>6. worker[j] = "NONE"
    BY <1>3, JobFacts DEF Tried
  <1>7. Tried(row, "TAKEN", Len(logs[j]))
    BY <1>2, <1>3, JobFacts DEF Tried
  <1>8. StatusStep(j)
    <2>1. job'[j] = row
      BY <1>3 DEF QueueInv
    <2> QED
      BY <1>2, <1>3, <1>4, <2>1, LogsKept DEF StatusStep, StatusOf
  <1> QED
    BY <1>2, <1>3, <1>4, <1>5, <1>6, <1>7, <1>8, JobMoved

LEMMA RecoverQueue ==
  ASSUME MailInv, QueueInv, NEW j \in Jobs, Recover(j)
  PROVE  QueueInv' /\ Promised
  <1>1. PICK state : state = IF job[j].stalls < MaxStalls THEN "WAITING" ELSE "FAILED"
    OBVIOUS
  <1>2. PICK row : row = [job[j] EXCEPT !.stalls = @ + 1, !.state = state]
    OBVIOUS
  <1>3. job' = [job EXCEPT ![j] = row] /\ job[j].state = "ACTIVE" /\ worker[j] = "NONE"
    BY <1>1, <1>2 DEF Recover, InState, QueueInv
  <1>4. job[j].stalls <= MaxStalls
    BY <1>3, JobFacts DEF Tried
  <1>5. /\ row \in JobRow /\ row.state = state
        /\ row.attemptsMade = job[j].attemptsMade /\ row.stalls = job[j].stalls + 1
    <2>1. job[j].stalls + 1 \in 0 .. MaxStalls + 1 /\ state \in JobStates
      BY <1>1, <1>4, JobFacts, Bounds DEF JobStates
    <2> QED
      BY <1>2, <2>1, JobFacts DEF JobRow
  <1>6. UNCHANGED <<batch, worker, logs, paused, crashes, faulty>>
    BY DEF Recover
  <1>7. Tried(row, worker[j], Len(logs[j]))
    BY <1>1, <1>3, <1>4, <1>5, JobFacts, Bounds DEF Tried
  <1>8. StatusStep(j)
    <2>1. job'[j] = row
      BY <1>3 DEF QueueInv
    <2> QED
      BY <1>1, <1>3, <1>5, <1>6, <2>1, LogsKept DEF StatusStep, StatusOf
  <1>9. row.state # "NEW"
    BY <1>1, <1>5
  <1> QED
    BY <1>3, <1>5, <1>6, <1>7, <1>8, <1>9, JobMoved

LEMMA CleanQueue ==
  ASSUME MailInv, QueueInv, NEW j \in Jobs, Clean(j)
  PROVE  QueueInv' /\ Promised
  <1>1. PICK row : row = [job[j] EXCEPT !.state = "CLEANED"]
    OBVIOUS
  <1>2. /\ row \in JobRow /\ row.state = "CLEANED"
        /\ row.attemptsMade = job[j].attemptsMade /\ row.stalls = job[j].stalls
    BY <1>1, JobFacts DEF JobRow, JobStates
  <1>3. job' = [job EXCEPT ![j] = row] /\ job[j].state \in {"COMPLETED", "FAILED"}
    BY <1>1 DEF Clean
  <1>4. UNCHANGED <<batch, worker, logs, paused, crashes, faulty>>
    BY DEF Clean
  <1>5. worker[j] = "NONE"
    BY <1>3, JobFacts DEF Tried
  <1>6. Tried(row, worker[j], Len(logs[j]))
    BY <1>2, <1>3, <1>5, JobFacts DEF Tried
  <1>7. StatusStep(j)
    <2>1. job'[j] = row
      BY <1>3 DEF QueueInv
    <2> QED
      BY <1>2, <1>3, <1>4, <2>1, LogsKept DEF StatusStep, StatusOf
  <1> QED
    BY <1>2, <1>3, <1>4, <1>5, <1>6, <1>7, JobMoved

LEMMA FinishQueue ==
  ASSUME MailInv, QueueInv, NEW j \in Jobs, Finish(j)
  PROVE  QueueInv' /\ Promised
  <1>1. PICK state : state = AfterWork(worker[j], job[j].attemptsMade)
    OBVIOUS
  <1>2. PICK row : row = [job[j] EXCEPT !.attemptsMade = @ + 1, !.state = state]
    OBVIOUS
  <1>3. job' = [job EXCEPT ![j] = row] /\ worker[j] \in {"RETURNED", "THROWN"}
    BY <1>1, <1>2 DEF Finish, Ended, QueueInv
  <1>4. job[j].state = "ACTIVE" /\ job[j].attemptsMade < Attempts /\ job[j].stalls <= MaxStalls
    BY <1>3, JobFacts DEF Tried
  <1>5. /\ worker[j] = "RETURNED" => state = "COMPLETED"
        /\ worker[j] = "THROWN" => \/ state = "DELAYED" /\ job[j].attemptsMade + 1 < Attempts
                                   \/ state = "FAILED"
    BY <1>1 DEF AfterWork
  <1>6. /\ row \in JobRow /\ row.state = state
        /\ row.attemptsMade = job[j].attemptsMade + 1 /\ row.stalls = job[j].stalls
    <2>1. job[j].attemptsMade + 1 \in 0 .. Attempts /\ state \in JobStates
      BY <1>3, <1>4, <1>5, JobFacts, Bounds DEF JobStates
    <2> QED
      BY <1>2, <2>1, JobFacts DEF JobRow
  <1>7. UNCHANGED <<batch, logs, paused, crashes, faulty>>
    BY DEF Finish
  <1>8. worker'[j] = "NONE" /\ \A k \in Jobs \ {j} : worker'[k] = worker[k]
    BY DEF Finish, MailInv, LogTypes
  <1>9. Tried(row, "NONE", Len(logs[j]))
    BY <1>3, <1>4, <1>5, <1>6, JobFacts, Bounds DEF Tried
  <1>10. worker[j] = "RETURNED" => CopiesOf(j) > 0
    BY JobFacts, CopiesPositive, CopiesOfLogs DEF MailInv, QueueInv, JobInv
  <1>11. StatusStep(j)
    <2>1. job'[j] = row
      BY <1>3 DEF QueueInv
    <2> QED
      BY <1>3, <1>4, <1>5, <1>6, <1>7, <1>10, <2>1, LogsKept DEF StatusStep, StatusOf
  <1>12. row.state # "NEW"
    BY <1>3, <1>5, <1>6
  <1>13. worker[j] = "RETURNED" => row.state = "COMPLETED"
    BY <1>5, <1>6
  <1> QED
    BY <1>3, <1>4, <1>6, <1>7, <1>8, <1>9, <1>11, <1>12, <1>13, JobMoved

-----------------------------------------------------------------------------
(* The steps that write a log.                                             *)

LEMMA LogStep ==
  ASSUME MailInv, QueueInv, NEW j \in Jobs, NEW i \in DOMAIN logs[j], NEW row \in LogRow,
         logs' = [logs EXCEPT ![j] = [@ EXCEPT ![i] = row]],
         UNCHANGED <<job, batch, paused, crashes>>,
         \A k \in Jobs \ {j} : worker'[k] = worker[k],
         faulty' = faulty \/ faulty' = faulty \cup {j},
         row.copies = logs[j][i].copies \/ row.copies = logs[j][i].copies + 1,
         row.resends <= MaxResends,
         Tried(job[j], worker'[j], Len(logs[j])),
         worker'[j] = "RETURNED" => HasCopy(logs'[j]),
         j \notin faulty' => CopiedOnce(logs'[j], job[j], worker'[j])
  PROVE  QueueInv' /\ Promised
  <1>1. PICK rows, new : rows = logs[j] /\ new = logs'[j]
    OBVIOUS
  <1>2. /\ rows \in Seq(LogRow) /\ i \in DOMAIN rows /\ i \in 1 .. Len(rows)
        /\ rows[i] \in LogRow
    BY <1>1, LogRows DEF MailInv
  <1>3. new = [rows EXCEPT ![i] = row] /\ \A k \in Jobs \ {j} : logs'[k] = logs[k]
    BY <1>1 DEF MailInv, LogTypes
  <1>4. /\ new \in Seq(LogRow) /\ Len(new) = Len(rows) /\ DOMAIN new = DOMAIN rows
        /\ new[i] = row /\ \A k \in DOMAIN rows : k # i => new[k] = rows[k]
    BY <1>2, <1>3, ExceptSeq, LenProperties
  <1>5. CopiesOf(j)' = CopiesOf(j) \/ CopiesOf(j)' = CopiesOf(j) + 1
    <2>1. CopiesOf(j) = SumOf(Column(rows)) /\ CopiesOf(j)' = SumOf(Column(new))
      BY <1>1 DEF CopiesOf, Column
    <2>2. SumOf(Column(new)) = SumOf(Column(rows)) - rows[i].copies + row.copies
      BY <1>2, <1>4, CopiesWritten
    <2>3. SumOf(Column(rows)) \in Nat /\ rows[i].copies \in Nat /\ row.copies \in Nat
      BY <1>2, ColumnNat DEF LogRow
    <2> QED
      BY <1>1, <2>1, <2>2, <2>3
  <1>6. job[j].state # "NEW"
    BY <1>1, <1>2, JobFacts DEF Tried
  <1>7. CopyStep(j)
    <2>1. StatusOf(j)' = StatusOf(j) /\ StatusOf(j) # "NEW"
      BY <1>6, JobFacts DEF StatusOf, JobStates
    <2> QED
      BY <1>5, <2>1 DEF CopyStep
  <1>8. JobInv(j)'
    <2>1. \A k \in DOMAIN new : new[k].resends <= MaxResends
      BY <1>1, <1>4 DEF QueueInv, JobInv
    <2> QED
      BY <1>1, <1>4, <2>1 DEF JobInv
  <1>9. job' \in [Jobs -> JobRow]
    BY DEF QueueInv
  <1> QED
    BY <1>3, <1>7, <1>8, <1>9, JobStep

\* A log is begun at most once in an attempt, or after a stall.
LEMMA CreateLogQueue ==
  ASSUME MailInv, QueueInv, NEW j \in Jobs, CreateLog(j)
  PROVE  QueueInv' /\ Promised
  <1>1. /\ worker[j] = "TAKEN" /\ worker'[j] \in {"LOGGED", "THROWN"}
        /\ \A k \in Jobs \ {j} : worker'[k] = worker[k]
        /\ UNCHANGED <<job, batch, paused, crashes, faulty>>
    BY DEF CreateLog, Work, MailInv, LogTypes
  <1>2. /\ job[j].state = "ACTIVE" /\ job[j].attemptsMade < Attempts /\ job[j].stalls <= MaxStalls
        /\ Len(logs[j]) <= job[j].attemptsMade + job[j].stalls
    BY <1>1, JobFacts DEF Tried
  <1>3. JobInv(j)
    BY DEF QueueInv
  <1>4. StatusOf(j)' = StatusOf(j)
    BY <1>1 DEF StatusOf
  <1>5. job' \in [Jobs -> JobRow]
    BY <1>1 DEF QueueInv
  <1>6. CASE UNCHANGED logs /\ worker'[j] = "THROWN"
    <2>1. Tried(job[j], "THROWN", Len(logs[j]))
      BY <1>2, JobFacts DEF Tried
    <2>2. j \notin faulty => CopiedOnce(logs[j], job[j], "THROWN")
      BY <1>1, <1>3, CopiedOnceKept DEF JobInv
    <2>3. JobInv(j)'
      BY <1>1, <1>3, <1>6, <2>1, <2>2 DEF JobInv
    <2>4. CopyStep(j)
      BY <1>4, <1>6, LogsKept DEF CopyStep
    <2>5. \A k \in Jobs \ {j} : logs'[k] = logs[k] /\ job'[k] = job[k]
      BY <1>1, <1>6
    <2> QED
      BY <1>1, <1>5, <2>3, <2>4, <2>5, JobStep
  <1>7. CASE logs' = [logs EXCEPT ![j] = Append(@, NewLog)] /\ worker'[j] = "LOGGED"
    <2>1. PICK rows, new, n : rows = logs[j] /\ new = logs'[j] /\ n = Len(rows)
      OBVIOUS
    <2>2. rows \in Seq(LogRow) /\ n \in Nat /\ DOMAIN rows = 1 .. n
      BY <2>1, JobFacts
    <2>3. new = Append(rows, NewLog) /\ \A k \in Jobs \ {j} : logs'[k] = logs[k]
      BY <1>7, <2>1 DEF MailInv, LogTypes
    <2>4. NewLog \in LogRow
      BY DEF NewLog, LogRow
    <2>5. /\ new \in Seq(LogRow) /\ Len(new) = n + 1 /\ new[n + 1] = NewLog
          /\ \A i \in 1 .. n : new[i] = rows[i]
      BY <2>1, <2>2, <2>3, <2>4, AppendProperties
    <2>6. DOMAIN new = 1 .. n + 1
      BY <2>5, LenProperties
    <2>7. \A i \in DOMAIN new : (i \in DOMAIN rows /\ new[i] = rows[i]) \/ i = n + 1
      BY <2>2, <2>5, <2>6
    <2>8. Tried(job[j], "LOGGED", n + 1)
      <3>1. n + 1 <= job[j].attemptsMade + job[j].stalls + 1 /\ n + 1 <= Attempts + MaxStalls
        BY <1>2, <2>1, <2>2, JobFacts, Bounds
      <3> QED
        BY <1>2, <3>1 DEF Tried
    <2>9. \A i \in DOMAIN new : new[i].resends <= MaxResends
      BY <1>3, <2>1, <2>5, <2>7, Bounds DEF JobInv, NewLog
    <2>10. ASSUME j \notin faulty
           PROVE  CopiedOnce(new, job[j], "LOGGED")
      <3>1. \A i \in DOMAIN rows : ~(rows[i].copies > 0) /\ rows[i].resends = 0 /\ rows[i].copies <= 1
        BY <1>1, <1>2, <1>3, <2>1, <2>10 DEF JobInv, CopiedOnce
      <3>2. \A i \in DOMAIN new : ~(new[i].copies > 0) /\ new[i].resends = 0 /\ new[i].copies <= 1
        BY <2>5, <2>7, <3>1 DEF NewLog
      <3> QED
        BY <3>2 DEF CopiedOnce
    <2>11. JobInv(j)'
      BY <1>1, <1>7, <2>1, <2>5, <2>8, <2>9, <2>10 DEF JobInv
    <2>12. CopiesOf(j)' = CopiesOf(j)
      <3>1. CopiesOf(j) = SumOf(Column(rows)) /\ CopiesOf(j)' = SumOf(Column(new))
        BY <2>1 DEF CopiesOf, Column
      <3> QED
        BY <2>2, <2>3, <3>1, CopiesAppended
    <2>13. CopyStep(j)
      BY <1>4, <2>12 DEF CopyStep
    <2> QED
      BY <1>1, <1>5, <2>3, <2>11, <2>13, JobStep
  <1> QED
    BY <1>1, <1>6, <1>7 DEF CreateLog, Work, MailInv, LogTypes

LEMMA SendMailQueue ==
  ASSUME MailInv, QueueInv, NEW j \in Jobs, SendMail(j)
  PROVE  QueueInv' /\ Promised
  <1>1. /\ worker[j] = "LOGGED" /\ worker'[j] \in {"ACCEPTED", "THROWN"}
        /\ \A k \in Jobs \ {j} : worker'[k] = worker[k]
        /\ UNCHANGED <<job, batch, paused, crashes>>
    BY DEF SendMail, Work, MailInv, LogTypes
  <1>2. PICK i, log : i = Newest(j) /\ log = logs[j][i]
    OBVIOUS
  <1>3. i \in DOMAIN logs[j] /\ log \in LogRow /\ log.status = "PENDING" /\ log.resends = 0
    BY <1>1, <1>2, NewestLog
  <1>4. job[j].state = "ACTIVE" /\ Tried(job[j], worker'[j], Len(logs[j]))
    BY <1>1, JobFacts DEF Tried
  <1>5. j \notin faulty =>
          \A k \in DOMAIN logs[j] :
            ~(logs[j][k].copies > 0) /\ logs[j][k].resends = 0 /\ logs[j][k].copies <= 1
    BY <1>1, <1>4 DEF QueueInv, JobInv, CopiedOnce
  <1>6. /\ log.copies \in Nat
        /\ j \notin faulty => log.copies = 0
    <2>1. log.copies \in Nat
      BY <1>3 DEF LogRow
    <2> QED
      BY <1>2, <1>3, <1>5, <2>1
  <1>7. ASSUME NEW row \in LogRow, logs' = [logs EXCEPT ![j] = [@ EXCEPT ![i] = row]]
        PROVE  /\ DOMAIN logs'[j] = DOMAIN logs[j] /\ logs'[j][i] = row
               /\ \A k \in DOMAIN logs[j] : k # i => logs'[j][k] = logs[j][k]
    BY <1>3, <1>7 DEF MailInv, LogTypes
  <1>8. CASE /\ Work(j, "LOGGED", "ACCEPTED")
             /\ logs' = [logs EXCEPT ![j][Newest(j)].copies = @ + 1]
             /\ UNCHANGED faulty
    <2>1. PICK row : row = [log EXCEPT !.copies = @ + 1]
      OBVIOUS
    <2>2. /\ row \in LogRow /\ row.copies = log.copies + 1
          /\ row.status = "PENDING" /\ row.resends = 0
      BY <1>3, <2>1 DEF LogRow
    <2>3. logs' = [logs EXCEPT ![j] = [@ EXCEPT ![i] = row]]
      BY <1>2, <1>8, <2>1 DEF MailInv, LogTypes
    <2>4. worker'[j] = "ACCEPTED"
      BY <1>8 DEF Work, MailInv, LogTypes
    <2>5. j \notin faulty' => CopiedOnce(logs'[j], job[j], worker'[j])
      <3>1. PICK rows, new : rows = logs[j] /\ new = logs'[j]
        OBVIOUS
      <3>2. /\ DOMAIN new = DOMAIN rows /\ new[i] = row
            /\ \A k \in DOMAIN rows : k # i => new[k] = rows[k]
        BY <1>7, <2>2, <2>3, <3>1
      <3>3. j \notin faulty' => row.copies = 1 /\ row.copies <= 1
        BY <1>6, <1>8, <2>2
      <3>4. j \notin faulty' =>
              \A k \in DOMAIN rows : k # i =>
                ~(new[k].copies > 0) /\ new[k].resends = 0 /\ new[k].copies <= 1
        BY <1>5, <1>8, <3>1, <3>2
      <3> QED
        BY <2>2, <2>4, <3>1, <3>2, <3>3, <3>4 DEF CopiedOnce
    <2>6. row.copies = logs[j][i].copies + 1 /\ row.resends <= MaxResends
      BY <1>2, <2>2, Bounds
    <2>7. worker'[j] = "RETURNED" => HasCopy(logs'[j])
      BY <2>4
    <2>8. faulty' = faulty
      BY <1>8
    <2> QED
      BY <1>1, <1>3, <1>4, <2>2, <2>3, <2>5, <2>6, <2>7, <2>8, LogStep
  <1>9. CASE Work(j, "LOGGED", "THROWN") /\ Refused(j, Newest(j))
    <2>1. PICK copy \in {0, 1}, status \in {"FAILED", log.status} :
            /\ logs' = [logs EXCEPT ![j][i].copies = @ + copy, ![j][i].status = status]
            /\ faulty' = IF copy = 0 THEN faulty ELSE faulty \cup {j}
      BY <1>2, <1>9 DEF Refused, StatusAfter
    <2>2. PICK row : row = [log EXCEPT !.copies = @ + copy, !.status = status]
      OBVIOUS
    <2>3. row \in LogRow /\ row.copies = log.copies + copy /\ row.resends = 0
      <3>1. PICK n \in Nat : n = log.copies + copy
        BY <1>6, <2>1
      <3>2. row = [log EXCEPT !.copies = n, !.status = status]
        BY <2>2, <3>1
      <3> QED
        BY <1>3, <2>1, <3>1, <3>2 DEF LogRow
    <2>4. logs' = [logs EXCEPT ![j] = [@ EXCEPT ![i] = row]]
      BY <1>2, <2>1, <2>2 DEF MailInv, LogTypes
    <2>5. worker'[j] = "THROWN"
      BY <1>9 DEF Work, MailInv, LogTypes
    <2>6. /\ row.copies = logs[j][i].copies \/ row.copies = logs[j][i].copies + 1
          /\ row.resends <= MaxResends
      BY <1>2, <1>6, <2>1, <2>3, Bounds
    <2>7. faulty' = faulty \/ faulty' = faulty \cup {j}
      BY <2>1
    <2>8. j \notin faulty' => CopiedOnce(logs'[j], job[j], worker'[j])
      <3>1. j \notin faulty' => j \notin faulty /\ copy = 0
        BY <2>1
      <3>2. j \notin faulty' => row.copies = 0
        BY <1>6, <2>3, <3>1
      <3> QED
        BY <1>5, <1>7, <2>3, <2>4, <3>1, <3>2 DEF CopiedOnce
    <2>9. worker'[j] = "RETURNED" => HasCopy(logs'[j])
      BY <2>5
    <2> QED
      BY <1>1, <1>3, <1>4, <2>3, <2>4, <2>6, <2>7, <2>8, <2>9, LogStep
  <1> QED
    BY <1>8, <1>9 DEF SendMail

LEMMA LogSentQueue ==
  ASSUME MailInv, QueueInv, NEW j \in Jobs, LogSent(j)
  PROVE  QueueInv' /\ Promised
  <1>1. /\ worker[j] = "ACCEPTED" /\ worker'[j] = "RETURNED"
        /\ \A k \in Jobs \ {j} : worker'[k] = worker[k]
        /\ UNCHANGED <<job, batch, paused, crashes, faulty>>
    BY DEF LogSent, Work, MailInv, LogTypes
  <1>2. PICK i, log : i = Newest(j) /\ log = logs[j][i]
    OBVIOUS
  <1>3. /\ i \in DOMAIN logs[j] /\ log \in LogRow
        /\ log.status = "PENDING" /\ log.resends = 0 /\ log.copies > 0
    BY <1>1, <1>2, NewestLog
  <1>4. PICK row : row = [log EXCEPT !.status = "SENT"]
    OBVIOUS
  <1>5. /\ row \in LogRow /\ row.status = "SENT"
        /\ row.copies = log.copies /\ row.resends = 0
    BY <1>3, <1>4 DEF LogRow
  <1>6. logs' = [logs EXCEPT ![j] = [@ EXCEPT ![i] = row]]
    BY <1>2, <1>4 DEF LogSent, StatusAfter, MailInv, LogTypes
  <1>7. /\ DOMAIN logs'[j] = DOMAIN logs[j] /\ logs'[j][i] = row
        /\ \A k \in DOMAIN logs[j] : k # i => logs'[j][k] = logs[j][k]
    BY <1>3, <1>6 DEF MailInv, LogTypes
  <1>8. HasCopy(logs'[j])
    BY <1>3, <1>5, <1>7 DEF HasCopy
  <1>9. j \notin faulty => CopiedOnce(logs'[j], job[j], worker'[j])
    <2>1. j \notin faulty => CopiedOnce(logs[j], job[j], worker[j])
      BY DEF QueueInv, JobInv
    <2> QED
      BY <1>1, <1>2, <1>3, <1>5, <1>7, <2>1 DEF CopiedOnce
  <1>10. Tried(job[j], worker'[j], Len(logs[j]))
    BY <1>1, JobFacts DEF Tried
  <1>11. row.copies = logs[j][i].copies /\ row.resends <= MaxResends
    BY <1>2, <1>5, Bounds
  <1>12. j \notin faulty' => CopiedOnce(logs'[j], job[j], worker'[j])
    BY <1>1, <1>9
  <1> QED
    BY <1>1, <1>3, <1>5, <1>6, <1>8, <1>10, <1>11, <1>12, LogStep

-----------------------------------------------------------------------------
(* Officers and crashes.                                                   *)

\* The requests on one log are some of all.
LEMMA ResendingBounds ==
  ASSUME MailInv, NEW j \in Jobs, NEW i \in DOMAIN logs[j]
  PROVE  logs[j][i].resends <= Resending /\ Resending \in Nat
  <1>1. PICK of : of = [k \in Jobs |-> SumOf([m \in DOMAIN logs[k] |-> logs[k][m].resends])]
    OBVIOUS
  <1>2. ASSUME NEW k \in Jobs
        PROVE  /\ [m \in DOMAIN logs[k] |-> logs[k][m].resends] \in [DOMAIN logs[k] -> Nat]
               /\ IsFiniteSet(DOMAIN logs[k])
               /\ of[k] \in Nat
    <2>1. PICK rows : rows = logs[k]
      OBVIOUS
    <2>2. rows \in Seq(LogRow)
      BY <2>1, LogRows DEF MailInv
    <2>3. IsFiniteSet(DOMAIN rows) /\ \A m \in DOMAIN rows : rows[m] \in LogRow
      BY <2>2, ColumnNat
    <2>4. [m \in DOMAIN rows |-> rows[m].resends] \in [DOMAIN rows -> Nat]
      BY <2>3 DEF LogRow
    <2>5. SumOf([m \in DOMAIN rows |-> rows[m].resends]) \in Nat
      BY <2>3, <2>4, SumOfNat
    <2> QED
      BY <1>1, <2>1, <2>3, <2>4, <2>5
  <1>3. PICK S, f : S = DOMAIN logs[j] /\ f = [m \in DOMAIN logs[j] |-> logs[j][m].resends]
    OBVIOUS
  <1>4. IsFiniteSet(S) /\ f \in [S -> Nat] /\ i \in S /\ f[i] = logs[j][i].resends
    BY <1>2, <1>3
  <1>5. f[i] <= SumOf(f)
    BY <1>4, SumOfBounds
  <1>6. of[j] = SumOf(f)
    BY <1>1, <1>3
  <1>7. of \in [Jobs -> Nat] /\ IsFiniteSet(Jobs)
    BY <1>1, <1>2, FS_Interval, Bounds DEF Jobs
  <1>8. of[j] <= SumOf(of) /\ SumOf(of) \in Nat
    BY <1>7, SumOfBounds, SumOfNat
  <1>9. f[i] \in Nat /\ of[j] \in Nat
    BY <1>2, <1>4
  <1> QED
    BY <1>1, <1>4, <1>5, <1>6, <1>8, <1>9 DEF Resending

LEMMA BeginResendQueue ==
  ASSUME MailInv, QueueInv, NEW j \in Jobs, NEW i, BeginResend(j, i)
  PROVE  QueueInv' /\ Promised
  <1>1. PICK log : log = logs[j][i]
    OBVIOUS
  <1>2. i \in DOMAIN logs[j] /\ log \in LogRow
    BY <1>1, LogRows DEF BeginResend, MailInv
  <1>3. PICK row : row = [log EXCEPT !.resends = @ + 1]
    OBVIOUS
  <1>4. row \in LogRow /\ row.copies = log.copies /\ row.resends = log.resends + 1
    BY <1>2, <1>3 DEF LogRow
  <1>5. logs' = [logs EXCEPT ![j] = [@ EXCEPT ![i] = row]]
    BY <1>1, <1>3 DEF BeginResend, MailInv, LogTypes
  <1>6. UNCHANGED <<job, batch, worker, paused, crashes>> /\ faulty' = faulty \cup {j}
    BY DEF BeginResend
  <1>7. row.copies = logs[j][i].copies /\ row.resends <= MaxResends
    <2>1. /\ log.resends <= Resending /\ Resending \in Nat
          /\ Resending < MaxResends /\ log.resends \in Nat
      BY <1>1, <1>2, ResendingBounds DEF BeginResend, LogRow
    <2> QED
      BY <1>1, <1>4, <2>1, Bounds
  <1>8. /\ DOMAIN logs'[j] = DOMAIN logs[j] /\ logs'[j][i] = row
        /\ \A k \in DOMAIN logs[j] : k # i => logs'[j][k] = logs[j][k]
    BY <1>2, <1>5 DEF MailInv, LogTypes
  <1>9. worker'[j] = "RETURNED" => HasCopy(logs'[j])
    <2>1. worker[j] = "RETURNED" => HasCopy(logs[j])
      BY DEF QueueInv, JobInv
    <2> QED
      BY <1>6, <1>7, <1>8, <2>1 DEF HasCopy
  <1>10. Tried(job[j], worker'[j], Len(logs[j]))
    BY <1>6, JobFacts
  <1>11. \A k \in Jobs \ {j} : worker'[k] = worker[k]
    BY <1>6
  <1>12. j \notin faulty' => CopiedOnce(logs'[j], job[j], worker'[j])
    BY <1>6
  <1> QED
    BY <1>2, <1>4, <1>5, <1>6, <1>7, <1>9, <1>10, <1>11, <1>12, LogStep

LEMMA ResendQueue ==
  ASSUME MailInv, QueueInv, NEW j \in Jobs, NEW i, Resend(j, i)
  PROVE  QueueInv' /\ Promised
  <1>1. PICK log : log = logs[j][i]
    OBVIOUS
  <1>2. i \in DOMAIN logs[j] /\ log \in LogRow /\ log.resends > 0 /\ log.resends <= MaxResends
    BY <1>1, LogRows DEF Resend, MailInv, QueueInv, JobInv
  <1>3. PICK copy \in {0, 1} :
          \E status \in {log.status, StatusAfter(FALSE), StatusAfter(copy = 1)} :
            logs' = [logs EXCEPT ![j][i] = [status |-> status, copies |-> @.copies + copy,
                                            resends |-> @.resends - 1]]
    BY <1>1 DEF Resend
  <1>4. PICK status \in {log.status, StatusAfter(FALSE), StatusAfter(copy = 1)} :
           logs' = [logs EXCEPT ![j][i] = [status |-> status, copies |-> @.copies + copy,
                                           resends |-> @.resends - 1]]
    BY <1>3
  <1>5. PICK row : row = [status |-> status, copies |-> log.copies + copy,
                          resends |-> log.resends - 1]
    OBVIOUS
  <1>6. /\ log.copies \in Nat /\ log.resends \in Nat
        /\ status \in {"PENDING", "SENT", "FAILED"}
    BY <1>2, <1>4 DEF LogRow, StatusAfter
  <1>7. /\ row \in LogRow
        /\ row.copies = log.copies + copy /\ row.resends = log.resends - 1
    BY <1>2, <1>3, <1>5, <1>6 DEF LogRow
  <1>8. logs' = [logs EXCEPT ![j] = [@ EXCEPT ![i] = row]]
    BY <1>1, <1>4, <1>5 DEF MailInv, LogTypes
  <1>9. UNCHANGED <<job, batch, worker, paused, crashes, faulty>>
    BY DEF Resend
  <1>10. /\ row.copies = logs[j][i].copies \/ row.copies = logs[j][i].copies + 1
        /\ row.resends <= MaxResends
    BY <1>1, <1>2, <1>3, <1>6, <1>7, Bounds
  <1>11. /\ DOMAIN logs'[j] = DOMAIN logs[j] /\ logs'[j][i] = row
         /\ \A k \in DOMAIN logs[j] : k # i => logs'[j][k] = logs[j][k]
    BY <1>2, <1>8 DEF MailInv, LogTypes
  <1>12. worker'[j] = "RETURNED" => HasCopy(logs'[j])
    <2>1. ASSUME worker'[j] = "RETURNED"
          PROVE  HasCopy(logs'[j])
      <3>1. PICK k \in DOMAIN logs[j] : logs[j][k].copies > 0
        BY <1>9, <2>1 DEF QueueInv, JobInv, HasCopy
      <3>2. CASE k = i
        <4>1. row.copies > 0
          BY <1>1, <1>6, <1>10, <3>1, <3>2
        <4> QED
          BY <1>2, <1>11, <4>1 DEF HasCopy
      <3>3. CASE k # i
        BY <1>11, <3>1, <3>3 DEF HasCopy
      <3> QED
        BY <3>2, <3>3
    <2> QED
      BY <2>1
  <1>13. j \in faulty
    BY <1>1, <1>2 DEF QueueInv, JobInv, CopiedOnce
  <1>14. Tried(job[j], worker'[j], Len(logs[j]))
    BY <1>9, JobFacts
  <1>15. \A k \in Jobs \ {j} : worker'[k] = worker[k]
    BY <1>9
  <1>16. j \notin faulty' => CopiedOnce(logs'[j], job[j], worker'[j])
    BY <1>9, <1>13
  <1> QED
    BY <1>2, <1>7, <1>8, <1>9, <1>10, <1>12, <1>14, <1>15, <1>16, LogStep

LEMMA NothingDelivered ==
  ASSUME \A j \in Jobs : StatusOf(j)' = StatusOf(j) /\ CopiesOf(j)' = CopiesOf(j)
  PROVE  Promised
  BY DEF Promised

\* The jobs and the copies outlive the server, their workers do not.
LEMMA CrashQueue ==
  ASSUME MailInv, QueueInv, Crash
  PROVE  QueueInv' /\ Promised
  <1>1. /\ worker' = [j \in Jobs |-> "NONE"]
        /\ logs' = [j \in Jobs |-> [i \in DOMAIN logs[j] |-> [logs[j][i] EXCEPT !.resends = 0]]]
        /\ faulty' = faulty \cup {j \in Jobs : worker[j] # "NONE"}
        /\ batch' = NoBatch /\ crashes < MaxCrashes /\ crashes' = crashes + 1
        /\ UNCHANGED <<job, paused>>
    BY DEF Crash
  <1>2. ASSUME NEW j \in Jobs
        PROVE  /\ Len(logs'[j]) = Len(logs[j])
               /\ DOMAIN logs'[j] = DOMAIN logs[j]
               /\ \A i \in DOMAIN logs[j] : /\ logs'[j][i].status = logs[j][i].status
                                            /\ logs'[j][i].copies = logs[j][i].copies
                                            /\ logs'[j][i].resends = 0
    <2>1. /\ Len(logs[j]) \in Nat /\ DOMAIN logs[j] = 1 .. Len(logs[j])
          /\ \A i \in DOMAIN logs[j] : logs[j][i] \in LogRow
      BY LogRows DEF MailInv
    <2>2. logs'[j] = [i \in 1 .. Len(logs[j]) |-> [logs[j][i] EXCEPT !.resends = 0]]
      BY <1>1, <2>1
    <2>3. \A i \in 1 .. Len(logs[j]) :
            LET row == [logs[j][i] EXCEPT !.resends = 0]
            IN  /\ row \in LogRow /\ row.status = logs[j][i].status
                /\ row.copies = logs[j][i].copies /\ row.resends = 0
      BY <2>1 DEF LogRow
    <2>4. logs'[j] \in Seq(LogRow)
      BY <2>1, <2>2, <2>3, IsASeq
    <2>5. DOMAIN logs'[j] = 1 .. Len(logs[j])
      BY <2>2
    <2>6. Len(logs'[j]) = Len(logs[j])
      BY <2>1, <2>4, <2>5, LenProperties
    <2> QED
      BY <2>1, <2>2, <2>3, <2>5, <2>6
  <1>3. ASSUME NEW j \in Jobs
        PROVE  JobInv(j)'
    <2>1. JobInv(j)
      BY DEF QueueInv
    <2>2. worker'[j] = "NONE"
      BY <1>1
    <2>3. Tried(job[j], "NONE", Len(logs[j]))
      BY <2>1 DEF JobInv, Tried
    <2>4. j \notin faulty' => CopiedOnce(logs[j], job[j], "NONE")
      BY <1>1, <2>1 DEF JobInv
    <2>5. j \notin faulty' => CopiedOnce(logs'[j], job[j], "NONE")
      BY <1>2, <2>4 DEF CopiedOnce
    <2>6. \A i \in DOMAIN logs'[j] : logs'[j][i].resends <= MaxResends
      BY <1>2, Bounds
    <2> QED
      BY <1>1, <1>2, <2>2, <2>3, <2>5, <2>6 DEF JobInv
  <1>4. BatchInv'
    BY <1>1, Bounds DEF QueueInv, BatchInv, NoBatch
  <1>5. QueueInv'
    <2>1. crashes' \in 0 .. MaxCrashes
      BY <1>1, Bounds DEF QueueInv
    <2>2. faulty' \subseteq Jobs
      BY <1>1 DEF QueueInv
    <2> QED
      BY <1>1, <1>3, <1>4, <2>1, <2>2 DEF QueueInv
  <1>6. ASSUME NEW j \in Jobs
        PROVE  StatusOf(j)' = StatusOf(j) /\ CopiesOf(j)' = CopiesOf(j)
    <2>1. [i \in DOMAIN logs'[j] |-> logs'[j][i].copies] = [i \in DOMAIN logs[j] |-> logs[j][i].copies]
      BY <1>2
    <2> QED
      BY <1>1, <2>1 DEF StatusOf, CopiesOf
  <1> QED
    BY <1>5, <1>6, NothingDelivered

-----------------------------------------------------------------------------
(* Batches.                                                                *)

\* The jobs that are still to be added are the last ones.
LEMMA NewJobs ==
  ASSUME QueueInv, NEW new, new = {j \in Jobs : job[j].state = "NEW"}, new # {}
  PROVE  /\ Min(new) \in new
         /\ \A j \in new : Min(new) <= j
         /\ Cardinality(new) = MaxJobs - Min(new) + 1
  <1>1. new \subseteq Nat /\ new \subseteq Jobs
    BY DEF Jobs
  <1>2. PICK m \in new : \A k \in new : <<k, m>> \notin OpToRel(<, Nat)
    BY <1>1, NatLessThanWellFounded, WFMin
  <1>3. \A k \in new : ~(k < m)
    BY <1>1, <1>2 DEF OpToRel
  <1>4. m \in Nat /\ \A k \in new : m <= k
    BY <1>1, <1>3
  <1>5. Min(new) \in new /\ \A k \in new : Min(new) <= k
    BY <1>4 DEF Min
  <1>6. PICK least : least = Min(new)
    OBVIOUS
  <1>7. least \in new /\ least \in Nat /\ \A k \in new : least <= k
    BY <1>1, <1>5, <1>6
  <1>8. new = least .. MaxJobs
    <2>1. ASSUME NEW j \in new
          PROVE  j \in least .. MaxJobs
      BY <1>1, <1>7, <2>1, Bounds DEF Jobs
    <2>2. ASSUME NEW j \in least .. MaxJobs
          PROVE  j \in new
      BY <1>1, <1>7, <2>2, Bounds DEF QueueInv, BatchInv, Jobs
    <2> QED
      BY <2>1, <2>2
  <1>9. least <= MaxJobs
    BY <1>1, <1>7, Bounds DEF Jobs
  <1>10. Cardinality(least .. MaxJobs) = MaxJobs - least + 1
    BY <1>7, <1>9, FS_Interval, Bounds
  <1> QED
    BY <1>5, <1>6, <1>8, <1>10

\* Steps that leave the jobs, their workers and their logs alone.
LEMMA JobsUntouched ==
  ASSUME QueueInv, UNCHANGED <<job, worker, logs, crashes, faulty>>, BatchInv', paused' \in BOOLEAN
  PROVE  QueueInv' /\ Promised
  <1>1. \A j \in Jobs : JobInv(j)'
    BY DEF QueueInv, JobInv
  <1>2. QueueInv'
    BY <1>1 DEF QueueInv
  <1>3. \A j \in Jobs : StatusOf(j)' = StatusOf(j) /\ CopiesOf(j)' = CopiesOf(j)
    BY DEF StatusOf, CopiesOf
  <1> QED
    BY <1>2, <1>3, NothingDelivered

LEMMA BeginBatchQueue ==
  ASSUME QueueInv, NEW n \in 1 .. MaxBatch, BeginBatch(n)
  PROVE  QueueInv' /\ Promised
  <1>1. PICK new : new = {j \in Jobs : job[j].state = "NEW"}
    OBVIOUS
  <1>2. PICK m : m = Min(new)
    OBVIOUS
  <1>3. /\ n <= Cardinality(new)
        /\ batch' = [first |-> m, next |-> m, last |-> m + n - 1]
        /\ UNCHANGED <<job, worker, logs, paused, crashes, faulty>>
    BY <1>1, <1>2 DEF BeginBatch
  <1>4. n \in Nat /\ n >= 1
    BY MailAssumption
  <1>5. new # {}
    BY <1>3, <1>4, FS_EmptySet
  <1>6. m \in new /\ (\A j \in new : m <= j) /\ n <= MaxJobs - m + 1
    BY <1>1, <1>2, <1>3, <1>5, NewJobs
  <1>7. m \in Jobs /\ m \in 1 .. MaxJobs /\ m + n - 1 \in 1 .. MaxJobs /\ m <= m + n - 1
    <2>1. m \in Jobs
      BY <1>1, <1>6
    <2>2. m \in Nat /\ m >= 1 /\ m <= MaxJobs
      BY <2>1, Bounds DEF Jobs
    <2> QED
      BY <1>4, <1>6, <2>1, <2>2, Bounds
  <1>8. batch' \in [first : 0 .. MaxJobs, next : 0 .. MaxJobs, last : 0 .. MaxJobs]
    BY <1>3, <1>7, Bounds
  <1>9. job[m].state = "NEW" /\ \A i \in Jobs : i < m => job[i].state # "NEW"
    <2>1. \A i \in Jobs : i \in Int
      BY DEF Jobs
    <2> QED
      BY <1>1, <1>6, <1>7, <2>1
  <1>10. BatchInv'
    BY <1>3, <1>7, <1>8, <1>9 DEF QueueInv, BatchInv
  <1>11. paused' \in BOOLEAN
    BY <1>3 DEF QueueInv
  <1> QED
    BY <1>3, <1>10, <1>11, JobsUntouched

LEMMA AddToQueueQueue ==
  ASSUME MailInv, QueueInv, AddToQueue
  PROVE  QueueInv' /\ Promised
  <1>1. PICK j, last : j = batch.next /\ last = batch.last
    OBVIOUS
  <1>2. /\ j \in Jobs /\ j <= last /\ last \in 0 .. MaxJobs
        /\ job[j].state = "NEW" /\ \A i \in Jobs : i < j => job[i].state # "NEW"
    BY <1>1 DEF AddToQueue, QueueInv, BatchInv
  <1>3. PICK state \in {"WAITING", "DELAYED"} : job' = [job EXCEPT ![j].state = state]
    BY <1>1 DEF AddToQueue
  <1>4. PICK row : row = [job[j] EXCEPT !.state = state]
    OBVIOUS
  <1>5. /\ row \in JobRow /\ row.state = state
        /\ row.attemptsMade = job[j].attemptsMade /\ row.stalls = job[j].stalls
    BY <1>2, <1>3, <1>4, JobFacts DEF JobRow, JobStates
  <1>6. /\ job' \in [Jobs -> JobRow] /\ job'[j] = row
        /\ \A k \in Jobs \ {j} : job'[k] = job[k]
    <2>1. job' = [job EXCEPT ![j] = row]
      BY <1>3, <1>4
    <2> QED
      BY <1>2, <1>5, <2>1 DEF QueueInv
  <1>7. UNCHANGED <<worker, logs, paused, crashes, faulty>>
    BY DEF AddToQueue
  <1>8. worker[j] = "NONE" /\ Tried(row, worker[j], Len(logs[j]))
    BY <1>2, <1>3, <1>5, JobFacts, Bounds DEF Tried
  <1>9. JobInv(j)'
    <2>1. JobInv(j)
      BY <1>2 DEF QueueInv
    <2>2. j \notin faulty => CopiedOnce(logs[j], row, worker[j])
      BY <1>2, <1>8, <2>1, CopiedOnceKept DEF JobInv
    <2> QED
      BY <1>6, <1>7, <1>8, <2>1, <2>2 DEF JobInv
  <1>10. StatusStep(j)
    BY <1>2, <1>3, <1>5, <1>6, <1>7, LogsKept DEF StatusStep, StatusOf
  <1>11. \A i \in Jobs : i \in Nat
    BY DEF Jobs
  <1>12. \A i, k \in Jobs : i <= k /\ job'[i].state = "NEW" => job'[k].state = "NEW"
    <2>1. SUFFICES ASSUME NEW i \in Jobs, NEW k \in Jobs, i <= k, job'[i].state = "NEW"
                   PROVE  job'[k].state = "NEW"
      OBVIOUS
    <2>2. i # j
      BY <1>3, <1>5, <1>6, <2>1
    <2>3. job[i].state = "NEW" /\ ~(i < j)
      BY <1>2, <1>6, <2>1, <2>2
    <2>4. k # j
      BY <1>2, <1>11, <2>1, <2>2, <2>3
    <2>5. job[k].state = "NEW"
      BY <2>1, <2>3 DEF QueueInv, BatchInv
    <2> QED
      BY <1>6, <2>4, <2>5
  <1>13. BatchInv'
    <2>1. CASE j = last
      <3>1. batch' = NoBatch
        BY <1>1, <2>1 DEF AddToQueue
      <3> QED
        BY <1>12, <3>1, Bounds DEF BatchInv, NoBatch
    <2>2. CASE j # last
      <3>1. batch' = [batch EXCEPT !.next = j + 1]
        BY <1>1, <2>2 DEF AddToQueue
      <3>2. j + 1 \in Jobs /\ j + 1 <= last /\ j + 1 \in 0 .. MaxJobs /\ j \in Nat
        BY <1>2, <1>11, <2>2, Bounds DEF Jobs
      <3>3. /\ batch' \in [first : 0 .. MaxJobs, next : 0 .. MaxJobs, last : 0 .. MaxJobs]
            /\ batch'.next = j + 1 /\ batch'.last = last
        BY <1>1, <3>1, <3>2 DEF QueueInv, BatchInv
      <3>4. job[j + 1].state = "NEW"
        BY <1>2, <3>2 DEF QueueInv, BatchInv
      <3>5. job'[j + 1].state = "NEW"
        BY <1>6, <3>2, <3>4
      <3>6. \A i \in Jobs : i < j + 1 => job'[i].state # "NEW"
        <4>1. \A i \in Jobs : i < j + 1 => i = j \/ i < j
          BY <1>11, <3>2
        <4> QED
          BY <1>2, <1>3, <1>5, <1>6, <4>1
      <3> QED
        BY <1>12, <3>2, <3>3, <3>5, <3>6 DEF BatchInv
    <2> QED
      BY <2>1, <2>2
  <1> QED
    BY <1>2, <1>6, <1>7, <1>9, <1>10, <1>13, JobChanged

-----------------------------------------------------------------------------
(* The invariant of the queue and the promise of MailDelivery.             *)

LEMMA InitQueue == MailInit => QueueInv /\ Delivery!Init
  <1> SUFFICES ASSUME MailInit
               PROVE  QueueInv /\ Delivery!Init
    OBVIOUS
  <1>1. job \in [Jobs -> JobRow]
    BY Bounds DEF MailInit, JobRow, JobStates
  <1>2. ASSUME NEW j \in Jobs
        PROVE  /\ job[j].state = "NEW" /\ job[j].attemptsMade = 0 /\ job[j].stalls = 0
               /\ worker[j] = "NONE" /\ logs[j] = <<>>
               /\ DOMAIN logs[j] = {} /\ Len(logs[j]) = 0
    BY DEF MailInit
  <1>3. ASSUME NEW j \in Jobs
        PROVE  JobInv(j)
    <2>1. Tried(job[j], worker[j], Len(logs[j]))
      <3>1. PICK row, step, n : row = job[j] /\ step = worker[j] /\ n = Len(logs[j])
        OBVIOUS
      <3>2. /\ row.state = "NEW" /\ row.attemptsMade = 0 /\ row.stalls = 0
            /\ step = "NONE" /\ n = 0
        BY <1>2, <3>1
      <3>3. 0 <= Attempts + MaxStalls
        BY Bounds
      <3>4. Tried(row, step, n)
        BY <3>2, <3>3 DEF Tried
      <3> QED
        BY <3>1, <3>4
    <2>2. CopiedOnce(logs[j], job[j], worker[j])
      BY <1>2 DEF CopiedOnce
    <2> QED
      BY <1>2, <2>1, <2>2 DEF JobInv
  <1>4. BatchInv
    BY <1>2, Bounds DEF MailInit, BatchInv, NoBatch
  <1>5. QueueInv
    <2>1. paused \in BOOLEAN /\ crashes \in 0 .. MaxCrashes /\ faulty \subseteq Jobs
      <3>1. paused = FALSE /\ crashes = 0 /\ faulty = {}
        BY DEF MailInit
      <3>2. 0 \in 0 .. MaxCrashes
        BY Bounds
      <3> QED
        BY <3>1, <3>2
    <2> QED
      BY <1>1, <1>3, <1>4, <2>1 DEF QueueInv
  <1>6. ASSUME NEW j \in Jobs
        PROVE  StatusOf(j) = "NEW" /\ CopiesOf(j) = 0
    <2>1. StatusOf(j) = "NEW"
      BY <1>2 DEF StatusOf
    <2>2. PICK rows : rows = logs[j]
      OBVIOUS
    <2>3. DOMAIN Column(rows) = {} /\ CopiesOf(j) = SumOf(Column(rows))
      BY <1>2, <2>2 DEF Column, CopiesOf
    <2>4. SumOf(Column(rows)) = 0
      BY <2>3, FS_EmptySet, SumOfZeros
    <2> QED
      BY <2>1, <2>3, <2>4
  <1>7. Delivery!Init
    BY <1>6 DEF Delivery!Init
  <1> QED
    BY <1>5, <1>7

LEMMA StepQueue == MailInv /\ QueueInv /\ [MailNext]_mailVars => QueueInv' /\ Promised
  <1> SUFFICES ASSUME MailInv, QueueInv, [MailNext]_mailVars
               PROVE  QueueInv' /\ Promised
    OBVIOUS
  <1>1. ASSUME NEW n \in 1 .. MaxBatch, BeginBatch(n)
        PROVE  QueueInv' /\ Promised
    BY <1>1, BeginBatchQueue
  <1>2. CASE AddToQueue
    BY <1>2, AddToQueueQueue
  <1>3. CASE AddFails
    <2>1. BatchInv'
      BY <1>3, Bounds DEF AddFails, QueueInv, BatchInv, NoBatch
    <2>2. paused' \in BOOLEAN /\ UNCHANGED <<job, worker, logs, crashes, faulty>>
      BY <1>3 DEF AddFails, QueueInv
    <2> QED
      BY <2>1, <2>2, JobsUntouched
  <1>4. ASSUME NEW j \in Jobs, Promote(j) \/ Take(j) \/ Recover(j) \/ Worker(j) \/ Clean(j)
        PROVE  QueueInv' /\ Promised
    BY <1>4, PromoteQueue, TakeQueue, RecoverQueue, CleanQueue,
       CreateLogQueue, SendMailQueue, LogSentQueue, FinishQueue DEF Worker
  <1>5. ASSUME NEW j \in Jobs, NEW i, BeginResend(j, i) \/ Resend(j, i)
        PROVE  QueueInv' /\ Promised
    BY <1>5, BeginResendQueue, ResendQueue
  <1>6. CASE Pause(TRUE) \/ Pause(FALSE) \/ UNCHANGED mailVars
    <2>1. UNCHANGED <<job, batch, worker, logs, crashes, faulty>> /\ paused' \in BOOLEAN
      BY <1>6 DEF Pause, mailVars, QueueInv
    <2>2. BatchInv'
      BY <2>1 DEF QueueInv, BatchInv
    <2> QED
      BY <2>1, <2>2, JobsUntouched
  <1>7. CASE Crash
    BY <1>7, CrashQueue
  <1> QED
    BY <1>1, <1>2, <1>3, <1>4, <1>5, <1>6, <1>7 DEF MailNext

\* Both invariants together are inductive.
LEMMA QueueInvariant == MailSpec => [](MailInv /\ QueueInv)
  <1>1. MailInit => MailInv /\ QueueInv
    BY InitMailInv, InitQueue
  <1>2. MailInv /\ QueueInv /\ [MailNext]_mailVars => MailInv' /\ QueueInv'
    BY StepMailInv, StepQueue
  <1> QED
    BY <1>1, <1>2, PTL DEF MailSpec

\* No job is begun, and logged, more often than it is tried and given back,
\* and no more requests resend a log than officers made.
THEOREM QueueTypes == MailSpec => []MailTypeOK
  <1>1. ASSUME MailInv, QueueInv
        PROVE  MailTypeOK
    <2>1. job \in [Jobs -> [state : JobStates, attemptsMade : 0 .. Attempts,
                            stalls : 0 .. MaxStalls + 1]]
      BY <1>1 DEF QueueInv, JobRow
    <2>2. ASSUME NEW j \in Jobs
          PROVE  logs[j] \in Seq(Log) /\ Len(logs[j]) <= Attempts + MaxStalls
      <3>1. PICK rows, n : rows = logs[j] /\ n = Len(rows)
        OBVIOUS
      <3>2. rows \in Seq(LogRow) /\ n \in Nat
        BY <1>1, <3>1, JobFacts
      <3>3. rows \in [1 .. n -> LogRow]
        BY <3>1, <3>2, LenProperties
      <3>4. \A i \in 1 .. n : rows[i] \in LogRow /\ rows[i].resends <= MaxResends
        BY <1>1, <3>1, <3>3 DEF QueueInv, JobInv
      <3>5. \A i \in 1 .. n : rows[i] \in Log
        BY <3>4, Bounds DEF LogRow, Log
      <3>6. rows \in [1 .. n -> Log]
        BY <3>3, <3>5
      <3>7. rows \in Seq(Log)
        BY <3>2, <3>6
      <3> QED
        BY <1>1, <3>1, <3>7, JobFacts DEF Tried
    <2> QED
      BY <1>1, <2>1, <2>2 DEF MailTypeOK, MailInv, LogTypes, QueueInv, BatchInv
  <1> QED
    BY <1>1, QueueInvariant, PTL

\* The log tells what happened to the mail, and without a crash in an attempt,
\* a lost answer or an officer no mail goes out twice, however often it is
\* tried.
THEOREM CopiesStayKnown == MailSpec => []CopiesAreKnown
  <1>1. ASSUME MailInv, QueueInv
        PROVE  CopiesAreKnown
    <2>1. LogsAreTrue
      <3>1. ASSUME NEW j \in Jobs, NEW i \in DOMAIN logs[j]
            PROVE  /\ logs[j][i].status = "SENT" => logs[j][i].copies > 0
                   /\ logs[j][i].status = "FAILED" /\ j \notin faulty => logs[j][i].copies = 0
        <4>1. logs[j][i].copies \in Nat
          BY <1>1, LogRows DEF MailInv, LogRow
        <4>2. logs[j][i].status = "SENT" => logs[j][i].copies > 0
          BY <1>1 DEF MailInv, LogInv, SentWentOut
        <4>3. j \notin faulty /\ logs[j][i].copies > 0 => logs[j][i].status # "FAILED"
          BY <1>1 DEF QueueInv, JobInv, CopiedOnce
        <4> QED
          BY <4>1, <4>2, <4>3
      <3> QED
        BY <3>1 DEF LogsAreTrue
    <2>2. SingleCopy
      <3>1. ASSUME NEW j \in Jobs \ faulty
            PROVE  CopiesOf(j) <= 1
        <4>1. CopiedOnce(logs[j], job[j], worker[j])
          BY <1>1 DEF QueueInv, JobInv
        <4>2. logs[j] \in Seq(LogRow)
          BY <1>1, LogRows DEF MailInv
        <4>3. CopiesOf(j) = SumOf(Column(logs[j]))
          BY DEF CopiesOf, Column
        <4> QED
          BY <4>1, <4>2, <4>3, CopiesOnce
      <3> QED
        BY <3>1 DEF SingleCopy
    <2> QED
      BY <2>1, <2>2 DEF CopiesAreKnown
  <1> QED
    BY <1>1, QueueInvariant, PTL

\* The queue implements MailDelivery: a mail goes out only after it was
\* queued, is completed only when it went out, and stays settled.
THEOREM QueueDelivers == MailSpec => Delivers
  <1>1. MailInit => Delivery!Init
    BY InitQueue
  <1>2. MailInv /\ QueueInv /\ [MailNext]_mailVars =>
          [Delivery!Next]_<<[j \in Jobs |-> StatusOf(j)], [j \in Jobs |-> CopiesOf(j)]>>
    BY StepQueue DEF Promised
  <1> QED
    BY <1>1, <1>2, QueueInvariant, PTL DEF MailSpec, Delivers, Delivery!Spec

=============================================================================
