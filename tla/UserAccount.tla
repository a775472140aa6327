---------------------------- MODULE UserAccount -----------------------------
(***************************************************************************)
(* How a person gets a user account and keeps access to it: registration   *)
(* with a verification mail that is sent at once and undoes the            *)
(* registration when it fails, password resets by mail (auth.service.ts),  *)
(* and what an administrator may do to users (users.service.ts).  Every    *)
(* call reads and guards first, writes later, and sends mail in between.   *)
(***************************************************************************)
EXTENDS Naturals, FiniteSets

CONSTANTS
  Persons,    \* the employees: each can have one user
  Requests,   \* slots of requests in flight at the same time
  MaxUsers,   \* bound: users that are ever created
  MaxTokens,  \* bound: password reset tokens that are ever issued
  MaxOverlaps \* bound: how many requests begin while another is in flight

ASSUME AccountAssumption ==
  /\ MaxUsers \in Nat
  /\ MaxTokens \in Nat
  /\ MaxOverlaps \in Nat

Ids == 1 .. MaxUsers

Tokens == 1 .. MaxTokens

NoToken == 0

UserRow ==
  [id : Ids, toVerify : BOOLEAN, emailVerified : BOOLEAN, memberVerified : BOOLEAN,
   reset : Tokens \cup {NoToken}]

NoUser == [id |-> 0]

VARIABLES
  user,      \* users; toVerify: the row has a verification token, one for each id
  created,   \* how many users were created
  issued,    \* how many reset tokens were issued
  links,     \* the users whose verification link has arrived
  resets,    \* the reset tokens whose link has arrived
  promised,  \* history: the token of the last reset request, if it was answered
  uses,      \* history: how often a reset token has changed a password
  lapsed,    \* history: the users whose verification mail is a day old
  broken,    \* history: users whose registration was broken off or whom an
             \* administrator made or set to not verified
  request,   \* what each request in flight has seen and does next
  overlaps   \* history: how often requests overlapped

tokenVars == <<issued, resets, promised, uses, lapsed>>

accountVars == <<user, created, tokenVars, links, broken, request, overlaps>>

overlapped == overlaps > 0

Idle == [op |-> "IDLE"]

NoKey == [token |-> NoToken]

AccountTypeOK ==
  /\ user \in [Persons -> {NoUser} \cup UserRow]
  /\ created \in {0} \cup Ids
  /\ issued \in {NoToken} \cup Tokens
  /\ links \subseteq Ids
  /\ resets \subseteq Tokens
  /\ promised \in [Persons -> {NoToken} \cup Tokens]
  /\ uses \in [Tokens -> Nat]
  /\ lapsed \subseteq Ids
  /\ broken \subseteq Ids
  /\ overlaps \in 0 .. MaxOverlaps

AccountInit ==
  /\ user = [p \in Persons |-> NoUser]
  /\ created = 0
  /\ issued = NoToken
  /\ links = {}
  /\ resets = {}
  /\ promised = [p \in Persons |-> NoToken]
  /\ uses = [t \in Tokens |-> 0]
  /\ lapsed = {}
  /\ broken = {}
  /\ request = [r \in Requests |-> Idle]
  /\ overlaps = 0

-----------------------------------------------------------------------------
Is(r, op) == request[r].op = op

\* Something begins that overlaps the requests in flight, if there are any.
Overlap ==
  /\ overlaps' = IF \A q \in Requests : request[q] = Idle THEN overlaps ELSE overlaps + 1
  /\ overlaps' <= MaxOverlaps

\* A request of person p, whose user is id, begins; key is what it works on.
Enter(r, op, p, key) ==
  /\ request[r] = Idle
  /\ request' = [request EXCEPT ![r] =
       [op |-> op, person |-> p, id |-> user[p].id, key |-> key]]
  /\ Overlap
  /\ UNCHANGED <<user, created, tokenVars, links, broken>>

Continue(r, op, id, key) ==
  /\ request' = [request EXCEPT ![r] =
       [op |-> op, person |-> request[r].person, id |-> id, key |-> key]]
  /\ UNCHANGED overlaps

Done(r) ==
  /\ request' = [request EXCEPT ![r] = Idle]
  /\ UNCHANGED overlaps

\* The user a request has read is still there.
StillThere(q) == user[q.person].id = q.id

-----------------------------------------------------------------------------
BeginRegister(r, p) ==
  /\ user[p] = NoUser
  /\ Enter(r, "REGISTER", p, NoKey)

\* The employee and the email are unique.
Insert(p, mailed, verified, member) ==
  /\ user[p] = NoUser
  /\ created < MaxUsers
  /\ created' = created + 1
  /\ user' = [user EXCEPT ![p] =
       [id |-> created + 1, toVerify |-> mailed, emailVerified |-> verified,
        memberVerified |-> member, reset |-> NoToken]]

CommitRegister(r) ==
  LET q == request[r]
  IN  /\ Is(r, "REGISTER")
      /\ Insert(q.person, TRUE, FALSE, FALSE)
      /\ Continue(r, "SEND_VERIFICATION", created + 1, NoKey)
      /\ UNCHANGED <<tokenVars, links, broken>>

\* Mutant: a user whose mail could not be sent is kept.
AfterSendingKept(r, ok) == Done(r)

\* What sending the verification mail leads to; it is not tried again.
AfterSending(r, ok) ==
  IF ok THEN Done(r) ELSE Continue(r, "UNDO", request[r].id, NoKey)

\* The mail can arrive although sending it is reported as failed.
SendVerification(r, arrives, ok) ==
  /\ Is(r, "SEND_VERIFICATION")
  /\ ok => arrives
  /\ links' = IF arrives THEN links \cup {request[r].id} ELSE links
  /\ AfterSending(r, ok)
  /\ UNCHANGED <<user, created, tokenVars, broken>>

Delete(p) ==
  /\ user' = [user EXCEPT ![p] = NoUser]
  /\ promised' = [promised EXCEPT ![p] = NoToken]

UndoRegister(r) ==
  /\ Is(r, "UNDO")
  /\ StillThere(request[r])
  /\ Delete(request[r].person)
  /\ Done(r)
  /\ UNCHANGED <<created, issued, resets, uses, lapsed, links, broken>>

BeginVerify(r, p) ==
  /\ user[p] # NoUser
  /\ user[p].toVerify
  /\ user[p].id \in links
  /\ ~user[p].emailVerified
  /\ Enter(r, "VERIFY", p, NoKey)

CommitVerify(r) ==
  LET q == request[r]
  IN  /\ Is(r, "VERIFY")
      /\ StillThere(q)
      /\ user' = [user EXCEPT ![q.person].emailVerified = TRUE,
                                       ![q.person].toVerify = FALSE]
      /\ Done(r)
      /\ UNCHANGED <<created, tokenVars, links, broken>>

-----------------------------------------------------------------------------
MayLogIn(p) == user[p] # NoUser /\ user[p].emailVerified

BeginForgot(r, p) ==
  /\ MayLogIn(p)
  /\ Enter(r, "FORGOT", p, NoKey)

\* A new token takes the place of the one before.
CommitForgot(r) ==
  LET q == request[r]
  IN  /\ Is(r, "FORGOT")
      /\ StillThere(q)
      /\ issued < MaxTokens
      /\ issued' = issued + 1
      /\ user' = [user EXCEPT ![q.person].reset = issued + 1]
      /\ promised' = [promised EXCEPT ![q.person] = NoToken]
      /\ Continue(r, "SEND_RESET", q.id, [token |-> issued + 1])
      /\ UNCHANGED <<created, resets, uses, lapsed, links, broken>>

SendReset(r, arrives, ok) ==
  LET q == request[r]
  IN  /\ Is(r, "SEND_RESET")
      /\ ok => arrives
      /\ resets' = IF arrives THEN resets \cup {q.key.token} ELSE resets
      /\ IF ok
         THEN /\ promised' = [promised EXCEPT ![q.person] = q.key.token]
              /\ Done(r)
         ELSE /\ Continue(r, "WITHDRAW", q.id, q.key)
              /\ UNCHANGED promised
      /\ UNCHANGED <<user, created, issued, uses, lapsed, links, broken>>

\* The token of the user is cleared, whichever it is.
WithdrawToken(r) ==
  LET q == request[r]
  IN  /\ Is(r, "WITHDRAW")
      /\ StillThere(q)
      /\ user' = [user EXCEPT ![q.person].reset = NoToken]
      /\ Done(r)
      /\ UNCHANGED <<created, tokenVars, links, broken>>

\* After an hour the token does not count any more; sending its mail is
\* over by then.
Expire(p) ==
  /\ user[p] # NoUser
  /\ user[p].reset # NoToken
  /\ \A r \in Requests : ~(Is(r, "SEND_RESET") /\ request[r].person = p)
  /\ user' = [user EXCEPT ![p].reset = NoToken]
  /\ promised' = [promised EXCEPT ![p] = NoToken]
  /\ UNCHANGED <<created, issued, resets, uses, lapsed, links, broken, request, overlaps>>

\* A day after the verification mail its link counts no more, the mail says.
\* No handler asks for the day: the token stays, and BeginVerify accepts it.
Lapse(p) ==
  /\ user[p] # NoUser
  /\ user[p].toVerify
  /\ user[p].id \in links \ lapsed
  /\ \A r \in Requests : ~(request[r] # Idle /\ request[r].person = p)
  /\ lapsed' = lapsed \cup {user[p].id}
  /\ UNCHANGED <<user, created, issued, resets, promised, uses, links, broken,
                 request, overlaps>>

BeginReset(r, p, t) ==
  /\ user[p] # NoUser
  /\ t \in resets
  /\ user[p].reset = t
  /\ Enter(r, "RESET", p, [token |-> t])

\* Mutant: the token stays when the password is changed.
TokenAfterKept(u) == u.reset

TokenAfter(u) == NoToken

CommitReset(r) ==
  LET q == request[r]
  IN  /\ Is(r, "RESET")
      /\ StillThere(q)
      /\ user' = [user EXCEPT ![q.person].reset = TokenAfter(user[q.person])]
      /\ uses' = [uses EXCEPT ![q.key.token] = @ + 1]
      /\ promised' = [promised EXCEPT ![q.person] = NoToken]
      /\ Done(r)
      /\ UNCHANGED <<created, issued, resets, lapsed, links, broken>>

-----------------------------------------------------------------------------
\* Administrators create users (verified, if they do not say otherwise),
\* change either verification, and remove users.
AdminCreate(p, verified, member) ==
  /\ Insert(p, FALSE, verified, member)
  /\ Overlap
  /\ broken' = broken \cup {created + 1}
  /\ UNCHANGED <<tokenVars, links, request>>

AdminUpdate(p, verified, member) ==
  /\ user[p] # NoUser
  /\ user' = [user EXCEPT ![p].emailVerified = verified, ![p].memberVerified = member]
  /\ Overlap
  /\ broken' = IF verified THEN broken ELSE broken \cup {user[p].id}
  /\ UNCHANGED <<created, tokenVars, links, request>>

AdminRemove(p) ==
  /\ user[p] # NoUser
  /\ Delete(p)
  /\ Overlap
  /\ UNCHANGED <<created, issued, resets, uses, lapsed, links, broken, request>>

\* The process dies or the database does not answer: what a request has
\* written stays, and what it would have undone as well.
Fail(r) ==
  /\ request[r] # Idle
  /\ broken' = IF request[r].op \in {"SEND_VERIFICATION", "UNDO"}
               THEN broken \cup {request[r].id} ELSE broken
  /\ Done(r)
  /\ UNCHANGED <<user, created, tokenVars, links>>

AccountNext ==
  \/ \E r \in Requests :
       \/ \E p \in Persons :
            \/ BeginRegister(r, p) \/ BeginVerify(r, p) \/ BeginForgot(r, p)
            \/ \E t \in Tokens : BeginReset(r, p, t)
       \/ \E arrives, ok \in BOOLEAN : SendVerification(r, arrives, ok) \/ SendReset(r, arrives, ok)
       \/ CommitRegister(r) \/ CommitVerify(r) \/ CommitForgot(r)
       \/ WithdrawToken(r) \/ CommitReset(r) \/ Fail(r)
  \/ \E p \in Persons : Expire(p) \/ Lapse(p)

-----------------------------------------------------------------------------
(* While no requests overlap, a link works for as long as its mail promises: *)
(* whoever is not verified has a verification link for a day, unless the    *)
(* registration was broken off or an administrator made the user; the link  *)
(* of the last reset request that was answered works until its hour is over *)
(* or it is used; and no reset link works twice.  (That a verification link  *)
(* stops working after its day, "Link ini akan kadaluarsa dalam 24 jam",    *)
(* mail.service.ts:184, is not kept by the code: Lapse changes no row.)     *)
LinksWork ==
  ~overlapped =>
    /\ \A p \in Persons :
         user[p] # NoUser /\ ~user[p].emailVerified
             /\ (\A r \in Requests : request[r] = Idle) =>
           \/ user[p].id \in broken \cup lapsed
           \/ user[p].toVerify /\ user[p].id \in links
    /\ \A p \in Persons :
         promised[p] # NoToken =>
           /\ user[p] # NoUser
           /\ user[p].reset = promised[p]
           /\ promised[p] \in resets
    /\ \A t \in Tokens : uses[t] <= 1

=============================================================================
