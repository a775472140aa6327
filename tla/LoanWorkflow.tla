---------------------------- MODULE LoanWorkflow ----------------------------
(***************************************************************************)
(* What the loan services promise of one loan after another, with neither  *)
(* requests nor tables: the applicant edits a draft, three officers sign   *)
(* in a fixed order what they all see, the pay-out is booked and then      *)
(* made, and it is made for the terms that were signed.                    *)
(***************************************************************************)
EXTENDS Naturals

CONSTANTS
  Loans,
  Terms,      \* the amount and tenor a loan can have
  NoTerms,
  Signatures  \* how many officers have to sign

Stages == {"absent", "draft", "review", "booked", "paid", "rejected",
           "withdrawn"}

VARIABLES
  stage,      \* where each loan stands
  signed,     \* how many officers have signed it
  terms,      \* what is asked for
  debt        \* what the member has to pay back

wvars == <<stage, signed, terms, debt>>

WInit ==
  /\ stage = [l \in Loans |-> "absent"]
  /\ signed = [l \in Loans |-> 0]
  /\ terms = [l \in Loans |-> NoTerms]
  /\ debt = [l \in Loans |-> NoTerms]

Move(l, from, to) ==
  /\ stage[l] = from
  /\ stage' = [stage EXCEPT ![l] = to]

Propose(l) ==
  /\ Move(l, "absent", "draft")
  /\ \E t \in Terms : terms' = [terms EXCEPT ![l] = t]
  /\ UNCHANGED <<signed, debt>>

\* The applicant edits the draft, or the first officer revises it.
ChangeTerms(l) ==
  /\ stage[l] \in {"draft", "review"}
  /\ signed[l] = 0
  /\ \E t \in Terms : terms' = [terms EXCEPT ![l] = t]
  /\ UNCHANGED <<stage, signed, debt>>

Withdraw(l) ==
  /\ Move(l, "draft", "withdrawn")
  /\ terms' = [terms EXCEPT ![l] = NoTerms]
  /\ UNCHANGED <<signed, debt>>

Submit(l) ==
  /\ Move(l, "draft", "review")
  /\ UNCHANGED <<signed, terms, debt>>

Sign(l) ==
  /\ stage[l] = "review"
  /\ signed[l] < Signatures
  /\ signed' = [signed EXCEPT ![l] = @ + 1]
  /\ UNCHANGED <<stage, terms, debt>>

Refuse(l) ==
  /\ signed[l] < Signatures
  /\ Move(l, "review", "rejected")
  /\ UNCHANGED <<signed, terms, debt>>

Book(l) ==
  /\ signed[l] = Signatures
  /\ Move(l, "review", "booked")
  /\ UNCHANGED <<signed, terms, debt>>

Pay(l) ==
  /\ Move(l, "booked", "paid")
  /\ debt' = [debt EXCEPT ![l] = terms[l]]
  /\ UNCHANGED <<signed, terms>>

WNext ==
  \E l \in Loans :
    \/ Propose(l) \/ ChangeTerms(l) \/ Withdraw(l) \/ Submit(l)
    \/ Sign(l) \/ Refuse(l) \/ Book(l) \/ Pay(l)

WSpec == WInit /\ [][WNext]_wvars

=============================================================================
