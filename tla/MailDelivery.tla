---------------------------- MODULE MailDelivery ----------------------------
(***************************************************************************)
(* What the mail queue promises of every mail: it is sent only after it    *)
(* was queued, it is reported as completed only when a copy went out, and  *)
(* once it is settled that does not change, until it is forgotten.         *)
(***************************************************************************)
EXTENDS Naturals

CONSTANT Mails

VARIABLES
  status, \* NEW, QUEUED, COMPLETED, FAILED or FORGOTTEN
  copies  \* how many copies the recipients' server was given

Init ==
  /\ status = [x \in Mails |-> "NEW"]
  /\ copies = [x \in Mails |-> 0]

Queue(x) ==
  /\ status[x] = "NEW"
  /\ status' = [status EXCEPT ![x] = "QUEUED"]
  /\ UNCHANGED copies

Deliver(x) ==
  /\ status[x] # "NEW"
  /\ copies' = [copies EXCEPT ![x] = @ + 1]
  /\ UNCHANGED status

Complete(x) ==
  /\ status[x] = "QUEUED"
  /\ copies[x] > 0
  /\ status' = [status EXCEPT ![x] = "COMPLETED"]
  /\ UNCHANGED copies

Fail(x) ==
  /\ status[x] = "QUEUED"
  /\ status' = [status EXCEPT ![x] = "FAILED"]
  /\ UNCHANGED copies

Forget(x) ==
  /\ status[x] \in {"COMPLETED", "FAILED"}
  /\ status' = [status EXCEPT ![x] = "FORGOTTEN"]
  /\ UNCHANGED copies

Next ==
  \E x \in Mails :
    Queue(x) \/ Deliver(x) \/ Complete(x) \/ Fail(x) \/ Forget(x)

Spec == Init /\ [][Next]_<<status, copies>>

=============================================================================
