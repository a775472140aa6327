---------------------------- MODULE MCMailQueue -----------------------------
(***************************************************************************)
(* Instances of MailQueue for TLC.                                         *)
(***************************************************************************)
EXTENDS MailQueue

=============================================================================
