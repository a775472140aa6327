-------------------------- MODULE MCLoanRepayment --------------------------
(***************************************************************************)
(* Instances of LoanRepayment for TLC.                                     *)
(***************************************************************************)
EXTENDS LoanRepayment, TLC

CONSTANTS l1, l2, k1, k2, r1, r2

Overlapping ==
  Permutations({l1, l2}) \cup Permutations({k1, k2}) \cup Permutations({r1, r2})

=============================================================================
