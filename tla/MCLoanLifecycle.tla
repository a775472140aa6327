-------------------------- MODULE MCLoanLifecycle --------------------------
(***************************************************************************)
(* Instances of LoanLifecycle for TLC.                                     *)
(***************************************************************************)
EXTENDS LoanLifecycle, TLC

CONSTANTS l1, l2, r1, r2

ExcessOnly == {"EXCESS_LOAN"}
Small == {1, 2}
ExcessAndPhone == {"EXCESS_LOAN", "GOODS_PHONE"}

RequestSymmetry == Permutations({r1, r2})

=============================================================================
