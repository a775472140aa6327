----------------------------- MODULE MCLoanDesk -----------------------------
(***************************************************************************)
(* Instances of LoanDesk for TLC: the rates rise and the limits fall.      *)
(***************************************************************************)
EXTENDS LoanDesk

CONSTANTS l1, l2, r1, r2

Slots == Permutations({l1, l2}) \cup Permutations({r1, r2})

Generous ==
  [rate |-> 8, margin |-> 5, min |-> 1000, plafond |-> 2503, maxGoods |-> 2503,
   maxTenor |-> 3, fund |-> 2503]

Strict ==
  [rate |-> 12, margin |-> 5, min |-> 1000, plafond |-> 1000, maxGoods |-> 2503,
   maxTenor |-> 2, fund |-> 1000]

BothSettings == {Generous, Strict}

=============================================================================
