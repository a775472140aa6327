----------------------------- MODULE MCDeposit ------------------------------
(***************************************************************************)
(* Instances of DepositChange for TLC.                                     *)
(***************************************************************************)
EXTENDS DepositChange, TLC

CONSTANTS m1, d1, c1, c2, r1, r2

SomeAmounts == {1, 2}
SomeTenors == {1, 2}
TwoPeriods == {1, 2}
TwoFees == {0, 1}

\* One month's interest is half the balance, so that it is visible.
HighRate == 600

OneSaved == [pokok |-> 1, wajib |-> 0, sukarela |-> 1, bunga |-> 0]

Overlapping == Permutations({c1, c2}) \cup Permutations({r1, r2})

\* Overlapping requests are looked at with one change only.
OneChangeOverlaps == overlapped => Cardinality({c \in Changes : change[c] # NoChange}) <= 1

=============================================================================
