------------------------ MODULE MCSavingsWithdrawal ------------------------
(***************************************************************************)
(* Instances of SavingsWithdrawal for TLC.                                 *)
(***************************************************************************)
EXTENDS SavingsWithdrawal, TLC

CONSTANTS m1, m2, w1, w2, r1, r2, c1

Big == {2}
Small == {1}
OfTheFirst == [c \in Changes |-> m1]

\* One month's interest is half the balance, so that it is visible.
HighRate == 600

TwoSaved == [pokok |-> 2, wajib |-> 0, sukarela |-> 2, bunga |-> 0]

OneSlot == Permutations({w1, w2})
Overlapping == Permutations({w1, w2}) \cup Permutations({r1, r2})

=============================================================================
