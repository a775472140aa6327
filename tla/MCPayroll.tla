----------------------------- MODULE MCPayroll -----------------------------
(***************************************************************************)
(* Instances of Payroll for TLC.                                           *)
(***************************************************************************)
EXTENDS Payroll, TLC

CONSTANTS m1, m2, r1, r2

TwoPeriods == {1, 2}
Always == BOOLEAN

\* One month's interest is half the balance, so that it is visible.
HighRate == 600

Empty == [pokok |-> 0, wajib |-> 0, sukarela |-> 0, bunga |-> 0]

Overlapping == Permutations({m1, m2}) \cup Permutations({r1, r2})

=============================================================================
