-------------------------------- MODULE Sums --------------------------------
(***************************************************************************)
(* Sums of the values of a function, which is how the modules add up the   *)
(* columns of rows (aggregate with _sum, reduce).                          *)
(***************************************************************************)
EXTENDS Integers, FiniteSetsExt

\* What f adds up to on the set S.
SumOver(f, S) == MapThenSumSet(LAMBDA x : f[x], S)

\* What f adds up to.
SumOf(f) == SumOver(f, DOMAIN f)

=============================================================================
