-------------------------- MODULE NumberGenerator ---------------------------
(***************************************************************************)
(* The running numbers of a day: PREFIX-YYYYMMDD-XXXX.  Loans, repayments, *)
(* deposits, their changes and withdrawals are all numbered like this: the *)
(* row created last is looked up, and a unique column refuses a number     *)
(* that is taken meanwhile.  Every day begins a series of its own, which   *)
(* nobody looks up on another day: one day stands for all of them.         *)
(***************************************************************************)
EXTENDS Naturals, SequencesExt

\* numbers: those of the rows there are, in the order of createdAt.
OfSeries(numbers, kind) == {i \in DOMAIN numbers : numbers[i].kind = kind}

\* Mutant: the rows are counted.
NextNumberCounted(numbers, kind) ==
  [kind |-> kind, seq |-> Cardinality(OfSeries(numbers, kind)) + 1]

NextNumber(numbers, kind) ==
  LET series == OfSeries(numbers, kind)
  IN  [kind |-> kind, seq |-> IF series = {} THEN 1 ELSE numbers[Max(series)].seq + 1]

Taken(numbers, n) == n \in Range(numbers)

=============================================================================
