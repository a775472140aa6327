---------------------------- MODULE MCMembership ----------------------------
(***************************************************************************)
(* Instances of MemberApplication for TLC.                                 *)
(***************************************************************************)
EXTENDS MemberApplication, TLC

CONSTANTS p1, r1, r2

Overlapping == Permutations({r1, r2})

=============================================================================
