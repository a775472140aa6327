---------------------------- MODULE MCSocialFund ----------------------------
(***************************************************************************)
(* Instances of SocialFund for TLC.                                        *)
(***************************************************************************)
EXTENDS SocialFund, TLC

CONSTANTS r1, r2

Small == {1, 2}
One == {1}

Overlapping == Permutations({r1, r2})

=============================================================================
