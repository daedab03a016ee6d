------------------------------ MODULE MCCreation ------------------------------
(* Instances of Creation for TLC: one body names its slug, another has a   *)
(* name that makes the same slug, the third a name that makes none.        *)
EXTENDS Creation, TLC

CONSTANTS r1, r2

MCSlugOf == [named |-> "tea", plain |-> "tea", symbols |-> ""]
MCRequests == Permutations(Requests)
=============================================================================
