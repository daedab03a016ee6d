----------------------------- MODULE MCSessions -----------------------------
(* Instances of Sessions for TLC.                                          *)
EXTENDS Sessions, TLC

CONSTANTS u1

OneOwner == [f \in Families |-> u1]

SessionSymmetry == Permutations(Calls) \union Permutations(Families)
=============================================================================
