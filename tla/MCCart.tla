------------------------------- MODULE MCCart -------------------------------
(* Instances of Cart for TLC.                                              *)
EXTENDS Cart, TLC

CallSymmetry == Permutations(Calls)
=============================================================================
