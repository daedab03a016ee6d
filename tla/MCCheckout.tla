----------------------------- MODULE MCCheckout -----------------------------
(* Instances of Checkout for TLC.                                          *)
EXTENDS Checkout, TLC

(* Requests are interchangeable, and so are keys.                          *)
Symmetry == Permutations(Requests) \union Permutations(Keys)
=============================================================================
