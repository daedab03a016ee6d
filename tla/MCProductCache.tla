---------------------------- MODULE MCProductCache ----------------------------
(* Instances of ProductCache for TLC.                                      *)
EXTENDS ProductCache
=============================================================================
