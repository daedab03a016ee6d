------------------------------ MODULE MCOutbox ------------------------------
(* Instances of Outbox for TLC.  No symmetry: the runs check liveness.     *)
EXTENDS Outbox
=============================================================================
