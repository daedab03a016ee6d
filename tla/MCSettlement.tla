----------------------------- MODULE MCSettlement ----------------------------
(* Instances of Settlement for TLC.                                        *)
EXTENDS Settlement, TLC

CONSTANTS tea

MCInitialStock == (tea :> 1)
MCItemLists == {(tea :> 1)}
=============================================================================
