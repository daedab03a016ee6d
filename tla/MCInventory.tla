----------------------------- MODULE MCInventory -----------------------------
(* Instances of Inventory for TLC.                                         *)
EXTENDS Inventory, TLC

CONSTANTS tea, mug

(* Orders compete: one unit, two units, or a two-item order.               *)
MCInitialStock == (tea :> 2 @@ mug :> 1)
MCItemLists == {(tea :> 1 @@ mug :> 0), (tea :> 2 @@ mug :> 0), (tea :> 1 @@ mug :> 1)}
=============================================================================
