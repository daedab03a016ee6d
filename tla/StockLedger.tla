----------------------------- MODULE StockLedger -----------------------------
(***************************************************************************)
(* What the inventory component promises its callers, without saying how:  *)
(* every order may claim its units once, out of units that are free; a     *)
(* claim is settled once, either sold (the units are gone) or returned     *)
(* (the units are free again).  Only a recount of the shelf by an          *)
(* administrator changes the free units in any other way.                  *)
(*                                                                         *)
(* Inventory implements this ledger with two counters per product and one  *)
(* reservation document per order (DESIGN.md 4.2).                         *)
(***************************************************************************)
EXTENDS Integers

CONSTANTS Products, Orders,
          ItemLists,      \* the quantities an order may ask for, per product
          InitialStock    \* the units on the shelf before any order

VARIABLES free,   \* free[p]: units nobody has a claim on
          claim   \* claim[o]: the order's claim, with the units it is for

ledgerVars == <<free, claim>>

ClaimStates == {"none", "held", "sold", "returned"}

LedgerInit ==
    /\ free = InitialStock
    /\ claim = [o \in Orders |-> [state |-> "none", items |-> [p \in Products |-> 0]]]

(* The units are taken together, and only if all of them are free.         *)
Hold(o, items) ==
    /\ claim[o].state = "none"
    /\ \A p \in Products : items[p] > 0 => items[p] <= free[p]
    /\ free' = [p \in Products |-> free[p] - items[p]]
    /\ claim' = [claim EXCEPT ![o] = [state |-> "held", items |-> items]]

Sell(o) ==
    /\ claim[o].state = "held"
    /\ claim' = [claim EXCEPT ![o].state = "sold"]
    /\ UNCHANGED free

Return(o) ==
    /\ claim[o].state = "held"
    /\ claim' = [claim EXCEPT ![o].state = "returned"]
    /\ free' = [p \in Products |-> free[p] + claim[o].items[p]]

(* A recount may even find that more units are claimed than exist.         *)
Recount(p) ==
    /\ free' \in [Products -> Int]
    /\ \A q \in Products \ {p} : free'[q] = free[q]
    /\ UNCHANGED claim

LedgerNext ==
    \/ \E o \in Orders : \/ \E items \in ItemLists : Hold(o, items)
                         \/ Sell(o)
                         \/ Return(o)
    \/ \E p \in Products : Recount(p)

LedgerSpec == LedgerInit /\ [][LedgerNext]_ledgerVars
=============================================================================
