--------------------------------- MODULE Cart ---------------------------------
(***************************************************************************)
(* The cart of one customer, whose requests may overlap (two tabs, a       *)
(* retry), and which the outbox empties after a checkout.  Adding an item  *)
(* is up to four database operations, each atomic and none conditional on  *)
(* what an earlier one read; the other operations are one each.            *)
(*                                                                         *)
(* The document's array is modelled per product: the lines of a product,   *)
(* in their order, are <<product, 1>>, <<product, 2>>, ...  The order of   *)
(* lines of different products means nothing to any operation.             *)
(***************************************************************************)
EXTENDS Integers, FiniteSets

CONSTANTS
    Products,
    Calls,      \* bound: the customer's requests at work at the same time
    MaxItems,   \* MAX_CART_ITEMS, 100 in the code
    MaxQty      \* largest quantity of a line, 99 in the code

ASSUME CartAssumption ==
    /\ Products # {}
    /\ IsFiniteSet(Calls) /\ Calls # {}
    /\ MaxItems \in Nat \ {0}
    /\ MaxQty \in Nat \ {0}

VARIABLES
    exists,     \* whether the cart document exists
    lines,      \* its items: <<product, rank>> -> quantity
    call,       \* what each request that adds an item has read
    wanted,     \* history: per product, what the requests amount to
    exact       \* history: products no two requests worked on at once

vars == <<exists, lines, call, wanted, exact>>

Quantities == 1..MaxQty
Capped(n) == IF n > MaxQty THEN MaxQty ELSE n

Idle == [step |-> "idle", product |-> CHOOSE p \in Products : TRUE, ask |-> 1, qty |-> 1]

CartInit ==
    /\ exists = FALSE
    /\ lines = [k \in {} |-> 1]
    /\ call = [c \in Calls |-> Idle]
    /\ wanted = [p \in Products |-> 0]
    /\ exact = Products

LinesOf(p) == {k \in DOMAIN lines : k[1] = p}
AddersOf(p) == {c \in Calls : call[c].step # "idle" /\ call[c].product = p}

Done(c) == call' = [call EXCEPT ![c] = Idle]

(* { 'items.productId': p } -> 'items.$.qty': the first line of p.         *)
SetFirst(p, qty) == lines' = [lines EXCEPT ![<<p, 1>>] = qty]

Push(p, qty) ==
    LET last == <<p, Cardinality(LinesOf(p)) + 1>> IN
    lines' = [k \in DOMAIN lines \union {last} |-> IF k = last THEN qty ELSE lines[k]]

(* What is left after $pull, $set items: [], or the deletion of the cart.  *)
Keep(kept) == lines' = [k \in kept |-> lines[k]]

(* History: the quantities w, for the products e only.                     *)
History(w, e) ==
    /\ wanted' = [p \in Products |-> IF p \in e THEN w[p] ELSE 0]
    /\ exact' = e

Emptied(ps) ==
    History([p \in Products |-> IF p \in ps THEN 0 ELSE wanted[p]],
            exact \union {p \in ps : AddersOf(p) = {}})

-----------------------------------------------------------------------------
(* Mutant: the item is not looked for, and always pushed.                  *)
AddFindNothing(c, p, ask) ==
    /\ call[c].step = "idle"
    /\ call' = [call EXCEPT ![c] =
                   [step |-> "absent", product |-> p, ask |-> ask, qty |-> Capped(ask)]]
    /\ History(wanted, IF AddersOf(p) = {} THEN exact ELSE exact \ {p})
    /\ UNCHANGED <<exists, lines>>

(* addOrUpdateCartItem, after addCartItem found the product available: the *)
(* sum is computed here, and written later.                                *)
AddFind(c, p, ask) ==
    /\ call[c].step = "idle"
    /\ call' = [call EXCEPT ![c] =
                   IF LinesOf(p) # {}
                   THEN [step |-> "merging", product |-> p, ask |-> ask,
                         qty |-> Capped(lines[<<p, 1>>] + ask)]
                   ELSE [step |-> "absent", product |-> p, ask |-> ask, qty |-> Capped(ask)]]
    /\ History(wanted, IF AddersOf(p) = {} THEN exact ELSE exact \ {p})
    /\ UNCHANGED <<exists, lines>>

(* Mutant: the quantity asked for replaces the line's.                     *)
AddMergeReplaces(c) ==
    LET p == call[c].product IN
    /\ call[c].step = "merging"
    /\ IF LinesOf(p) # {}
       THEN /\ SetFirst(p, call[c].ask)
            /\ History([wanted EXCEPT ![p] = Capped(@ + call[c].ask)], exact)
       ELSE UNCHANGED <<lines, wanted, exact>>
    /\ Done(c)
    /\ UNCHANGED exists

(* The line may have gone: the update matches nothing, and nobody is told. *)
AddMerge(c) ==
    LET p == call[c].product IN
    /\ call[c].step = "merging"
    /\ IF LinesOf(p) # {}
       THEN /\ SetFirst(p, call[c].qty)
            /\ History([wanted EXCEPT ![p] = Capped(@ + call[c].ask)], exact)
       ELSE UNCHANGED <<lines, wanted, exact>>
    /\ Done(c)
    /\ UNCHANGED exists

(* Mutant: a full cart takes one more.                                     *)
AddLookupOneMore(c) ==
    /\ call[c].step = "absent"
    /\ IF exists /\ Cardinality(DOMAIN lines) > MaxItems
       THEN Done(c)
       ELSE call' = [call EXCEPT ![c].step = IF exists THEN "pushing" ELSE "creating"]
    /\ UNCHANGED <<exists, lines, wanted, exact>>

(* findOrCreateCart, its find; and the cap, checked on what was read.      *)
AddLookup(c) ==
    /\ call[c].step = "absent"
    /\ IF exists /\ Cardinality(DOMAIN lines) >= MaxItems
       THEN Done(c)
       ELSE call' = [call EXCEPT ![c].step = IF exists THEN "pushing" ELSE "creating"]
    /\ UNCHANGED <<exists, lines, wanted, exact>>

(* Its create: the loser of two gets a duplicate key error.                *)
AddCreateCart(c) ==
    /\ call[c].step = "creating"
    /\ IF exists THEN Done(c) ELSE call' = [call EXCEPT ![c].step = "pushing"]
    /\ exists' = TRUE
    /\ UNCHANGED <<lines, wanted, exact>>

(* An upsert, conditional on nothing but the customer.                     *)
AddPush(c) ==
    LET p == call[c].product IN
    /\ call[c].step = "pushing"
    /\ Push(p, call[c].qty)
    /\ History([wanted EXCEPT ![p] = Capped(@ + call[c].ask)], exact)
    /\ exists' = TRUE
    /\ Done(c)

(* The process dies, or an operation fails.                                *)
Abandon(c) ==
    /\ call[c].step # "idle"
    /\ Done(c)
    /\ UNCHANGED <<exists, lines, wanted, exact>>

-----------------------------------------------------------------------------
(* getLiveCart of a customer without a cart; every operation ends with it. *)
GetLiveCart ==
    /\ ~exists
    /\ exists' = TRUE
    /\ UNCHANGED <<lines, call, wanted, exact>>

UpdateCartItem(p, qty) ==
    /\ LinesOf(p) # {}
    /\ SetFirst(p, qty)
    /\ History([wanted EXCEPT ![p] = qty],
               IF AddersOf(p) = {} THEN exact ELSE exact \ {p})
    /\ UNCHANGED <<exists, call>>

(* $pull takes every line of the product.                                  *)
RemoveCartItem(p) ==
    /\ LinesOf(p) # {}
    /\ Keep(DOMAIN lines \ LinesOf(p))
    /\ Emptied({p})
    /\ UNCHANGED <<exists, call>>

(* DELETE /cart, and CLEAR_CART of an earlier checkout whenever the outbox *)
(* comes to it.                                                            *)
ClearCart ==
    /\ exists
    /\ Keep({})
    /\ Emptied(Products)
    /\ UNCHANGED <<exists, call>>

(* The TTL index, 30 days after the last update.                           *)
CartExpires ==
    /\ exists
    /\ exists' = FALSE
    /\ Keep({})
    /\ Emptied(Products)
    /\ UNCHANGED call

-----------------------------------------------------------------------------
CartNext ==
    \/ \E c \in Calls :
          \/ \E p \in Products, ask \in Quantities : AddFind(c, p, ask)
          \/ AddMerge(c) \/ AddLookup(c) \/ AddCreateCart(c) \/ AddPush(c) \/ Abandon(c)
    \/ \E p \in Products, qty \in Quantities : UpdateCartItem(p, qty)
    \/ \E p \in Products : RemoveCartItem(p)
    \/ GetLiveCart \/ ClearCart \/ CartExpires

CartSpec == CartInit /\ [][CartNext]_vars

-----------------------------------------------------------------------------
CallDocs == [step : {"idle", "merging", "absent", "creating", "pushing"},
             product : Products, ask : Quantities, qty : Quantities]

(* Every quantity is what the schema allows; lines of a product have the   *)
(* ranks 1, 2, ...; a cart that does not exist has none.                   *)
CartTypeOK ==
    /\ exists \in BOOLEAN
    /\ DOMAIN lines \subseteq Products \X (Nat \ {0})
    /\ IsFiniteSet(DOMAIN lines)
    /\ \A k \in DOMAIN lines : lines[k] \in Quantities
    /\ \A p \in Products : LinesOf(p) = {p} \X (1..Cardinality(LinesOf(p)))
    /\ DOMAIN lines # {} => exists
    /\ call \in [Calls -> CallDocs]
    /\ wanted \in [Products -> 0..MaxQty]
    /\ exact \subseteq Products

(* Requests past the check of the cap; requests that found no line of p.   *)
Pushers == {c \in Calls : call[c].step = "pushing"}
Splitters(p) == {c \in AddersOf(p) : call[c].step # "merging"}

(* cart.model.ts:38: at most 100 items.  The check reads a length that is  *)
(* old when the item is pushed, and the update validators do not see the   *)
(* array, so the cap is soft; but by one item per further request that     *)
(* overlaps, never by more, and one request at a time keeps it.            *)
CapWithinRace ==
    Cardinality(DOMAIN lines) + Cardinality(Pushers) <= MaxItems + Cardinality(Calls) - 1

(* A product has one line, "distinct items" as the message says, or as     *)
(* many as requests that added it side by side when it had none.           *)
SplitWithinRace ==
    \A p \in Products :
        Cardinality(LinesOf(p)) + Cardinality(Splitters(p)) <= Cardinality(Calls)

(* A product that no two requests worked on at once has the quantity that  *)
(* its requests amount to one after the other, removals, CLEAR_CART and    *)
(* expiry at any moment included: nothing is lost, doubled or split.       *)
ExactUnlessRaced ==
    \A p \in exact :
        IF wanted[p] = 0
        THEN LinesOf(p) = {}
        ELSE LinesOf(p) = {<<p, 1>>} /\ lines[<<p, 1>>] = wanted[p]
=============================================================================
