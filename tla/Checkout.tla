------------------------------ MODULE Checkout ------------------------------
(***************************************************************************)
(* POST /orders/checkout, as one customer's requests see it: concurrent    *)
(* requests, and retries of requests whose answer was lost, under a few    *)
(* idempotency keys, for a cart with one product.  The catalog, the stock  *)
(* and the cart change under a request between its reads; only the last    *)
(* step, one transaction, is atomic.                                       *)
(*                                                                         *)
(* Prices and totals are whole minor units.  What a reservation does to    *)
(* the stock is module Inventory's; here other customers, administrators   *)
(* and expiries move `available` in any way.                               *)
(***************************************************************************)
EXTENDS Integers, FiniteSets

CONSTANTS
    Requests,   \* HTTP requests; a retry is another request with the same key
    Keys,       \* Idempotency-Key headers of this customer
    Prices,     \* prices the product may have
    MaxQty,     \* bound: quantity in the cart (the code's is 99)
    MaxStock    \* bound: units available

ASSUME CheckoutAssumption ==
    /\ Keys # {}
    /\ Prices \subseteq Nat \ {0}
    /\ MaxQty \in Nat
    /\ MaxStock \in Nat

VARIABLES
    product,    \* the product document: its price, and whether it may be sold
    available,  \* onHand - reserved of the product
    cart,       \* the quantity in the cart document; 0: empty
    orders,     \* order documents
    keys,       \* idempotency key documents
    clearing,   \* orders whose CLEAR_CART row is not done
    request,    \* what each request has read and decided
    restocked   \* history: requests that saw stock come back after they had priced

vars == <<product, available, cart, orders, keys, clearing, request, restocked>>

Totals == {q * p : q \in 0..MaxQty, p \in Prices}

(* createdOrderId starts as the request's own new id.  What the key of a   *)
(* request is before it begins does not matter.                            *)
Fresh(r, k) == [step |-> "idle", key |-> k, expected |-> 0,
                qty |-> 0, unitPrice |-> 0, total |-> 0, order |-> r]

CheckoutInit ==
    /\ product \in [price : Prices, listed : {TRUE}]
    /\ available = MaxStock
    /\ cart \in 0..MaxQty
    /\ orders = {}
    /\ keys = {}
    /\ clearing = {}
    /\ \E k \in Keys : request = [r \in Requests |-> Fresh(r, k)]
    /\ restocked = {}

KeyDocs(k) == {d \in keys : d.key = k}
OrdersOf(k) == {o \in orders : o.key = k}

worldVars == <<product, available, cart>>

Refuse(r) == request' = [request EXCEPT ![r].step = "refused"]

-----------------------------------------------------------------------------
(* The idempotency store: replay, refuse another payload, or go on.  The   *)
(* payload is the expected total; its hash is compared.                    *)
Begin(r, k, expected) ==
    /\ request[r].step = "idle"
    /\ IF KeyDocs(k) = {}
       THEN request' = [request EXCEPT ![r].step = "looked", ![r].key = k,
                                       ![r].expected = expected]
       ELSE \E d \in KeyDocs(k) :
               request' = [request EXCEPT
                   ![r].step = IF d.expected = expected THEN "answered" ELSE "refused",
                   ![r].key = k, ![r].expected = expected,
                   ![r].order = d.order, ![r].total = d.total]
    /\ UNCHANGED <<worldVars, orders, keys, clearing, restocked>>

(* getLiveCart reads the cart first; an empty one is refused.              *)
ReadCart(r) ==
    /\ request[r].step = "looked"
    /\ IF cart = 0
       THEN Refuse(r)
       ELSE request' = [request EXCEPT ![r].step = "carted", ![r].qty = cart]
    /\ UNCHANGED <<worldVars, orders, keys, clearing, restocked>>

(* What the live cart charges for: the quantity, as far as stock allows.   *)
EffectiveQty(qty) == IF available < qty THEN available ELSE qty

(* Then products and stock; unavailable, out of stock and PRICE_CHANGED    *)
(* all refuse.                                                             *)
ReadCatalog(r) ==
    LET total == EffectiveQty(request[r].qty) * product.price IN
    /\ request[r].step = "carted"
    /\ IF ~product.listed \/ available <= 0 \/ total # request[r].expected
       THEN Refuse(r)
       ELSE request' = [request EXCEPT ![r].step = "agreed",
                                       ![r].unitPrice = product.price, ![r].total = total]
    /\ UNCHANGED <<worldVars, orders, keys, clearing, restocked>>

(* Mutant: the order is found, but its id is not taken over.               *)
AdoptOwnId(r) ==
    /\ request[r].step = "agreed"
    /\ OrdersOf(request[r].key) # {}
    /\ request' = [request EXCEPT ![r].step = "committed"]
    /\ UNCHANGED <<worldVars, orders, keys, clearing, restocked>>

(* An order of this key exists, by the read in the transaction or by the   *)
(* duplicate key error of its insert: the request answers with that order. *)
Adopt(r) ==
    /\ request[r].step = "agreed"
    /\ \E o \in OrdersOf(request[r].key) :
          request' = [request EXCEPT ![r].step = "committed", ![r].order = o.id]
    /\ UNCHANGED <<worldVars, orders, keys, clearing, restocked>>

(* Mutant: the line's price is read again when the order is written.       *)
OrderDocRepriced(r) == [id |-> r, key |-> request[r].key, qty |-> request[r].qty,
                        unitPrice |-> product.price, total |-> request[r].total]

(* The document: lines with the cart's quantity, the live cart's total.    *)
OrderDoc(r) == [id |-> r, key |-> request[r].key, qty |-> request[r].qty,
                unitPrice |-> request[r].unitPrice, total |-> request[r].total]

(* The transaction: reservation, order, payment and outbox rows together.  *)
(* It reserves the quantity in the cart, whatever quantity was priced.     *)
Place(r) ==
    /\ available >= request[r].qty
    /\ orders' = orders \union {OrderDoc(r)}
    /\ available' = available - request[r].qty
    /\ clearing' = clearing \union {r}

(* Mutant: neither the read nor the unique index looks for the key.        *)
CreateOrderAnyway(r) ==
    /\ request[r].step = "agreed"
    /\ \/ Place(r) /\ request' = [request EXCEPT ![r].step = "committed"]
       \/ /\ available < request[r].qty
          /\ Refuse(r)
          /\ UNCHANGED <<orders, available, clearing>>
    /\ UNCHANGED <<product, cart, keys, restocked>>

CreateOrder(r) ==
    /\ request[r].step = "agreed"
    /\ OrdersOf(request[r].key) = {}
    /\ \/ Place(r) /\ request' = [request EXCEPT ![r].step = "committed"]
       \/ /\ available < request[r].qty
          /\ Refuse(r)
          /\ UNCHANGED <<orders, available, clearing>>
    /\ UNCHANGED <<product, cart, keys, restocked>>

(* It committed, but the driver could not tell: withRetryableTransaction   *)
(* runs the work again, which finds the request's own order.               *)
CommitUnknown(r) ==
    /\ request[r].step = "agreed"
    /\ OrdersOf(request[r].key) = {}
    /\ Place(r)
    /\ UNCHANGED <<product, cart, keys, request, restocked>>

KeyDoc(r) == [key |-> request[r].key, expected |-> request[r].expected,
              order |-> request[r].order, total |-> request[r].total]

(* A failure to record the key is ignored, that of a duplicate included.   *)
RecordKey(r) ==
    /\ request[r].step = "committed"
    /\ \/ KeyDocs(request[r].key) = {} /\ keys' = keys \union {KeyDoc(r)}
       \/ UNCHANGED keys
    /\ request' = [request EXCEPT ![r].step = "answered"]
    /\ UNCHANGED <<worldVars, orders, clearing, restocked>>

(* A crash, a timeout, or an error answer: the client does not know.       *)
Lost(r) ==
    /\ request[r].step \in {"looked", "carted", "agreed", "committed"}
    /\ request' = [request EXCEPT ![r].step = "lost"]
    /\ UNCHANGED <<worldVars, orders, keys, clearing, restocked>>

-----------------------------------------------------------------------------
(* Everybody else.                                                         *)
ProductChanges ==
    /\ product' \in [price : Prices, listed : BOOLEAN]
    /\ product' # product
    /\ UNCHANGED <<available, cart, orders, keys, clearing, request, restocked>>

StockMoves ==
    /\ available' \in 0..MaxStock
    /\ available' # available
    /\ restocked' = IF available' < available THEN restocked
                    ELSE restocked \union {r \in Requests : request[r].step = "agreed"}
    /\ UNCHANGED <<product, cart, orders, keys, clearing, request>>

CartChanges ==
    /\ cart' \in 0..MaxQty
    /\ cart' # cart
    /\ UNCHANGED <<product, available, orders, keys, clearing, request, restocked>>

HandleClearCart(r) ==
    /\ r \in clearing
    /\ cart' = 0
    /\ clearing' = clearing \ {r}
    /\ UNCHANGED <<product, available, orders, keys, request, restocked>>

(* The TTL index removes the document after 24 hours.                      *)
KeyExpires(d) ==
    /\ d \in keys
    /\ keys' = keys \ {d}
    /\ UNCHANGED <<worldVars, orders, clearing, request, restocked>>

-----------------------------------------------------------------------------
RequestNext(r) ==
    \/ \E k \in Keys, expected \in Totals : Begin(r, k, expected)
    \/ ReadCart(r) \/ ReadCatalog(r) \/ Adopt(r) \/ CreateOrder(r) \/ CommitUnknown(r)
    \/ RecordKey(r) \/ Lost(r)
    \/ HandleClearCart(r)

CheckoutNext ==
    \/ \E r \in Requests : RequestNext(r)
    \/ ProductChanges \/ StockMoves \/ CartChanges
    \/ \E d \in keys : KeyExpires(d)

CheckoutSpec == CheckoutInit /\ [][CheckoutNext]_vars

-----------------------------------------------------------------------------
RequestDocs ==
    [step : {"idle", "looked", "carted", "agreed", "committed",
             "answered", "refused", "lost"},
     key : Keys, expected : Nat, qty : 0..MaxQty,
     unitPrice : Prices \union {0}, total : Nat, order : Requests]

CheckoutTypeOK ==
    /\ product \in [price : Prices, listed : BOOLEAN]
    /\ available \in 0..MaxStock
    /\ cart \in 0..MaxQty
    /\ orders \subseteq [id : Requests, key : Keys, qty : 1..MaxQty,
                         unitPrice : Prices, total : Nat]
    /\ keys \subseteq [key : Keys, expected : Nat, order : Requests, total : Nat]
    /\ clearing \subseteq Requests
    /\ request \in [Requests -> RequestDocs]
    /\ restocked \subseteq Requests

Answered(r) == request[r].step = "answered"

SamePayload(r, s) == /\ request[r].key = request[s].key
                     /\ request[r].expected = request[s].expected

(* DESIGN.md 1.3, third invariant, its second half: no duplicate side      *)
(* effects.  Concurrent requests, retries after a crash and retries after  *)
(* the key's document expired place one order between them.                *)
OneOrderPerKey == \A o1, o2 \in orders : o1.key = o2.key => o1 = o2

(* Two requests with the same key and payload that both succeed answer     *)
(* with the same order and the same total.                                 *)
SuccessesAgree ==
    \A r, s \in Requests :
        Answered(r) /\ Answered(s) /\ SamePayload(r, s)
            => /\ request[r].order = request[s].order
               /\ request[r].total = request[s].total

(* A 201 names an order that exists, and that was placed under its key.    *)
AnswerNamesOrder ==
    \A r \in Requests :
        Answered(r) => \E o \in OrdersOf(request[r].key) : o.id = request[r].order

(* Scenario B: nobody is charged a total that he did not confirm, however  *)
(* the catalog changed between the request's reads and its transaction.    *)
ChargedAsConfirmed ==
    \A o \in orders : o.total = request[o.id].expected

(* Scenario B, mutual agreement, as far as it goes: the units that are     *)
(* reserved and sold are the units that are charged, unless stock came     *)
(* back between the request's pricing and its transaction.                 *)
PricedAsReserved ==
    \A o \in orders : o.total = o.qty * o.unitPrice \/ o.id \in restocked

Desk == INSTANCE KeyedOrders
            WITH asked    <- [r \in Requests |->
                                IF request[r].step = "idle" THEN {}
                                ELSE {[key |-> request[r].key, expected |-> request[r].expected]}],
                 placed   <- orders,
                 answered <- [r \in Requests |->
                                IF ~Answered(r) THEN {}
                                ELSE {[order |-> request[r].order, total |-> request[r].total]}]

(* DESIGN.md 1.3, third invariant: a repeated checkout produces the same   *)
(* answer, no duplicate order, and nothing that was answered is taken back.*)
ImplementsKeyedOrders == Desk!DeskSpec
=============================================================================
