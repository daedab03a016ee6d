--------------------------- MODULE CheckoutProofs ---------------------------
(***************************************************************************)
(* Checkout, for any requests, keys, prices and quantities.  The order of  *)
(* a key is unique, because the transaction that inserts one finds none;   *)
(* every request that gets past its transaction, and every document in the *)
(* idempotency store, names that order; and a request only gets there with *)
(* the total its client expected.  Hence answers agree.  A request whose   *)
(* commit was unknown still stands before its transaction, with its order  *)
(* there.                                                                  *)
(***************************************************************************)
EXTENDS Checkout, TLAPS

Reading == {"idle", "looked", "carted"}
Before == {"idle", "looked", "carted", "agreed"}

(* What a request carries from one step to the next.                       *)
CarriedOver ==
    \A r \in Requests :
        /\ request[r].step \in Before => request[r].order = r
        /\ request[r].step \in {"carted", "agreed"} => request[r].qty # 0
        /\ request[r].step = "agreed" => request[r].unitPrice \in Prices
        /\ request[r].step \in {"agreed", "committed", "answered"}
              => request[r].total = request[r].expected

(* Past its transaction, a request names the order of its key.             *)
NamesOrder ==
    \A r \in Requests :
        request[r].step \in {"committed", "answered"}
            => \E o \in orders : o.key = request[r].key /\ o.id = request[r].order

(* An order's id is that of the request that created it.                   *)
OrdersAreOwned ==
    \A o \in orders : /\ request[o.id].step \notin Reading
                      /\ o.total = request[o.id].expected

StoreIsTrue ==
    \A d \in keys : /\ d.total = d.expected
                    /\ \E o \in orders : o.key = d.key /\ o.id = d.order

(* A request that priced less than it will reserve finds too little stock, *)
(* unless some came back.                                                  *)
PricedByStock ==
    \A r \in Requests :
        request[r].step = "agreed" /\ r \notin restocked
            => \/ available < request[r].qty
               \/ request[r].total = request[r].qty * request[r].unitPrice

CheckoutInv ==
    /\ CheckoutTypeOK
    /\ PricedByStock
    /\ PricedAsReserved
    /\ CarriedOver
    /\ NamesOrder
    /\ OrdersAreOwned
    /\ OneOrderPerKey
    /\ StoreIsTrue

-----------------------------------------------------------------------------
LEMMA ProductIsNat ==
  ASSUME NEW m \in Nat, NEW n \in Nat
  PROVE  m * n \in Nat
  OBVIOUS

LEMMA TotalsAreNat == Totals \subseteq Nat
  <1>. SUFFICES ASSUME NEW q \in 0..MaxQty, NEW p \in Prices PROVE q * p \in Nat
    BY DEF Totals
  <1>1. q \in Nat /\ p \in Nat
    BY CheckoutAssumption
  <1>. QED
    BY <1>1, ProductIsNat

LEMMA CheckoutInitInv == CheckoutInit => CheckoutInv
  <1>. SUFFICES ASSUME CheckoutInit PROVE CheckoutInv
    OBVIOUS
  <1>1. PICK k \in Keys : request = [r \in Requests |-> Fresh(r, k)]
    BY DEF CheckoutInit
  <1>2. CheckoutTypeOK
    <2>1. 0 \in Nat /\ 0 \in 0..MaxQty /\ MaxStock \in 0..MaxStock
      BY CheckoutAssumption
    <2>2. product \in [price : Prices, listed : BOOLEAN]
      BY DEF CheckoutInit
    <2>3. \A r \in Requests : Fresh(r, k) \in RequestDocs
      BY <2>1 DEF Fresh, RequestDocs
    <2>. QED
      BY <1>1, <2>1, <2>2, <2>3 DEF CheckoutInit, CheckoutTypeOK
  <1>3. CarriedOver /\ NamesOrder /\ PricedByStock
    BY <1>1 DEF CarriedOver, NamesOrder, PricedByStock, Fresh
  <1>4. OrdersAreOwned /\ OneOrderPerKey /\ StoreIsTrue /\ PricedAsReserved
    BY DEF CheckoutInit, OrdersAreOwned, OneOrderPerKey, StoreIsTrue, PricedAsReserved
  <1>. QED
    BY <1>2, <1>3, <1>4 DEF CheckoutInv

(* A request that goes on without touching a collection.                   *)
LEMMA QuietRequestStep ==
  ASSUME CheckoutInv, NEW r \in Requests, NEW doc,
         request' = [request EXCEPT ![r] = doc],
         doc \in RequestDocs,
         doc.step \in Before => doc.order = r,
         doc.step \in {"carted", "agreed"} => doc.qty # 0,
         doc.step = "agreed" => doc.unitPrice \in Prices,
         doc.step \in {"agreed", "committed", "answered"} => doc.total = doc.expected,
         doc.step \in {"committed", "answered"}
            => \E o \in orders : o.key = doc.key /\ o.id = doc.order,
         request[r].step \in Reading
            \/ (doc.step \notin Before /\ doc.expected = request[r].expected),
         doc.step = "agreed" => \/ available < doc.qty
                                \/ doc.total = doc.qty * doc.unitPrice,
         UNCHANGED <<worldVars, orders, keys, clearing, restocked>>
  PROVE  CheckoutInv'
  <1>. USE DEF CheckoutInv, RequestDocs
  <1>1. \A s \in Requests : request'[s] = IF s = r THEN doc ELSE request[s]
    BY DEF CheckoutTypeOK
  <1>2. CheckoutTypeOK'
    BY DEF CheckoutTypeOK, worldVars
  <1>3. CarriedOver'
    BY <1>1 DEF CarriedOver
  <1>4. NamesOrder'
    BY <1>1 DEF NamesOrder
  <1>5. OrdersAreOwned'
    BY <1>1 DEF OrdersAreOwned, Reading, Before, CheckoutTypeOK
  <1>6. OneOrderPerKey' /\ StoreIsTrue' /\ PricedAsReserved'
    BY DEF OneOrderPerKey, StoreIsTrue, PricedAsReserved
  <1>7. PricedByStock'
    BY <1>1 DEF PricedByStock, worldVars
  <1>. QED
    BY <1>2, <1>3, <1>4, <1>5, <1>6, <1>7

LEMMA BeginStep ==
  ASSUME CheckoutInv, NEW r \in Requests, NEW k \in Keys, NEW expected \in Totals,
         Begin(r, k, expected)
  PROVE  CheckoutInv'
  <1>. USE DEF CheckoutInv, RequestDocs
  <1>0. expected \in Nat /\ request[r].step = "idle" /\ "idle" \in Reading
    BY TotalsAreNat DEF Begin, Reading
  <1>1. CASE KeyDocs(k) = {}
    <2>. DEFINE doc == [request[r] EXCEPT !.step = "looked", !.key = k, !.expected = expected]
    <2>1. request' = [request EXCEPT ![r] = doc]
      BY <1>1 DEF Begin
    <2>2. /\ doc.step = "looked" /\ doc.order = request[r].order
          /\ doc \in RequestDocs
      BY <1>0 DEF CheckoutTypeOK
    <2>3. UNCHANGED <<worldVars, orders, keys, clearing, restocked>>
      BY DEF Begin
    <2>. HIDE DEF doc
    <2>. QED
      BY <1>0, <2>1, <2>2, <2>3, QuietRequestStep DEF CarriedOver, Before
  <1>2. CASE KeyDocs(k) # {}
    <2>1. PICK d \in KeyDocs(k) :
             request' = [request EXCEPT
                   ![r].step = IF d.expected = expected THEN "answered" ELSE "refused",
                   ![r].key = k, ![r].expected = expected,
                   ![r].order = d.order, ![r].total = d.total]
      BY <1>2 DEF Begin
    <2>. DEFINE doc == [request[r] EXCEPT
                   !.step = IF d.expected = expected THEN "answered" ELSE "refused",
                   !.key = k, !.expected = expected, !.order = d.order, !.total = d.total]
    <2>2. request' = [request EXCEPT ![r] = doc]
      BY <2>1
    <2>3. /\ d \in keys /\ d.key = k /\ d.total = d.expected
          /\ \E o \in orders : o.key = d.key /\ o.id = d.order
      BY DEF KeyDocs, StoreIsTrue
    <2>4. d.order \in Requests /\ d.total \in Nat
      BY <2>3 DEF CheckoutTypeOK
    <2>. DEFINE step == IF d.expected = expected THEN "answered" ELSE "refused"
    <2>5. step \in {"answered", "refused"} /\ (step = "answered" => d.expected = expected)
      OBVIOUS
    <2>6. request[r] \in RequestDocs
      BY DEF CheckoutTypeOK
    <2>7. /\ doc.step = step /\ doc.total = d.total /\ doc.expected = expected
          /\ doc.key = k /\ doc.order = d.order
          /\ doc.qty = request[r].qty /\ doc.unitPrice = request[r].unitPrice
      BY <2>6
    <2>8. /\ doc.step = "answered" => doc.total = doc.expected
          /\ doc.key = d.key /\ doc.order = d.order
          /\ doc.step \in {"answered", "refused"}
          /\ doc \in RequestDocs
      <3>1. doc.step = "answered" => doc.total = doc.expected
        BY <2>3, <2>5, <2>7
      <3>. HIDE DEF step
      <3>2. doc \in RequestDocs
        BY <1>0, <2>4, <2>5, <2>6
      <3>. QED
        BY <3>1, <3>2, <2>3, <2>5, <2>7
    <2>9. UNCHANGED <<worldVars, orders, keys, clearing, restocked>>
      BY DEF Begin
    <2>. HIDE DEF doc
    <2>. QED
      BY <1>0, <2>2, <2>3, <2>8, <2>9, QuietRequestStep DEF Before
  <1>. QED
    BY <1>1, <1>2

LEMMA ReadStep ==
  ASSUME CheckoutInv, NEW r \in Requests,
         ReadCart(r) \/ ReadCatalog(r) \/ Adopt(r) \/ Lost(r)
  PROVE  CheckoutInv'
  <1>. USE DEF CheckoutInv, RequestDocs
  <1>0. UNCHANGED <<worldVars, orders, keys, clearing, restocked>> /\ request[r] \in RequestDocs
    BY DEF ReadCart, ReadCatalog, Adopt, Lost, CheckoutTypeOK
  <1>1. CASE request' = [request EXCEPT ![r].step = "refused"] \/ Lost(r)
    <2>1. PICK step \in {"refused", "lost"} :
             request' = [request EXCEPT ![r] = [request[r] EXCEPT !.step = step]]
      BY <1>1 DEF Lost
    <2>. DEFINE doc == [request[r] EXCEPT !.step = step]
    <2>2. /\ doc \in RequestDocs /\ doc.step \in {"refused", "lost"}
          /\ doc.expected = request[r].expected
      BY <1>0
    <2>3. request' = [request EXCEPT ![r] = doc]
      BY <2>1
    <2>. HIDE DEF doc
    <2>. QED
      BY <1>0, <2>2, <2>3, QuietRequestStep DEF Before
  <1>2. CASE ReadCart(r) /\ cart # 0
    <2>. DEFINE doc == [request[r] EXCEPT !.step = "carted", !.qty = cart]
    <2>1. request' = [request EXCEPT ![r] = doc]
      BY <1>2 DEF ReadCart
    <2>2. /\ doc \in RequestDocs /\ doc.step = "carted" /\ doc.qty # 0
          /\ doc.order = request[r].order
      BY <1>0, <1>2 DEF CheckoutTypeOK
    <2>3. request[r].step \in Reading
      BY <1>2 DEF ReadCart, Reading
    <2>. HIDE DEF doc
    <2>. QED
      BY <1>0, <2>1, <2>2, <2>3, QuietRequestStep DEF CarriedOver, Reading, Before
  <1>3. CASE ReadCatalog(r) /\ request' # [request EXCEPT ![r].step = "refused"]
    <2>. DEFINE total == EffectiveQty(request[r].qty) * product.price
                doc == [request[r] EXCEPT !.step = "agreed",
                                          !.unitPrice = product.price, !.total = total]
    <2>1. /\ request' = [request EXCEPT ![r] = doc]
          /\ total = request[r].expected
          /\ request[r].step = "carted"
      BY <1>3 DEF ReadCatalog, Refuse
    <2>2. product.price \in Prices
      BY DEF CheckoutTypeOK
    <2>3. total \in Nat
      BY <1>0, <2>1
    <2>a. available < request[r].qty \/ total = request[r].qty * product.price
      BY <1>0, <2>1 DEF EffectiveQty, CheckoutTypeOK
    <2>. HIDE DEF total
    <2>4. /\ doc \in RequestDocs /\ doc.step = "agreed" /\ doc.qty = request[r].qty
          /\ doc.order = request[r].order /\ doc.unitPrice \in Prices
          /\ doc.total = doc.expected
          /\ doc.total = total /\ doc.unitPrice = product.price
      BY <1>0, <2>1, <2>2, <2>3
    <2>. HIDE DEF doc
    <2>. QED
      BY <1>0, <2>1, <2>a, <2>4, QuietRequestStep DEF CarriedOver, Before, Reading
  <1>4. CASE Adopt(r)
    <2>1. PICK o \in OrdersOf(request[r].key) :
             request' = [request EXCEPT ![r].step = "committed", ![r].order = o.id]
      BY <1>4 DEF Adopt
    <2>. DEFINE doc == [request[r] EXCEPT !.step = "committed", !.order = o.id]
    <2>2. request' = [request EXCEPT ![r] = doc] /\ request[r].step = "agreed"
      BY <1>4, <2>1 DEF Adopt
    <2>3. o \in orders /\ o.key = request[r].key /\ o.id \in Requests
      BY DEF OrdersOf, CheckoutTypeOK
    <2>4. /\ doc \in RequestDocs /\ doc.step = "committed" /\ doc.order = o.id
          /\ doc.key = request[r].key /\ doc.total = request[r].total
          /\ doc.expected = request[r].expected
      BY <1>0, <2>3
    <2>. HIDE DEF doc
    <2>. QED
      BY <1>0, <2>2, <2>3, <2>4, QuietRequestStep DEF CarriedOver, Before
  <1>. QED
    BY <1>1, <1>2, <1>3, <1>4 DEF ReadCart, Refuse

(* The transaction commits; the request learns of it, or does not.         *)
LEMMA PlaceStep ==
  ASSUME CheckoutInv, NEW r \in Requests, NEW step \in {"agreed", "committed"},
         request[r].step = "agreed", OrdersOf(request[r].key) = {}, Place(r),
         request' = [request EXCEPT ![r].step = step],
         UNCHANGED <<product, cart, keys, restocked>>
  PROVE  CheckoutInv'
  <1>. USE DEF CheckoutInv, RequestDocs
  <1>1. /\ orders' = orders \union {OrderDoc(r)}
        /\ available >= request[r].qty
        /\ available' = available - request[r].qty
        /\ clearing' = clearing \union {r}
    BY DEF Place
  <1>2. /\ request[r].key \in Keys /\ request[r].qty \in 1..MaxQty
        /\ request[r].unitPrice \in Prices /\ request[r].total \in Nat
        /\ request[r].total = request[r].expected /\ request[r].order = r
    BY CheckoutAssumption DEF CheckoutTypeOK, CarriedOver, Before
  <1>3. /\ OrderDoc(r).id = r /\ OrderDoc(r).key = request[r].key
        /\ OrderDoc(r).total = request[r].expected
        /\ OrderDoc(r).qty = request[r].qty /\ OrderDoc(r).unitPrice = request[r].unitPrice
        /\ OrderDoc(r) \in [id : Requests, key : Keys, qty : 1..MaxQty,
                            unitPrice : Prices, total : Nat]
    BY <1>2 DEF OrderDoc
  <1>4. \A s \in Requests :
           /\ request'[s].step = IF s = r THEN step ELSE request[s].step
           /\ request'[s].key = request[s].key
           /\ request'[s].expected = request[s].expected
           /\ request'[s].qty = request[s].qty
           /\ request'[s].unitPrice = request[s].unitPrice
           /\ request'[s].total = request[s].total
           /\ request'[s].order = request[s].order
    BY DEF CheckoutTypeOK
  <1>5. available' \in 0..MaxStock /\ available' <= available
    BY <1>1, <1>2, CheckoutAssumption DEF CheckoutTypeOK
  <1>6. CheckoutTypeOK'
    BY <1>1, <1>3, <1>5 DEF CheckoutTypeOK
  <1>7. CarriedOver'
    BY <1>2, <1>4 DEF CarriedOver, Before
  <1>8. NamesOrder'
    BY <1>1, <1>2, <1>3, <1>4 DEF NamesOrder
  <1>9. OrdersAreOwned'
    BY <1>1, <1>3, <1>4 DEF OrdersAreOwned, Reading, CheckoutTypeOK
  <1>10. OneOrderPerKey'
    BY <1>1, <1>3 DEF OneOrderPerKey, OrdersOf
  <1>11. StoreIsTrue'
    BY <1>1 DEF StoreIsTrue
  <1>12. PricedAsReserved'
    BY <1>1, <1>2, <1>3 DEF PricedAsReserved, PricedByStock, CheckoutTypeOK
  <1>13. PricedByStock'
    <2>. SUFFICES ASSUME NEW s \in Requests, request'[s].step = "agreed", s \notin restocked
                  PROVE  \/ available' < request[s].qty
                         \/ request[s].total = request[s].qty * request[s].unitPrice
      BY <1>4 DEF PricedByStock
    <2>1. \/ available < request[s].qty
          \/ request[s].total = request[s].qty * request[s].unitPrice
      BY <1>4 DEF PricedByStock
    <2>. QED
      BY <1>5, <2>1 DEF CheckoutTypeOK
  <1>. QED
    BY <1>6, <1>7, <1>8, <1>9, <1>10, <1>11, <1>12, <1>13

LEMMA CreateOrderStep ==
  ASSUME CheckoutInv, NEW r \in Requests, CreateOrder(r) \/ CommitUnknown(r)
  PROVE  CheckoutInv'
  <1>1. /\ request[r].step = "agreed" /\ OrdersOf(request[r].key) = {}
        /\ UNCHANGED <<product, cart, keys, restocked>>
    BY DEF CreateOrder, CommitUnknown
  <1>2. CASE CreateOrder(r) /\ ~Place(r)
    <2>. DEFINE doc == [request[r] EXCEPT !.step = "refused"]
    <2>1. /\ request' = [request EXCEPT ![r] = doc]
          /\ UNCHANGED <<worldVars, orders, keys, clearing, restocked>>
      BY <1>2 DEF CreateOrder, Refuse, worldVars, CheckoutInv, CheckoutTypeOK
    <2>2. /\ doc \in RequestDocs
          /\ doc.step = "refused" /\ doc.expected = request[r].expected
      BY DEF CheckoutInv, CheckoutTypeOK, RequestDocs
    <2>. HIDE DEF doc
    <2>. QED
      BY <2>1, <2>2, QuietRequestStep DEF Before
  <1>3. CASE CreateOrder(r) /\ Place(r)
    <2>1. request' = [request EXCEPT ![r].step = "committed"]
      <3>1. available >= request[r].qty
        BY <1>3 DEF Place
      <3>. QED
        BY <1>3, <3>1 DEF CreateOrder, CheckoutInv, CheckoutTypeOK, RequestDocs
    <2>. QED
      BY <1>1, <1>3, <2>1, PlaceStep
  <1>4. CASE CommitUnknown(r)
    <2>1. request' = [request EXCEPT ![r].step = "agreed"]
      BY <1>1, <1>4 DEF CommitUnknown, CheckoutInv, CheckoutTypeOK, RequestDocs
    <2>2. Place(r)
      BY <1>4 DEF CommitUnknown
    <2>. QED
      BY <1>1, <2>1, <2>2, PlaceStep
  <1>. QED
    BY <1>2, <1>3, <1>4

LEMMA RecordKeyStep ==
  ASSUME CheckoutInv, NEW r \in Requests, RecordKey(r)
  PROVE  CheckoutInv'
  <1>. USE DEF CheckoutInv, RequestDocs
  <1>1. /\ request' = [request EXCEPT ![r].step = "answered"]
        /\ request[r].step = "committed"
        /\ UNCHANGED <<product, available, cart, orders, clearing, restocked>>
        /\ keys' \subseteq keys \union {KeyDoc(r)}
    BY DEF RecordKey, worldVars
  <1>2. /\ KeyDoc(r) \in [key : Keys, expected : Nat, order : Requests, total : Nat]
        /\ KeyDoc(r).total = KeyDoc(r).expected
        /\ \E o \in orders : o.key = KeyDoc(r).key /\ o.id = KeyDoc(r).order
    <2>1. /\ KeyDoc(r).key = request[r].key /\ KeyDoc(r).order = request[r].order
          /\ KeyDoc(r).total = request[r].total /\ KeyDoc(r).expected = request[r].expected
      BY DEF KeyDoc
    <2>2. KeyDoc(r) \in [key : Keys, expected : Nat, order : Requests, total : Nat]
      BY DEF KeyDoc, CheckoutTypeOK
    <2>. QED
      BY <1>1, <2>1, <2>2 DEF CarriedOver, NamesOrder
  <1>3. \A s \in Requests :
           /\ request'[s].step = IF s = r THEN "answered" ELSE request[s].step
           /\ request'[s].key = request[s].key
           /\ request'[s].expected = request[s].expected
           /\ request'[s].qty = request[s].qty
           /\ request'[s].unitPrice = request[s].unitPrice
           /\ request'[s].total = request[s].total
           /\ request'[s].order = request[s].order
    BY <1>1 DEF CheckoutTypeOK
  <1>4. CheckoutTypeOK'
    BY <1>1, <1>2 DEF CheckoutTypeOK
  <1>5. CarriedOver'
    BY <1>1, <1>3 DEF CarriedOver, Before
  <1>6. NamesOrder'
    BY <1>1, <1>3 DEF NamesOrder
  <1>7. OrdersAreOwned'
    BY <1>1, <1>3 DEF OrdersAreOwned, Reading, CheckoutTypeOK
  <1>8. OneOrderPerKey' /\ StoreIsTrue' /\ PricedAsReserved'
    BY <1>1, <1>2 DEF OneOrderPerKey, StoreIsTrue, PricedAsReserved
  <1>9. PricedByStock'
    BY <1>1, <1>3 DEF PricedByStock
  <1>. QED
    BY <1>4, <1>5, <1>6, <1>7, <1>8, <1>9

LEMMA OthersStep ==
  ASSUME CheckoutInv,
         \/ \E r \in Requests : HandleClearCart(r)
         \/ ProductChanges \/ StockMoves \/ CartChanges
         \/ \E d \in keys : KeyExpires(d)
         \/ UNCHANGED vars
  PROVE  CheckoutInv'
  <1>. USE DEF CheckoutInv, RequestDocs
  <1>1. UNCHANGED <<orders, request>> /\ keys' \subseteq keys
    BY DEF HandleClearCart, ProductChanges, StockMoves, CartChanges, KeyExpires, worldVars, vars
  <1>2. /\ product' \in [price : Prices, listed : BOOLEAN]
        /\ available' \in 0..MaxStock /\ cart' \in 0..MaxQty /\ clearing' \subseteq Requests
    BY CheckoutAssumption
    DEF HandleClearCart, ProductChanges, StockMoves, CartChanges, KeyExpires, worldVars,
        vars, CheckoutTypeOK
  <1>6. /\ restocked \subseteq restocked' /\ restocked' \subseteq Requests
        /\ \/ available' <= available
           \/ \A r \in Requests : request[r].step = "agreed" => r \in restocked'
    BY DEF HandleClearCart, ProductChanges, StockMoves, CartChanges, KeyExpires, worldVars,
           vars, CheckoutTypeOK
  <1>3. CheckoutTypeOK'
    BY <1>1, <1>2, <1>6 DEF CheckoutTypeOK
  <1>4. CarriedOver' /\ NamesOrder' /\ OrdersAreOwned' /\ OneOrderPerKey'
    BY <1>1 DEF CarriedOver, NamesOrder, OrdersAreOwned, OneOrderPerKey
  <1>5. StoreIsTrue'
    BY <1>1 DEF StoreIsTrue
  <1>7. PricedAsReserved'
    BY <1>1, <1>6 DEF PricedAsReserved
  <1>8. PricedByStock'
    <2>. SUFFICES ASSUME NEW r \in Requests, request[r].step = "agreed", r \notin restocked'
                  PROVE  \/ available' < request[r].qty
                         \/ request[r].total = request[r].qty * request[r].unitPrice
      BY <1>1 DEF PricedByStock
    <2>1. \/ available < request[r].qty
          \/ request[r].total = request[r].qty * request[r].unitPrice
      BY <1>6 DEF PricedByStock
    <2>2. available' <= available
      BY <1>6
    <2>. QED
      BY <1>2, <2>1, <2>2 DEF CheckoutTypeOK
  <1>. QED
    BY <1>3, <1>4, <1>5, <1>7, <1>8

THEOREM CheckoutInvariant == CheckoutSpec => []CheckoutInv
  <1>1. CheckoutInv /\ [CheckoutNext]_vars => CheckoutInv'
    BY BeginStep, ReadStep, CreateOrderStep, RecordKeyStep, OthersStep
    DEF CheckoutNext, RequestNext
  <1>. QED
    BY CheckoutInitInv, <1>1, PTL DEF CheckoutSpec

(* Every document and every request keeps its type.                        *)
THEOREM CheckoutTypeCorrect == CheckoutSpec => []CheckoutTypeOK
  <1>1. CheckoutInv => CheckoutTypeOK
    BY DEF CheckoutInv
  <1>. QED
    BY CheckoutInvariant, <1>1, PTL

(* However many requests carry a key, it places one order.                 *)
THEOREM KeysAreIdempotent == CheckoutSpec => []OneOrderPerKey
  <1>1. CheckoutInv => OneOrderPerKey
    BY DEF CheckoutInv
  <1>. QED
    BY CheckoutInvariant, <1>1, PTL

(* Answers of 201 to one key and payload are the same answer.              *)
THEOREM RepeatedSuccessesAgree == CheckoutSpec => []SuccessesAgree
  <1>1. CheckoutInv => SuccessesAgree
    <2>. SUFFICES ASSUME CheckoutInv, NEW r \in Requests, NEW s \in Requests,
                         Answered(r), Answered(s), SamePayload(r, s)
                  PROVE  /\ request[r].order = request[s].order
                         /\ request[r].total = request[s].total
      BY DEF SuccessesAgree
    <2>1. PICK o1 \in orders : o1.key = request[r].key /\ o1.id = request[r].order
      BY DEF CheckoutInv, NamesOrder, Answered
    <2>2. PICK o2 \in orders : o2.key = request[s].key /\ o2.id = request[s].order
      BY DEF CheckoutInv, NamesOrder, Answered
    <2>3. o1 = o2
      BY <2>1, <2>2 DEF CheckoutInv, OneOrderPerKey, SamePayload
    <2>4. request[r].total = request[r].expected /\ request[s].total = request[s].expected
      BY DEF CheckoutInv, CarriedOver, Answered
    <2>. QED
      BY <2>1, <2>2, <2>3, <2>4 DEF SamePayload
  <1>. QED
    BY CheckoutInvariant, <1>1, PTL

(* An answer of 201 names the order that exists for its key.               *)
THEOREM AnswersNameOrders == CheckoutSpec => []AnswerNamesOrder
  <1>1. CheckoutInv => AnswerNamesOrder
    BY DEF CheckoutInv, NamesOrder, AnswerNamesOrder, Answered, OrdersOf
  <1>. QED
    BY CheckoutInvariant, <1>1, PTL

(* No order has a total that its client did not expect.                    *)
THEOREM OrdersChargedAsConfirmed == CheckoutSpec => []ChargedAsConfirmed
  <1>1. CheckoutInv => ChargedAsConfirmed
    BY DEF CheckoutInv, OrdersAreOwned, ChargedAsConfirmed
  <1>. QED
    BY CheckoutInvariant, <1>1, PTL

(* The order's total is the price of the units it reserves, or stock came  *)
(* back after the request had priced what was left                         *)
(* (orders.service.ts:127-163, cart.service.ts:79-101).                    *)
THEOREM ReservedUnitsArePaidFor == CheckoutSpec => []PricedAsReserved
  <1>1. CheckoutInv => PricedAsReserved
    BY DEF CheckoutInv
  <1>. QED
    BY CheckoutInvariant, <1>1, PTL

-----------------------------------------------------------------------------
(* What the keys promise.                                                  *)

Asked == [r \in Requests |->
             IF request[r].step = "idle" THEN {}
             ELSE {[key |-> request[r].key, expected |-> request[r].expected]}]
Told == [r \in Requests |->
            IF ~Answered(r) THEN {}
            ELSE {[order |-> request[r].order, total |-> request[r].total]}]

LEMMA DeskBegin ==
  ASSUME CheckoutInv, NEW r \in Requests, NEW k \in Keys, NEW expected \in Totals,
         Begin(r, k, expected)
  PROVE  Desk!DeskNext
  <1>. DEFINE q == [key |-> k, expected |-> expected]
  <1>0. request[r] \in RequestDocs
    BY DEF CheckoutInv, CheckoutTypeOK
  <1>1. request[r].step = "idle" /\ orders' = orders
    BY DEF Begin
  <1>2. Asked[r] = {} /\ Told[r] = {}
    BY <1>1 DEF Asked, Told, Answered
  <1>3. q \in [key : Keys, expected : Totals]
    OBVIOUS
  <1>4. CASE KeyDocs(k) = {}
    <2>1. /\ request'[r].step = "looked"
          /\ request'[r].key = k /\ request'[r].expected = expected
      BY <1>0, <1>4 DEF Begin, CheckoutInv, CheckoutTypeOK, RequestDocs
    <2>2. \A s \in Requests \ {r} : request'[s] = request[s]
      BY <1>4 DEF Begin, CheckoutInv, CheckoutTypeOK
    <2>3. Asked' = [Asked EXCEPT ![r] = {q}]
      BY <2>1, <2>2 DEF Asked
    <2>4. Told' = Told
      BY <1>1, <2>1, <2>2 DEF Told, Answered
    <2>5. Desk!Ask(r)
      BY <1>1, <1>2, <1>3, <2>3, <2>4 DEF Desk!Ask, Asked, Told
    <2>. QED
      BY <2>5 DEF Desk!DeskNext
  <1>5. CASE KeyDocs(k) # {}
    <2>1. PICK d \in KeyDocs(k) :
             request' = [request EXCEPT
                   ![r].step = IF d.expected = expected THEN "answered" ELSE "refused",
                   ![r].key = k, ![r].expected = expected,
                   ![r].order = d.order, ![r].total = d.total]
      BY <1>5 DEF Begin
    <2>. DEFINE doc == [request[r] EXCEPT
                   !.step = IF d.expected = expected THEN "answered" ELSE "refused",
                   !.key = k, !.expected = expected, !.order = d.order, !.total = d.total]
    <2>2. request' = [request EXCEPT ![r] = doc]
      BY <2>1
    <2>3. /\ doc.step = (IF d.expected = expected THEN "answered" ELSE "refused")
          /\ doc.key = k /\ doc.expected = expected
          /\ doc.order = d.order /\ doc.total = d.total
      BY <1>0 DEF RequestDocs
    <2>. HIDE DEF doc
    <2>4. request'[r] = doc /\ \A s \in Requests \ {r} : request'[s] = request[s]
      BY <2>2 DEF CheckoutInv, CheckoutTypeOK
    <2>5. Asked' = [Asked EXCEPT ![r] = {q}]
      BY <2>3, <2>4 DEF Asked
    <2>6. d.total = d.expected /\ \E o \in orders : o.key = k /\ o.id = d.order
      BY DEF KeyDocs, CheckoutInv, StoreIsTrue
    <2>7. CASE d.expected # expected
      <3>1. Told' = Told
        BY <1>1, <2>3, <2>4, <2>7 DEF Told, Answered
      <3>2. Desk!Ask(r)
        BY <1>1, <1>2, <1>3, <2>5, <3>1 DEF Desk!Ask, Asked, Told
      <3>. QED
        BY <3>2 DEF Desk!DeskNext
    <2>8. CASE d.expected = expected
      <3>1. PICK o \in orders : o.key = k /\ o.id = d.order
        BY <2>6
      <3>2. Told' = [Told EXCEPT ![r] = {[order |-> o.id, total |-> expected]}]
        BY <2>3, <2>4, <2>6, <2>8, <3>1 DEF Told, Answered
      <3>3. Desk!Tell(r, q)
        BY <1>2, <3>1, <3>2 DEF Desk!Tell, Told
      <3>4. Desk!Ask(r)
        BY <1>1, <1>2, <1>3, <2>5, <3>3 DEF Desk!Ask, Asked
      <3>. QED
        BY <3>4 DEF Desk!DeskNext
    <2>. QED
      BY <2>7, <2>8
  <1>. QED
    BY <1>4, <1>5

(* A request at work that is not answered by this step.                    *)
LEMMA DeskQuiet ==
  ASSUME CheckoutTypeOK, NEW r \in Requests, NEW doc, request' = [request EXCEPT ![r] = doc],
         request[r].step \notin {"idle", "answered"}, doc.step \notin {"idle", "answered"},
         doc.key = request[r].key, doc.expected = request[r].expected
  PROVE  Asked' = Asked /\ Told' = Told
  <1>1. request'[r] = doc /\ \A s \in Requests \ {r} : request'[s] = request[s]
    BY DEF CheckoutTypeOK
  <1>2. Asked' = Asked
    BY <1>1 DEF Asked
  <1>3. Told' = Told
    BY <1>1 DEF Told, Answered
  <1>. QED
    BY <1>2, <1>3

LEMMA DeskWork ==
  ASSUME CheckoutInv, NEW r \in Requests,
         ReadCart(r) \/ ReadCatalog(r) \/ Adopt(r) \/ Lost(r)
  PROVE  Asked' = Asked /\ Told' = Told /\ orders' = orders
  <1>. USE DEF Refuse
  <1>0. CheckoutTypeOK /\ request[r] \in RequestDocs
    BY DEF CheckoutInv, CheckoutTypeOK
  <1>1. request[r].step \in {"looked", "carted", "agreed", "committed"} /\ orders' = orders
    BY DEF ReadCart, ReadCatalog, Adopt, Lost
  <1>2. CASE \E step \in {"carted", "agreed", "committed", "refused", "lost"} :
             request' = [request EXCEPT ![r].step = step]
    <2>1. PICK step \in {"carted", "agreed", "committed", "refused", "lost"} :
             request' = [request EXCEPT ![r].step = step]
      BY <1>2
    <2>. DEFINE doc == [request[r] EXCEPT !.step = step]
    <2>2. doc.step = step /\ doc.key = request[r].key /\ doc.expected = request[r].expected
      BY <1>0 DEF RequestDocs
    <2>3. request' = [request EXCEPT ![r] = doc]
      BY <2>1
    <2>. HIDE DEF doc
    <2>. QED
      BY <1>0, <1>1, <2>2, <2>3, DeskQuiet
  <1>3. CASE request' = [request EXCEPT ![r].step = "carted", ![r].qty = cart]
    <2>. DEFINE doc == [request[r] EXCEPT !.step = "carted", !.qty = cart]
    <2>1. doc.step = "carted" /\ doc.key = request[r].key /\ doc.expected = request[r].expected
      BY <1>0 DEF RequestDocs
    <2>2. request' = [request EXCEPT ![r] = doc]
      BY <1>3
    <2>. HIDE DEF doc
    <2>. QED
      BY <1>0, <1>1, <2>1, <2>2, DeskQuiet
  <1>4. ASSUME NEW price, NEW total,
               request' = [request EXCEPT ![r].step = "agreed",
                                          ![r].unitPrice = price, ![r].total = total]
        PROVE  Asked' = Asked /\ Told' = Told
    <2>. DEFINE doc == [request[r] EXCEPT !.step = "agreed", !.unitPrice = price, !.total = total]
    <2>1. doc.step = "agreed" /\ doc.key = request[r].key /\ doc.expected = request[r].expected
      BY <1>0 DEF RequestDocs
    <2>2. request' = [request EXCEPT ![r] = doc]
      BY <1>4
    <2>. HIDE DEF doc
    <2>. QED
      BY <1>0, <1>1, <2>1, <2>2, DeskQuiet
  <1>5. ASSUME NEW id, request' = [request EXCEPT ![r].step = "committed", ![r].order = id]
        PROVE  Asked' = Asked /\ Told' = Told
    <2>. DEFINE doc == [request[r] EXCEPT !.step = "committed", !.order = id]
    <2>1. doc.step = "committed" /\ doc.key = request[r].key /\ doc.expected = request[r].expected
      BY <1>0 DEF RequestDocs
    <2>2. request' = [request EXCEPT ![r] = doc]
      BY <1>5
    <2>. HIDE DEF doc
    <2>. QED
      BY <1>0, <1>1, <2>1, <2>2, DeskQuiet
  <1>6. ASSUME ReadCart(r) PROVE Asked' = Asked /\ Told' = Told
    BY <1>2, <1>3, <1>6 DEF ReadCart
  <1>7. ASSUME ReadCatalog(r) PROVE Asked' = Asked /\ Told' = Told
    BY <1>2, <1>4, <1>7 DEF ReadCatalog
  <1>8. ASSUME Adopt(r) PROVE Asked' = Asked /\ Told' = Told
    BY <1>5, <1>8 DEF Adopt
  <1>9. ASSUME Lost(r) PROVE Asked' = Asked /\ Told' = Told
    BY <1>2, <1>9 DEF Lost
  <1>. QED
    BY <1>1, <1>6, <1>7, <1>8, <1>9

LEMMA DeskPlace ==
  ASSUME CheckoutInv, NEW r \in Requests, request[r].step = "agreed",
         OrdersOf(request[r].key) = {}, Place(r), Asked' = Asked, Told' = Told
  PROVE  Desk!DeskNext
  <1>. DEFINE q == [key |-> request[r].key, expected |-> request[r].expected]
  <1>1. q \in Asked[r] /\ Told[r] = {}
    BY DEF Asked, Told, Answered
  <1>2. /\ request[r].qty \in 1..MaxQty /\ request[r].unitPrice \in Prices
        /\ request[r].total = request[r].expected
    <2>1. request[r].qty \in 0..MaxQty /\ request[r].qty # 0
      BY DEF CheckoutInv, CheckoutTypeOK, RequestDocs, CarriedOver
    <2>. QED
      BY <2>1, CheckoutAssumption DEF CheckoutInv, CarriedOver
  <1>3. \A o \in orders : o.key # q.key
    BY DEF OrdersOf
  <1>4. orders' = orders \union {[id |-> r, key |-> q.key, qty |-> request[r].qty,
                                 unitPrice |-> request[r].unitPrice, total |-> q.expected]}
    BY <1>2 DEF Place, OrderDoc
  <1>5. Desk!Place(r, q)
    BY <1>1, <1>2, <1>3, <1>4 DEF Desk!Place, Asked, Told
  <1>. QED
    BY <1>1, <1>5 DEF Desk!DeskNext, Asked

LEMMA DeskCreate ==
  ASSUME CheckoutInv, NEW r \in Requests, CreateOrder(r) \/ CommitUnknown(r)
  PROVE  Desk!DeskNext \/ (Asked' = Asked /\ Told' = Told /\ orders' = orders)
  <1>0. CheckoutTypeOK /\ request[r] \in RequestDocs
    BY DEF CheckoutInv, CheckoutTypeOK
  <1>1. request[r].step = "agreed" /\ OrdersOf(request[r].key) = {}
    BY DEF CreateOrder, CommitUnknown
  <1>2. Asked' = Asked /\ Told' = Told
    <2>1. ASSUME NEW step \in {"committed", "refused"}, request' = [request EXCEPT ![r].step = step]
          PROVE  Asked' = Asked /\ Told' = Told
      <3>. DEFINE doc == [request[r] EXCEPT !.step = step]
      <3>1. doc.step = step /\ doc.key = request[r].key /\ doc.expected = request[r].expected
        BY <1>0 DEF RequestDocs
      <3>2. request' = [request EXCEPT ![r] = doc]
        BY <2>1
      <3>. HIDE DEF doc
      <3>. QED
        BY <1>0, <1>1, <3>1, <3>2, DeskQuiet
    <2>2. CASE UNCHANGED request
      BY <2>2 DEF Asked, Told, Answered
    <2>. QED
      BY <2>1, <2>2 DEF CreateOrder, CommitUnknown, Refuse
  <1>3. CASE Place(r)
    BY <1>1, <1>2, <1>3, DeskPlace
  <1>4. CASE ~Place(r)
    BY <1>2, <1>4 DEF CreateOrder, CommitUnknown
  <1>. QED
    BY <1>3, <1>4

LEMMA DeskRecord ==
  ASSUME CheckoutInv, NEW r \in Requests, RecordKey(r)
  PROVE  Desk!DeskNext
  <1>. DEFINE q == [key |-> request[r].key, expected |-> request[r].expected]
              doc == [request[r] EXCEPT !.step = "answered"]
  <1>0. request[r] \in RequestDocs
    BY DEF CheckoutInv, CheckoutTypeOK
  <1>1. request[r].step = "committed" /\ orders' = orders
    BY DEF RecordKey
  <1>2. /\ doc.step = "answered" /\ doc.key = request[r].key
        /\ doc.expected = request[r].expected
        /\ doc.order = request[r].order /\ doc.total = request[r].total
    BY <1>0 DEF RequestDocs
  <1>3. request' = [request EXCEPT ![r] = doc]
    BY DEF RecordKey
  <1>. HIDE DEF doc
  <1>4. request'[r] = doc /\ \A s \in Requests \ {r} : request'[s] = request[s]
    BY <1>3 DEF CheckoutInv, CheckoutTypeOK
  <1>5. q \in Asked[r] /\ Told[r] = {}
    BY <1>1 DEF Asked, Told, Answered
  <1>6. Asked' = Asked
    BY <1>1, <1>2, <1>4 DEF Asked
  <1>7. PICK o \in orders : o.key = q.key /\ o.id = request[r].order
    BY <1>1 DEF CheckoutInv, NamesOrder
  <1>8. request[r].total = request[r].expected
    BY <1>1 DEF CheckoutInv, CarriedOver
  <1>9. Told' = [Told EXCEPT ![r] = {[order |-> o.id, total |-> q.expected]}]
    BY <1>2, <1>4, <1>7, <1>8 DEF Told, Answered
  <1>10. Desk!Answer(r, q)
    BY <1>1, <1>5, <1>6, <1>7, <1>9 DEF Desk!Answer, Desk!Tell, Asked, Told
  <1>. QED
    BY <1>5, <1>10 DEF Desk!DeskNext, Asked

(* Checkout keeps what a key promises: one order, one answer to a request, *)
(* the total it expected, nothing taken back; across concurrent requests,  *)
(* lost answers, commits of unknown result, keys that expire and keys that *)
(* were never recorded (orders.service.ts:168-312).                        *)
THEOREM CheckoutImplementsKeyedOrders == CheckoutSpec => ImplementsKeyedOrders
  <1>1. ASSUME CheckoutInit PROVE Desk!DeskInit
    <2>1. Asked = [r \in Requests |-> {}] /\ Told = [r \in Requests |-> {}]
      BY <1>1 DEF CheckoutInit, Fresh, Asked, Told, Answered
    <2>. QED
      BY <1>1, <2>1 DEF CheckoutInit, Desk!DeskInit, Asked, Told
  <1>2. ASSUME CheckoutInv, [CheckoutNext]_vars
        PROVE  [Desk!DeskNext]_(Desk!deskVars)
    <2>1. ASSUME Asked' = Asked, Told' = Told, orders' = orders
          PROVE  [Desk!DeskNext]_(Desk!deskVars)
      BY <2>1 DEF Desk!deskVars, Asked, Told
    <2>2. ASSUME NEW r \in Requests, RequestNext(r)
          PROVE  [Desk!DeskNext]_(Desk!deskVars)
      <3>1. CASE HandleClearCart(r)
        BY <2>1, <3>1 DEF HandleClearCart, Asked, Told, Answered
      <3>. QED
        BY <1>2, <2>1, <2>2, <3>1, DeskBegin, DeskWork, DeskCreate, DeskRecord DEF RequestNext
    <2>3. ASSUME \/ ProductChanges \/ StockMoves \/ CartChanges
                 \/ \E d \in keys : KeyExpires(d)
                 \/ UNCHANGED vars
          PROVE  [Desk!DeskNext]_(Desk!deskVars)
      <3>1. UNCHANGED <<request, orders>>
        BY <2>3 DEF ProductChanges, StockMoves, CartChanges, KeyExpires, vars
      <3>. QED
        BY <2>1, <3>1 DEF Asked, Told, Answered
    <2>. QED
      BY <1>2, <2>2, <2>3 DEF CheckoutNext
  <1>. QED
    BY <1>1, <1>2, CheckoutInvariant, PTL
    DEF CheckoutSpec, ImplementsKeyedOrders, Desk!DeskSpec
=============================================================================
