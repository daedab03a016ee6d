----------------------------- MODULE ProductCache -----------------------------
(***************************************************************************)
(* Product pages: getProductById answers from Redis, or reads the product  *)
(* and its stock and leaves a copy in Redis for a minute; administrators   *)
(* write the database and delete the copies.  Neither side holds a lock,   *)
(* each operation is several steps, and Redis may miss any of its commands *)
(* without anyone being told.                                              *)
(*                                                                         *)
(* Every update sets updatedAt; `edits` counts them.  archivedAt, which    *)
(* only the cart reads, is left out: archiving makes a product unavailable.*)
(* Orders move the stock and delete no copies.                             *)
(***************************************************************************)
EXTENDS Integers, FiniteSets

CONSTANTS
    Products,
    Readers,    \* requests for a product page at work at the same time
    Admins,     \* administrators' requests at work at the same time
    Prices,
    StockBands, \* what computeStockStatus tells apart
    MaxEdits    \* bound: updates of one product

ASSUME ProductCacheAssumption ==
    /\ Prices # {}
    /\ Products # {}
    /\ StockBands # {}
    /\ MaxEdits \in Nat

VARIABLES
    product,    \* the product documents
    stock,      \* the band of each product's stock
    cache,      \* the copies in Redis
    reading,    \* what each request for a page has read
    admin,      \* what each administrator's request has done
    suspect     \* history: products whose copy may outlive an update

vars == <<product, stock, cache, reading, admin, suspect>>

AnyProduct == CHOOSE p \in Products : TRUE
AnyBand == CHOOSE s \in StockBands : TRUE

ProductDocs == [price : Prices, version : Nat, edits : Nat, live : BOOLEAN]

(* A copy: what a page shows, without the texts.                           *)
Copies == [price : Prices, version : Nat, edits : Nat, band : StockBands]
NoCopy == [band |-> "none"]

CopyOf(doc, band) ==
    [price |-> doc.price, version |-> doc.version, edits |-> doc.edits, band |-> band]

NoRead == [step |-> "idle", product |-> AnyProduct, copy |-> NoCopy]
NoCall == [step |-> "idle", product |-> AnyProduct, read |-> CHOOSE x \in Prices : TRUE,
           price |-> CHOOSE x \in Prices : TRUE]

At(step, p) == [NoCall EXCEPT !.step = step, !.product = p]

CacheInit ==
    /\ \E x \in Prices :
          product = [p \in Products |-> [price |-> x, version |-> 1, edits |-> 0, live |-> TRUE]]
    /\ stock = [p \in Products |-> AnyBand]
    /\ cache = [p \in Products |-> NoCopy]
    /\ reading = [r \in Readers |-> NoRead]
    /\ admin = [a \in Admins |-> NoCall]
    /\ suspect = {}

Holding(p) == {r \in Readers : reading[r].step \in {"found", "formatted"}
                               /\ reading[r].product = p}
Overtaken(p) == {r \in Holding(p) : reading[r].copy.edits # product[p].edits}
Stale(p) == cache[p] # NoCopy /\ cache[p].edits # product[p].edits

(* An update that goes on without having deleted its stale copy.           *)
LeftStale(a) ==
    IF admin[a].step \in {"written", "deleting"} /\ Stale(admin[a].product)
    THEN suspect \union {admin[a].product} ELSE suspect

-----------------------------------------------------------------------------
(* getProductById.  A hit changes nothing; this is a miss, or a Redis that *)
(* cannot be asked.                                                        *)
GetCached(r, p) ==
    /\ reading[r].step = "idle"
    /\ reading' = [reading EXCEPT ![r] = [NoRead EXCEPT !.step = "missed", !.product = p]]
    /\ UNCHANGED <<product, stock, cache, admin, suspect>>

(* Mutant: an unavailable product is found too.                            *)
FindProductAnyway(r) ==
    LET p == reading[r].product IN
    /\ reading[r].step = "missed"
    /\ reading' = [reading EXCEPT ![r] =
                      [@ EXCEPT !.step = "found", !.copy = CopyOf(product[p], AnyBand)]]
    /\ UNCHANGED <<product, stock, cache, admin, suspect>>

(* findProductById; not found, or not available, is a 404.                 *)
FindProduct(r) ==
    LET p == reading[r].product IN
    /\ reading[r].step = "missed"
    /\ reading' = [reading EXCEPT ![r] =
                      IF product[p].live
                      THEN [@ EXCEPT !.step = "found", !.copy = CopyOf(product[p], AnyBand)]
                      ELSE NoRead]
    /\ UNCHANGED <<product, stock, cache, admin, suspect>>

GetInventory(r) ==
    LET copy == [reading[r].copy EXCEPT !.band = stock[reading[r].product]] IN
    /\ reading[r].step = "found"
    /\ reading' = [reading EXCEPT ![r] = [@ EXCEPT !.step = "formatted", !.copy = copy]]
    /\ UNCHANGED <<product, stock, cache, admin, suspect>>

(* Whatever has been written since, and whatever copy is there.            *)
SetCached(r) ==
    /\ reading[r].step = "formatted"
    /\ cache' = [cache EXCEPT ![reading[r].product] = reading[r].copy]
    /\ reading' = [reading EXCEPT ![r] = NoRead]
    /\ UNCHANGED <<product, stock, admin, suspect>>

(* Redis misses the copy, or the request fails on its way.                 *)
ReadEnds(r) ==
    /\ reading[r].step # "idle"
    /\ reading' = [reading EXCEPT ![r] = NoRead]
    /\ UNCHANGED <<product, stock, cache, admin, suspect>>

(* The TTL of a copy.                                                      *)
CopyExpires(p) ==
    /\ cache[p] # NoCopy
    /\ cache' = [cache EXCEPT ![p] = NoCopy]
    /\ suspect' = IF Overtaken(p) = {} THEN suspect \ {p} ELSE suspect
    /\ UNCHANGED <<product, stock, reading, admin>>

-----------------------------------------------------------------------------
(* An update of p by a; whoever has read p by now is overtaken.            *)
Write(a, p, doc) ==
    /\ product[p].edits < MaxEdits
    /\ product' = [product EXCEPT ![p] = [doc EXCEPT !.edits = @ + 1]]
    /\ admin' = [admin EXCEPT ![a] = At("written", p)]
    /\ suspect' = IF Holding(p) = {} THEN suspect ELSE suspect \union {p}
    /\ UNCHANGED <<stock, cache, reading>>

(* updateProduct: find the existing document, then update.  An update that *)
(* names no price leaves the one it finds when it writes.                  *)
FindExisting(a, p, price) ==
    /\ admin[a].step = "idle"
    /\ admin' = [admin EXCEPT ![a] = [step |-> "updating", product |-> p,
                                      read |-> product[p].price, price |-> price]]
    /\ UNCHANGED <<product, stock, cache, reading, suspect>>

(* Mutant: the version is only bumped when the price rises.                *)
UpdateProductRises(a) ==
    LET p == admin[a].product
        rises == admin[a].price > admin[a].read IN
    /\ admin[a].step = "updating"
    /\ Write(a, p, [product[p] EXCEPT !.price = admin[a].price,
                                      !.version = IF rises THEN @ + 1 ELSE @])

UpdateProduct(a) ==
    LET p == admin[a].product
        priceChanged == admin[a].price # admin[a].read IN
    /\ admin[a].step = "updating"
    /\ Write(a, p, [product[p] EXCEPT !.price = admin[a].price,
                                      !.version = IF priceChanged THEN @ + 1 ELSE @])

(* An update of texts, updateProductAvailability, deleteProduct.           *)
UpdateTexts(a, p) == admin[a].step = "idle" /\ Write(a, p, product[p])

UpdateAvailability(a, p, live) ==
    /\ admin[a].step = "idle"
    /\ Write(a, p, [product[p] EXCEPT !.live = live])

UpdateInventoryOnHand(a, p, band) ==
    /\ admin[a].step = "idle"
    /\ stock' = [stock EXCEPT ![p] = band]
    /\ admin' = [admin EXCEPT ![a] = At("adjusted", p)]
    /\ UNCHANGED <<product, cache, reading, suspect>>

(* Orders reserve and give back, and nobody deletes the copy.              *)
StockMoves(p, band) ==
    /\ stock[p] # band
    /\ stock' = [stock EXCEPT ![p] = band]
    /\ UNCHANGED <<product, cache, reading, admin, suspect>>

(* The step after a deletion: product:<id>, then product:* after an update *)
(* of the product, only the former after an adjustment of its stock.       *)
AfterDeletion(call) == IF call.step = "written" THEN At("deleting", call.product) ELSE NoCall

Forget(ps) ==
    /\ cache' = [p \in Products |-> IF p \in ps THEN NoCopy ELSE cache[p]]
    /\ suspect' = suspect \ {p \in ps : Overtaken(p) = {}}

(* createProduct, as far as the other products can tell: product:* is      *)
(* deleted when the new one and its stock are there, or Redis misses it.   *)
CreateProduct ==
    /\ Forget(Products)
    /\ UNCHANGED <<product, stock, reading, admin>>

(* Mutant: the key that is deleted is not the one pages are cached under.  *)
DeleteCachedNothing(a) ==
    /\ admin[a].step \in {"written", "deleting", "adjusted"}
    /\ admin' = [admin EXCEPT ![a] = AfterDeletion(admin[a])]
    /\ UNCHANGED <<product, stock, cache, reading, suspect>>

DeleteCached(a) ==
    /\ admin[a].step \in {"written", "deleting", "adjusted"}
    /\ Forget(IF admin[a].step = "deleting" THEN Products ELSE {admin[a].product})
    /\ admin' = [admin EXCEPT ![a] = AfterDeletion(admin[a])]
    /\ UNCHANGED <<product, stock, reading>>

(* Redis misses it; the update is answered with 200 all the same.          *)
DeleteFails(a) ==
    /\ admin[a].step \in {"written", "deleting", "adjusted"}
    /\ admin' = [admin EXCEPT ![a] = AfterDeletion(admin[a])]
    /\ suspect' = LeftStale(a)
    /\ UNCHANGED <<product, stock, cache, reading>>

(* The process dies, or the database refuses.                              *)
AdminEnds(a) ==
    /\ admin[a].step # "idle"
    /\ admin' = [admin EXCEPT ![a] = NoCall]
    /\ suspect' = LeftStale(a)
    /\ UNCHANGED <<product, stock, cache, reading>>

-----------------------------------------------------------------------------
CacheNext ==
    \/ \E r \in Readers :
          \/ \E p \in Products : GetCached(r, p)
          \/ FindProduct(r) \/ GetInventory(r) \/ SetCached(r) \/ ReadEnds(r)
    \/ \E a \in Admins :
          \/ \E p \in Products :
                \/ \E price \in Prices : FindExisting(a, p, price)
                \/ UpdateTexts(a, p)
                \/ \E live \in BOOLEAN : UpdateAvailability(a, p, live)
                \/ \E band \in StockBands : UpdateInventoryOnHand(a, p, band)
          \/ UpdateProduct(a) \/ DeleteCached(a) \/ DeleteFails(a) \/ AdminEnds(a)
    \/ CreateProduct
    \/ \E p \in Products : \/ CopyExpires(p)
                           \/ \E band \in StockBands : StockMoves(p, band)

CacheSpec == CacheInit /\ [][CacheNext]_vars

(* Redis drops a copy when its time is up.  No request has to go on.       *)
FairCacheSpec == CacheSpec /\ \A p \in Products : WF_vars(CopyExpires(p))

-----------------------------------------------------------------------------
CacheTypeOK ==
    /\ product \in [Products -> ProductDocs]
    /\ stock \in [Products -> StockBands]
    /\ cache \in [Products -> Copies \union {NoCopy}]
    /\ reading \in [Readers -> [step : {"idle", "missed", "found", "formatted"},
                                product : Products, copy : Copies \union {NoCopy}]]
    /\ \A p \in Products : \A r \in Holding(p) :
          /\ reading[r].copy \in Copies
          /\ reading[r].copy.edits <= product[p].edits
    /\ \A p \in Products : product[p].version <= product[p].edits + 1
    /\ admin \in [Admins -> [step : {"idle", "updating", "written", "deleting", "adjusted"},
                             product : Products, read : Prices, price : Prices]]
    /\ suspect \subseteq Products

Updating(p) == {a \in Admins : admin[a].step \in {"written", "deleting"}
                               /\ admin[a].product = p}

(* A page older than the product (old price, archived product) is served   *)
(* only while an update has yet to delete it, or if something went wrong   *)
(* on the way: Redis missed a deletion, the update died before it, or a    *)
(* request that had read the product before the update left its copy after *)
(* the deletion.  Writing before deleting, and the second deletion, are    *)
(* what this rests on.                                                     *)
StaleHasReason == \A p \in Products : Stale(p) => Updating(p) # {} \/ p \in suspect

(* In what a customer sees: but for the same reasons, the page in the      *)
(* cache is of a product that is active, at its price and version.         *)
PagesAreCurrent ==
    \A p \in Products :
        cache[p] # NoCopy /\ Updating(p) = {} /\ p \notin suspect
            => /\ product[p].live
               /\ cache[p].price = product[p].price
               /\ cache[p].version = product[p].version

(* products.service.ts:202: if the price changes, bump the version.  So it *)
(* is for an update that nobody else overtook between its read and write.  *)
PriceChangesShow ==
    [][\A p \in Products :
          (product'[p].price # product[p].price /\ product'[p].version = product[p].version)
              => \E a \in Admins : /\ admin[a].step = "updating" /\ admin[a].product = p
                                   /\ admin[a].read # product[p].price]_vars

(* While a product is gone, the copies of it run out: nobody reads it any  *)
(* more, and a copy that appears costs one of the requests that had.       *)
GoneRunsOut ==
    [][\A p \in Products :
          ~product[p].live
              => /\ Holding(p)' \subseteq Holding(p)
                 /\ cache'[p] \in {cache[p], NoCopy} \/ Holding(p)' # Holding(p)]_vars

(* A product that is taken from the shop for good leaves the cache for     *)
(* good, whatever Redis missed and whoever was about to cache it.          *)
GoneIsForgotten ==
    \A p \in Products : <>[](~product[p].live) => <>[](cache[p] = NoCopy)
=============================================================================
