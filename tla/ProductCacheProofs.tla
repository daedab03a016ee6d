-------------------------- MODULE ProductCacheProofs --------------------------
(***************************************************************************)
(* Theorems about ProductCache, for any number of products, readers and    *)
(* administrators, any prices and any number of updates.                   *)
(*                                                                         *)
(* An update is counted in `edits`, and an update overtakes whoever holds  *)
(* an older reading.  What is inductive is the pair: an overtaken reading  *)
(* makes its product suspect, and a stale copy has one of the reasons that *)
(* StaleHasReason names.  The readings and copies that were not overtaken  *)
(* are exact in everything they show.                                      *)
(***************************************************************************)
EXTENDS ProductCache, TLAPS

USE ProductCacheAssumption DEF ProductCacheAssumption

-----------------------------------------------------------------------------
(* Records.                                                                *)

LEMMA NoCopyIsNone == NoCopy \notin Copies
<1> SUFFICES ASSUME NoCopy \in Copies PROVE FALSE  OBVIOUS
<1>1. DOMAIN NoCopy = {"band"}  BY DEF NoCopy
<1>2. DOMAIN NoCopy = {"price", "version", "edits", "band"}  BY DEF Copies
<1> QED  BY <1>1, <1>2

LEMMA Defaults ==
    /\ AnyProduct \in Products
    /\ AnyBand \in StockBands
    /\ NoRead \in [step : {"idle", "missed", "found", "formatted"},
                   product : Products, copy : Copies \union {NoCopy}]
    /\ NoRead.step = "idle"
    /\ (CHOOSE x \in Prices : TRUE) \in Prices
BY DEF AnyProduct, AnyBand, NoRead

Calls == [step : {"idle", "updating", "written", "deleting", "adjusted"},
          product : Products, read : Prices, price : Prices]

LEMMA NoCallIsIdle == NoCall \in Calls /\ NoCall.step = "idle"
BY Defaults DEF Calls, NoCall

LEMMA CallsAt ==
    ASSUME NEW p \in Products,
           NEW step \in {"idle", "updating", "written", "deleting", "adjusted"}
    PROVE  /\ At(step, p) \in Calls
           /\ At(step, p).step = step /\ At(step, p).product = p
BY NoCallIsIdle DEF Calls, At

LEMMA CopyIsExact ==
    ASSUME NEW doc \in ProductDocs, NEW band \in StockBands
    PROVE  /\ CopyOf(doc, band) \in Copies
           /\ CopyOf(doc, band).price = doc.price
           /\ CopyOf(doc, band).version = doc.version
           /\ CopyOf(doc, band).edits = doc.edits
BY DEF CopyOf, Copies, ProductDocs

-----------------------------------------------------------------------------
(* Types.                                                                  *)

LEMMA TypeStart == CacheInit => CacheTypeOK
<1> SUFFICES ASSUME CacheInit PROVE CacheTypeOK  OBVIOUS
<1>1. product \in [Products -> ProductDocs] /\ \A p \in Products : product[p].version <= product[p].edits + 1
  BY DEF CacheInit, ProductDocs
<1>2. stock \in [Products -> StockBands] /\ cache \in [Products -> Copies \union {NoCopy}]
  BY Defaults DEF CacheInit
<1>3. \A p \in Products : Holding(p) = {}
  BY Defaults DEF CacheInit, Holding
<1>4. admin \in [Admins -> Calls]
  BY NoCallIsIdle DEF CacheInit
<1> QED
  BY <1>1, <1>2, <1>3, <1>4, Defaults DEF CacheInit, CacheTypeOK, Calls

(* Three parts of the type invariant, by who disturbs them.                *)
ReadingOK ==
    /\ reading \in [Readers -> [step : {"idle", "missed", "found", "formatted"},
                                product : Products, copy : Copies \union {NoCopy}]]
    /\ \A p \in Products : \A r \in Holding(p) :
          /\ reading[r].copy \in Copies
          /\ reading[r].copy.edits <= product[p].edits

ProductOK ==
    /\ product \in [Products -> ProductDocs]
    /\ \A p \in Products : product[p].version <= product[p].edits + 1

Typed ==
    /\ ProductOK /\ ReadingOK
    /\ stock \in [Products -> StockBands]
    /\ cache \in [Products -> Copies \union {NoCopy}]
    /\ admin \in [Admins -> Calls]
    /\ suspect \subseteq Products

LEMMA TypeParts == CacheTypeOK <=> Typed
BY DEF CacheTypeOK, Typed, ProductOK, ReadingOK, Calls

(* What an update does to its product: one edit, and the rest at will.     *)
LEMMA WriteCounts ==
    ASSUME CacheTypeOK, NEW a \in Admins, NEW p \in Products, NEW doc \in ProductDocs,
           doc.edits = product[p].edits,
           doc.version \in {product[p].version, product[p].version + 1},
           Write(a, p, doc)
    PROVE  /\ ProductOK'
           /\ product'[p] = [doc EXCEPT !.edits = @ + 1]
           /\ product'[p].edits = product[p].edits + 1
           /\ \A q \in Products \ {p} : product'[q] = product[q]
           /\ admin' \in [Admins -> Calls]
           /\ admin'[a].step = "written" /\ admin'[a].product = p
           /\ \A b \in Admins \ {a} : admin'[b] = admin[b]
           /\ UNCHANGED <<stock, cache, reading>>
<1>1. /\ product' = [product EXCEPT ![p] = [doc EXCEPT !.edits = @ + 1]]
      /\ admin' = [admin EXCEPT ![a] = At("written", p)]
      /\ UNCHANGED <<stock, cache, reading>>
  BY DEF Write
<1>2. ProductOK /\ admin \in [Admins -> Calls]  BY TypeParts DEF Typed
<1>3. /\ [doc EXCEPT !.edits = @ + 1] \in ProductDocs
      /\ [doc EXCEPT !.edits = @ + 1].edits = product[p].edits + 1
      /\ [doc EXCEPT !.edits = @ + 1].version = doc.version
  BY <1>2 DEF ProductDocs, ProductOK
<1>4. doc.version <= product[p].edits + 2
  BY <1>2 DEF ProductDocs, ProductOK
<1>5. ProductOK'
  BY <1>1, <1>2, <1>3, <1>4 DEF ProductOK, ProductDocs
<1>6. At("written", p) \in Calls /\ At("written", p).step = "written" /\ At("written", p).product = p
  BY CallsAt
<1> QED  BY <1>1, <1>2, <1>3, <1>5, <1>6 DEF ProductOK

LEMMA Repriced ==
    ASSUME NEW doc \in ProductDocs, NEW price \in Prices,
           NEW version \in {doc.version, doc.version + 1}
    PROVE  /\ [doc EXCEPT !.price = price, !.version = version] \in ProductDocs
           /\ [doc EXCEPT !.price = price, !.version = version].edits = doc.edits
           /\ [doc EXCEPT !.price = price, !.version = version].version = version
<1> DEFINE priced == [doc EXCEPT !.price = price]
<1>1. priced \in ProductDocs /\ priced.edits = doc.edits /\ version \in Nat
  BY DEF ProductDocs
<1> HIDE DEF priced
<1>2. /\ [priced EXCEPT !.version = version] \in ProductDocs
      /\ [priced EXCEPT !.version = version].edits = doc.edits
      /\ [priced EXCEPT !.version = version].version = version
  BY <1>1 DEF ProductDocs
<1> QED  BY <1>2, Zenon DEF priced

(* The three administrators' writes are of that kind.                      *)
LEMMA UpdatesWrite ==
    ASSUME CacheTypeOK, NEW a \in Admins,
           \/ UpdateProduct(a)
           \/ \E p \in Products : \/ UpdateTexts(a, p)
                                  \/ \E live \in BOOLEAN : UpdateAvailability(a, p, live)
    PROVE  \E p \in Products, doc \in ProductDocs :
              /\ doc.edits = product[p].edits
              /\ doc.version \in {product[p].version, product[p].version + 1}
              /\ admin[a].step \in {"idle", "updating"}
              /\ Write(a, p, doc)
<1>1. CASE UpdateProduct(a)
  <2> DEFINE p == admin[a].product
             ver == IF admin[a].price # admin[a].read
                        THEN product[p].version + 1 ELSE product[p].version
             doc == [product[p] EXCEPT !.price = admin[a].price, !.version = ver]
  <2>1. /\ p \in Products /\ admin[a].price \in Prices /\ product[p] \in ProductDocs
        /\ ver \in {product[p].version, product[p].version + 1}
    BY DEF CacheTypeOK
  <2>2. /\ doc \in ProductDocs /\ doc.edits = product[p].edits /\ doc.version = ver
    <3> HIDE DEF p, ver
    <3> QED  BY <2>1, Repriced
  <2>3. Write(a, p, doc) /\ admin[a].step = "updating"
    BY <1>1 DEF UpdateProduct
  <2> HIDE DEF doc, p, ver
  <2> QED  BY <2>1, <2>2, <2>3
<1>2. CASE \E p \in Products : UpdateTexts(a, p)
  BY <1>2 DEF UpdateTexts, CacheTypeOK
<1>3. CASE \E p \in Products : \E live \in BOOLEAN : UpdateAvailability(a, p, live)
  <2>1. PICK p \in Products, live \in BOOLEAN : UpdateAvailability(a, p, live)
    BY <1>3
  <2> DEFINE doc == [product[p] EXCEPT !.live = live]
  <2>2. /\ doc \in ProductDocs /\ doc.edits = product[p].edits
        /\ doc.version = product[p].version
    BY DEF CacheTypeOK, ProductDocs
  <2>3. Write(a, p, doc) /\ admin[a].step = "idle"
    BY <2>1 DEF UpdateAvailability
  <2> HIDE DEF doc
  <2> QED  BY <2>2, <2>3
<1> QED  BY <1>1, <1>2, <1>3

-----------------------------------------------------------------------------
(* What a request for a page does: it reads the product as it is, keeps    *)
(* what it has read, or leaves that in the cache.                          *)

Reads == [step : {"idle", "missed", "found", "formatted"},
          product : Products, copy : Copies \union {NoCopy}]

SameText(c, d) == c.price = d.price /\ c.version = d.version /\ c.edits = d.edits

(* What request q holds of p after a step, it held before or reads now.    *)
HeldOrRead(q, p) ==
    \/ q \in Holding(p) /\ SameText(reading'[q].copy, reading[q].copy)
    \/ product[p].live /\ SameText(reading'[q].copy, product[p])

LEMMA ReadingBecomes ==
    ASSUME CacheTypeOK, NEW r \in Readers, NEW new \in Reads,
           reading' = [reading EXCEPT ![r] = new], UNCHANGED product,
           new.step \in {"found", "formatted"} =>
               /\ new.copy \in Copies
               /\ \/ r \in Holding(new.product) /\ SameText(new.copy, reading[r].copy)
                  \/ product[new.product].live /\ SameText(new.copy, product[new.product])
    PROVE  ReadingOK' /\ \A p \in Products : \A q \in Holding(p)' : HeldOrRead(q, p)
<1>1. reading \in [Readers -> Reads] /\ ReadingOK /\ ProductOK
  BY TypeParts DEF Typed, ReadingOK, Reads
<1>2. reading' \in [Readers -> Reads]
  BY <1>1
<1>3. ASSUME NEW p \in Products, NEW q \in Holding(p)'
      PROVE  /\ HeldOrRead(q, p)
             /\ reading'[q].copy \in Copies
             /\ reading'[q].copy.edits <= product[p].edits
  <2>1. q \in Readers /\ reading'[q].step \in {"found", "formatted"} /\ reading'[q].product = p
    BY <1>3 DEF Holding
  <2>2. product[p].edits \in Nat
    BY <1>1 DEF ProductOK, ProductDocs
  <2>3. CASE q = r
    <3>1. reading'[q] = new
      BY <1>1, <2>3
    <3>2. r \in Holding(p) => reading[r].copy.edits <= product[p].edits
      BY <1>1 DEF ReadingOK
    <3> QED  BY <2>1, <2>2, <2>3, <3>1, <3>2 DEF HeldOrRead, SameText
  <2>4. CASE q # r
    <3>1. reading'[q] = reading[q] /\ q \in Holding(p)
      BY <1>1, <2>1, <2>4 DEF Holding
    <3> QED  BY <1>1, <3>1 DEF HeldOrRead, SameText, ReadingOK
  <2> QED  BY <2>3, <2>4
<1> QED  BY <1>2, <1>3 DEF ReadingOK, Reads

LEMMA ReaderStep ==
    ASSUME CacheTypeOK, NEW r \in Readers,
           \/ \E p \in Products : GetCached(r, p)
           \/ FindProduct(r) \/ GetInventory(r) \/ SetCached(r) \/ ReadEnds(r)
    PROVE  /\ UNCHANGED <<product, stock, admin, suspect>>
           /\ ReadingOK'
           /\ \A p \in Products : \A q \in Holding(p)' : HeldOrRead(q, p)
           /\ \/ UNCHANGED cache
              \/ \E p \in Products : /\ r \in Holding(p) /\ r \notin Holding(p)'
                                     /\ cache' = [cache EXCEPT ![p] = reading[r].copy]
<1>1. /\ reading \in [Readers -> Reads] /\ reading[r] \in Reads
      /\ product \in [Products -> ProductDocs] /\ stock \in [Products -> StockBands]
  BY DEF CacheTypeOK, Reads
<1>2. NoRead \in Reads /\ NoRead.step = "idle"
  BY Defaults DEF Reads
<1>3. CASE \E p \in Products : GetCached(r, p)
  <2>1. PICK p \in Products : GetCached(r, p)
    BY <1>3
  <2> DEFINE new == [NoRead EXCEPT !.step = "missed", !.product = p]
  <2>2. new \in Reads /\ new.step = "missed"
    BY <1>2 DEF NoRead, Reads
  <2>3. reading' = [reading EXCEPT ![r] = new] /\ UNCHANGED <<product, stock, cache, admin, suspect>>
    BY <2>1 DEF GetCached
  <2> HIDE DEF new
  <2> QED  BY <2>2, <2>3, ReadingBecomes
<1>4. CASE FindProduct(r)
  <2> DEFINE p == reading[r].product
             found == [reading[r] EXCEPT !.step = "found", !.copy = CopyOf(product[p], AnyBand)]
             new == IF product[p].live THEN found ELSE NoRead
  <2>1. UNCHANGED <<product, stock, cache, admin, suspect>> /\ reading' = [reading EXCEPT ![r] = new]
    BY <1>1, <1>4 DEF FindProduct
  <2>2. CopyOf(product[p], AnyBand) \in Copies /\ SameText(CopyOf(product[p], AnyBand), product[p])
    BY <1>1, CopyIsExact, Defaults DEF Reads, SameText
  <2>3. found \in Reads /\ found.step = "found" /\ found.product = p
        /\ found.copy = CopyOf(product[p], AnyBand)
    BY <1>1, <2>2 DEF Reads
  <2> HIDE DEF found, p
  <2>4. /\ new \in Reads
        /\ new.step \in {"found", "formatted"} =>
               /\ new.copy \in Copies
               /\ product[new.product].live /\ SameText(new.copy, product[new.product])
    BY <1>2, <2>2, <2>3
  <2> HIDE DEF new
  <2> QED  BY <2>1, <2>4, ReadingBecomes
<1>5. CASE GetInventory(r)
  <2> DEFINE p == reading[r].product
             copy == [reading[r].copy EXCEPT !.band = stock[p]]
             new == [reading[r] EXCEPT !.step = "formatted", !.copy = copy]
  <2>1. UNCHANGED <<product, stock, cache, admin, suspect>> /\ reading' = [reading EXCEPT ![r] = new]
    BY <1>1, <1>5 DEF GetInventory
  <2>2. p \in Products /\ r \in Holding(p) /\ reading[r].copy \in Copies
    BY <1>1, <1>5 DEF GetInventory, Holding, Reads, CacheTypeOK
  <2>3. copy \in Copies /\ SameText(copy, reading[r].copy)
    BY <1>1, <2>2 DEF Copies, SameText
  <2> HIDE DEF copy
  <2>4. new \in Reads /\ new.product = p /\ new.copy = copy
    BY <1>1, <2>3 DEF Reads
  <2> HIDE DEF new, p
  <2> QED  BY <2>1, <2>2, <2>3, <2>4, ReadingBecomes
<1>6. CASE SetCached(r)
  <2>1. /\ UNCHANGED <<product, stock, admin, suspect>> /\ reading' = [reading EXCEPT ![r] = NoRead]
        /\ cache' = [cache EXCEPT ![reading[r].product] = reading[r].copy]
    BY <1>6 DEF SetCached
  <2>2. PICK p \in Products : p = reading[r].product
    BY <1>1 DEF Reads
  <2>3. r \in Holding(p) /\ r \notin Holding(p)'
    BY <1>1, <1>2, <1>6, <2>1, <2>2 DEF SetCached, Holding
  <2> QED  BY <1>2, <2>1, <2>2, <2>3, ReadingBecomes
<1>7. CASE ReadEnds(r)
  <2>1. /\ UNCHANGED <<product, stock, cache, admin, suspect>>
        /\ reading' = [reading EXCEPT ![r] = NoRead]
    BY <1>7 DEF ReadEnds
  <2> QED  BY <1>2, <2>1, ReadingBecomes
<1> QED  BY <1>3, <1>4, <1>5, <1>6, <1>7

-----------------------------------------------------------------------------
(* What the other steps do, as far as the proofs need it.                  *)

(* An administrator's request goes on, or starts, without an update.       *)
OnlyCall(a) ==
    /\ admin' \in [Admins -> Calls]
    /\ \A b \in Admins \ {a} : admin'[b] = admin[b]
    /\ UNCHANGED <<product, reading>>

LEMMA CallStarts ==
    ASSUME CacheTypeOK, NEW a \in Admins, NEW p \in Products,
           \/ \E price \in Prices : FindExisting(a, p, price)
           \/ \E band \in StockBands : UpdateInventoryOnHand(a, p, band)
    PROVE  /\ OnlyCall(a) /\ UNCHANGED <<cache, suspect>>
           /\ stock' \in [Products -> StockBands]
           /\ admin[a].step = "idle" /\ admin'[a].step \in {"updating", "adjusted"}
<1>1. /\ admin \in [Admins -> Calls] /\ stock \in [Products -> StockBands]
      /\ product[p] \in ProductDocs
  BY TypeParts DEF Typed, ProductOK
<1>2. ASSUME NEW price \in Prices, FindExisting(a, p, price)
      PROVE  /\ OnlyCall(a) /\ UNCHANGED <<stock, cache, suspect>>
             /\ admin[a].step = "idle" /\ admin'[a].step = "updating"
  <2> DEFINE call == [step |-> "updating", product |-> p,
                      read |-> product[p].price, price |-> price]
  <2>1. /\ admin[a].step = "idle" /\ admin' = [admin EXCEPT ![a] = call]
        /\ UNCHANGED <<product, stock, cache, reading, suspect>>
    BY <1>2 DEF FindExisting
  <2>2. call \in Calls /\ call.step = "updating"
    BY <1>1 DEF Calls, ProductDocs
  <2> HIDE DEF call
  <2> QED  BY <1>1, <2>1, <2>2 DEF OnlyCall
<1>3. ASSUME NEW band \in StockBands, UpdateInventoryOnHand(a, p, band)
      PROVE  /\ OnlyCall(a) /\ UNCHANGED <<cache, suspect>>
             /\ stock' \in [Products -> StockBands]
             /\ admin[a].step = "idle" /\ admin'[a].step = "adjusted"
  BY <1>1, <1>3, CallsAt DEF UpdateInventoryOnHand, OnlyCall
<1> QED  BY <1>1, <1>2, <1>3

LEMMA CallGoesOn ==
    ASSUME CacheTypeOK, NEW a \in Admins, admin[a].step \in {"written", "deleting", "adjusted"}
    PROVE  /\ AfterDeletion(admin[a]) \in Calls
           /\ \/ /\ admin[a].step = "written"
                 /\ AfterDeletion(admin[a]).step = "deleting"
                 /\ AfterDeletion(admin[a]).product = admin[a].product
              \/ admin[a].step # "written" /\ AfterDeletion(admin[a]).step = "idle"
BY CallsAt, NoCallIsIdle DEF CacheTypeOK, AfterDeletion

LEMMA CallEnds ==
    ASSUME CacheTypeOK, NEW a \in Admins, DeleteFails(a) \/ AdminEnds(a)
    PROVE  /\ OnlyCall(a) /\ UNCHANGED <<stock, cache>>
           /\ suspect' = LeftStale(a)
           /\ \/ admin'[a].step = "idle"
              \/ /\ admin[a].step = "written" /\ admin'[a].step = "deleting"
                 /\ admin'[a].product = admin[a].product
<1>1. admin \in [Admins -> Calls]  BY TypeParts DEF Typed
<1>2. CASE DeleteFails(a)
  BY <1>1, <1>2, CallGoesOn DEF DeleteFails, OnlyCall
<1>3. CASE AdminEnds(a)
  BY <1>1, <1>3, NoCallIsIdle DEF AdminEnds, OnlyCall
<1> QED  BY <1>2, <1>3

LEMMA CallDeletes ==
    ASSUME CacheTypeOK, NEW a \in Admins, DeleteCached(a)
    PROVE  /\ OnlyCall(a) /\ UNCHANGED stock
           /\ admin[a].step \in {"written", "deleting", "adjusted"}
           /\ Forget(IF admin[a].step = "deleting" THEN Products ELSE {admin[a].product})
           /\ \/ admin'[a].step = "idle" /\ admin[a].step # "written"
              \/ /\ admin[a].step = "written" /\ admin'[a].step = "deleting"
                 /\ admin'[a].product = admin[a].product
<1>1. admin \in [Admins -> Calls]  BY TypeParts DEF Typed
<1> QED  BY <1>1, CallGoesOn DEF DeleteCached, OnlyCall

LEMMA CopiesForgotten ==
    ASSUME CacheTypeOK, NEW ps \in SUBSET Products, Forget(ps)
    PROVE  /\ cache' \in [Products -> Copies \union {NoCopy}]
           /\ \A p \in ps : cache'[p] = NoCopy
           /\ \A p \in Products \ ps : cache'[p] = cache[p]
           /\ suspect' \subseteq Products
           /\ \A p \in Products : p \in suspect /\ (Overtaken(p) # {} \/ p \notin ps) => p \in suspect'
BY DEF CacheTypeOK, Forget

(* A copy whose time is up is forgotten too.                               *)
LEMMA ExpiryForgets ==
    ASSUME CacheTypeOK, NEW p \in Products, CopyExpires(p)
    PROVE  Forget({p}) /\ UNCHANGED <<product, stock, reading, admin>>
BY DEF CacheTypeOK, Forget, CopyExpires

(* The steps of the module, by kind.                                       *)
ReaderMoves(r) ==
    \/ \E p \in Products : GetCached(r, p)
    \/ FindProduct(r) \/ GetInventory(r) \/ SetCached(r) \/ ReadEnds(r)

AdminWrites(a) ==
    \/ UpdateProduct(a)
    \/ \E p \in Products : \/ UpdateTexts(a, p)
                           \/ \E live \in BOOLEAN : UpdateAvailability(a, p, live)

AdminStarts(a, p) ==
    \/ \E price \in Prices : FindExisting(a, p, price)
    \/ \E band \in StockBands : UpdateInventoryOnHand(a, p, band)

LEMMA CacheKinds ==
    ASSUME [CacheNext]_vars
    PROVE  \/ \E r \in Readers : ReaderMoves(r)
           \/ \E a \in Admins : \/ AdminWrites(a)
                                \/ \E p \in Products : AdminStarts(a, p)
                                \/ DeleteCached(a)
                                \/ DeleteFails(a) \/ AdminEnds(a)
           \/ CreateProduct
           \/ \E p \in Products : CopyExpires(p)
           \/ \E p \in Products, band \in StockBands : StockMoves(p, band)
           \/ UNCHANGED vars
BY DEF CacheNext, ReaderMoves, AdminWrites, AdminStarts

-----------------------------------------------------------------------------
(* Holding, Overtaken and ReadingOK depend on products and readings only.  *)
LEMMA ReadingKept ==
    ASSUME UNCHANGED <<product, reading>>
    PROVE  /\ \A p : Holding(p)' = Holding(p) /\ Overtaken(p)' = Overtaken(p)
           /\ ReadingOK' <=> ReadingOK
           /\ ProductOK' <=> ProductOK
BY DEF Holding, Overtaken, ReadingOK, ProductOK

LEMMA TypeStep ==
    ASSUME CacheTypeOK, [CacheNext]_vars
    PROVE  Typed'
<1>1. Typed  BY TypeParts
<1>2. ASSUME NEW r \in Readers, ReaderMoves(r) PROVE Typed'
  <2>1. UNCHANGED <<product, stock, admin, suspect>> /\ ReadingOK'
    BY <1>2, ReaderStep DEF ReaderMoves
  <2>2. reading[r].copy \in Copies \union {NoCopy}
    BY <1>1 DEF Typed, ReadingOK
  <2>3. \/ UNCHANGED cache
        \/ \E p \in Products : cache' = [cache EXCEPT ![p] = reading[r].copy]
    BY <1>2, ReaderStep DEF ReaderMoves
  <2>4. cache' \in [Products -> Copies \union {NoCopy}]
    BY <1>1, <2>2, <2>3 DEF Typed
  <2> QED  BY <1>1, <2>1, <2>4 DEF Typed, ProductOK
<1>3. ASSUME NEW a \in Admins, AdminWrites(a) PROVE Typed'
  <2>1. PICK p \in Products, doc \in ProductDocs :
            /\ doc.edits = product[p].edits
            /\ doc.version \in {product[p].version, product[p].version + 1}
            /\ Write(a, p, doc)
    BY <1>3, UpdatesWrite DEF AdminWrites
  <2>2. /\ ProductOK' /\ admin' \in [Admins -> Calls] /\ UNCHANGED <<stock, cache, reading>>
        /\ product'[p].edits = product[p].edits + 1
        /\ \A q \in Products \ {p} : product'[q] = product[q]
    BY <2>1, WriteCounts
  <2>3. ReadingOK'
    <3>1. \A q : Holding(q)' = Holding(q)
      BY <2>2 DEF Holding
    <3>2. \A q \in Products : product[q].edits <= product'[q].edits /\ product[q].edits \in Nat
                              /\ product'[q].edits \in Nat
      BY <1>1, <2>2 DEF Typed, ProductOK, ProductDocs
    <3>3. ASSUME NEW q \in Products, NEW r \in Holding(q)
          PROVE  reading[r].copy \in Copies /\ reading[r].copy.edits <= product'[q].edits
      BY <1>1, <3>2 DEF Typed, ReadingOK, Copies
    <3> QED  BY <1>1, <2>2, <3>1, <3>3 DEF Typed, ReadingOK
  <2>4. suspect' \subseteq Products
    BY <1>1, <2>1 DEF Typed, Write
  <2> QED  BY <1>1, <2>2, <2>3, <2>4 DEF Typed
<1>4. ASSUME NEW a \in Admins, NEW p \in Products, AdminStarts(a, p) PROVE Typed'
  BY <1>1, <1>4, CallStarts, ReadingKept DEF AdminStarts, OnlyCall, Typed
<1>5. ASSUME NEW ps \in SUBSET Products, Forget(ps), UNCHANGED <<product, stock, reading>>,
             admin' \in [Admins -> Calls]
      PROVE  Typed'
  BY <1>1, <1>5, CopiesForgotten, ReadingKept DEF Typed
<1>6. ASSUME NEW a \in Admins, DeleteCached(a) PROVE Typed'
  <2>1. admin[a].product \in Products
    BY <1>1 DEF Typed, Calls
  <2> DEFINE ps == IF admin[a].step = "deleting" THEN Products ELSE {admin[a].product}
  <2>2. ps \in SUBSET Products  BY <2>1
  <2>3. /\ Forget(ps) /\ UNCHANGED <<product, stock, reading>>
        /\ admin' \in [Admins -> Calls]
    BY <1>6, CallDeletes DEF OnlyCall
  <2> HIDE DEF ps
  <2> QED  BY <1>5, <2>2, <2>3
<1>7. ASSUME NEW a \in Admins, DeleteFails(a) \/ AdminEnds(a) PROVE Typed'
  <2>1. LeftStale(a) \subseteq Products
    BY <1>1 DEF Typed, Calls, LeftStale
  <2> QED  BY <1>1, <1>7, <2>1, CallEnds, ReadingKept DEF OnlyCall, Typed
<1>8. ASSUME CreateProduct PROVE Typed'
  BY <1>1, <1>5, <1>8 DEF CreateProduct, Typed
<1>9. ASSUME NEW p \in Products, CopyExpires(p) PROVE Typed'
  BY <1>1, <1>5, <1>9, ExpiryForgets DEF Typed
<1>10. ASSUME NEW p \in Products, NEW band \in StockBands, StockMoves(p, band) PROVE Typed'
  BY <1>1, <1>10, ReadingKept DEF StockMoves, Typed
<1>11. CASE UNCHANGED vars
  BY <1>1, <1>11, ReadingKept DEF vars, Typed
<1> QED  BY <1>2, <1>3, <1>4, <1>6, <1>7, <1>8, <1>9, <1>10, <1>11, CacheKinds

-----------------------------------------------------------------------------
(* A copy or a reading that no update has overtaken shows the product.     *)
Shows(copy, doc) == doc.live /\ copy.price = doc.price /\ copy.version = doc.version

ExactInv ==
    \A p \in Products :
        /\ cache[p] # NoCopy =>
               cache[p].edits <= product[p].edits /\ (~Stale(p) => Shows(cache[p], product[p]))
        /\ \A r \in Holding(p) \ Overtaken(p) : Shows(reading[r].copy, product[p])

(* An update makes every copy and every reading of its product old.        *)
LEMMA WriteOvertakes ==
    ASSUME CacheTypeOK, ExactInv, NEW a \in Admins, AdminWrites(a)
    PROVE  \E p \in Products :
              /\ Holding(p)' = Overtaken(p)'
              /\ cache[p] # NoCopy => Stale(p)' /\ cache[p].edits < product'[p].edits
              /\ Holding(p) # {} => p \in suspect'
              /\ suspect \subseteq suspect'
              /\ admin[a].step \in {"idle", "updating"}
              /\ admin'[a].step = "written" /\ admin'[a].product = p
              /\ \A b \in Admins \ {a} : admin'[b] = admin[b]
              /\ \A q \in Products \ {p} : product'[q] = product[q]
              /\ UNCHANGED <<cache, reading>>
<1>1. PICK p \in Products, doc \in ProductDocs :
          /\ doc.edits = product[p].edits
          /\ doc.version \in {product[p].version, product[p].version + 1}
          /\ admin[a].step \in {"idle", "updating"}
          /\ Write(a, p, doc)
  BY UpdatesWrite DEF AdminWrites
<1>2. /\ product'[p].edits = product[p].edits + 1
      /\ \A q \in Products \ {p} : product'[q] = product[q]
      /\ admin'[a].step = "written" /\ admin'[a].product = p
      /\ \A b \in Admins \ {a} : admin'[b] = admin[b]
      /\ UNCHANGED <<stock, cache, reading>>
  BY <1>1, WriteCounts
<1>3. suspect' = IF Holding(p) = {} THEN suspect ELSE suspect \union {p}
  BY <1>1 DEF Write
<1>4. /\ product[p].edits \in Nat
      /\ cache[p] # NoCopy => cache[p].edits \in Nat /\ cache[p].edits <= product[p].edits
      /\ \A r \in Holding(p) : reading[r].copy.edits \in Nat /\ reading[r].copy.edits <= product[p].edits
  BY DEF CacheTypeOK, ProductDocs, ExactInv, Copies
<1>5. Holding(p)' = Holding(p)
  BY <1>2 DEF Holding
<1>6. Holding(p)' = Overtaken(p)'
  BY <1>2, <1>4, <1>5 DEF Overtaken
<1>7. cache[p] # NoCopy => Stale(p)' /\ cache[p].edits < product'[p].edits
  BY <1>2, <1>4 DEF Stale
<1> QED  BY <1>1, <1>2, <1>3, <1>6, <1>7

LEMMA ExactStart == CacheInit => ExactInv
BY Defaults DEF CacheInit, ExactInv, Holding

LEMMA ExactStep ==
    ASSUME CacheTypeOK, ExactInv, [CacheNext]_vars
    PROVE  ExactInv'
<1> USE DEF Shows
<1>1. ASSUME NEW r \in Readers, ReaderMoves(r) PROVE ExactInv'
  <2>1. /\ UNCHANGED product
        /\ \A p \in Products : \A q \in Holding(p)' : HeldOrRead(q, p)
    BY <1>1, ReaderStep DEF ReaderMoves
  <2>2. ASSUME NEW p \in Products, NEW q \in Holding(p)' \ Overtaken(p)'
        PROVE  Shows(reading'[q].copy, product'[p])
    <3>1. reading'[q].copy.edits = product[p].edits
      BY <2>1, <2>2 DEF Overtaken
    <3>2. CASE q \in Holding(p) /\ SameText(reading'[q].copy, reading[q].copy)
      BY <2>1, <3>1, <3>2 DEF ExactInv, Overtaken, SameText
    <3>3. CASE product[p].live /\ SameText(reading'[q].copy, product[p])
      BY <2>1, <3>3 DEF SameText
    <3> QED  BY <2>1, <2>2, <3>2, <3>3 DEF HeldOrRead
  <2>3. ASSUME NEW p \in Products, cache'[p] # NoCopy
        PROVE  /\ cache'[p].edits <= product'[p].edits
               /\ ~Stale(p)' => Shows(cache'[p], product'[p])
    <3>1. CASE cache'[p] = cache[p]
      BY <2>1, <2>3, <3>1 DEF ExactInv, Stale
    <3>2. CASE cache'[p] # cache[p]
      <4>1. r \in Holding(p) /\ cache'[p] = reading[r].copy
        BY <1>1, <3>2, ReaderStep DEF ReaderMoves, CacheTypeOK
      <4>2. reading[r].copy.edits <= product[p].edits
        BY <4>1 DEF CacheTypeOK
      <4>3. reading[r].copy.edits = product[p].edits => Shows(reading[r].copy, product[p])
        BY <4>1 DEF ExactInv, Overtaken
      <4> QED  BY <2>1, <2>3, <4>1, <4>2, <4>3 DEF Stale
    <3> QED  BY <3>1, <3>2
  <2> QED  BY <2>2, <2>3 DEF ExactInv
<1>2. ASSUME NEW a \in Admins, AdminWrites(a) PROVE ExactInv'
  <2>1. PICK p \in Products :
            /\ Holding(p)' = Overtaken(p)'
            /\ cache[p] # NoCopy => Stale(p)' /\ cache[p].edits < product'[p].edits
            /\ \A q \in Products \ {p} : product'[q] = product[q]
            /\ UNCHANGED <<cache, reading>>
    BY <1>2, WriteOvertakes
  <2>2. cache[p] # NoCopy => cache[p].edits <= product'[p].edits
    BY <2>1, TypeStep DEF CacheTypeOK, Copies, Typed, ProductOK, ProductDocs
  <2>3. ASSUME NEW q \in Products \ {p}
        PROVE  Holding(q)' = Holding(q) /\ Overtaken(q)' = Overtaken(q) /\ Stale(q)' = Stale(q)
    BY <2>1 DEF Holding, Overtaken, Stale
  <2> QED  BY <2>1, <2>2, <2>3 DEF ExactInv
<1>3. ASSUME UNCHANGED <<product, reading>>,
             \A p \in Products : cache'[p] \in {cache[p], NoCopy}
      PROVE  ExactInv'
  <2>1. \A p : Holding(p)' = Holding(p) /\ Overtaken(p)' = Overtaken(p)
    BY <1>3, ReadingKept
  <2>2. \A p \in Products : cache'[p] # NoCopy => cache'[p] = cache[p] /\ Stale(p)' = Stale(p)
    BY <1>3 DEF Stale
  <2> QED  BY <1>3, <2>1, <2>2 DEF ExactInv
<1>4. ASSUME NEW a \in Admins, NEW p \in Products, AdminStarts(a, p) PROVE ExactInv'
  BY <1>3, <1>4, CallStarts DEF AdminStarts, OnlyCall
<1>5. ASSUME NEW ps \in SUBSET Products, Forget(ps), UNCHANGED <<product, reading>>
      PROVE  ExactInv'
  BY <1>3, <1>5, CopiesForgotten
<1>6. ASSUME NEW a \in Admins, DeleteCached(a) PROVE ExactInv'
  <2> DEFINE ps == IF admin[a].step = "deleting" THEN Products ELSE {admin[a].product}
  <2>1. ps \in SUBSET Products  BY DEF CacheTypeOK
  <2>2. Forget(ps) /\ UNCHANGED <<product, reading>>  BY <1>6, CallDeletes DEF OnlyCall
  <2> HIDE DEF ps
  <2> QED  BY <1>5, <2>1, <2>2
<1>7. ASSUME NEW a \in Admins, DeleteFails(a) \/ AdminEnds(a) PROVE ExactInv'
  BY <1>3, <1>7, CallEnds DEF OnlyCall
<1>8. ASSUME CreateProduct PROVE ExactInv'
  BY <1>5, <1>8 DEF CreateProduct
<1>9. ASSUME NEW p \in Products, CopyExpires(p) PROVE ExactInv'
  BY <1>5, <1>9, ExpiryForgets
<1>10. ASSUME NEW p \in Products, NEW band \in StockBands, StockMoves(p, band) PROVE ExactInv'
  BY <1>3, <1>10 DEF StockMoves
<1>11. CASE UNCHANGED vars
  BY <1>3, <1>11 DEF vars
<1> QED  BY <1>1, <1>2, <1>4, <1>6, <1>7, <1>8, <1>9, <1>10, <1>11, CacheKinds

-----------------------------------------------------------------------------
(* Whoever holds an overtaken reading may leave it in the cache after the  *)
(* deletions of the update that overtook it.                               *)
OvertakenIsSuspect == \A p \in Products : Overtaken(p) # {} => p \in suspect

ReasonInv == OvertakenIsSuspect /\ StaleHasReason

LEMMA ReasonStart == CacheInit => ReasonInv
BY Defaults DEF CacheInit, ReasonInv, OvertakenIsSuspect, StaleHasReason, Holding, Overtaken, Stale

LEMMA ReasonStep ==
    ASSUME CacheTypeOK, ExactInv, ReasonInv, [CacheNext]_vars
    PROVE  ReasonInv'
<1> SUFFICES ASSUME NEW p \in Products
             PROVE  /\ Overtaken(p)' # {} => p \in suspect'
                    /\ Stale(p)' => Updating(p)' # {} \/ p \in suspect'
  BY DEF ReasonInv, OvertakenIsSuspect, StaleHasReason
<1> DEFINE Goal == /\ Overtaken(p)' # {} => p \in suspect'
                   /\ Stale(p)' => Updating(p)' # {} \/ p \in suspect'
<1>1. /\ Overtaken(p) # {} => p \in suspect
      /\ Stale(p) => Updating(p) # {} \/ p \in suspect
  BY DEF ReasonInv, OvertakenIsSuspect, StaleHasReason
<1>2. ASSUME NEW r \in Readers, ReaderMoves(r) PROVE Goal
  <2>1. /\ UNCHANGED <<product, admin, suspect>>
        /\ \A q \in Holding(p)' : HeldOrRead(q, p)
    BY <1>2, ReaderStep DEF ReaderMoves
  <2>2. Overtaken(p)' # {} => Overtaken(p) # {}
    BY <2>1 DEF Overtaken, HeldOrRead, SameText
  <2>3. Updating(p)' = Updating(p)
    BY <2>1 DEF Updating
  <2>4. CASE cache'[p] = cache[p]
    BY <1>1, <2>1, <2>2, <2>3, <2>4 DEF Stale
  <2>5. CASE cache'[p] # cache[p]
    <3>1. r \in Holding(p) /\ cache'[p] = reading[r].copy
      BY <1>2, <2>5, ReaderStep DEF ReaderMoves, CacheTypeOK
    <3>2. Stale(p)' => r \in Overtaken(p)
      BY <2>1, <3>1 DEF Stale, Overtaken
    <3> QED  BY <1>1, <2>1, <2>2, <3>2
  <2> QED  BY <2>4, <2>5
<1>3. ASSUME NEW a \in Admins, AdminWrites(a) PROVE Goal
  <2>1. PICK w \in Products :
            /\ Holding(w) # {} => w \in suspect'
            /\ suspect \subseteq suspect'
            /\ admin[a].step \in {"idle", "updating"}
            /\ admin'[a].step = "written" /\ admin'[a].product = w
            /\ \A b \in Admins \ {a} : admin'[b] = admin[b]
            /\ \A q \in Products \ {w} : product'[q] = product[q]
            /\ UNCHANGED <<cache, reading>>
    BY <1>3, WriteOvertakes
  <2>2. Holding(p)' = Holding(p) /\ Overtaken(p)' \subseteq Holding(p)
    BY <2>1 DEF Holding, Overtaken
  <2>3. Updating(p) \subseteq Updating(p)'
    BY <2>1 DEF Updating
  <2>4. CASE p = w
    <3>1. a \in Updating(p)'
      BY <2>1, <2>4 DEF Updating
    <3> QED  BY <2>1, <2>2, <2>4, <3>1
  <2>5. CASE p # w
    <3>1. Overtaken(p)' = Overtaken(p) /\ Stale(p)' = Stale(p)
      BY <2>1, <2>2, <2>5 DEF Overtaken, Stale
    <3> QED  BY <1>1, <2>1, <2>3, <3>1
  <2> QED  BY <2>4, <2>5
<1>4. ASSUME NEW a \in Admins, NEW q \in Products, AdminStarts(a, q) PROVE Goal
  <2>1. /\ OnlyCall(a) /\ UNCHANGED <<cache, suspect>>
        /\ admin[a].step = "idle" /\ admin'[a].step \in {"updating", "adjusted"}
    BY <1>4, CallStarts DEF AdminStarts
  <2>2. Updating(p)' = Updating(p)
    BY <2>1 DEF OnlyCall, Updating
  <2> QED  BY <1>1, <2>1, <2>2, ReadingKept DEF OnlyCall, Stale
<1>5. ASSUME NEW ps \in SUBSET Products, Forget(ps), UNCHANGED <<product, reading>>,
             p \notin ps => Updating(p) \subseteq Updating(p)'
      PROVE  Goal
  <2>1. Overtaken(p)' = Overtaken(p)
    BY <1>5, ReadingKept
  <2>2. p \in ps => ~Stale(p)'
    BY <1>5, CopiesForgotten DEF Stale
  <2>3. p \notin ps => Stale(p)' = Stale(p)
    BY <1>5, CopiesForgotten DEF Stale
  <2>4. p \in suspect /\ (Overtaken(p) # {} \/ p \notin ps) => p \in suspect'
    BY <1>5, CopiesForgotten
  <2> QED  BY <1>1, <1>5, <2>1, <2>2, <2>3, <2>4
<1>6. ASSUME NEW a \in Admins, DeleteCached(a) PROVE Goal
  <2> DEFINE ps == IF admin[a].step = "deleting" THEN Products ELSE {admin[a].product}
  <2>1. ps \in SUBSET Products  BY DEF CacheTypeOK
  <2>2. Forget(ps) /\ OnlyCall(a)  BY <1>6, CallDeletes
  <2>3. p \notin ps => a \notin Updating(p)
    BY <1>6, CallDeletes DEF Updating
  <2>4. p \notin ps => Updating(p) \subseteq Updating(p)'
    BY <2>2, <2>3 DEF Updating, OnlyCall
  <2> HIDE DEF ps
  <2> QED  BY <1>5, <2>1, <2>2, <2>4 DEF OnlyCall
<1>7. ASSUME NEW a \in Admins, DeleteFails(a) \/ AdminEnds(a) PROVE Goal
  <2>1. /\ OnlyCall(a) /\ UNCHANGED cache /\ suspect' = LeftStale(a)
    BY <1>7, CallEnds
  <2>2. Overtaken(p)' = Overtaken(p) /\ Stale(p)' = Stale(p) /\ suspect \subseteq suspect'
    BY <2>1, ReadingKept DEF OnlyCall, Stale, LeftStale
  <2>3. Updating(p) \ {a} \subseteq Updating(p)'
    BY <2>1 DEF OnlyCall, Updating
  <2>4. Stale(p) /\ a \in Updating(p) => p \in suspect'
    BY <2>1 DEF LeftStale, Updating
  <2> QED  BY <1>1, <2>2, <2>3, <2>4
<1>8. ASSUME CreateProduct PROVE Goal
  BY <1>5, <1>8 DEF CreateProduct
<1>9. ASSUME NEW q \in Products, CopyExpires(q) PROVE Goal
  <2>1. Updating(p)' = Updating(p)
    BY <1>9, ExpiryForgets DEF Updating
  <2> QED  BY <1>5, <1>9, <2>1, ExpiryForgets
<1>10. ASSUME NEW q \in Products, NEW band \in StockBands, StockMoves(q, band) PROVE Goal
  BY <1>1, <1>10, ReadingKept DEF StockMoves, Stale, Updating
<1>11. CASE UNCHANGED vars
  BY <1>1, <1>11, ReadingKept DEF vars, Stale, Updating
<1> QED  BY <1>2, <1>3, <1>4, <1>6, <1>7, <1>8, <1>9, <1>10, <1>11, CacheKinds

-----------------------------------------------------------------------------
IInv == CacheTypeOK /\ ExactInv /\ ReasonInv

LEMMA CacheInvariant == CacheSpec => []IInv
<1>1. CacheInit => IInv
  BY TypeStart, ExactStart, ReasonStart DEF IInv
<1>2. IInv /\ [CacheNext]_vars => IInv'
  <2> SUFFICES ASSUME IInv, [CacheNext]_vars PROVE IInv'  OBVIOUS
  <2>1. CacheTypeOK'
    BY TypeStep DEF IInv, CacheTypeOK, Typed, ProductOK, ReadingOK, Calls
  <2> QED  BY <2>1, ExactStep, ReasonStep DEF IInv
<1> QED  BY <1>1, <1>2, PTL DEF CacheSpec

THEOREM CacheTypeCorrect == CacheSpec => []CacheTypeOK
<1>1. IInv => CacheTypeOK  BY DEF IInv
<1> QED  BY <1>1, CacheInvariant, PTL

(* A stale page is served only for the reasons named: for any number of    *)
(* overlapping readers and administrators (products.service.ts:57-75,      *)
(* 202-232).                                                               *)
THEOREM StalePagesHaveReasons == CacheSpec => []StaleHasReason
<1>1. IInv => StaleHasReason  BY DEF IInv, ReasonInv
<1> QED  BY <1>1, CacheInvariant, PTL

(* The same of what the page shows: price, version and availability.       *)
THEOREM PagesShowProducts == CacheSpec => []PagesAreCurrent
<1>1. IInv => PagesAreCurrent
  BY DEF IInv, ReasonInv, ExactInv, Shows, StaleHasReason, PagesAreCurrent
<1> QED  BY <1>1, CacheInvariant, PTL

(* The version of a product changes with its price, unless two updates     *)
(* overlap.                                                                *)
THEOREM PricesBumpVersions == CacheSpec => PriceChangesShow
<1>1. ASSUME IInv, [CacheNext]_vars, NEW p \in Products,
             product'[p].price # product[p].price, product'[p].version = product[p].version
      PROVE  \E a \in Admins : /\ admin[a].step = "updating" /\ admin[a].product = p
                               /\ admin[a].read # product[p].price
  <2>1. CacheTypeOK  BY <1>1 DEF IInv
  <2>2. PICK a \in Admins : AdminWrites(a)
    <3>1. product' # product
      BY <1>1
    <3>2. ASSUME NEW r \in Readers, ReaderMoves(r) PROVE FALSE
      BY <2>1, <3>1, <3>2, ReaderStep DEF ReaderMoves
    <3>3. ASSUME NEW a \in Admins, NEW q \in Products, AdminStarts(a, q) PROVE FALSE
      BY <2>1, <3>1, <3>3, CallStarts DEF AdminStarts, OnlyCall
    <3>4. ASSUME NEW a \in Admins, DeleteCached(a) \/ DeleteFails(a) \/ AdminEnds(a) PROVE FALSE
      BY <2>1, <3>1, <3>4, CallEnds, CallDeletes DEF OnlyCall
    <3>5. ~CreateProduct /\ (\A q \in Products : ~CopyExpires(q))
      BY <3>1 DEF CreateProduct, CopyExpires
    <3>6. /\ \A q \in Products, band \in StockBands : ~StockMoves(q, band)
          /\ ~UNCHANGED vars
      BY <3>1 DEF StockMoves, vars
    <3> QED  BY <1>1, <3>2, <3>3, <3>4, <3>5, <3>6, CacheKinds
  <2>3. ASSUME NEW q \in Products, UpdateTexts(a, q) PROVE FALSE
    BY <1>1, <2>1, <2>3 DEF UpdateTexts, Write, CacheTypeOK, ProductDocs
  <2>4. ASSUME NEW q \in Products, NEW live \in BOOLEAN, UpdateAvailability(a, q, live) PROVE FALSE
    BY <1>1, <2>1, <2>4 DEF UpdateAvailability, Write, CacheTypeOK, ProductDocs
  <2>5. UpdateProduct(a)
    BY <2>2, <2>3, <2>4 DEF AdminWrites
  <2> QED  BY <1>1, <2>1, <2>5 DEF UpdateProduct, Write, CacheTypeOK, ProductDocs
<1>2. ASSUME IInv, [CacheNext]_vars
      PROVE  [\A p \in Products :
                (product'[p].price # product[p].price /\ product'[p].version = product[p].version)
                    => \E a \in Admins : /\ admin[a].step = "updating" /\ admin[a].product = p
                                         /\ admin[a].read # product[p].price]_vars
  BY <1>1, <1>2
<1> QED  BY <1>2, CacheInvariant, PTL DEF CacheSpec, PriceChangesShow

(* The copies of a product that is gone run out: what is left to fairness  *)
(* in GoneIsForgotten is that a copy expires and that requests are finite. *)
THEOREM GoneCopiesRunOut == CacheSpec => GoneRunsOut
<1>1. ASSUME IInv, [CacheNext]_vars, NEW p \in Products, ~product[p].live
      PROVE  /\ Holding(p)' \subseteq Holding(p)
             /\ cache'[p] \in {cache[p], NoCopy} \/ Holding(p)' # Holding(p)
  <2> USE DEF IInv
  <2>1. ASSUME NEW r \in Readers, ReaderMoves(r)
        PROVE  /\ Holding(p)' \subseteq Holding(p)
               /\ cache'[p] = cache[p] \/ Holding(p)' # Holding(p)
    <3>1. Holding(p)' \subseteq Holding(p)
      BY <1>1, <2>1, ReaderStep DEF ReaderMoves, HeldOrRead
    <3>2. ASSUME cache'[p] # cache[p] PROVE Holding(p)' # Holding(p)
      <4>1. PICK q \in Products : /\ r \in Holding(q) /\ r \notin Holding(q)'
                                  /\ cache' = [cache EXCEPT ![q] = reading[r].copy]
        BY <1>1, <2>1, <3>2, ReaderStep DEF ReaderMoves
      <4>2. p = q
        BY <1>1, <3>2, <4>1 DEF CacheTypeOK
      <4> QED  BY <4>1, <4>2
    <3> QED  BY <3>1, <3>2
  <2>2. ASSUME UNCHANGED reading PROVE Holding(p)' = Holding(p)
    BY <2>2 DEF Holding
  <2>3. ASSUME NEW a \in Admins, AdminWrites(a)
        PROVE  UNCHANGED <<cache, reading>>
    BY <1>1, <2>3, WriteOvertakes
  <2>4. ASSUME NEW a \in Admins, \/ \E q \in Products : AdminStarts(a, q)
                                 \/ DeleteFails(a) \/ AdminEnds(a)
        PROVE  UNCHANGED <<cache, reading>>
    BY <1>1, <2>4, CallStarts, CallEnds DEF AdminStarts, OnlyCall
  <2>5. ASSUME NEW ps \in SUBSET Products, Forget(ps)
        PROVE  cache'[p] \in {cache[p], NoCopy}
    BY <2>5 DEF Forget
  <2>6. ASSUME NEW a \in Admins, DeleteCached(a)
        PROVE  UNCHANGED reading /\ cache'[p] \in {cache[p], NoCopy}
    BY <1>1, <2>6, CallDeletes DEF OnlyCall, Forget
  <2>7. ASSUME CreateProduct \/ \E q \in Products : CopyExpires(q)
        PROVE  UNCHANGED reading /\ cache'[p] \in {cache[p], NoCopy}
    BY <1>1, <2>5, <2>7, ExpiryForgets DEF CreateProduct
  <2>8. ASSUME \/ \E q \in Products, band \in StockBands : StockMoves(q, band)
               \/ UNCHANGED vars
        PROVE  UNCHANGED <<cache, reading>>
    BY <2>8 DEF StockMoves, vars
  <2> QED
    BY <1>1, <2>1, <2>2, <2>3, <2>4, <2>6, <2>7, <2>8, CacheKinds
<1>2. ASSUME IInv, [CacheNext]_vars
      PROVE  [\A p \in Products :
                 ~product[p].live
                     => /\ Holding(p)' \subseteq Holding(p)
                        /\ cache'[p] \in {cache[p], NoCopy} \/ Holding(p)' # Holding(p)]_vars
  BY <1>1, <1>2
<1> QED  BY <1>2, CacheInvariant, PTL DEF CacheSpec, GoneRunsOut
=============================================================================
