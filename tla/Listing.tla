------------------------------- MODULE Listing --------------------------------
(***************************************************************************)
(* The product list, page by page: a client walks through the catalog with *)
(* the cursor of each answer, while administrators create products, change *)
(* prices and take products away.  The cursor is a position in the order   *)
(* (sort field, then _id) and not a snapshot: a page is one query of what  *)
(* the catalog is at that moment.                                          *)
(*                                                                         *)
(* The filters by category and text are part of what makes a product       *)
(* listed or not, like its availability; the client keeps its sort.        *)
(***************************************************************************)
EXTENDS Integers, FiniteSets

CONSTANTS
    Products,   \* the _ids, in their order
    Times,      \* what createdAt may be: clocks of several processes
    Prices,
    Limit       \* the page size, 1..100

ASSUME ListingAssumption ==
    /\ Products \subseteq Nat /\ IsFiniteSet(Products)
    /\ Times \subseteq Nat
    /\ Prices \subseteq Nat
    /\ Limit \in Nat \ {0}

VARIABLES
    docs,       \* the documents: a function on the products that exist
    walk,       \* the client's sort, and the cursor of its last answer
    seen,       \* what the answers of the walk showed
    twice,      \* history: what they showed more than once
    steady,     \* history: what was listed at every moment of the walk
    moved       \* history: what changed its place in the order meanwhile

vars == <<docs, walk, seen, twice, steady, moved>>

Docs == [createdAt : Times, priceMinor : Prices, isAvailable : BOOLEAN]
Sorts == {"newest", "price_asc", "price_desc"}
NoCursor == [v |-> 0, id |-> -1]

ListingInit ==
    /\ \E exists \in SUBSET Products : docs \in [exists -> Docs]
    /\ walk = [step |-> "idle", sort |-> "newest", cursor |-> NoCursor]
    /\ seen = {} /\ twice = {} /\ steady = {} /\ moved = {}

Listed == {p \in DOMAIN docs : docs[p].isAvailable}

-----------------------------------------------------------------------------
SortField(sort, p) == IF sort = "newest" THEN docs[p].createdAt ELSE docs[p].priceMinor
CursorOf(sort, p) == [v |-> SortField(sort, p), id |-> p]

(* Mutant: the filter has no second alternative.                           *)
AfterFieldOnly(sort, p, c) ==
    IF sort = "price_asc" THEN SortField(sort, p) > c.v ELSE SortField(sort, p) < c.v

(* Both the keyset filter and, for two documents, the sort.                *)
After(sort, p, c) ==
    LET v == SortField(sort, p) IN
    IF sort = "price_asc"
    THEN v > c.v \/ (v = c.v /\ p > c.id)
    ELSE v < c.v \/ (v = c.v /\ p < c.id)

Predecessors(sort, p, found) == {q \in found : After(sort, p, CursorOf(sort, q))}

(* The query asks for one document more than the page, to know whether     *)
(* there are more: limit + 1 documents in the order, of which the last is  *)
(* left out.  `last` is then the one with limit - 1 before it.             *)
Answer(sort, found, old) ==
    \/ /\ Cardinality(found) > Limit
       /\ \E last \in found :
             LET page == Predecessors(sort, last, found) \union {last} IN
             /\ Cardinality(Predecessors(sort, last, found)) = Limit - 1
             /\ seen' = old \union page
             /\ twice' = (IF old = {} THEN {} ELSE twice) \union (old \intersect page)
             /\ walk' = [step |-> "paging", sort |-> sort, cursor |-> CursorOf(sort, last)]
    \/ /\ Cardinality(found) <= Limit
       /\ seen' = old \union found
       /\ twice' = (IF old = {} THEN {} ELSE twice) \union (old \intersect found)
       /\ walk' = [step |-> "over", sort |-> sort, cursor |-> NoCursor]

FirstPage(sort) ==
    /\ walk.step # "paging"
    /\ Answer(sort, Listed, {})
    /\ steady' = Listed
    /\ moved' = {}
    /\ UNCHANGED docs

(* Mutant: the cursor's t is compared with the sort and never matches.     *)
NextPageFromStart ==
    /\ walk.step = "paging"
    /\ Answer(walk.sort, Listed, seen)
    /\ UNCHANGED <<docs, steady, moved>>

NextPage ==
    /\ walk.step = "paging"
    /\ Answer(walk.sort, {p \in Listed : After(walk.sort, p, walk.cursor)}, seen)
    /\ UNCHANGED <<docs, steady, moved>>

-----------------------------------------------------------------------------
(* A new product may be anywhere in the order, behind the cursor too.      *)
CreateProduct(p, created, price) ==
    /\ p \notin DOMAIN docs
    /\ docs' = [q \in DOMAIN docs \union {p} |->
                   IF q = p
                   THEN [createdAt |-> created, priceMinor |-> price, isAvailable |-> TRUE]
                   ELSE docs[q]]
    /\ UNCHANGED <<walk, seen, twice, steady, moved>>

UpdatePrice(p, price) ==
    /\ p \in DOMAIN docs
    /\ docs[p].priceMinor # price
    /\ docs' = [docs EXCEPT ![p].priceMinor = price]
    /\ moved' = IF walk.sort = "newest" THEN moved ELSE moved \union {p}
    /\ UNCHANGED <<walk, seen, twice, steady>>

UpdateAvailability(p, available) ==
    /\ p \in DOMAIN docs
    /\ docs' = [docs EXCEPT ![p].isAvailable = available]
    /\ steady' = IF available THEN steady ELSE steady \ {p}
    /\ UNCHANGED <<walk, seen, twice, moved>>

-----------------------------------------------------------------------------
ListingNext ==
    \/ \E sort \in Sorts : FirstPage(sort)
    \/ NextPage
    \/ \E p \in Products :
          \/ \E created \in Times, price \in Prices : CreateProduct(p, created, price)
          \/ \E price \in Prices : UpdatePrice(p, price)
          \/ \E available \in BOOLEAN : UpdateAvailability(p, available)

ListingSpec == ListingInit /\ [][ListingNext]_vars

-----------------------------------------------------------------------------
(* An answer without a cursor ends the walk, and no other does.            *)
ListingTypeOK ==
    /\ DOMAIN docs \subseteq Products
    /\ docs \in [DOMAIN docs -> Docs]
    /\ walk \in [step : {"idle", "paging", "over"}, sort : Sorts, cursor : [v : Nat, id : Int]]
    /\ walk.step = "paging" <=> walk.cursor # NoCursor
    /\ seen \subseteq DOMAIN docs /\ twice \subseteq seen
    /\ steady \subseteq Listed
    /\ moved \subseteq DOMAIN docs

(* A walk shows nothing twice, although products are created, archived and *)
(* offered again between its pages; only a product whose price changes in  *)
(* a walk by price may be met again.                                       *)
NoneTwice == walk.step # "idle" => twice \subseteq moved

(* When the walk is over, it has shown every product that was listed all   *)
(* the time, equal creation times and prices included; only a product      *)
(* whose price changed in a walk by price may have been stepped over.      *)
NoneMissed == walk.step = "over" => steady \subseteq seen \union moved
=============================================================================
