---------------------------- MODULE ListingProofs ----------------------------
(***************************************************************************)
(* Proofs about module Listing, for any products, prices, creation times   *)
(* and page size.                                                          *)
(*                                                                         *)
(* The argument is about one position in the order, the cursor's: of what  *)
(* has kept its place, the walk has shown what was listed all the time up  *)
(* to the cursor, and nothing after it.  A page moves the cursor on.       *)
(***************************************************************************)
EXTENDS Listing, FiniteSetTheorems, TLAPS

(* Of what has kept its place: shown means not after the cursor.           *)
CursorInv ==
    walk.step = "paging" =>
        \A p \in DOMAIN docs \ moved :
            /\ p \in seen => ~After(walk.sort, p, walk.cursor)
            /\ p \in steady /\ ~After(walk.sort, p, walk.cursor) => p \in seen

IInv == ListingTypeOK /\ NoneTwice /\ NoneMissed /\ CursorInv

-----------------------------------------------------------------------------
(* The order is total: sort field, then _id.                               *)
LEMMA Fields ==
    ASSUME ListingTypeOK, NEW sort \in Sorts, NEW p \in DOMAIN docs
    PROVE  /\ p \in Nat /\ SortField(sort, p) \in Nat
           /\ CursorOf(sort, p) \in [v : Nat, id : Int]
           /\ CursorOf(sort, p) # NoCursor
           /\ CursorOf(sort, p).v = SortField(sort, p) /\ CursorOf(sort, p).id = p
<1>1. p \in Nat /\ docs[p] \in Docs  BY ListingAssumption DEF ListingTypeOK
<1>2. SortField(sort, p) \in Nat  BY <1>1, ListingAssumption DEF SortField, Docs
<1> QED  BY <1>1, <1>2 DEF CursorOf, NoCursor

LEMMA OrderIsTotal ==
    ASSUME ListingTypeOK, NEW sort \in Sorts, NEW p \in DOMAIN docs, NEW q \in DOMAIN docs
    PROVE  /\ After(sort, p, CursorOf(sort, q)) \/ After(sort, q, CursorOf(sort, p)) \/ p = q
           /\ ~(After(sort, p, CursorOf(sort, q)) /\ After(sort, q, CursorOf(sort, p)))
           /\ ~After(sort, p, CursorOf(sort, p))
BY Fields DEF After

LEMMA OrderIsTransitive ==
    ASSUME ListingTypeOK, NEW sort \in Sorts, NEW p \in DOMAIN docs, NEW q \in DOMAIN docs,
           NEW c \in [v : Nat, id : Int],
           After(sort, p, CursorOf(sort, q)), After(sort, q, c)
    PROVE  After(sort, p, c)
BY Fields DEF After

(* An answer shows what is found up to its cursor, or all of it.           *)
LEMMA AnswerShows ==
    ASSUME ListingTypeOK, NEW sort \in Sorts, NEW found \in SUBSET DOMAIN docs, NEW old,
           Answer(sort, found, old)
    PROVE  \E page \in SUBSET found :
              /\ seen' = old \union page
              /\ twice' = (IF old = {} THEN {} ELSE twice) \union (old \intersect page)
              /\ walk'.sort = sort
              /\ \/ /\ walk' = [step |-> "over", sort |-> sort, cursor |-> NoCursor]
                    /\ page = found
                 \/ \E last \in found :
                       /\ walk' = [step |-> "paging", sort |-> sort,
                                   cursor |-> CursorOf(sort, last)]
                       /\ page = {p \in found : ~After(sort, p, CursorOf(sort, last))}
<1>1. CASE Cardinality(found) <= Limit /\ seen' = old \union found
           /\ twice' = (IF old = {} THEN {} ELSE twice) \union (old \intersect found)
           /\ walk' = [step |-> "over", sort |-> sort, cursor |-> NoCursor]
  BY <1>1
<1>2. ASSUME NEW last \in found,
             seen' = old \union (Predecessors(sort, last, found) \union {last}),
             twice' = (IF old = {} THEN {} ELSE twice)
                         \union (old \intersect (Predecessors(sort, last, found) \union {last})),
             walk' = [step |-> "paging", sort |-> sort, cursor |-> CursorOf(sort, last)]
      PROVE  \E page \in SUBSET found :
              /\ seen' = old \union page
              /\ twice' = (IF old = {} THEN {} ELSE twice) \union (old \intersect page)
              /\ walk'.sort = sort
              /\ \E l \in found :
                    /\ walk' = [step |-> "paging", sort |-> sort, cursor |-> CursorOf(sort, l)]
                    /\ page = {p \in found : ~After(sort, p, CursorOf(sort, l))}
  <2> DEFINE page == Predecessors(sort, last, found) \union {last}
  <2>1. page = {p \in found : ~After(sort, p, CursorOf(sort, last))}
    BY OrderIsTotal DEF Predecessors
  <2> QED  BY <1>2, <2>1
<1> QED  BY <1>1, <1>2 DEF Answer

-----------------------------------------------------------------------------
LEMMA ListingStep == IInv /\ [ListingNext]_vars => IInv'
<1> SUFFICES ASSUME IInv, [ListingNext]_vars  PROVE IInv'  OBVIOUS
<1> USE DEF IInv
<1>1. CASE UNCHANGED vars
  BY <1>1 DEF vars, ListingTypeOK, NoneTwice, NoneMissed, CursorInv, Listed, After, SortField
<1>2. ASSUME NEW sort \in Sorts, FirstPage(sort)  PROVE IInv'
  <2>1. /\ Answer(sort, Listed, {}) /\ steady' = Listed /\ moved' = {} /\ docs' = docs
    BY <1>2 DEF FirstPage
  <2>2. Listed \in SUBSET DOMAIN docs  BY DEF Listed
  <2>3. PICK page \in SUBSET Listed :
              /\ seen' = page /\ twice' = {} /\ walk'.sort = sort
              /\ \/ /\ walk' = [step |-> "over", sort |-> sort, cursor |-> NoCursor]
                    /\ page = Listed
                 \/ \E last \in Listed :
                       /\ walk' = [step |-> "paging", sort |-> sort,
                                   cursor |-> CursorOf(sort, last)]
                       /\ page = {p \in Listed : ~After(sort, p, CursorOf(sort, last))}
    <3>1. PICK page \in SUBSET Listed :
              /\ seen' = {} \union page
              /\ twice' = (IF {} = {} THEN {} ELSE twice) \union ({} \intersect page)
              /\ walk'.sort = sort
              /\ \/ /\ walk' = [step |-> "over", sort |-> sort, cursor |-> NoCursor]
                    /\ page = Listed
                 \/ \E last \in Listed :
                       /\ walk' = [step |-> "paging", sort |-> sort,
                                   cursor |-> CursorOf(sort, last)]
                       /\ page = {p \in Listed : ~After(sort, p, CursorOf(sort, last))}
      BY <2>1, <2>2, AnswerShows
    <3>2. seen' = page /\ twice' = {}  BY <3>1
    <3> QED  BY <3>1, <3>2
  <2>4. CASE /\ walk' = [step |-> "over", sort |-> sort, cursor |-> NoCursor]
             /\ page = Listed
    BY <2>1, <2>2, <2>3, <2>4
       DEF ListingTypeOK, NoneTwice, NoneMissed, CursorInv, Listed, NoCursor
  <2>5. ASSUME NEW last \in Listed,
               walk' = [step |-> "paging", sort |-> sort, cursor |-> CursorOf(sort, last)],
               page = {p \in Listed : ~After(sort, p, CursorOf(sort, last))}
        PROVE  IInv'
    <3>1. \A p, c : After(sort, p, c)' <=> After(sort, p, c')
      BY <2>1 DEF After, SortField
    <3>2. ListingTypeOK'
      BY <2>1, <2>2, <2>3, <2>5, Fields DEF ListingTypeOK, Listed
    <3>3. CursorInv'
      BY <2>1, <2>2, <2>3, <2>5 DEF CursorInv, After, SortField
    <3> QED  BY <2>3, <2>5, <3>2, <3>3 DEF NoneTwice, NoneMissed
  <2> QED  BY <2>3, <2>4, <2>5
<1>3. CASE NextPage
  <2> DEFINE sort == walk.sort
             found == {p \in Listed : After(sort, p, walk.cursor)}
  <2>1. /\ walk.step = "paging" /\ Answer(sort, found, seen)
        /\ docs' = docs /\ steady' = steady /\ moved' = moved
    BY <1>3 DEF NextPage
  <2>2. sort \in Sorts /\ walk.cursor \in [v : Nat, id : Int]  BY DEF ListingTypeOK
  <2>3. found \in SUBSET DOMAIN docs  BY DEF Listed
  <2>4. PICK page \in SUBSET found :
              /\ seen' = seen \union page
              /\ twice' = (IF seen = {} THEN {} ELSE twice) \union (seen \intersect page)
              /\ walk'.sort = sort
              /\ \/ /\ walk' = [step |-> "over", sort |-> sort, cursor |-> NoCursor]
                    /\ page = found
                 \/ \E last \in found :
                       /\ walk' = [step |-> "paging", sort |-> sort,
                                   cursor |-> CursorOf(sort, last)]
                       /\ page = {p \in found : ~After(sort, p, CursorOf(sort, last))}
    <3> HIDE DEF found, sort
    <3> QED  BY <2>1, <2>2, <2>3, AnswerShows
  <2>5. twice' \subseteq moved
    <3>1. twice \subseteq moved  BY <2>1 DEF NoneTwice
    <3>2. ASSUME NEW p \in seen \intersect page  PROVE p \in moved
      BY <2>1, <2>3, <2>4, <3>2 DEF CursorInv
    <3> QED  BY <2>4, <3>1, <3>2
  <2>6. seen' \subseteq DOMAIN docs /\ twice' \subseteq seen'
    BY <2>3, <2>4 DEF ListingTypeOK
  <2>7. CASE /\ walk' = [step |-> "over", sort |-> sort, cursor |-> NoCursor]
             /\ page = found
    <3>1. ListingTypeOK'
      BY <2>1, <2>2, <2>6, <2>7 DEF ListingTypeOK, Listed, NoCursor
    <3>2. NoneMissed'
      <4> SUFFICES ASSUME NEW p \in steady, p \notin moved  PROVE p \in seen'
        BY <2>1 DEF NoneMissed
      <4>1. p \in Listed /\ p \in DOMAIN docs \ moved  BY DEF ListingTypeOK, Listed
      <4> QED  BY <2>1, <2>4, <2>7, <4>1 DEF CursorInv
    <3> QED  BY <2>1, <2>5, <2>7, <3>1, <3>2 DEF NoneTwice, CursorInv
  <2>8. ASSUME NEW last \in found,
               walk' = [step |-> "paging", sort |-> sort, cursor |-> CursorOf(sort, last)],
               page = {p \in found : ~After(sort, p, CursorOf(sort, last))}
        PROVE  IInv'
    <3>1. last \in DOMAIN docs /\ After(sort, last, walk.cursor)  BY <2>3
    <3>2. ListingTypeOK'
      BY <2>1, <2>2, <2>6, <2>8, <3>1, Fields DEF ListingTypeOK, Listed
    <3>3. ASSUME NEW p \in DOMAIN docs \ moved
          PROVE  /\ p \in seen' => ~After(sort, p, CursorOf(sort, last))
                 /\ p \in steady /\ ~After(sort, p, CursorOf(sort, last)) => p \in seen'
      <4>1. /\ p \in seen => ~After(sort, p, walk.cursor)
            /\ p \in steady /\ ~After(sort, p, walk.cursor) => p \in seen
        BY <2>1, <3>3 DEF CursorInv
      <4>2. After(sort, p, CursorOf(sort, last)) => After(sort, p, walk.cursor)
        <5> HIDE DEF sort
        <5> QED  BY <2>2, <3>1, <3>3, OrderIsTransitive
      <4>3. p \in steady => p \in Listed  BY DEF ListingTypeOK
      <4> QED  BY <2>4, <2>8, <4>1, <4>2, <4>3
    <3>4. CursorInv'
      BY <2>1, <2>8, <3>3 DEF CursorInv, After, SortField, CursorOf
    <3> QED  BY <2>1, <2>5, <2>8, <3>2, <3>4 DEF NoneTwice, NoneMissed
  <2> QED  BY <2>4, <2>7, <2>8
<1>4. ASSUME NEW p \in Products, NEW created \in Times, NEW price \in Prices,
             CreateProduct(p, created, price)
      PROVE  IInv'
  <2>1. /\ p \notin DOMAIN docs /\ UNCHANGED <<walk, seen, twice, steady, moved>>
        /\ DOMAIN docs' = DOMAIN docs \union {p}
        /\ docs'[p] \in Docs
        /\ \A q \in DOMAIN docs : docs'[q] = docs[q]
        /\ docs' \in [DOMAIN docs' -> Docs]
    BY <1>4 DEF CreateProduct, ListingTypeOK, Docs
  <2>2. ListingTypeOK'  BY <2>1 DEF ListingTypeOK, Listed
  <2>3. p \notin seen /\ p \notin steady  BY <2>1 DEF ListingTypeOK, Listed
  <2>4. CursorInv'
    BY <2>1, <2>3 DEF CursorInv, After, SortField
  <2> QED  BY <2>1, <2>2, <2>4 DEF NoneTwice, NoneMissed
<1>5. ASSUME NEW p \in Products, NEW price \in Prices, UpdatePrice(p, price)  PROVE IInv'
  <2>1. /\ p \in DOMAIN docs /\ UNCHANGED <<walk, seen, twice, steady>>
        /\ DOMAIN docs' = DOMAIN docs /\ docs' \in [DOMAIN docs -> Docs]
        /\ docs'[p].isAvailable = docs[p].isAvailable
        /\ docs'[p].createdAt = docs[p].createdAt
        /\ \A q \in DOMAIN docs : q # p => docs'[q] = docs[q]
        /\ moved' = IF walk.sort = "newest" THEN moved ELSE moved \union {p}
    BY <1>5 DEF UpdatePrice, ListingTypeOK, Docs
  <2>2. Listed' = Listed  BY <2>1 DEF Listed
  <2>3. ListingTypeOK'  BY <2>1, <2>2 DEF ListingTypeOK
  <2>4. \A q \in DOMAIN docs \ moved' : SortField(walk.sort, q)' = SortField(walk.sort, q)
    BY <2>1 DEF SortField
  <2>5. CursorInv'
    BY <2>1, <2>4 DEF CursorInv, After
  <2> QED  BY <2>1, <2>3, <2>5 DEF NoneTwice, NoneMissed
<1>6. ASSUME NEW p \in Products, NEW available \in BOOLEAN, UpdateAvailability(p, available)
      PROVE  IInv'
  <2>1. /\ p \in DOMAIN docs /\ UNCHANGED <<walk, seen, twice, moved>>
        /\ DOMAIN docs' = DOMAIN docs /\ docs' \in [DOMAIN docs -> Docs]
        /\ docs'[p].isAvailable = available
        /\ docs'[p].createdAt = docs[p].createdAt
        /\ docs'[p].priceMinor = docs[p].priceMinor
        /\ \A q \in DOMAIN docs : q # p => docs'[q] = docs[q]
        /\ steady' = IF available THEN steady ELSE steady \ {p}
    BY <1>6 DEF UpdateAvailability, ListingTypeOK, Docs
  <2>2. ListingTypeOK'
    <3>1. steady' \subseteq Listed'  BY <2>1 DEF ListingTypeOK, Listed
    <3> QED  BY <2>1, <3>1 DEF ListingTypeOK
  <2>3. \A q \in DOMAIN docs : SortField(walk.sort, q)' = SortField(walk.sort, q)
    BY <2>1 DEF SortField
  <2>4. CursorInv'  BY <2>1, <2>3 DEF CursorInv, After
  <2> QED  BY <2>1, <2>2, <2>4 DEF NoneTwice, NoneMissed
<1> QED  BY <1>1, <1>2, <1>3, <1>4, <1>5, <1>6 DEF ListingNext

LEMMA ListingInvariant == ListingSpec => []IInv
<1>1. ListingInit => IInv
  <2> SUFFICES ASSUME ListingInit  PROVE IInv  OBVIOUS
  <2>1. /\ DOMAIN docs \subseteq Products /\ docs \in [DOMAIN docs -> Docs]
        /\ walk = [step |-> "idle", sort |-> "newest", cursor |-> NoCursor]
        /\ seen = {} /\ twice = {} /\ steady = {} /\ moved = {}
    BY DEF ListingInit
  <2> QED
    BY <2>1 DEF IInv, ListingTypeOK, NoneTwice, NoneMissed, CursorInv, Sorts, NoCursor
<1>2. IInv /\ [ListingNext]_vars => IInv'  BY ListingStep
<1> QED  BY <1>1, <1>2, PTL DEF ListingSpec

(* The documents and cursors keep their types; a walk goes on exactly as   *)
(* long as answers have a cursor (products.repository.ts:94-117).          *)
THEOREM ListingTypeCorrect == ListingSpec => []ListingTypeOK
<1>1. IInv => ListingTypeOK  BY DEF IInv
<1> QED  BY <1>1, ListingInvariant, PTL

(* No page repeats what an earlier one showed, for any page size           *)
(* (products.repository.ts:65-92).                                         *)
THEOREM PagesRepeatNothing == ListingSpec => []NoneTwice
<1>1. IInv => NoneTwice  BY DEF IInv
<1> QED  BY <1>1, ListingInvariant, PTL

(* A finished walk has shown everything that was listed all the time       *)
(* (products.repository.ts:65-117).                                        *)
THEOREM PagesMissNothing == ListingSpec => []NoneMissed
<1>1. IInv => NoneMissed  BY DEF IInv
<1> QED  BY <1>1, ListingInvariant, PTL
=============================================================================
