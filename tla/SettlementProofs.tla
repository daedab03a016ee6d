--------------------------- MODULE SettlementProofs --------------------------
(***************************************************************************)
(* Theorems about the stock and the orders.  First those about Inventory   *)
(* alone, for any number of orders, products, sweeps and quantities; then  *)
(* that Settlement keeps to it, so that they hold of the whole; then those *)
(* about Settlement, for any set of handlers and jobs except where a       *)
(* theorem names them.                                                     *)
(***************************************************************************)
EXTENDS Settlement, FiniteSetTheorems, TLAPS

USE InventoryAssumption DEF InventoryAssumption

-----------------------------------------------------------------------------
(* Counting units: the pairs that stand for n units of one order.          *)

OrderUnits(o, n) == {o} \X (1..n)

LEMMA UnitsOfOrder ==
    ASSUME NEW o, NEW n \in Nat
    PROVE  /\ IsFiniteSet(OrderUnits(o, n))
           /\ Cardinality(OrderUnits(o, n)) = n
<1>1. IsFiniteSet(1..n) /\ Cardinality(1..n) = n
  BY FS_Interval
<1>2. IsFiniteSet({o}) /\ Cardinality({o}) = 1
  BY FS_Singleton
<1> DEFINE One == {o}
           Units == 1..n
<1> HIDE DEF One, Units
<1>3. /\ IsFiniteSet(One \X Units)
      /\ Cardinality(One \X Units) = Cardinality(One) * Cardinality(Units)
  BY <1>1, <1>2, FS_Product DEF One, Units
<1>4. Cardinality(One) * Cardinality(Units) = n
  BY <1>1, <1>2 DEF One, Units
<1> QED
  BY <1>3, <1>4 DEF One, Units, OrderUnits

LEMMA UnitsAdded ==
    ASSUME NEW U, IsFiniteSet(U), NEW o, NEW n \in Nat,
           U \intersect OrderUnits(o, n) = {}
    PROVE  /\ IsFiniteSet(U \union OrderUnits(o, n))
           /\ Cardinality(U \union OrderUnits(o, n)) = Cardinality(U) + n
<1>1. IsFiniteSet(OrderUnits(o, n)) /\ Cardinality(OrderUnits(o, n)) = n
  BY UnitsOfOrder
<1>2. Cardinality(U \intersect OrderUnits(o, n)) = 0
  BY FS_EmptySet
<1>3. Cardinality(U) \in Nat
  BY FS_CardinalityType
<1> QED
  BY <1>1, <1>2, <1>3, FS_Union

LEMMA UnitsRemoved ==
    ASSUME NEW U, IsFiniteSet(U), NEW o, NEW n \in Nat, OrderUnits(o, n) \subseteq U
    PROVE  /\ IsFiniteSet(U \ OrderUnits(o, n))
           /\ Cardinality(U \ OrderUnits(o, n)) = Cardinality(U) - n
<1>1. Cardinality(OrderUnits(o, n)) = n
  BY UnitsOfOrder
<1>2. U \intersect OrderUnits(o, n) = OrderUnits(o, n)
  OBVIOUS
<1>3. /\ IsFiniteSet(U \ OrderUnits(o, n))
      /\ Cardinality(U \ OrderUnits(o, n))
            = Cardinality(U) - Cardinality(U \intersect OrderUnits(o, n))
  BY FS_Difference
<1> QED
  BY <1>1, <1>2, <1>3

-----------------------------------------------------------------------------
(* What the writes of a transaction do, in terms of types.                 *)

LEMMA IncrementType ==
    ASSUME InventoryTypeOK, NEW items \in [Products -> 0..MaxQty],
           NEW d1 \in {-1, 0}, NEW d2 \in {-1, 0, 1}
    PROVE  Increment(items, d1, d2) \in [Products -> [onHand : Int, reserved : Int]]
BY DEF Increment, InventoryTypeOK

LEMMA SettleType ==
    ASSUME InventoryTypeOK, NEW o \in Orders, NEW status \in ReservationStatus,
           Settle(o, status)
    PROVE  reservation' \in [Orders -> [status : ReservationStatus, items : [Products -> 0..MaxQty]]]
<1>1. [reservation[o] EXCEPT !.status = status]
          \in [status : ReservationStatus, items : [Products -> 0..MaxQty]]
  BY DEF InventoryTypeOK
<1> QED
  BY <1>1 DEF Settle, InventoryTypeOK

LEMMA StepType ==
    ASSUME InventoryTypeOK, [InventoryNext]_inventoryVars
    PROVE  InventoryTypeOK'
<1> USE DEF InventoryTypeOK
<1>1. ASSUME NEW o \in Orders, NEW items \in ItemLists,
             ReserveStock(o, items), UNCHANGED jobVars
      PROVE  InventoryTypeOK'
  <2>1. items \in [Products -> 0..MaxQty]
    OBVIOUS
  <2>2. inventory' \in [Products -> [onHand : Int, reserved : Int]]
    BY <1>1, <2>1, IncrementType DEF ReserveStock
  <2> QED
    BY <1>1, <2>1, <2>2 DEF ReserveStock, jobVars, ReservationStatus
<1>2. ASSUME NEW o \in Orders, CommitReservation(o)
      PROVE  /\ inventory' \in [Products -> [onHand : Int, reserved : Int]]
             /\ reservation' \in [Orders -> [status : ReservationStatus, items : [Products -> 0..MaxQty]]]
  <2>1. inventory' \in [Products -> [onHand : Int, reserved : Int]]
    BY <1>2, IncrementType DEF CommitReservation
  <2> QED
    BY <1>2, <2>1, SettleType DEF CommitReservation, ReservationStatus
<1>3. ASSUME NEW o \in Orders, NEW status \in {"RELEASED", "EXPIRED"}, GiveBack(o, status)
      PROVE  /\ inventory' \in [Products -> [onHand : Int, reserved : Int]]
             /\ reservation' \in [Orders -> [status : ReservationStatus, items : [Products -> 0..MaxQty]]]
  <2>1. inventory' \in [Products -> [onHand : Int, reserved : Int]]
    BY <1>3, IncrementType DEF GiveBack
  <2> QED
    BY <1>3, <2>1, SettleType DEF GiveBack, ReservationStatus
<1>4. ASSUME NEW o \in Orders, ExpireReservation(o)
      PROVE  /\ inventory' \in [Products -> [onHand : Int, reserved : Int]]
             /\ reservation' \in [Orders -> [status : ReservationStatus, items : [Products -> 0..MaxQty]]]
  BY <1>3, <1>4 DEF ExpireReservation
<1>5. ASSUME NEW o \in Orders, CommitReservation(o) /\ UNCHANGED jobVars
      PROVE  InventoryTypeOK'
  BY <1>2, <1>5 DEF jobVars
<1>6. ASSUME NEW o \in Orders, ReleaseReservation(o) /\ UNCHANGED jobVars
      PROVE  InventoryTypeOK'
  BY <1>3, <1>6 DEF ReleaseReservation, jobVars
<1>7. ASSUME NEW o \in Orders, ScheduleReservationExpiry(o)
      PROVE  InventoryTypeOK'
  BY <1>7 DEF ScheduleReservationExpiry
<1>8. ASSUME NEW o \in Orders, TtlElapses(o)
      PROVE  InventoryTypeOK'
  BY <1>8 DEF TtlElapses
<1>9. ASSUME NEW o \in Orders, ExpireSingleReservation(o)
      PROVE  InventoryTypeOK'
  BY <1>4, <1>9 DEF ExpireSingleReservation
<1>10. ASSUME NEW o \in Orders, ExpiryJobLost(o)
       PROVE  InventoryTypeOK'
  BY <1>10 DEF ExpiryJobLost
<1>11. ASSUME NEW s \in Sweepers, SweepStart(s)
       PROVE  InventoryTypeOK'
  BY <1>11 DEF SweepStart
<1>12. ASSUME NEW s \in Sweepers, NEW o \in Orders, SweepOne(s, o)
       PROVE  InventoryTypeOK'
  <2>1. cursor' \in [Sweepers -> SUBSET Orders]
    BY <1>12 DEF SweepOne
  <2>2. swept' \in [Sweepers -> 0..(BatchSize - 1)]
    BY <1>12 DEF SweepOne
  <2> QED
    BY <1>4, <1>12, <2>1, <2>2 DEF SweepOne
<1>13. ASSUME NEW s \in Sweepers, SweepFails(s)
       PROVE  InventoryTypeOK'
  BY <1>13 DEF SweepFails
<1>14. ASSUME NEW p \in Products, NEW onHand \in AdminLevels, UpsertInventory(p, onHand)
       PROVE  InventoryTypeOK'
  BY <1>14 DEF UpsertInventory, jobVars
<1>15. ASSUME UNCHANGED inventoryVars
       PROVE  InventoryTypeOK'
  BY <1>15 DEF inventoryVars
<1> QED
  BY <1>1, <1>5, <1>6, <1>7, <1>8, <1>9, <1>10, <1>11, <1>12, <1>13, <1>14, <1>15
     DEF InventoryNext, BackgroundNext

LEMMA InitType == InventoryInit => InventoryTypeOK
BY DEF InventoryInit, InventoryTypeOK, NoItems, ReservationStatus

(* The collections keep their types in every behaviour, whoever calls the  *)
(* component's operations and however many sweeps overlap.                 *)
THEOREM InventoryTypeCorrect == InventorySpec => []InventoryTypeOK
BY InitType, StepType, PTL DEF InventorySpec

-----------------------------------------------------------------------------
(* Every step of the component, seen from the stock, is one of five.       *)

StockUnchanged == UNCHANGED <<inventory, reservation>>
StockReserved == \E o \in Orders, items \in ItemLists : ReserveStock(o, items)
StockCommitted == \E o \in Orders : CommitReservation(o)
StockGivenBack == \E o \in Orders, status \in {"RELEASED", "EXPIRED"} : GiveBack(o, status)
StockRecounted == \E p \in Products, onHand \in AdminLevels : UpsertInventory(p, onHand)

LEMMA StockStep ==
    ASSUME [InventoryNext]_inventoryVars
    PROVE  \/ StockUnchanged \/ StockReserved \/ StockCommitted
           \/ StockGivenBack \/ StockRecounted
<1> USE DEF StockUnchanged, StockReserved, StockCommitted, StockGivenBack, StockRecounted
<1>1. ASSUME NEW o \in Orders, ReleaseReservation(o)
      PROVE  StockGivenBack \/ StockUnchanged
  BY <1>1 DEF ReleaseReservation
<1>2. ASSUME NEW o \in Orders, ExpireReservation(o)
      PROVE  StockGivenBack \/ StockUnchanged
  BY <1>2 DEF ExpireReservation
<1>3. ASSUME BackgroundNext
      PROVE  StockGivenBack \/ StockUnchanged \/ StockRecounted
  BY <1>2, <1>3 DEF BackgroundNext, TtlElapses, ExpireSingleReservation, ExpiryJobLost,
                    SweepStart, SweepOne, SweepFails
<1> QED
  BY <1>1, <1>3 DEF InventoryNext, ScheduleReservationExpiry, inventoryVars

-----------------------------------------------------------------------------
(* How the units of a product move between the statuses.                   *)

LEMMA ReserveUnits ==
    ASSUME InventoryTypeOK, NEW o \in Orders, NEW items \in ItemLists,
           ReserveStock(o, items), NEW p \in Products
    PROVE  /\ UnitsIn("ACTIVE", p)' = UnitsIn("ACTIVE", p) \union OrderUnits(o, items[p])
           /\ UnitsIn("ACTIVE", p) \intersect OrderUnits(o, items[p]) = {}
           /\ UnitsIn("COMMITTED", p)' = UnitsIn("COMMITTED", p)
<1>1. items \in [Products -> 0..MaxQty]
  OBVIOUS
<1>2. /\ reservation'[o].status = "ACTIVE" /\ reservation'[o].items = items
      /\ reservation[o].status = "NONE"
      /\ \A q \in Orders \ {o} : reservation'[q] = reservation[q]
  BY DEF ReserveStock, InventoryTypeOK
<1>3. items[p] \in 0..MaxQty
  BY <1>1
<1>4. ASSUME NEW u \in Orders \X (1..MaxQty)
      PROVE  /\ u \in OrderUnits(o, items[p]) <=> u[1] = o /\ u[2] <= items[p]
             /\ u[1] \in Orders
  BY <1>3 DEF OrderUnits
<1> QED
  BY <1>2, <1>3, <1>4 DEF UnitsIn, OrderUnits

LEMMA SettleUnits ==
    ASSUME InventoryTypeOK, NEW o \in Orders, NEW status \in ReservationStatus,
           status # "ACTIVE", Settle(o, status), NEW p \in Products,
           NEW n, n = reservation[o].items[p]
    PROVE  /\ n \in Nat
           /\ OrderUnits(o, n) \subseteq UnitsIn("ACTIVE", p)
           /\ UnitsIn("ACTIVE", p)' = UnitsIn("ACTIVE", p) \ OrderUnits(o, n)
           /\ UnitsIn("COMMITTED", p) \intersect OrderUnits(o, n) = {}
           /\ UnitsIn("COMMITTED", p)' = IF status = "COMMITTED"
                                         THEN UnitsIn("COMMITTED", p) \union OrderUnits(o, n)
                                         ELSE UnitsIn("COMMITTED", p)
<1>1. n \in 0..MaxQty
  BY DEF InventoryTypeOK
<1>2. /\ reservation[o].status = "ACTIVE"
      /\ reservation'[o].status = status
      /\ reservation'[o].items = reservation[o].items
      /\ \A q \in Orders \ {o} : reservation'[q] = reservation[q]
  BY DEF Settle, InventoryTypeOK
<1>3. ASSUME NEW u \in Orders \X (1..MaxQty)
      PROVE  /\ u \in OrderUnits(o, n) <=> u[1] = o /\ u[2] <= n
             /\ u[1] \in Orders
  BY <1>1 DEF OrderUnits
<1>4. OrderUnits(o, n) \subseteq Orders \X (1..MaxQty)
  BY <1>1 DEF OrderUnits
<1>5. OrderUnits(o, n) \subseteq UnitsIn("ACTIVE", p)
  BY <1>2, <1>3, <1>4 DEF UnitsIn, OrderUnits
<1>6. UnitsIn("ACTIVE", p)' = UnitsIn("ACTIVE", p) \ OrderUnits(o, n)
  BY <1>2, <1>3, <1>4 DEF UnitsIn, OrderUnits
<1>7. UnitsIn("COMMITTED", p) \intersect OrderUnits(o, n) = {}
  BY <1>2, <1>3, <1>4 DEF UnitsIn, OrderUnits
<1>8. CASE status = "COMMITTED"
  <2>1. UnitsIn("COMMITTED", p)' = UnitsIn("COMMITTED", p) \union OrderUnits(o, n)
    BY <1>2, <1>3, <1>4, <1>8 DEF UnitsIn, OrderUnits
  <2> QED
    BY <1>1, <1>5, <1>6, <1>7, <1>8, <2>1
<1>9. CASE status # "COMMITTED"
  <2>1. UnitsIn("COMMITTED", p)' = UnitsIn("COMMITTED", p)
    BY <1>2, <1>3, <1>4, <1>9 DEF UnitsIn, OrderUnits
  <2> QED
    BY <1>1, <1>5, <1>6, <1>7, <1>9, <2>1
<1> QED
  BY <1>8, <1>9

LEMMA StockUnitsUnchanged ==
    ASSUME NEW status, NEW p, UNCHANGED reservation
    PROVE  UnitsIn(status, p)' = UnitsIn(status, p)
BY DEF UnitsIn

-----------------------------------------------------------------------------
(* The reserved counter.                                                   *)

Finite(status) == \A p \in Products : IsFiniteSet(UnitsIn(status, p))

(* The inductive invariant: a cardinality can only be followed through a   *)
(* step while the set it counts is finite.                                 *)
ReservedInv == InventoryTypeOK /\ Finite("ACTIVE") /\ ReservedIsHeld

LEMMA InitUnits ==
    ASSUME InventoryInit, NEW status \in ReservationStatus \ {"NONE"}, NEW p \in Products
    PROVE  UnitsIn(status, p) = {}
BY DEF InventoryInit, UnitsIn, NoItems

LEMMA ReservedInvInit == InventoryInit => ReservedInv
<1> SUFFICES ASSUME InventoryInit PROVE ReservedInv
  OBVIOUS
<1>1. \A p \in Products : UnitsIn("ACTIVE", p) = {}
  BY InitUnits DEF ReservationStatus
<1>2. Finite("ACTIVE") /\ ReservedIsHeld
  BY <1>1, FS_EmptySet DEF Finite, ReservedIsHeld, InventoryInit
<1> QED
  BY <1>2, InitType DEF ReservedInv

LEMMA ReservedInvStep ==
    ASSUME ReservedInv, [InventoryNext]_inventoryVars
    PROVE  ReservedInv'
<1>1. InventoryTypeOK /\ InventoryTypeOK'
  BY StepType DEF ReservedInv
<1> DEFINE Good(p) == /\ IsFiniteSet(UnitsIn("ACTIVE", p))'
                      /\ (inventory[p].reserved = Cardinality(UnitsIn("ACTIVE", p)))'
<1>2. \A p \in Products : /\ IsFiniteSet(UnitsIn("ACTIVE", p))
                          /\ inventory[p].reserved = Cardinality(UnitsIn("ACTIVE", p))
                          /\ Cardinality(UnitsIn("ACTIVE", p)) \in Nat
  BY FS_CardinalityType DEF ReservedInv, Finite, ReservedIsHeld
<1> SUFFICES ASSUME NEW p \in Products PROVE Good(p)
  BY <1>1 DEF ReservedInv, Finite, ReservedIsHeld
<1>3. CASE StockUnchanged
  BY <1>2, <1>3, StockUnitsUnchanged DEF StockUnchanged
<1>4. CASE StockReserved
  <2>1. PICK o \in Orders, items \in ItemLists : ReserveStock(o, items)
    BY <1>4 DEF StockReserved
  <2>2. items[p] \in Nat
    OBVIOUS
  <2>3. inventory'[p].reserved = inventory[p].reserved + items[p]
    BY <1>1, <2>1, <2>2 DEF ReserveStock, Increment, InventoryTypeOK
  <2>4. /\ IsFiniteSet(UnitsIn("ACTIVE", p) \union OrderUnits(o, items[p]))
        /\ Cardinality(UnitsIn("ACTIVE", p) \union OrderUnits(o, items[p]))
              = Cardinality(UnitsIn("ACTIVE", p)) + items[p]
    BY <1>1, <1>2, <2>1, <2>2, ReserveUnits, UnitsAdded
  <2> QED
    BY <1>1, <1>2, <2>1, <2>3, <2>4, ReserveUnits
<1>5. ASSUME NEW o \in Orders, NEW status \in ReservationStatus, status # "ACTIVE",
             Settle(o, status),
             inventory'[p].reserved = inventory[p].reserved - reservation[o].items[p]
      PROVE  Good(p)
  <2>1. /\ reservation[o].items[p] \in Nat
        /\ OrderUnits(o, reservation[o].items[p]) \subseteq UnitsIn("ACTIVE", p)
        /\ UnitsIn("ACTIVE", p)' = UnitsIn("ACTIVE", p) \ OrderUnits(o, reservation[o].items[p])
    BY <1>1, <1>5, SettleUnits
  <2>2. /\ IsFiniteSet(UnitsIn("ACTIVE", p)')
        /\ Cardinality(UnitsIn("ACTIVE", p)')
              = Cardinality(UnitsIn("ACTIVE", p)) - reservation[o].items[p]
    BY <1>2, <2>1, UnitsRemoved
  <2> QED
    BY <1>2, <1>5, <2>2
<1>6. CASE StockCommitted
  <2>1. PICK o \in Orders : CommitReservation(o)
    BY <1>6 DEF StockCommitted
  <2>2. inventory'[p].reserved = inventory[p].reserved - reservation[o].items[p]
    BY <1>1, <2>1 DEF CommitReservation, Increment, InventoryTypeOK
  <2> QED
    BY <1>5, <2>1, <2>2 DEF CommitReservation, ReservationStatus
<1>7. CASE StockGivenBack
  <2>1. PICK o \in Orders, status \in {"RELEASED", "EXPIRED"} : GiveBack(o, status)
    BY <1>7 DEF StockGivenBack
  <2>2. inventory'[p].reserved = inventory[p].reserved - reservation[o].items[p]
    BY <1>1, <2>1 DEF GiveBack, Increment, InventoryTypeOK
  <2> QED
    BY <1>5, <2>1, <2>2 DEF GiveBack, ReservationStatus
<1>8. CASE StockRecounted
  <2>1. inventory'[p].reserved = inventory[p].reserved /\ UNCHANGED reservation
    BY <1>1, <1>8 DEF StockRecounted, UpsertInventory, InventoryTypeOK
  <2> QED
    BY <1>2, <2>1, StockUnitsUnchanged
<1> QED
  BY <1>3, <1>4, <1>6, <1>7, <1>8, StockStep

(* The reserved counter of a product is exactly what its ACTIVE            *)
(* reservations hold: commits, releases, expiry jobs and overlapping       *)
(* sweeps, in any order, never give the same unit back twice and never     *)
(* keep one.                                                               *)
THEOREM ReservedIsExact == InventorySpec => []ReservedIsHeld
<1>1. ReservedInv => ReservedIsHeld
  BY DEF ReservedInv
<1> QED
  BY <1>1, ReservedInvInit, ReservedInvStep, PTL DEF InventorySpec

-----------------------------------------------------------------------------
(* Free units.                                                             *)

(* Only a recount can take units away without a reservation.               *)
LEMMA AvailableStep ==
    ASSUME InventoryTypeOK, [InventoryNext]_inventoryVars, NEW p \in Products
    PROVE  \/ StockRecounted
           \/ Available(p)' >= Available(p)
           \/ Available(p)' >= 0
<1> USE DEF Available, InventoryTypeOK
<1>1. CASE StockUnchanged
  BY <1>1 DEF StockUnchanged
<1>2. CASE StockReserved
  <2>1. PICK o \in Orders, items \in ItemLists : ReserveStock(o, items)
    BY <1>2 DEF StockReserved
  <2>2. items[p] \in Nat
    OBVIOUS
  <2>3. Available(p)' = Available(p) - items[p]
    BY <2>1, <2>2 DEF ReserveStock, Increment
  <2>4. items[p] > 0 => Available(p) >= items[p]
    BY <2>1 DEF ReserveStock
  <2>5. Available(p) \in Int
    OBVIOUS
  <2> HIDE DEF Available
  <2> QED
    BY <2>2, <2>3, <2>4, <2>5
<1>3. CASE StockCommitted
  <2>1. PICK o \in Orders : CommitReservation(o)
    BY <1>3 DEF StockCommitted
  <2>2. reservation[o].items[p] \in Nat
    OBVIOUS
  <2> QED
    BY <2>1, <2>2 DEF CommitReservation, Increment
<1>4. CASE StockGivenBack
  <2>1. PICK o \in Orders, status \in {"RELEASED", "EXPIRED"} : GiveBack(o, status)
    BY <1>4 DEF StockGivenBack
  <2>2. reservation[o].items[p] \in Nat
    OBVIOUS
  <2> QED
    BY <2>1, <2>2 DEF GiveBack, Increment
<1> QED
  BY <1>1, <1>2, <1>3, <1>4, StockStep

(* No order ever takes units that are not there: concurrent checkouts of   *)
(* the last units cannot make the free units of a product negative.  Only  *)
(* an administrator's recount can.                                         *)
THEOREM NoOrderOversells == InventorySpec => OnlyRecountOversells
<1>1. ASSUME InventoryTypeOK, [InventoryNext]_inventoryVars
      PROVE  [\A p \in Products :
                 Available(p) >= 0 /\ Available(p)' < 0
                     => \E onHand \in AdminLevels : UpsertInventory(p, onHand)]_inventoryVars
  <2> SUFFICES ASSUME NEW p \in Products, Available(p) >= 0, Available(p)' < 0
               PROVE  \E onHand \in AdminLevels : UpsertInventory(p, onHand)
    OBVIOUS
  <2>1. Available(p) \in Int /\ Available(p)' \in Int
    BY <1>1, StepType DEF InventoryTypeOK, Available
  <2>2. StockRecounted
    BY <1>1, <2>1, AvailableStep
  <2>3. PICK q \in Products, onHand \in AdminLevels : UpsertInventory(q, onHand)
    BY <2>2 DEF StockRecounted
  <2>4. q = p
    BY <1>1, <2>1, <2>3 DEF UpsertInventory, Available, InventoryTypeOK
  <2> QED
    BY <2>3, <2>4
<1> QED
  BY <1>1, InventoryTypeCorrect, PTL DEF InventorySpec, OnlyRecountOversells

-----------------------------------------------------------------------------
(* A shop whose administrators do not touch onHand while it is open.       *)

BoundInv == ReservedInv /\ \A p \in Products : Available(p) >= 0

(* Without recounts the counters obey 0 <= reserved <= onHand for every    *)
(* product, whatever the orders and the background jobs do.                *)
THEOREM StockBoundHolds ==
    ASSUME AdminLevels = {}
    PROVE  InventorySpec => []StockBound
<1>1. InventoryInit => BoundInv
  BY ReservedInvInit DEF BoundInv, InventoryInit, Available
<1>2. ASSUME BoundInv, [InventoryNext]_inventoryVars
      PROVE  BoundInv'
  <2>1. ReservedInv' /\ InventoryTypeOK /\ InventoryTypeOK'
    BY <1>2, ReservedInvStep DEF BoundInv, ReservedInv
  <2>2. ~StockRecounted
    BY DEF StockRecounted
  <2>3. ASSUME NEW p \in Products
        PROVE  Available(p)' >= 0
    <3>1. Available(p) \in Int /\ Available(p)' \in Int /\ Available(p) >= 0
      BY <1>2, <2>1 DEF InventoryTypeOK, Available, BoundInv
    <3> QED
      BY <1>2, <2>1, <2>2, <3>1, AvailableStep
  <2> QED
    BY <2>1, <2>3 DEF BoundInv
<1>3. BoundInv => StockBound
  <2> SUFFICES ASSUME BoundInv, NEW p \in Products
               PROVE  0 <= inventory[p].reserved /\ inventory[p].reserved <= inventory[p].onHand
    BY DEF StockBound
  <2>1. inventory[p].reserved \in Nat
    BY FS_CardinalityType DEF BoundInv, ReservedInv, Finite, ReservedIsHeld
  <2> QED
    BY <2>1 DEF BoundInv, ReservedInv, InventoryTypeOK, Available
<1> QED
  BY <1>1, <1>2, <1>3, PTL DEF InventorySpec

SoldInv == InventoryTypeOK /\ Finite("COMMITTED") /\ SoldLeftTheShelf

(* Without recounts, the units missing from the shelf are exactly the      *)
(* units of committed reservations: nothing is shipped twice, and nothing  *)
(* disappears.                                                             *)
THEOREM ShelfIsExact ==
    ASSUME AdminLevels = {}
    PROVE  InventorySpec => []SoldLeftTheShelf
<1>1. ASSUME InventoryInit PROVE SoldInv
  <2>1. \A p \in Products : UnitsIn("COMMITTED", p) = {}
    BY <1>1, InitUnits DEF ReservationStatus
  <2>2. \A p \in Products : inventory[p].onHand = InitialStock[p] /\ InitialStock[p] \in Nat
    BY <1>1 DEF InventoryInit
  <2>3. \A p \in Products : /\ IsFiniteSet(UnitsIn("COMMITTED", p))
                            /\ Cardinality(UnitsIn("COMMITTED", p)) = 0
    BY <2>1, FS_EmptySet
  <2>4. Finite("COMMITTED") /\ SoldLeftTheShelf
    BY <2>2, <2>3 DEF Finite, SoldLeftTheShelf
  <2> QED
    BY <1>1, <2>4, InitType DEF SoldInv
<1>2. ASSUME SoldInv, [InventoryNext]_inventoryVars
      PROVE  SoldInv'
  <2>1. InventoryTypeOK /\ InventoryTypeOK'
    BY <1>2, StepType DEF SoldInv
  <2> DEFINE Good(p) == /\ IsFiniteSet(UnitsIn("COMMITTED", p))'
                        /\ (inventory[p].onHand + Cardinality(UnitsIn("COMMITTED", p)))'
                               = InitialStock[p]
  <2>2. \A p \in Products :
           /\ IsFiniteSet(UnitsIn("COMMITTED", p))
           /\ inventory[p].onHand + Cardinality(UnitsIn("COMMITTED", p)) = InitialStock[p]
           /\ Cardinality(UnitsIn("COMMITTED", p)) \in Nat
    BY <1>2, FS_CardinalityType DEF SoldInv, Finite, SoldLeftTheShelf
  <2> SUFFICES ASSUME NEW p \in Products PROVE Good(p)
    BY <2>1 DEF SoldInv, Finite, SoldLeftTheShelf
  <2>3. CASE StockUnchanged
    BY <2>2, <2>3, StockUnitsUnchanged DEF StockUnchanged
  <2>4. CASE StockReserved
    <3>1. PICK o \in Orders, items \in ItemLists : ReserveStock(o, items)
      BY <2>4 DEF StockReserved
    <3>2. inventory'[p].onHand = inventory[p].onHand
      BY <2>1, <3>1 DEF ReserveStock, Increment, InventoryTypeOK
    <3> QED
      BY <2>1, <2>2, <3>1, <3>2, ReserveUnits
  <2>5. CASE StockCommitted
    <3>1. PICK o \in Orders : CommitReservation(o)
      BY <2>5 DEF StockCommitted
    <3> DEFINE n == reservation[o].items[p]
    <3>2. /\ n \in Nat
          /\ UnitsIn("COMMITTED", p) \intersect OrderUnits(o, n) = {}
          /\ UnitsIn("COMMITTED", p)' = UnitsIn("COMMITTED", p) \union OrderUnits(o, n)
      BY <2>1, <3>1, SettleUnits DEF CommitReservation, ReservationStatus
    <3>3. inventory'[p].onHand = inventory[p].onHand - n
      BY <2>1, <3>1 DEF CommitReservation, Increment, InventoryTypeOK
    <3> HIDE DEF n
    <3>4. /\ IsFiniteSet(UnitsIn("COMMITTED", p) \union OrderUnits(o, n))
          /\ Cardinality(UnitsIn("COMMITTED", p) \union OrderUnits(o, n))
                = Cardinality(UnitsIn("COMMITTED", p)) + n
      BY <2>2, <3>2, UnitsAdded
    <3>5. inventory[p].onHand \in Int
      BY <2>1 DEF InventoryTypeOK
    <3>6. /\ IsFiniteSet(UnitsIn("COMMITTED", p))'
          /\ Cardinality(UnitsIn("COMMITTED", p))' = Cardinality(UnitsIn("COMMITTED", p)) + n
      BY <3>2, <3>4
    <3> QED
      BY <2>2, <3>2, <3>3, <3>5, <3>6
  <2>6. CASE StockGivenBack
    <3>1. PICK o \in Orders, status \in {"RELEASED", "EXPIRED"} : GiveBack(o, status)
      BY <2>6 DEF StockGivenBack
    <3>2. UnitsIn("COMMITTED", p)' = UnitsIn("COMMITTED", p)
      BY <2>1, <3>1, SettleUnits DEF GiveBack, ReservationStatus
    <3>3. inventory'[p].onHand = inventory[p].onHand
      BY <2>1, <3>1 DEF GiveBack, Increment, InventoryTypeOK
    <3> QED
      BY <2>2, <3>2, <3>3
  <2>7. ~StockRecounted
    BY DEF StockRecounted
  <2> QED
    BY <1>2, <2>3, <2>4, <2>5, <2>6, <2>7, StockStep
<1>3. SoldInv => SoldLeftTheShelf
  BY DEF SoldInv
<1> QED
  BY <1>1, <1>2, <1>3, PTL DEF InventorySpec

-----------------------------------------------------------------------------
(* The abstract ledger.                                                    *)

Free == [p \in Products |-> Available(p)]
Claims == [o \in Orders |-> [state |-> ClaimOf(reservation[o].status),
                             items |-> reservation[o].items]]

LEMMA LedgerSettle ==
    ASSUME InventoryTypeOK, NEW o \in Orders, NEW status \in ReservationStatus,
           Settle(o, status)
    PROVE  /\ Claims[o].state = "held" /\ Claims[o].items = reservation[o].items
           /\ Claims' = [Claims EXCEPT ![o].state = ClaimOf(status)]
<1>1. /\ reservation[o].status = "ACTIVE"
      /\ reservation'[o].status = status
      /\ reservation'[o].items = reservation[o].items
      /\ \A q \in Orders \ {o} : reservation'[q] = reservation[q]
  BY DEF Settle, InventoryTypeOK
<1>2. ClaimOf("ACTIVE") = "held"
  BY DEF ClaimOf
<1>3. Claims[o] = [state |-> "held", items |-> reservation[o].items]
  BY <1>1, <1>2 DEF Claims
<1>4. Claims'[o] = [state |-> ClaimOf(status), items |-> reservation[o].items]
  BY <1>1 DEF Claims
<1>5. \A q \in Orders \ {o} : Claims'[q] = Claims[q]
  BY <1>1 DEF Claims
<1> QED
  BY <1>3, <1>4, <1>5 DEF Claims

(* Two counters and a status per order implement the ledger of claims:     *)
(* every reservation is taken, as a whole, from units that are free, and   *)
(* is settled exactly once, by a sale or by giving everything back.        *)
THEOREM InventoryImplementsLedger == InventorySpec => ImplementsLedger
<1> USE DEF Ledger!ledgerVars
<1>1. ASSUME InventoryInit PROVE Ledger!LedgerInit
  <2>1. Free = InitialStock
    BY <1>1 DEF InventoryInit, Free, Available
  <2>2. Claims = [o \in Orders |-> [state |-> "none", items |-> [p \in Products |-> 0]]]
    BY <1>1 DEF InventoryInit, Claims, ClaimOf, NoItems
  <2> QED
    BY <2>1, <2>2 DEF Ledger!LedgerInit, Free, Claims
<1>2. ASSUME InventoryTypeOK, [InventoryNext]_inventoryVars
      PROVE  [Ledger!LedgerNext]_(Ledger!ledgerVars)
  <2>1. InventoryTypeOK'
    BY <1>2, StepType
  <2>2. CASE StockUnchanged
    BY <2>2 DEF StockUnchanged, Available
  <2>3. CASE StockReserved
    <3>1. PICK o \in Orders, items \in ItemLists : ReserveStock(o, items)
      BY <2>3 DEF StockReserved
    <3>2. items \in [Products -> 0..MaxQty]
      OBVIOUS
    <3>3. /\ reservation[o].status = "NONE"
          /\ reservation' = [reservation EXCEPT ![o] = [status |-> "ACTIVE", items |-> items]]
      BY <3>1 DEF ReserveStock
    <3>4. Claims[o].state = "none"
      BY <3>3 DEF Claims, ClaimOf
    <3>5. Claims' = [Claims EXCEPT ![o] = [state |-> "held", items |-> items]]
      <4>1. ClaimOf("ACTIVE") = "held"
        BY DEF ClaimOf
      <4> QED
        BY <1>2, <3>3, <4>1 DEF Claims, InventoryTypeOK
    <3>6. Free' = [p \in Products |-> Free[p] - items[p]]
      BY <1>2, <3>1, <3>2 DEF ReserveStock, Increment, Free, Available, InventoryTypeOK
    <3>7. \A p \in Products : items[p] > 0 => items[p] <= Free[p]
      BY <1>2, <3>1, <3>2 DEF ReserveStock, Free, Available, InventoryTypeOK
    <3>8. Ledger!Hold(o, items)
      BY <3>4, <3>5, <3>6, <3>7 DEF Ledger!Hold, Free, Claims
    <3> QED
      BY <3>8 DEF Ledger!LedgerNext
  <2>4. CASE StockCommitted
    <3>1. PICK o \in Orders : CommitReservation(o)
      BY <2>4 DEF StockCommitted
    <3>2. /\ Claims[o].state = "held"
          /\ Claims' = [Claims EXCEPT ![o].state = "sold"]
      BY <1>2, <3>1, LedgerSettle DEF CommitReservation, ClaimOf, ReservationStatus
    <3>3. Free' = Free
      BY <1>2, <3>1 DEF CommitReservation, Increment, Free, Available, InventoryTypeOK
    <3>4. Ledger!Sell(o)
      BY <3>2, <3>3 DEF Ledger!Sell, Free, Claims
    <3> QED
      BY <3>4 DEF Ledger!LedgerNext
  <2>5. CASE StockGivenBack
    <3>1. PICK o \in Orders, status \in {"RELEASED", "EXPIRED"} : GiveBack(o, status)
      BY <2>5 DEF StockGivenBack
    <3>2. /\ Claims[o].state = "held" /\ Claims[o].items = reservation[o].items
          /\ Claims' = [Claims EXCEPT ![o].state = "returned"]
      BY <1>2, <3>1, LedgerSettle DEF GiveBack, ClaimOf, ReservationStatus
    <3>3. Free' = [p \in Products |-> Free[p] + reservation[o].items[p]]
      BY <1>2, <3>1 DEF GiveBack, Increment, Free, Available, InventoryTypeOK
    <3>4. Ledger!Return(o)
      BY <3>2, <3>3 DEF Ledger!Return, Free, Claims
    <3> QED
      BY <3>4 DEF Ledger!LedgerNext
  <2>6. CASE StockRecounted
    <3>1. PICK p \in Products, onHand \in AdminLevels : UpsertInventory(p, onHand)
      BY <2>6 DEF StockRecounted
    <3>2. Free' \in [Products -> Int]
      BY <2>1 DEF Free, Available, InventoryTypeOK
    <3>3. \A q \in Products \ {p} : Free'[q] = Free[q]
      BY <1>2, <3>1 DEF UpsertInventory, Free, Available, InventoryTypeOK
    <3>4. Claims' = Claims
      BY <3>1 DEF UpsertInventory, Claims
    <3>5. Ledger!Recount(p)
      BY <3>2, <3>3, <3>4 DEF Ledger!Recount, Free, Claims
    <3> QED
      BY <3>5 DEF Ledger!LedgerNext
  <2> QED
    BY <1>2, <2>2, <2>3, <2>4, <2>5, <2>6, StockStep
<1> QED
  BY <1>1, <1>2, InventoryTypeCorrect, PTL DEF InventorySpec, ImplementsLedger, Ledger!LedgerSpec

HIDE InventoryAssumption DEF InventoryAssumption

-----------------------------------------------------------------------------
(* Settlement composes the inventory component with everything else.       *)

LEMMA BackgroundInventory == BackgroundNext => InventoryNext
BY DEF InventoryNext

LEMMA MarkPaidInventory ==
    ASSUME NEW o \in Orders, MarkPaid(o), UNCHANGED jobVars
    PROVE  [InventoryNext]_inventoryVars
BY DEF MarkPaid, InventoryNext, inventoryVars, jobVars

LEMMA MarkUnpaidInventory ==
    ASSUME NEW o \in Orders, NEW status, MarkUnpaid(o, status), UNCHANGED jobVars
    PROVE  [InventoryNext]_inventoryVars
BY DEF MarkUnpaid, InventoryNext, inventoryVars, jobVars

(* Orders, payments, webhooks and the outbox change the stock only by the  *)
(* operations of the inventory component, so every theorem about that      *)
(* component holds of the whole.                                           *)
THEOREM SettlementImplementsInventory == SettlementSpec => ImplementsInventory
<1>1. SettlementInit => InventoryInit
  BY DEF SettlementInit
<1>2. ASSUME [SettlementNext]_settlementVars
      PROVE  [InventoryNext]_inventoryVars
  <2>1. ASSUME NEW o \in Orders, CustomerNext(o)
        PROVE  [InventoryNext]_inventoryVars
    <3>1. ASSUME NEW items \in ItemLists, PlaceOrder(o, items)
          PROVE  [InventoryNext]_inventoryVars
      BY <3>1 DEF PlaceOrder, InventoryNext
    <3>2. ASSUME CancelOrder(o) \/ MarkOrderPaid(o) \/ MarkOrderPaymentFailed(o) \/ ExpireOrder(o)
          PROVE  [InventoryNext]_inventoryVars
      BY <3>2 DEF CancelOrder, MarkOrderPaid, MarkOrderPaymentFailed, ExpireOrder, Transition
    <3>3. ASSUME FinishRelease(o) \/ FinishCommit(o) \/ VerifyApply(o)
          PROVE  [InventoryNext]_inventoryVars
      BY <3>3 DEF FinishRelease, FinishCommit, VerifyApply, InventoryNext
    <3>4. ASSUME SecondStepLost(o) \/ VerifyRead(o) \/ VerifyAsk(o) \/ VerifyLost(o)
          PROVE  [InventoryNext]_inventoryVars
      BY <3>4 DEF SecondStepLost, VerifyRead, VerifyAsk, VerifyLost
    <3> QED
      BY <2>1, <3>1, <3>2, <3>3, <3>4 DEF CustomerNext
  <2>2. ASSUME NEW o \in Orders, GatewayNext(o)
        PROVE  [InventoryNext]_inventoryVars
    BY <2>2 DEF GatewayNext, CustomerPays, ChargeDeclined, GatewayNotifies
  <2>3. ASSUME NEW o \in Orders, JobsNext(o)
        PROVE  [InventoryNext]_inventoryVars
    <3>1. ASSUME ReconcileApply(o) \/ CompensateInitiatePayment(o)
          PROVE  [InventoryNext]_inventoryVars
      BY <3>1, MarkPaidInventory, MarkUnpaidInventory DEF ReconcileApply, CompensateInitiatePayment
    <3>2. ASSUME \/ ReconcilePick(o) \/ ReconcileAsk(o) \/ ReconcileLost(o)
                 \/ InitiatePaymentDone(o)
          PROVE  [InventoryNext]_inventoryVars
      BY <3>2 DEF ReconcilePick, ReconcileAsk, ReconcileLost, InitiatePaymentDone
    <3> QED
      BY <2>3, <3>1, <3>2 DEF JobsNext
  <2>4. ASSUME NEW e \in Orders \X EventKinds, WebhookNext(e)
        PROVE  [InventoryNext]_inventoryVars
    <3>1. e[1] \in Orders
      OBVIOUS
    <3>2. ASSUME WebhookSuccess(e) \/ WebhookFailed(e)
          PROVE  [InventoryNext]_inventoryVars
      BY <3>1, <3>2, MarkPaidInventory, MarkUnpaidInventory
         DEF WebhookSuccess, WebhookFailed, WebhookEnds
    <3>3. ASSUME \/ WebhookReceive(e) \/ WebhookIgnored(e)
                 \/ WebhookSuspiciousAmount(e) \/ WebhookLost(e)
          PROVE  [InventoryNext]_inventoryVars
      BY <3>3 DEF WebhookReceive, WebhookIgnored, WebhookSuspiciousAmount, WebhookLost,
                  WebhookEnds, inventoryVars, jobVars
    <3> QED
      BY <2>4, <3>2, <3>3 DEF WebhookNext
  <2>5. ASSUME StockNext
        PROVE  [InventoryNext]_inventoryVars
    BY <2>5, BackgroundInventory DEF StockNext, InventoryNext
  <2>6. ASSUME UNCHANGED settlementVars
        PROVE  [InventoryNext]_inventoryVars
    BY <2>6 DEF settlementVars
  <2> QED
    BY <1>2, <2>1, <2>2, <2>3, <2>4, <2>5, <2>6 DEF SettlementNext
<1> QED
  BY <1>1, <1>2, PTL DEF SettlementSpec, ImplementsInventory, InventorySpec

-----------------------------------------------------------------------------
(* Types.                                                                  *)

USE SettlementAssumption DEF SettlementAssumption

OwnTypeOK ==
    /\ order \in [Orders -> OrderStatus]
    /\ payment \in [Orders -> PaymentStatus]
    /\ event \in [Orders \X EventKinds -> EventStatus]
    /\ handling \subseteq Orders \X EventKinds
    /\ verifying \in [Orders -> {"idle", "asking", "confirmed"}]
    /\ reconciling \in [Orders -> {"idle", "picked", "late", "SUCCESS", "FAILED", "ABANDONED"}]
    /\ unfinished \in [Orders -> {"none", "release", "commit"}]
    /\ initiating \subseteq Orders
    /\ charge \in [Orders -> ChargeStatus]

LEMMA SendType ==
    ASSUME OwnTypeOK, NEW e, Send(e)
    PROVE  event' \in [Orders \X EventKinds -> EventStatus]
BY DEF Send, OwnTypeOK, EventStatus

LEMMA OwnTypeInit == SettlementInit => OwnTypeOK
BY DEF SettlementInit, OwnTypeOK, OrderStatus, PaymentStatus, EventStatus, ChargeStatus

LEMMA OwnTypeStep ==
    ASSUME OwnTypeOK, [SettlementNext]_settlementVars
    PROVE  OwnTypeOK'
<1> USE DEF OwnTypeOK, orderVars, webhookVars, pollVars, restVars,
            OrderStatus, PaymentStatus, EventStatus, ChargeStatus
<1>1. ASSUME NEW o \in Orders, CustomerNext(o)
      PROVE  OwnTypeOK'
  <2>1. ASSUME NEW items \in ItemLists, PlaceOrder(o, items)
        PROVE  OwnTypeOK'
    BY <2>1 DEF PlaceOrder, SetPayment
  <2>2. ASSUME CancelOrder(o) \/ MarkOrderPaid(o) \/ MarkOrderPaymentFailed(o) \/ ExpireOrder(o)
        PROVE  OwnTypeOK'
    BY <2>2 DEF CancelOrder, MarkOrderPaid, MarkOrderPaymentFailed, ExpireOrder, Transition
  <2>3. ASSUME FinishRelease(o) \/ FinishCommit(o) \/ SecondStepLost(o)
        PROVE  OwnTypeOK'
    BY <2>3 DEF FinishRelease, FinishCommit, SecondStepLost
  <2>4. ASSUME VerifyRead(o) \/ VerifyAsk(o) \/ VerifyLost(o)
        PROVE  OwnTypeOK'
    BY <2>4 DEF VerifyRead, VerifyAsk, VerifyLost
  <2>5. ASSUME VerifyApply(o)
        PROVE  OwnTypeOK'
    BY <2>5 DEF VerifyApply, SetPayment
  <2> QED
    BY <1>1, <2>1, <2>2, <2>3, <2>4, <2>5 DEF CustomerNext
<1>2. ASSUME NEW o \in Orders, GatewayNext(o)
      PROVE  OwnTypeOK'
  <2>1. ASSUME NEW result \in ChargeResults, CustomerPays(o, result)
        PROVE  OwnTypeOK'
    BY <2>1, SendType DEF CustomerPays
  <2>2. ASSUME ChargeDeclined(o)
        PROVE  OwnTypeOK'
    BY <2>2, SendType DEF ChargeDeclined
  <2>3. ASSUME NEW kind \in EventKinds, GatewayNotifies(o, kind)
        PROVE  OwnTypeOK'
    BY <2>3, SendType DEF GatewayNotifies
  <2> QED
    BY <1>2, <2>1, <2>2, <2>3 DEF GatewayNext
<1>3. ASSUME NEW o \in Orders, JobsNext(o)
      PROVE  OwnTypeOK'
  <2>1. Verdict(o) \in {"idle", "SUCCESS", "FAILED", "ABANDONED"}
    BY DEF Verdict, Answer
  <2>2. ASSUME ReconcilePick(o) \/ ReconcileAsk(o) \/ ReconcileLost(o)
        PROVE  OwnTypeOK'
    BY <2>1, <2>2 DEF ReconcilePick, ReconcileAsk, ReconcileLost
  <2>3. ASSUME ReconcileApply(o)
        PROVE  OwnTypeOK'
    <3>1. order' \in [Orders -> OrderStatus]
      BY <2>3 DEF ReconcileApply, MarkPaid, MarkUnpaid
    <3>2. payment' \in [Orders -> PaymentStatus]
      BY <2>3 DEF ReconcileApply, SetPayment
    <3> QED
      BY <2>3, <3>1, <3>2 DEF ReconcileApply
  <2>4. ASSUME InitiatePaymentDone(o)
        PROVE  OwnTypeOK'
    BY <2>4 DEF InitiatePaymentDone
  <2>5. ASSUME CompensateInitiatePayment(o)
        PROVE  OwnTypeOK'
    BY <2>5 DEF CompensateInitiatePayment, MarkUnpaid, SetPayment
  <2> QED
    BY <1>3, <2>2, <2>3, <2>4, <2>5 DEF JobsNext
<1>4. ASSUME NEW e \in Orders \X EventKinds, WebhookNext(e)
      PROVE  OwnTypeOK'
  <2>1. e[1] \in Orders
    OBVIOUS
  <2>2. ASSUME WebhookReceive(e) \/ WebhookLost(e)
        PROVE  OwnTypeOK'
    BY <2>2 DEF WebhookReceive, WebhookLost
  <2>3. ASSUME WebhookIgnored(e) \/ WebhookSuspiciousAmount(e)
        PROVE  OwnTypeOK'
    BY <2>3 DEF WebhookIgnored, WebhookSuspiciousAmount, WebhookEnds
  <2>4. ASSUME WebhookSuccess(e)
        PROVE  OwnTypeOK'
    BY <2>1, <2>4 DEF WebhookSuccess, WebhookEnds, MarkPaid, SetPayment
  <2>5. ASSUME WebhookFailed(e)
        PROVE  OwnTypeOK'
    BY <2>1, <2>5 DEF WebhookFailed, WebhookEnds, MarkUnpaid, SetPayment
  <2> QED
    BY <1>4, <2>2, <2>3, <2>4, <2>5 DEF WebhookNext
<1>5. ASSUME StockNext \/ UNCHANGED settlementVars
      PROVE  OwnTypeOK'
  BY <1>5 DEF StockNext, settlementVars
<1> QED
  BY <1>1, <1>2, <1>3, <1>4, <1>5 DEF SettlementNext

LEMMA OwnTypeCorrect == SettlementSpec => []OwnTypeOK
BY OwnTypeInit, OwnTypeStep, PTL DEF SettlementSpec

(* Every document keeps to its schema's enums in every behaviour.          *)
THEOREM SettlementTypeCorrect == SettlementSpec => []SettlementTypeOK
<1>1. SettlementSpec => []InventoryTypeOK
  BY SettlementImplementsInventory, InventoryTypeCorrect DEF ImplementsInventory
<1>2. InventoryTypeOK /\ OwnTypeOK => SettlementTypeOK
  BY DEF SettlementTypeOK, OwnTypeOK
<1> QED
  BY <1>1, <1>2, OwnTypeCorrect, PTL

(* The inventory's theorems hold of the composition.                       *)
THEOREM SettlementReservedIsExact == SettlementSpec => []ReservedIsHeld
BY SettlementImplementsInventory, ReservedIsExact DEF ImplementsInventory

(* The promise of the stock, across both refinements: whatever webhooks,   *)
(* verification, reconciliation, the outbox and the sweeper do, and in     *)
(* whichever order, a unit is claimed from free stock and settled once.    *)
THEOREM SettlementImplementsLedger == SettlementSpec => ImplementsLedger
BY SettlementImplementsInventory, InventoryImplementsLedger DEF ImplementsInventory

(* No order, payment or job sells what is not there (inventory.repository  *)
(* .ts:36 is the one write that can).                                      *)
THEOREM SettlementOversellsNothing == SettlementSpec => OnlyRecountOversells
BY SettlementImplementsInventory, NoOrderOversells DEF ImplementsInventory

(* Where nobody recounts, no deployment oversells, and the shelf lacks     *)
(* what was sold.                                                          *)
THEOREM SettlementKeepsStock ==
    ASSUME AdminLevels = {}
    PROVE  SettlementSpec => [](StockBound /\ SoldLeftTheShelf)
<1>1. SettlementSpec => []StockBound /\ []SoldLeftTheShelf
  BY SettlementImplementsInventory, StockBoundHolds, ShelfIsExact DEF ImplementsInventory
<1> QED  BY <1>1, PTL

-----------------------------------------------------------------------------
(* Every step, seen from one order's status and its reservation.           *)

Unpaid == {"PAYMENT_FAILED", "CANCELLED", "EXPIRED"}

OrderUnchanged == UNCHANGED <<order, reservation>>
OrderPlaced == \E o \in Orders, items \in ItemLists :
                  /\ order[o] = "NONE" /\ order' = [order EXCEPT ![o] = "PENDING_PAYMENT"]
                  /\ ReserveStock(o, items)
OrderPaid == \E o \in Orders : /\ Pending(o) /\ order' = [order EXCEPT ![o] = "PAID"]
                              /\ CommitReservation(o)
OrderUnpaid == \E o \in Orders, status \in Unpaid :
                  /\ Pending(o) /\ order' = [order EXCEPT ![o] = status]
                  /\ ReleaseReservation(o) \/ UNCHANGED reservation
ReservationReturned == \E o \in Orders, status \in {"RELEASED", "EXPIRED"} :
                          /\ Settle(o, status) /\ UNCHANGED order
                          /\ \/ status = "RELEASED" /\ unfinished[o] = "release"
                             \/ status = "EXPIRED" /\ o \in due
CommitOwed == \E o \in Orders : FinishCommit(o)
PaidFirst == \E o \in Orders : MarkOrderPaid(o)
VerifiedLate == \E o \in Orders : VerifyApply(o) /\ ~Pending(o)

LEMMA OrderStep ==
    ASSUME [SettlementNext]_settlementVars
    PROVE  \/ OrderUnchanged \/ OrderPlaced \/ OrderPaid \/ OrderUnpaid
           \/ ReservationReturned \/ CommitOwed \/ PaidFirst \/ VerifiedLate
<1> USE DEF OrderUnchanged, OrderPlaced, OrderPaid, OrderUnpaid, ReservationReturned,
            CommitOwed, PaidFirst, VerifiedLate, Unpaid, inventoryVars, orderVars
<1> DEFINE Goal == \/ OrderUnchanged \/ OrderPlaced \/ OrderPaid \/ OrderUnpaid
                   \/ ReservationReturned \/ CommitOwed \/ PaidFirst \/ VerifiedLate
<1>1. ASSUME NEW o \in Orders, MarkPaid(o) PROVE OrderPaid \/ OrderUnchanged
  BY <1>1 DEF MarkPaid
<1>2. ASSUME NEW o \in Orders, NEW status \in Unpaid, MarkUnpaid(o, status)
      PROVE  OrderUnpaid \/ OrderUnchanged
  BY <1>2 DEF MarkUnpaid
<1>3. ASSUME NEW o \in Orders, ReleaseReservation(o), unfinished[o] = "release", UNCHANGED order
      PROVE  ReservationReturned \/ OrderUnchanged
  BY <1>3 DEF ReleaseReservation, GiveBack
<1>4. ASSUME NEW o \in Orders, ExpireReservation(o), UNCHANGED order
      PROVE  ReservationReturned \/ OrderUnchanged
  BY <1>4 DEF ExpireReservation, GiveBack
<1>5. ASSUME NEW o \in Orders, CustomerNext(o) PROVE Goal
  <2>1. ASSUME NEW items \in ItemLists, PlaceOrder(o, items) PROVE Goal
    BY <2>1 DEF PlaceOrder
  <2>2. ASSUME CancelOrder(o) \/ MarkOrderPaymentFailed(o) \/ ExpireOrder(o) PROVE Goal
    BY <2>2 DEF CancelOrder, MarkOrderPaymentFailed, ExpireOrder, Transition
  <2>3. ASSUME FinishRelease(o) PROVE Goal
    BY <1>3, <2>3 DEF FinishRelease
  <2>4. ASSUME SecondStepLost(o) \/ VerifyRead(o) \/ VerifyAsk(o) \/ VerifyLost(o) PROVE Goal
    BY <2>4 DEF SecondStepLost, VerifyRead, VerifyAsk, VerifyLost
  <2>5. ASSUME VerifyApply(o) PROVE Goal
    BY <2>5 DEF VerifyApply
  <2> QED
    BY <1>5, <2>1, <2>2, <2>3, <2>4, <2>5 DEF CustomerNext
<1>6. ASSUME NEW o \in Orders, GatewayNext(o) PROVE Goal
  BY <1>6 DEF GatewayNext, CustomerPays, ChargeDeclined, GatewayNotifies
<1>7. ASSUME NEW o \in Orders, JobsNext(o) PROVE Goal
  <2>1. ASSUME ReconcileApply(o) \/ CompensateInitiatePayment(o) PROVE Goal
    BY <1>1, <1>2, <2>1 DEF ReconcileApply, CompensateInitiatePayment
  <2>2. ASSUME \/ ReconcilePick(o) \/ ReconcileAsk(o) \/ ReconcileLost(o)
               \/ InitiatePaymentDone(o)
        PROVE  Goal
    BY <2>2 DEF ReconcilePick, ReconcileAsk, ReconcileLost, InitiatePaymentDone
  <2> QED
    BY <1>7, <2>1, <2>2 DEF JobsNext
<1>8. ASSUME NEW e \in Orders \X EventKinds, WebhookNext(e) PROVE Goal
  <2>1. e[1] \in Orders
    OBVIOUS
  <2>2. ASSUME WebhookSuccess(e) \/ WebhookFailed(e) PROVE Goal
    BY <1>1, <1>2, <2>1, <2>2 DEF WebhookSuccess, WebhookFailed
  <2>3. ASSUME \/ WebhookReceive(e) \/ WebhookIgnored(e)
               \/ WebhookSuspiciousAmount(e) \/ WebhookLost(e)
        PROVE  Goal
    BY <2>3 DEF WebhookReceive, WebhookIgnored, WebhookSuspiciousAmount, WebhookLost
  <2> QED
    BY <1>8, <2>2, <2>3 DEF WebhookNext
<1>9. ASSUME StockNext PROVE Goal
  BY <1>4, <1>9 DEF StockNext, BackgroundNext, TtlElapses, ExpireSingleReservation, ExpiryJobLost,
                    SweepStart, SweepOne, SweepFails, UpsertInventory, ScheduleReservationExpiry
<1>10. ASSUME UNCHANGED settlementVars PROVE Goal
  BY <1>10 DEF settlementVars
<1> QED
  BY <1>5, <1>6, <1>7, <1>8, <1>9, <1>10 DEF SettlementNext

(* A reservation keeps its status when another one is settled.             *)
LEMMA OthersKept ==
    ASSUME InventoryTypeOK, NEW o \in Orders, NEW status \in ReservationStatus, Settle(o, status)
    PROVE  /\ reservation[o].status = "ACTIVE" /\ reservation'[o].status = status
           /\ \A q \in Orders \ {o} : reservation'[q] = reservation[q]
BY DEF Settle, InventoryTypeOK

-----------------------------------------------------------------------------
(* The status of an order.                                                 *)

LEMMA SettledStep ==
    ASSUME OwnTypeOK, [SettlementNext]_settlementVars, NEW o \in Orders,
           order[o] \notin {"NONE", "PENDING_PAYMENT"}
    PROVE  order'[o] = order[o]
BY OrderStep
   DEF OwnTypeOK, OrderUnchanged, OrderPlaced, OrderPaid, OrderUnpaid, ReservationReturned,
       CommitOwed, FinishCommit, PaidFirst, MarkOrderPaid, Transition, VerifiedLate,
       VerifyApply, Pending, orderVars

(* PENDING_PAYMENT is left once, for one status, for good: a PAID order is *)
(* never cancelled, failed, expired or reopened, by any handler or job, in *)
(* any interleaving.                                                       *)
THEOREM OrdersSettleForGood == SettlementSpec => SettledForGood
<1>1. ASSUME OwnTypeOK, [SettlementNext]_settlementVars
      PROVE  [\A o \in Orders :
                 order[o] \notin {"NONE", "PENDING_PAYMENT"} => order'[o] = order[o]]_settlementVars
  BY <1>1, SettledStep
<1> QED
  BY <1>1, OwnTypeCorrect, PTL DEF SettlementSpec, SettledForGood

(* A PAID order's stock is committed in every state: no sweeper, expiry    *)
(* job, cancellation, late or duplicate webhook can take it away, and no   *)
(* order becomes PAID when its reservation is gone.  markOrderPaid, which  *)
(* nothing calls, writes the two in separate transactions and is excluded. *)
THEOREM PaidOrdersAreCommitted ==
    ASSUME "markOrderPaid" \notin EntryPoints
    PROVE  SettlementSpec => []PaidIsCommitted
<1>1. SettlementInit => PaidIsCommitted
  BY DEF SettlementInit, PaidIsCommitted
<1>2. ASSUME PaidIsCommitted, InventoryTypeOK, OwnTypeOK, [SettlementNext]_settlementVars
      PROVE  PaidIsCommitted'
  <2> SUFFICES ASSUME NEW q \in Orders, order'[q] = "PAID"
               PROVE  reservation'[q].status = "COMMITTED"
    BY DEF PaidIsCommitted
  <2>1. order[q] = "PAID" => reservation[q].status = "COMMITTED"
    BY <1>2 DEF PaidIsCommitted
  <2>2. CASE OrderUnchanged
    BY <2>1, <2>2 DEF OrderUnchanged
  <2>3. CASE OrderPlaced
    <3>1. PICK o \in Orders, items \in ItemLists :
             /\ order[o] = "NONE" /\ order' = [order EXCEPT ![o] = "PENDING_PAYMENT"]
             /\ ReserveStock(o, items)
      BY <2>3 DEF OrderPlaced
    <3>2. q # o /\ order[q] = "PAID"
      BY <1>2, <3>1 DEF OwnTypeOK
    <3> QED
      BY <1>2, <2>1, <3>1, <3>2 DEF ReserveStock, InventoryTypeOK
  <2>4. CASE OrderPaid
    <3>1. PICK o \in Orders : /\ Pending(o) /\ order' = [order EXCEPT ![o] = "PAID"]
                             /\ CommitReservation(o)
      BY <2>4 DEF OrderPaid
    <3>2. q = o \/ order[q] = "PAID"
      BY <1>2, <3>1 DEF OwnTypeOK
    <3> QED
      BY <1>2, <2>1, <3>1, <3>2, OthersKept DEF CommitReservation, ReservationStatus
  <2>5. CASE OrderUnpaid
    <3>1. PICK o \in Orders, status \in Unpaid :
             /\ Pending(o) /\ order' = [order EXCEPT ![o] = status]
             /\ ReleaseReservation(o) \/ UNCHANGED reservation
      BY <2>5 DEF OrderUnpaid
    <3>2. q # o /\ order[q] = "PAID"
      BY <1>2, <3>1 DEF OwnTypeOK, Unpaid
    <3> QED
      BY <1>2, <2>1, <3>1, <3>2, OthersKept DEF ReleaseReservation, GiveBack, ReservationStatus
  <2>6. CASE ReservationReturned
    <3>1. PICK o \in Orders, status \in {"RELEASED", "EXPIRED"} :
             Settle(o, status) /\ UNCHANGED order
      BY <2>6 DEF ReservationReturned
    <3> QED
      BY <1>2, <2>1, <3>1, OthersKept DEF ReservationStatus
  <2>7. CASE CommitOwed \/ VerifiedLate
    <3>1. PICK o \in Orders : CommitReservation(o) /\ UNCHANGED order
      BY <2>7 DEF CommitOwed, VerifiedLate, FinishCommit, VerifyApply, orderVars
    <3> QED
      BY <1>2, <2>1, <3>1, OthersKept DEF CommitReservation, ReservationStatus
  <2>8. ~PaidFirst
    BY DEF PaidFirst, MarkOrderPaid, Transition
  <2> QED
    BY <1>2, <2>2, <2>3, <2>4, <2>5, <2>6, <2>7, <2>8, OrderStep
<1>3. SettlementSpec => []InventoryTypeOK
  BY SettlementImplementsInventory, InventoryTypeCorrect DEF ImplementsInventory
<1> QED
  BY <1>1, <1>2, <1>3, OwnTypeCorrect, PTL DEF SettlementSpec

-----------------------------------------------------------------------------
(* Money.                                                                  *)

(* Whoever is about to mark an order PAID knows of a charge that went      *)
(* through, and a charge that went through stays.                          *)
ChargeKnown ==
    /\ "markOrderPaid" \notin EntryPoints =>
          \A o \in Orders : order[o] = "PAID" => charge[o] = "SUCCESS"
    /\ \A o \in Orders : verifying[o] = "confirmed" => charge[o] = "SUCCESS"
    /\ \A o \in Orders : reconciling[o] = "SUCCESS" => charge[o] = "SUCCESS"
    /\ \A e \in Orders \X EventKinds :
          /\ e \in handling => event[e] # "NONE"
          /\ e[2] = "charge.success" /\ event[e] # "NONE" => charge[e[1]] \in {"SUCCESS", "MISMATCH"}

LEMMA ChargeKnownStep ==
    ASSUME OwnTypeOK, ChargeKnown, [SettlementNext]_settlementVars
    PROVE  ChargeKnown'
<1> USE DEF ChargeKnown, orderVars, webhookVars, pollVars, restVars
<1>1. ASSUME NEW o \in Orders, CustomerNext(o) PROVE ChargeKnown'
  <2>1. ASSUME NEW items \in ItemLists, PlaceOrder(o, items) PROVE ChargeKnown'
    BY <2>1 DEF PlaceOrder, OwnTypeOK
  <2>2. ASSUME CancelOrder(o) \/ MarkOrderPaymentFailed(o) \/ ExpireOrder(o) PROVE ChargeKnown'
    BY <2>2 DEF CancelOrder, MarkOrderPaymentFailed, ExpireOrder, Transition, OwnTypeOK
  <2>3. ASSUME MarkOrderPaid(o) PROVE ChargeKnown'
    BY <2>3 DEF MarkOrderPaid, Transition, OwnTypeOK
  <2>4. ASSUME FinishRelease(o) \/ FinishCommit(o) \/ SecondStepLost(o) PROVE ChargeKnown'
    BY <2>4 DEF FinishRelease, FinishCommit, SecondStepLost
  <2>5. ASSUME VerifyRead(o) \/ VerifyAsk(o) \/ VerifyLost(o) PROVE ChargeKnown'
    BY <2>5 DEF VerifyRead, VerifyAsk, VerifyLost, Answer, OwnTypeOK
  <2>6. ASSUME VerifyApply(o) PROVE ChargeKnown'
    BY <2>6 DEF VerifyApply, OwnTypeOK
  <2> QED
    BY <1>1, <2>1, <2>2, <2>3, <2>4, <2>5, <2>6 DEF CustomerNext
<1>2. ASSUME NEW o \in Orders, GatewayNext(o) PROVE ChargeKnown'
  <2>1. ASSUME NEW result \in ChargeResults, CustomerPays(o, result) PROVE ChargeKnown'
    <3>1. charge[o] \in {"PENDING", "FAILED"} /\ charge' = [charge EXCEPT ![o] = result]
      BY <2>1 DEF CustomerPays
    <3>2. \A e \in Orders \X EventKinds :
             event'[e] # event[e] => e = <<o, "charge.success">> /\ charge'[o] = result
      BY <2>1, <3>1 DEF CustomerPays, Send, OwnTypeOK
    <3>3. \A e \in Orders \X EventKinds : event[e] # "NONE" => event'[e] # "NONE"
      BY <2>1 DEF CustomerPays, Send, OwnTypeOK
    <3> QED
      BY <2>1, <3>1, <3>2, <3>3 DEF CustomerPays, OwnTypeOK
  <2>2. ASSUME ChargeDeclined(o) PROVE ChargeKnown'
    <3>1. \A e \in Orders \X EventKinds :
             /\ event'[e] # event[e] => e[2] # "charge.success"
             /\ event[e] # "NONE" => event'[e] # "NONE"
      BY <2>2 DEF ChargeDeclined, Send, OwnTypeOK
    <3> QED
      BY <2>2, <3>1 DEF ChargeDeclined, OwnTypeOK
  <2>3. ASSUME NEW kind \in EventKinds, GatewayNotifies(o, kind) PROVE ChargeKnown'
    <3>1. \A e \in Orders \X EventKinds :
             /\ event'[e] # event[e] => e[2] # "charge.success"
             /\ event[e] # "NONE" => event'[e] # "NONE"
      BY <2>3 DEF GatewayNotifies, Send, OwnTypeOK
    <3> QED
      BY <2>3, <3>1 DEF GatewayNotifies, OwnTypeOK
  <2> QED
    BY <1>2, <2>1, <2>2, <2>3 DEF GatewayNext
<1>3. ASSUME NEW o \in Orders, JobsNext(o) PROVE ChargeKnown'
  <2>1. ASSUME ReconcilePick(o) \/ ReconcileLost(o) PROVE ChargeKnown'
    BY <2>1 DEF ReconcilePick, ReconcileLost, OwnTypeOK
  <2>2. ASSUME ReconcileAsk(o) PROVE ChargeKnown'
    <3>1. Verdict(o) = "SUCCESS" => charge[o] = "SUCCESS"
      BY DEF Verdict, Answer
    <3> QED
      BY <2>2, <3>1 DEF ReconcileAsk, OwnTypeOK
  <2>3. ASSUME ReconcileApply(o) PROVE ChargeKnown'
    <3>1. order'[o] = "PAID" => reconciling[o] = "SUCCESS" \/ order[o] = "PAID"
      BY <2>3 DEF ReconcileApply, MarkPaid, MarkUnpaid, OwnTypeOK
    <3>2. \A q \in Orders \ {o} : order'[q] = order[q]
      BY <2>3 DEF ReconcileApply, MarkPaid, MarkUnpaid, OwnTypeOK
    <3> QED
      BY <2>3, <3>1, <3>2 DEF ReconcileApply, OwnTypeOK
  <2>4. ASSUME InitiatePaymentDone(o) PROVE ChargeKnown'
    BY <2>4 DEF InitiatePaymentDone
  <2>5. ASSUME CompensateInitiatePayment(o) PROVE ChargeKnown'
    BY <2>5 DEF CompensateInitiatePayment, MarkUnpaid, OwnTypeOK
  <2> QED
    BY <1>3, <2>1, <2>2, <2>3, <2>4, <2>5 DEF JobsNext
<1>4. ASSUME NEW e \in Orders \X EventKinds, WebhookNext(e) PROVE ChargeKnown'
  <2>1. e[1] \in Orders
    OBVIOUS
  <2>2. ASSUME WebhookReceive(e) PROVE ChargeKnown'
    BY <2>2 DEF WebhookReceive, OwnTypeOK
  <2>3. ASSUME WebhookLost(e) PROVE ChargeKnown'
    BY <2>3 DEF WebhookLost, OwnTypeOK
  <2>4. ASSUME WebhookIgnored(e) \/ WebhookSuspiciousAmount(e) PROVE ChargeKnown'
    BY <2>4 DEF WebhookIgnored, WebhookSuspiciousAmount, WebhookEnds, OwnTypeOK
  <2>5. ASSUME WebhookSuccess(e) PROVE ChargeKnown'
    <3>1. charge[e[1]] = "SUCCESS"
      BY <2>5 DEF WebhookSuccess, WebhookEnds
    <3>2. \A q \in Orders : order'[q] = order[q] \/ q = e[1]
      BY <2>1, <2>5 DEF WebhookSuccess, MarkPaid, OwnTypeOK
    <3> QED
      BY <2>1, <2>5, <3>1, <3>2 DEF WebhookSuccess, WebhookEnds, OwnTypeOK
  <2>6. ASSUME WebhookFailed(e) PROVE ChargeKnown'
    <3>1. \A q \in Orders : order'[q] = order[q] \/ order'[q] = "PAYMENT_FAILED"
      BY <2>1, <2>6 DEF WebhookFailed, MarkUnpaid, OwnTypeOK
    <3> QED
      BY <2>1, <2>6, <3>1 DEF WebhookFailed, WebhookEnds, OwnTypeOK
  <2> QED
    BY <1>4, <2>2, <2>3, <2>4, <2>5, <2>6 DEF WebhookNext
<1>5. ASSUME StockNext \/ UNCHANGED settlementVars PROVE ChargeKnown'
  BY <1>5 DEF StockNext, settlementVars
<1> QED
  BY <1>1, <1>2, <1>3, <1>4, <1>5 DEF SettlementNext

(* No order is PAID unless the gateway captured the right amount, although *)
(* every handler acts on an answer or an event that is older than its      *)
(* transaction.                                                            *)
THEOREM PaidOrdersWereCharged ==
    ASSUME "markOrderPaid" \notin EntryPoints
    PROVE  SettlementSpec => []PaidWasCharged
<1>1. SettlementInit => ChargeKnown
  BY DEF SettlementInit, ChargeKnown
<1>2. ChargeKnown => PaidWasCharged
  BY DEF ChargeKnown, PaidWasCharged
<1> QED
  BY <1>1, <1>2, ChargeKnownStep, OwnTypeCorrect, PTL DEF SettlementSpec

(* Without verifyOrderPayment nobody commits the stock of an order it did  *)
(* not see PENDING_PAYMENT in the same transaction.                        *)
SoldIsPaidInv ==
    /\ SoldIsPaid
    /\ \A o \in Orders : unfinished[o] = "commit" => order[o] = "PAID"
    /\ \A o \in Orders : verifying[o] = "idle"

LEMMA CommitOwedStep ==
    ASSUME OwnTypeOK, [SettlementNext]_settlementVars, NEW o \in Orders
    PROVE  /\ unfinished'[o] = "commit" =>
                 unfinished[o] = "commit" \/ (order'[o] = "PAID" /\ "markOrderPaid" \in EntryPoints)
           /\ "verify" \notin EntryPoints /\ verifying[o] = "idle" => verifying'[o] = "idle"
<1> USE DEF OwnTypeOK, pollVars, restVars
<1> DEFINE Goal ==
       /\ unfinished'[o] = "commit" =>
             unfinished[o] = "commit" \/ (order'[o] = "PAID" /\ "markOrderPaid" \in EntryPoints)
       /\ "verify" \notin EntryPoints /\ verifying[o] = "idle" => verifying'[o] = "idle"
<1>1. ASSUME NEW q \in Orders, CustomerNext(q) PROVE Goal
  <2>1. ASSUME CancelOrder(q) \/ MarkOrderPaid(q) \/ MarkOrderPaymentFailed(q) \/ ExpireOrder(q)
        PROVE  Goal
    BY <2>1 DEF CancelOrder, MarkOrderPaid, MarkOrderPaymentFailed, ExpireOrder, Transition
  <2> QED
    BY <1>1, <2>1 DEF CustomerNext, PlaceOrder, FinishRelease, FinishCommit, SecondStepLost,
                      VerifyRead, VerifyAsk, VerifyApply, VerifyLost
<1>2. ASSUME NEW q \in Orders, GatewayNext(q) \/ JobsNext(q)
      PROVE  unfinished' = unfinished /\ verifying' = verifying
  BY <1>2 DEF GatewayNext, CustomerPays, ChargeDeclined, GatewayNotifies, JobsNext, ReconcilePick,
              ReconcileAsk, ReconcileApply, ReconcileLost, InitiatePaymentDone,
              CompensateInitiatePayment
<1>3. ASSUME NEW e \in Orders \X EventKinds, WebhookNext(e)
      PROVE  unfinished' = unfinished /\ verifying' = verifying
  BY <1>3 DEF WebhookNext, WebhookReceive, WebhookIgnored, WebhookSuspiciousAmount, WebhookSuccess,
              WebhookFailed, WebhookLost, WebhookEnds
<1>4. ASSUME StockNext \/ UNCHANGED settlementVars
      PROVE  unfinished' = unfinished /\ verifying' = verifying
  BY <1>4 DEF StockNext, settlementVars
<1> QED
  BY <1>1, <1>2, <1>3, <1>4 DEF SettlementNext

(* Stock leaves the shelf for PAID orders only, in every deployment that   *)
(* does not offer verifyOrderPayment; with it, the property is refuted.    *)
THEOREM SoldOrdersArePaid ==
    ASSUME "verify" \notin EntryPoints
    PROVE  SettlementSpec => []SoldIsPaid
<1>1. SettlementInit => SoldIsPaidInv
  BY DEF SettlementInit, InventoryInit, SoldIsPaidInv, SoldIsPaid
<1>2. ASSUME SoldIsPaidInv, InventoryTypeOK, OwnTypeOK, [SettlementNext]_settlementVars
      PROVE  SoldIsPaidInv'
  <2> SUFFICES ASSUME NEW q \in Orders
               PROVE  /\ (reservation[q].status = "COMMITTED" => order[q] = "PAID")'
                      /\ (unfinished[q] = "commit" => order[q] = "PAID")'
                      /\ (verifying[q] = "idle")'
    BY DEF SoldIsPaidInv, SoldIsPaid
  <2>1. order[q] = "PAID" => order'[q] = "PAID"
    BY <1>2, SettledStep
  <2>2. /\ (unfinished[q] = "commit" => order[q] = "PAID")'
        /\ (verifying[q] = "idle")'
    BY <1>2, <2>1, CommitOwedStep DEF SoldIsPaidInv
  <2> SUFFICES ASSUME reservation'[q].status = "COMMITTED" PROVE order'[q] = "PAID"
    BY <2>2
  <2>3. ASSUME reservation[q].status = "COMMITTED" PROVE order'[q] = "PAID"
    BY <1>2, <2>1, <2>3 DEF SoldIsPaidInv, SoldIsPaid
  <2>4. CASE OrderUnchanged
    BY <2>3, <2>4 DEF OrderUnchanged
  <2>5. CASE OrderPlaced
    BY <1>2, <2>3, <2>5 DEF OrderPlaced, ReserveStock, InventoryTypeOK
  <2>6. CASE OrderPaid
    <3>1. PICK o \in Orders : /\ Pending(o) /\ order' = [order EXCEPT ![o] = "PAID"]
                             /\ CommitReservation(o)
      BY <2>6 DEF OrderPaid
    <3> QED
      BY <1>2, <2>3, <3>1, OthersKept DEF CommitReservation, ReservationStatus, OwnTypeOK
  <2>7. CASE OrderUnpaid
    <3>1. PICK o \in Orders : ReleaseReservation(o) \/ UNCHANGED reservation
      BY <2>7 DEF OrderUnpaid
    <3> QED
      BY <1>2, <2>3, <3>1, OthersKept DEF ReleaseReservation, GiveBack, ReservationStatus
  <2>8. CASE ReservationReturned
    <3>1. PICK o \in Orders, status \in {"RELEASED", "EXPIRED"} : Settle(o, status)
      BY <2>8 DEF ReservationReturned
    <3> QED
      BY <1>2, <2>3, <3>1, OthersKept DEF ReservationStatus
  <2>9. CASE CommitOwed
    <3>1. PICK o \in Orders : FinishCommit(o)
      BY <2>9 DEF CommitOwed
    <3>2. order[o] = "PAID" /\ UNCHANGED order
      BY <1>2, <3>1 DEF FinishCommit, SoldIsPaidInv, orderVars
    <3> QED
      BY <1>2, <2>3, <3>1, <3>2, OthersKept DEF FinishCommit, CommitReservation, ReservationStatus
  <2>10. CASE PaidFirst
    BY <2>3, <2>10 DEF PaidFirst, MarkOrderPaid, Transition, inventoryVars
  <2>11. ~VerifiedLate
    BY <1>2 DEF VerifiedLate, VerifyApply, SoldIsPaidInv
  <2> QED
    BY <1>2, <2>4, <2>5, <2>6, <2>7, <2>8, <2>9, <2>10, <2>11, OrderStep
<1>3. SettlementSpec => []InventoryTypeOK
  BY SettlementImplementsInventory, InventoryTypeCorrect DEF ImplementsInventory
<1>4. SoldIsPaidInv => SoldIsPaid
  BY DEF SoldIsPaidInv
<1> QED
  BY <1>1, <1>2, <1>3, <1>4, OwnTypeCorrect, PTL DEF SettlementSpec

-----------------------------------------------------------------------------
(* What an answer or a report that is still being worked on knows.  A due  *)
(* order stays due, and a decline stays reported, so they remain true      *)
(* however old they get.  No money and no report precede the order.        *)
BothKinds == {"charge.success", "charge.failed"} \subseteq EventKinds

AnswersKnown ==
    \A o \in Orders :
        /\ reconciling[o] \in {"late", "ABANDONED"} => o \in due
        /\ reconciling[o] = "FAILED" \/ charge[o] = "FAILED" => event[<<o, "charge.failed">>] # "NONE"
        /\ order[o] = "NONE" => charge[o] = "PENDING" /\ event[<<o, "charge.success">>] = "NONE"
        /\ \A e \in handling : event[e] # "NONE"

LEMMA ReportIsEvent ==
    ASSUME OwnTypeOK, NEW o \in Orders, NEW kind \in EventKinds
    PROVE  Report(o, kind) = event[<<o, kind>>]
BY DEF Report, OwnTypeOK

(* The gateway only sends, and only about orders that exist.               *)
LEMMA SentOnly ==
    ASSUME OwnTypeOK, NEW o \in Orders, GatewayNext(o), NEW e \in Orders \X EventKinds
    PROVE  event'[e] = event[e] \/ (event'[e] = "SENT" /\ order[e[1]] # "NONE")
<1>1. order[o] # "NONE" /\ \E kind : Send(<<o, kind>>)
  <2>1. ASSUME NEW result \in ChargeResults, CustomerPays(o, result)
        PROVE  order[o] # "NONE" /\ Send(<<o, "charge.success">>)
    BY <2>1 DEF CustomerPays
  <2>2. ASSUME ChargeDeclined(o)
        PROVE  order[o] # "NONE" /\ Send(<<o, "charge.failed">>)
    BY <2>2 DEF ChargeDeclined
  <2>3. ASSUME NEW kind \in EventKinds, GatewayNotifies(o, kind)
        PROVE  order[o] # "NONE" /\ Send(<<o, kind>>)
    BY <2>3 DEF GatewayNotifies
  <2> QED
    BY <2>1, <2>2, <2>3 DEF GatewayNext
<1>2. PICK kind : Send(<<o, kind>>)
  BY <1>1
<1>3. <<o, kind>>[1] = o
  OBVIOUS
<1>4. event'[e] = event[e] \/ (event'[e] = "SENT" /\ e = <<o, kind>>)
  BY <1>2 DEF Send, OwnTypeOK
<1> QED
  BY <1>1, <1>3, <1>4

(* What a step does to the reports: nothing, or one event goes on.         *)
LEMMA EventStep ==
    ASSUME OwnTypeOK, [SettlementNext]_settlementVars, NEW e \in Orders \X EventKinds
    PROVE  /\ event[e] # "NONE" => event'[e] # "NONE"
           /\ \/ event'[e] = event[e]
              \/ event'[e] = "SENT" /\ order[e[1]] # "NONE"
              \/ event[e] = "SENT" /\ event'[e] = "RECEIVED"
              \/ e \in handling /\ WebhookNext(e) /\ event'[e] \in {"PROCESSED", "IGNORED", "FAILED"}
<1> USE DEF orderVars, webhookVars, pollVars, restVars
<1> DEFINE Goal == /\ event[e] # "NONE" => event'[e] # "NONE"
                   /\ \/ event'[e] = event[e]
                      \/ event'[e] = "SENT" /\ order[e[1]] # "NONE"
                      \/ event[e] = "SENT" /\ event'[e] = "RECEIVED"
                      \/ /\ e \in handling /\ WebhookNext(e)
                         /\ event'[e] \in {"PROCESSED", "IGNORED", "FAILED"}
<1>1. ASSUME NEW o \in Orders, CustomerNext(o) \/ JobsNext(o) PROVE UNCHANGED event
  BY <1>1 DEF CustomerNext, PlaceOrder, CancelOrder, MarkOrderPaid, MarkOrderPaymentFailed,
              ExpireOrder, Transition, FinishRelease, FinishCommit, SecondStepLost, VerifyRead,
              VerifyAsk, VerifyApply, VerifyLost, JobsNext, ReconcilePick, ReconcileAsk,
              ReconcileApply, ReconcileLost, InitiatePaymentDone, CompensateInitiatePayment
<1>2. ASSUME NEW o \in Orders, GatewayNext(o) PROVE Goal
  BY <1>2, SentOnly
<1>3. ASSUME NEW d \in Orders \X EventKinds, WebhookNext(d) PROVE Goal
  <2>1. ASSUME WebhookReceive(d) PROVE Goal
    BY <2>1 DEF WebhookReceive, OwnTypeOK
  <2>2. ASSUME WebhookLost(d) PROVE Goal
    BY <2>2 DEF WebhookLost
  <2>3. ASSUME NEW status \in {"PROCESSED", "IGNORED", "FAILED"}, WebhookEnds(d, status)
        PROVE  Goal
    BY <1>3, <2>3 DEF WebhookEnds, OwnTypeOK
  <2> QED
    BY <1>3, <2>1, <2>2, <2>3
       DEF WebhookNext, WebhookIgnored, WebhookSuspiciousAmount, WebhookSuccess, WebhookFailed
<1>4. ASSUME StockNext \/ UNCHANGED settlementVars PROVE UNCHANGED event
  BY <1>4 DEF StockNext, settlementVars
<1> QED
  BY <1>1, <1>2, <1>3, <1>4 DEF SettlementNext

LEMMA DueGrows ==
    ASSUME [SettlementNext]_settlementVars
    PROVE  due \subseteq due'
<1> USE DEF jobVars, inventoryVars
<1>1. ASSUME NEW o \in Orders, CustomerNext(o) \/ GatewayNext(o) \/ JobsNext(o) PROVE UNCHANGED due
  BY <1>1 DEF CustomerNext, PlaceOrder, CancelOrder, MarkOrderPaid, MarkOrderPaymentFailed,
              ExpireOrder, Transition, FinishRelease, FinishCommit, SecondStepLost, VerifyRead,
              VerifyAsk, VerifyApply, VerifyLost, JobsNext, ReconcilePick, ReconcileAsk,
              ReconcileApply, ReconcileLost, InitiatePaymentDone, CompensateInitiatePayment,
              GatewayNext, CustomerPays, ChargeDeclined, GatewayNotifies
<1>2. ASSUME NEW e \in Orders \X EventKinds, WebhookNext(e) PROVE UNCHANGED due
  BY <1>2 DEF WebhookNext, WebhookReceive, WebhookIgnored, WebhookSuspiciousAmount, WebhookSuccess,
              WebhookFailed, WebhookLost, WebhookEnds
<1>3. ASSUME StockNext PROVE due \subseteq due'
  BY <1>3 DEF StockNext, BackgroundNext, TtlElapses, ExpireSingleReservation, ExpiryJobLost,
              SweepStart, SweepOne, SweepFails, UpsertInventory, ScheduleReservationExpiry
<1>4. ASSUME UNCHANGED settlementVars PROVE UNCHANGED due
  BY <1>4 DEF settlementVars
<1> QED
  BY <1>1, <1>2, <1>3, <1>4 DEF SettlementNext

LEMMA HandlingStep ==
    ASSUME OwnTypeOK, [SettlementNext]_settlementVars, NEW e \in handling' \ handling
    PROVE  event'[e] = "RECEIVED"
<1> USE DEF webhookVars
<1>1. ASSUME NEW o \in Orders, CustomerNext(o) \/ GatewayNext(o) \/ JobsNext(o)
      PROVE  UNCHANGED handling
  BY <1>1 DEF CustomerNext, PlaceOrder, CancelOrder, MarkOrderPaid, MarkOrderPaymentFailed,
              ExpireOrder, Transition, FinishRelease, FinishCommit, SecondStepLost, VerifyRead,
              VerifyAsk, VerifyApply, VerifyLost, JobsNext, ReconcilePick, ReconcileAsk,
              ReconcileApply, ReconcileLost, InitiatePaymentDone, CompensateInitiatePayment,
              GatewayNext, CustomerPays, ChargeDeclined, GatewayNotifies
<1>2. ASSUME NEW d \in Orders \X EventKinds, WebhookNext(d) PROVE event'[e] = "RECEIVED"
  BY <1>2 DEF WebhookNext, WebhookReceive, WebhookIgnored, WebhookSuspiciousAmount, WebhookSuccess,
              WebhookFailed, WebhookLost, WebhookEnds, OwnTypeOK
<1>3. ASSUME StockNext \/ UNCHANGED settlementVars PROVE UNCHANGED handling
  BY <1>3 DEF StockNext, settlementVars
<1> QED
  BY <1>1, <1>2, <1>3 DEF SettlementNext

(* An order that is placed was not there, and no order goes away.          *)
LEMMA OpensFromNone ==
    ASSUME OwnTypeOK, [SettlementNext]_settlementVars, NEW q \in Orders
    PROVE  /\ order'[q] = "NONE" => order[q] = "NONE"
           /\ Pending(q)' => Pending(q) \/ (order[q] = "NONE" /\ UNCHANGED <<charge, event>>)
<1> USE DEF OwnTypeOK, Pending, orderVars, webhookVars, restVars
<1> DEFINE Goal == /\ order'[q] = "NONE" => order[q] = "NONE"
                   /\ Pending(q)' => Pending(q) \/ (order[q] = "NONE" /\ UNCHANGED <<charge, event>>)
<1>1. ASSUME NEW o \in Orders, CustomerNext(o) PROVE Goal
  <2>1. ASSUME NEW items \in ItemLists, PlaceOrder(o, items) PROVE Goal
    BY <2>1 DEF PlaceOrder
  <2>2. ASSUME CancelOrder(o) \/ MarkOrderPaid(o) \/ MarkOrderPaymentFailed(o) \/ ExpireOrder(o)
        PROVE  Goal
    BY <2>2 DEF CancelOrder, MarkOrderPaid, MarkOrderPaymentFailed, ExpireOrder, Transition
  <2>3. ASSUME \/ FinishRelease(o) \/ FinishCommit(o) \/ SecondStepLost(o)
               \/ VerifyRead(o) \/ VerifyAsk(o) \/ VerifyApply(o) \/ VerifyLost(o)
        PROVE  Goal
    BY <2>3 DEF FinishRelease, FinishCommit, SecondStepLost, VerifyRead, VerifyAsk, VerifyApply,
                VerifyLost
  <2> QED
    BY <1>1, <2>1, <2>2, <2>3 DEF CustomerNext
<1>2. ASSUME NEW o \in Orders, GatewayNext(o) PROVE Goal
  BY <1>2 DEF GatewayNext, CustomerPays, ChargeDeclined, GatewayNotifies
<1>3. ASSUME NEW o \in Orders, JobsNext(o) PROVE Goal
  BY <1>3 DEF JobsNext, ReconcilePick, ReconcileAsk, ReconcileApply, ReconcileLost, MarkPaid,
              MarkUnpaid, InitiatePaymentDone, CompensateInitiatePayment
<1>4. ASSUME NEW e \in Orders \X EventKinds, WebhookNext(e) PROVE Goal
  BY <1>4 DEF WebhookNext, WebhookReceive, WebhookIgnored, WebhookSuspiciousAmount, WebhookSuccess,
              WebhookFailed, WebhookLost, MarkPaid, MarkUnpaid
<1>5. ASSUME StockNext \/ UNCHANGED settlementVars PROVE Goal
  BY <1>5 DEF StockNext, settlementVars
<1> QED
  BY <1>1, <1>2, <1>3, <1>4, <1>5 DEF SettlementNext

(* What reconciliation makes of an order: an answer is as old as its step. *)
LEMMA ReconcilingStep ==
    ASSUME OwnTypeOK, [SettlementNext]_settlementVars, NEW q \in Orders
    PROVE  \/ reconciling'[q] = reconciling[q]
           \/ reconciling'[q] \in {"idle", "picked"}
           \/ reconciling'[q] = "late" /\ q \in due
           \/ ReconcileAsk(q) /\ reconciling'[q] = Verdict(q)
<1> USE DEF OwnTypeOK, pollVars
<1> DEFINE Goal == \/ reconciling'[q] = reconciling[q]
                   \/ reconciling'[q] \in {"idle", "picked"}
                   \/ reconciling'[q] = "late" /\ q \in due
                   \/ ReconcileAsk(q) /\ reconciling'[q] = Verdict(q)
<1>1. ASSUME NEW o \in Orders, CustomerNext(o) \/ GatewayNext(o) PROVE UNCHANGED reconciling
  BY <1>1 DEF CustomerNext, PlaceOrder, CancelOrder, MarkOrderPaid, MarkOrderPaymentFailed,
              ExpireOrder, Transition, FinishRelease, FinishCommit, SecondStepLost, VerifyRead,
              VerifyAsk, VerifyApply, VerifyLost, GatewayNext, CustomerPays, ChargeDeclined,
              GatewayNotifies
<1>2. ASSUME NEW o \in Orders, JobsNext(o) PROVE Goal
  <2>1. ASSUME ReconcileAsk(o) PROVE Goal
    BY <2>1 DEF ReconcileAsk
  <2> QED
    BY <1>2, <2>1 DEF JobsNext, ReconcilePick, ReconcileApply, ReconcileLost, InitiatePaymentDone,
                      CompensateInitiatePayment
<1>3. ASSUME NEW e \in Orders \X EventKinds, WebhookNext(e) PROVE UNCHANGED reconciling
  BY <1>3 DEF WebhookNext, WebhookReceive, WebhookIgnored, WebhookSuspiciousAmount, WebhookSuccess,
              WebhookFailed, WebhookLost, WebhookEnds
<1>4. ASSUME StockNext \/ UNCHANGED settlementVars PROVE UNCHANGED reconciling
  BY <1>4 DEF StockNext, settlementVars
<1> QED
  BY <1>1, <1>2, <1>3, <1>4 DEF SettlementNext

(* What the gateway decides about a charge, it reports in the same step.   *)
LEMMA ReportedStep ==
    ASSUME OwnTypeOK, BothKinds, [SettlementNext]_settlementVars, NEW q \in Orders
    PROVE  \/ charge'[q] = charge[q]
           \/ /\ order[q] # "NONE" /\ UNCHANGED order /\ charge[q] \notin {"SUCCESS", "MISMATCH"}
              /\ \/ /\ charge'[q] \in {"SUCCESS", "MISMATCH"}
                    /\ event'[<<q, "charge.success">>] = "SENT"
                 \/ charge'[q] = "FAILED" /\ event'[<<q, "charge.failed">>] = "SENT"
<1> USE DEF orderVars, restVars, OwnTypeOK
<1> DEFINE Goal ==
       \/ charge'[q] = charge[q]
       \/ /\ order[q] # "NONE" /\ UNCHANGED order /\ charge[q] \notin {"SUCCESS", "MISMATCH"}
          /\ \/ /\ charge'[q] \in {"SUCCESS", "MISMATCH"}
                /\ event'[<<q, "charge.success">>] = "SENT"
             \/ charge'[q] = "FAILED" /\ event'[<<q, "charge.failed">>] = "SENT"
<1>1. ASSUME NEW o \in Orders, GatewayNext(o) PROVE Goal
  <2>1. ASSUME NEW result \in ChargeResults, CustomerPays(o, result) PROVE Goal
    <3>1. result \in {"SUCCESS", "MISMATCH"} /\ <<o, "charge.success">> \in Orders \X EventKinds
      BY SettlementAssumption DEF BothKinds
    <3> QED
      BY <2>1, <3>1 DEF CustomerPays, Send
  <2>2. ASSUME ChargeDeclined(o) PROVE Goal
    <3>1. <<o, "charge.failed">> \in Orders \X EventKinds
      BY DEF BothKinds
    <3> QED
      BY <2>2, <3>1 DEF ChargeDeclined, Send
  <2> QED
    BY <1>1, <2>1, <2>2 DEF GatewayNext, GatewayNotifies
<1>2. ASSUME NEW o \in Orders, CustomerNext(o) \/ JobsNext(o) PROVE UNCHANGED charge
  BY <1>2 DEF CustomerNext, PlaceOrder, CancelOrder, MarkOrderPaid, MarkOrderPaymentFailed,
              ExpireOrder, Transition, FinishRelease, FinishCommit, SecondStepLost, VerifyRead,
              VerifyAsk, VerifyApply, VerifyLost, JobsNext, ReconcilePick, ReconcileAsk,
              ReconcileApply, ReconcileLost, InitiatePaymentDone, CompensateInitiatePayment
<1>3. ASSUME NEW e \in Orders \X EventKinds, WebhookNext(e) PROVE UNCHANGED charge
  BY <1>3 DEF WebhookNext, WebhookReceive, WebhookIgnored, WebhookSuspiciousAmount, WebhookSuccess,
              WebhookFailed, WebhookLost, WebhookEnds
<1>4. ASSUME StockNext \/ UNCHANGED settlementVars PROVE UNCHANGED charge
  BY <1>4 DEF StockNext, settlementVars
<1> QED
  BY <1>1, <1>2, <1>3, <1>4 DEF SettlementNext

LEMMA AnswersKnownStep ==
    ASSUME OwnTypeOK, BothKinds, AnswersKnown, [SettlementNext]_settlementVars
    PROVE  AnswersKnown'
<1> SUFFICES ASSUME NEW q \in Orders
             PROVE  /\ (reconciling[q] \in {"late", "ABANDONED"})' => q \in due'
                    /\ (reconciling[q] = "FAILED" \/ charge[q] = "FAILED")'
                           => event'[<<q, "charge.failed">>] # "NONE"
                    /\ (order[q] = "NONE")'
                           => (charge[q] = "PENDING" /\ event[<<q, "charge.success">>] = "NONE")'
                    /\ \A e \in handling' : event'[e] # "NONE"
  BY DEF AnswersKnown
<1>1. /\ <<q, "charge.failed">> \in Orders \X EventKinds
      /\ <<q, "charge.success">> \in Orders \X EventKinds
  BY DEF BothKinds
<1>2. /\ reconciling[q] \in {"late", "ABANDONED"} => q \in due
      /\ reconciling[q] = "FAILED" \/ charge[q] = "FAILED" => event[<<q, "charge.failed">>] # "NONE"
      /\ order[q] = "NONE" => charge[q] = "PENDING" /\ event[<<q, "charge.success">>] = "NONE"
      /\ \A e \in handling : event[e] # "NONE"
  BY DEF AnswersKnown
<1>3. ReconcileAsk(q) => /\ Verdict(q) = "ABANDONED" => reconciling[q] = "late"
                         /\ Verdict(q) = "FAILED" => charge[q] = "FAILED"
                         /\ Verdict(q) # "late"
  BY DEF Verdict, Answer, ReconcileAsk
<1>4. (reconciling[q] \in {"late", "ABANDONED"})' => q \in due'
  BY <1>2, <1>3, ReconcilingStep, DueGrows
<1>5. event[<<q, "charge.failed">>] # "NONE" => event'[<<q, "charge.failed">>] # "NONE"
  BY <1>1, EventStep
<1>6. (reconciling[q] = "FAILED" \/ charge[q] = "FAILED")'
          => event'[<<q, "charge.failed">>] # "NONE"
  BY <1>2, <1>3, <1>5, ReconcilingStep, ReportedStep
<1>7. ASSUME order'[q] = "NONE"
      PROVE  charge'[q] = "PENDING" /\ event'[<<q, "charge.success">>] = "NONE"
  <2>1. order[q] = "NONE" /\ charge[q] = "PENDING" /\ event[<<q, "charge.success">>] = "NONE"
    BY <1>2, <1>7, OpensFromNone
  <2>2. charge'[q] = "PENDING"
    BY <2>1, ReportedStep
  <2> QED
    BY <1>1, <1>2, <2>1, <2>2, EventStep
<1>8. \A e \in handling' : event'[e] # "NONE"
  BY <1>2, EventStep, HandlingStep DEF OwnTypeOK
<1> QED
  BY <1>4, <1>6, <1>7, <1>8

-----------------------------------------------------------------------------
(* The record of the money.                                                *)

OnRecord(o) == \/ payment[o] = "SUCCESS"
               \/ payment[o] = "FAILED" /\ event[<<o, "charge.failed">>] # "NONE"
               \/ payment[o] = "ABANDONED" /\ o \in due

RecordKnown ==
    \A o \in Orders :
        order[o] = "PAID" \/ event[<<o, "charge.success">>] = "PROCESSED" => OnRecord(o)

(* Who writes a payment: the checkout that creates it, whoever learned     *)
(* something from the gateway, or the compensation, if nobody did.         *)
PaymentWritten(q) ==
    \/ payment'[q] = payment[q]
    \/ payment'[q] = "SUCCESS"
    \/ payment'[q] = "FAILED" /\ event'[<<q, "charge.failed">>] # "NONE"
    \/ payment'[q] = "ABANDONED" /\ q \in due
    \/ order[q] = "NONE" /\ order'[q] = "PENDING_PAYMENT" /\ UNCHANGED event
    \/ payment[q] = "INITIATED" /\ UNCHANGED event /\ order'[q] \in {order[q], "PAYMENT_FAILED"}

LEMMA PaymentStep ==
    ASSUME OwnTypeOK, BothKinds, AnswersKnown, [SettlementNext]_settlementVars, NEW q \in Orders
    PROVE  /\ order'[q] = "PAID" /\ "markOrderPaid" \notin EntryPoints
                  => order[q] = "PAID" \/ payment'[q] = "SUCCESS"
           /\ event'[<<q, "charge.success">>] = "PROCESSED"
                  => event[<<q, "charge.success">>] = "PROCESSED" \/ payment'[q] = "SUCCESS"
           /\ PaymentWritten(q)
<1> USE DEF OwnTypeOK, AnswersKnown, PaymentWritten, orderVars, webhookVars, restVars
<1> DEFINE Goal ==
       /\ order'[q] = "PAID" /\ "markOrderPaid" \notin EntryPoints
              => order[q] = "PAID" \/ payment'[q] = "SUCCESS"
       /\ event'[<<q, "charge.success">>] = "PROCESSED"
              => event[<<q, "charge.success">>] = "PROCESSED" \/ payment'[q] = "SUCCESS"
       /\ PaymentWritten(q)
<1>0. /\ <<q, "charge.failed">> \in Orders \X EventKinds
      /\ <<q, "charge.success">> \in Orders \X EventKinds
  BY DEF BothKinds
<1>1. ASSUME NEW o \in Orders, CustomerNext(o) PROVE Goal
  <2>1. ASSUME NEW items \in ItemLists, PlaceOrder(o, items) PROVE Goal
    BY <2>1 DEF PlaceOrder, SetPayment
  <2>2. ASSUME CancelOrder(o) \/ MarkOrderPaid(o) \/ MarkOrderPaymentFailed(o) \/ ExpireOrder(o)
        PROVE  Goal
    BY <2>2 DEF CancelOrder, MarkOrderPaid, MarkOrderPaymentFailed, ExpireOrder, Transition
  <2>3. ASSUME \/ FinishRelease(o) \/ FinishCommit(o) \/ SecondStepLost(o)
               \/ VerifyRead(o) \/ VerifyAsk(o) \/ VerifyLost(o)
        PROVE  Goal
    BY <2>3 DEF FinishRelease, FinishCommit, SecondStepLost, VerifyRead, VerifyAsk, VerifyLost
  <2>4. ASSUME VerifyApply(o) PROVE Goal
    BY <2>4 DEF VerifyApply, SetPayment
  <2> QED
    BY <1>1, <2>1, <2>2, <2>3, <2>4 DEF CustomerNext
<1>2. ASSUME NEW o \in Orders, GatewayNext(o) PROVE Goal
  <2>1. UNCHANGED <<order, payment>>
    BY <1>2 DEF GatewayNext, CustomerPays, ChargeDeclined, GatewayNotifies
  <2>2. event'[<<q, "charge.success">>] = "PROCESSED" => event[<<q, "charge.success">>] = "PROCESSED"
    BY <1>0, <1>2, SentOnly
  <2> QED
    BY <2>1, <2>2
<1>3. ASSUME NEW o \in Orders, JobsNext(o) PROVE Goal
  <2>1. ASSUME ReconcileApply(o) PROVE Goal
    <3>1. /\ payment' = [payment EXCEPT ![o] = reconciling[o]] /\ UNCHANGED event
          /\ reconciling[o] \in {"SUCCESS", "FAILED", "ABANDONED"}
      BY <2>1 DEF ReconcileApply, SetPayment
    <3>2. /\ \A p \in Orders \ {o} : order'[p] = order[p]
          /\ order'[o] = "PAID" => order[o] = "PAID" \/ reconciling[o] = "SUCCESS"
      BY <2>1 DEF ReconcileApply, MarkPaid, MarkUnpaid
    <3> QED
      BY <1>0, <3>1, <3>2
  <2>2. ASSUME CompensateInitiatePayment(o) PROVE Goal
    <3>1. /\ payment'[q] = payment[q] \/ (q = o /\ payment[q] = "INITIATED")
          /\ order'[q] \in {order[q], "PAYMENT_FAILED"} /\ UNCHANGED event
      BY <2>2 DEF CompensateInitiatePayment, MarkUnpaid, SetPayment
    <3> QED
      BY <3>1
  <2>3. ASSUME ReconcilePick(o) \/ ReconcileAsk(o) \/ ReconcileLost(o) \/ InitiatePaymentDone(o)
        PROVE  Goal
    BY <2>3 DEF ReconcilePick, ReconcileAsk, ReconcileLost, InitiatePaymentDone
  <2> QED
    BY <1>3, <2>1, <2>2, <2>3 DEF JobsNext
<1>4. ASSUME NEW e \in Orders \X EventKinds, WebhookNext(e) PROVE Goal
  <2>1. e[1] \in Orders /\ e = <<e[1], e[2]>>
    OBVIOUS
  <2>2. ASSUME WebhookReceive(e) \/ WebhookLost(e) PROVE Goal
    <3>1. /\ UNCHANGED <<order, payment>>
          /\ event' = event \/ event' = [event EXCEPT ![e] = "RECEIVED"]
      BY <2>2 DEF WebhookReceive, WebhookLost
    <3> QED
      BY <1>0, <3>1
  <2>3. ASSUME WebhookIgnored(e) \/ WebhookSuspiciousAmount(e) PROVE Goal
    <3>1. /\ UNCHANGED <<order, payment>>
          /\ \/ event' = [event EXCEPT ![e] = "IGNORED"]
             \/ event' = [event EXCEPT ![e] = "FAILED"]
      BY <2>3 DEF WebhookIgnored, WebhookSuspiciousAmount, WebhookEnds
    <3> QED
      BY <1>0, <3>1
  <2>4. ASSUME WebhookSuccess(e) PROVE Goal
    <3>1. /\ payment' = [payment EXCEPT ![e[1]] = "SUCCESS"]
          /\ event' = [event EXCEPT ![e] = "PROCESSED"]
          /\ \A p \in Orders \ {e[1]} : order'[p] = order[p]
      BY <2>1, <2>4 DEF WebhookSuccess, WebhookEnds, MarkPaid, SetPayment
    <3> QED
      BY <2>1, <3>1
  <2>5. ASSUME WebhookFailed(e) PROVE Goal
    <3>1. /\ payment' = [payment EXCEPT ![e[1]] = "FAILED"]
          /\ event' = [event EXCEPT ![e] = "PROCESSED"] /\ e[2] = "charge.failed"
          /\ \A p \in Orders : order'[p] \in {order[p], "PAYMENT_FAILED"}
      BY <2>1, <2>5 DEF WebhookFailed, WebhookEnds, MarkUnpaid, SetPayment
    <3> QED
      BY <1>0, <2>1, <3>1
  <2> QED
    BY <1>4, <2>2, <2>3, <2>4, <2>5 DEF WebhookNext
<1>5. ASSUME StockNext \/ UNCHANGED settlementVars PROVE Goal
  BY <1>5 DEF StockNext, settlementVars
<1> QED
  BY <1>1, <1>2, <1>3, <1>4, <1>5 DEF SettlementNext

LEMMA RecordKnownStep ==
    ASSUME OwnTypeOK, BothKinds, AnswersKnown, RecordKnown, [SettlementNext]_settlementVars,
           "markOrderPaid" \notin EntryPoints
    PROVE  RecordKnown'
<1> SUFFICES ASSUME NEW q \in Orders,
                    order'[q] = "PAID" \/ event'[<<q, "charge.success">>] = "PROCESSED"
             PROVE  \/ payment'[q] = "SUCCESS"
                    \/ payment'[q] = "FAILED" /\ event'[<<q, "charge.failed">>] # "NONE"
                    \/ payment'[q] = "ABANDONED" /\ q \in due'
  BY DEF RecordKnown, OnRecord
<1> SUFFICES ASSUME payment'[q] # "SUCCESS" PROVE
                    \/ payment'[q] = "FAILED" /\ event'[<<q, "charge.failed">>] # "NONE"
                    \/ payment'[q] = "ABANDONED" /\ q \in due'
  OBVIOUS
<1>1. order[q] = "PAID" \/ event[<<q, "charge.success">>] = "PROCESSED"
  BY PaymentStep
<1>2. \/ payment[q] = "SUCCESS"
      \/ payment[q] = "FAILED" /\ event[<<q, "charge.failed">>] # "NONE"
      \/ payment[q] = "ABANDONED" /\ q \in due
  BY <1>1 DEF RecordKnown, OnRecord
<1>3. <<q, "charge.failed">> \in Orders \X EventKinds
  BY DEF BothKinds
<1>4. event[<<q, "charge.failed">>] # "NONE" => event'[<<q, "charge.failed">>] # "NONE"
  BY <1>3, EventStep
<1>5. order[q] # "NONE"
  BY <1>1 DEF AnswersKnown
<1> QED
  BY <1>2, <1>4, <1>5, PaymentStep, DueGrows DEF PaymentWritten

LEMMA AnswersKnownHolds ==
    ASSUME BothKinds
    PROVE  SettlementSpec => []AnswersKnown
<1>1. SettlementInit => AnswersKnown
  BY DEF SettlementInit, AnswersKnown, BothKinds
<1> QED
  BY <1>1, AnswersKnownStep, OwnTypeCorrect, PTL DEF SettlementSpec

(* Money the shop was told of is on record, whatever overlaps: declines    *)
(* and answers that arrive late, retried charges, a compensation of an     *)
(* order that is paid already.  A gateway that reports both outcomes is    *)
(* assumed, and that nobody calls markOrderPaid, as nobody does: it writes *)
(* PAID without looking at the payment (payments.service.ts:142, :171,     *)
(* :288-328, :378 and outbox.processor.ts:108-134).                        *)
THEOREM ReportedMoneyIsKept ==
    ASSUME {"charge.success", "charge.failed"} \subseteq EventKinds,
           "markOrderPaid" \notin EntryPoints
    PROVE  SettlementSpec => []ReportedMoneyIsOnRecord
<1>1. BothKinds
  BY DEF BothKinds
<1>2. SettlementInit => RecordKnown
  BY DEF SettlementInit, RecordKnown, BothKinds
<1>3. OwnTypeOK /\ RecordKnown => ReportedMoneyIsOnRecord
  BY <1>1, ReportIsEvent DEF RecordKnown, OnRecord, ReportedMoneyIsOnRecord, Declined, BothKinds
<1> QED
  BY <1>1, <1>2, <1>3, RecordKnownStep, AnswersKnownHolds, OwnTypeCorrect, PTL DEF SettlementSpec

(* An open order whose charge is captured has a report that waits.         *)
ReportKnown ==
    \A o \in Orders : Pending(o) /\ charge[o] = "SUCCESS"
                          => event[<<o, "charge.success">>] \in {"SENT", "RECEIVED"}

LEMMA ReportKnownStep ==
    ASSUME OwnTypeOK, BothKinds, AnswersKnown, ReportKnown, [SettlementNext]_settlementVars
    PROVE  ReportKnown'
<1> SUFFICES ASSUME NEW q \in Orders, Pending(q)', charge'[q] = "SUCCESS"
             PROVE  event'[<<q, "charge.success">>] \in {"SENT", "RECEIVED"}
  BY DEF ReportKnown
<1> DEFINE report == <<q, "charge.success">>
<1>1. report \in Orders \X EventKinds
  BY DEF BothKinds
<1>2. CASE charge[q] # "SUCCESS"
  BY <1>2, ReportedStep
<1>3. CASE charge[q] = "SUCCESS"
  <2>1. order[q] # "NONE"
    BY <1>3 DEF AnswersKnown
  <2>2. event[report] \in {"SENT", "RECEIVED"}
    BY <1>3, <2>1, OpensFromNone DEF ReportKnown
  <2>3. ASSUME WebhookNext(report), report \in handling,
               event'[report] \in {"PROCESSED", "IGNORED", "FAILED"}
        PROVE  FALSE
    <3>0. report[2] = "charge.success" /\ report[1] = q
      OBVIOUS
    <3>1. WebhookSuccess(report) \/ event'[report] \in {event[report], "RECEIVED"}
      <4>1. ASSUME WebhookReceive(report) PROVE event'[report] = "RECEIVED"
        BY <1>1, <4>1 DEF WebhookReceive, OwnTypeOK
      <4>2. ~(WebhookIgnored(report) \/ WebhookSuspiciousAmount(report) \/ WebhookFailed(report))
        BY <1>3, <3>0 DEF WebhookIgnored, WebhookSuspiciousAmount, WebhookFailed
      <4>3. ASSUME WebhookLost(report) PROVE event'[report] = event[report]
        BY <4>3 DEF WebhookLost
      <4> QED
        BY <2>3, <4>1, <4>2, <4>3 DEF WebhookNext
    <3>2. ~WebhookSuccess(report)
      BY DEF WebhookSuccess, MarkPaid, Pending, OwnTypeOK
    <3> QED
      BY <2>2, <2>3, <3>1, <3>2
  <2> QED
    BY <1>1, <2>2, <2>3, EventStep
<1> QED
  BY <1>2, <1>3

(* No webhook that is PROCESSED leaves an open order behind whose charge   *)
(* is captured, in any deployment: not when the handler finds that the     *)
(* reservation is gone, and not when other handlers overtake it.           *)
THEOREM ReportsAreNotDropped ==
    ASSUME {"charge.success", "charge.failed"} \subseteq EventKinds
    PROVE  SettlementSpec => []NoReportIsDropped
<1>1. BothKinds
  BY DEF BothKinds
<1>2. SettlementInit => ReportKnown
  BY DEF SettlementInit, ReportKnown, Pending
<1>3. OwnTypeOK /\ ReportKnown => NoReportIsDropped
  BY <1>1, ReportIsEvent DEF ReportKnown, NoReportIsDropped, BothKinds
<1> QED
  BY <1>1, <1>2, <1>3, ReportKnownStep, AnswersKnownHolds, OwnTypeCorrect, PTL DEF SettlementSpec

(* Whoever fails or expires an order whose charge is captured is behind    *)
(* the times, in every deployment in which nobody calls expireOrder or     *)
(* markOrderPaymentFailed, as nobody does: they ask no gateway.            *)
THEOREM CapturedOrdersFailOnlyLate ==
    ASSUME {"charge.success", "charge.failed"} \subseteq EventKinds,
           EntryPoints \intersect {"expireOrder", "markOrderPaymentFailed"} = {}
    PROVE  SettlementSpec => CapturedOrdersFailLate
<1>1. BothKinds
  BY DEF BothKinds
<1>2. ASSUME OwnTypeOK, AnswersKnown, [SettlementNext]_settlementVars, NEW q \in Orders,
             Pending(q), order'[q] \in {"PAYMENT_FAILED", "EXPIRED"}
      PROVE  \/ Declined(q)
             \/ order'[q] = "EXPIRED" /\ q \in due
             \/ order'[q] = "PAYMENT_FAILED" /\ q \in initiating
  <2> USE <1>2 DEF OwnTypeOK, Pending, orderVars
  <2> DEFINE Goal == \/ Declined(q)
                     \/ order'[q] = "EXPIRED" /\ q \in due
                     \/ order'[q] = "PAYMENT_FAILED" /\ q \in initiating
  <2>1. event[<<q, "charge.failed">>] # "NONE" => Declined(q)
    BY <1>1, ReportIsEvent DEF Declined, BothKinds
  <2>2. ASSUME NEW o \in Orders, CustomerNext(o) PROVE Goal
    BY <2>2 DEF CustomerNext, PlaceOrder, CancelOrder, MarkOrderPaid, MarkOrderPaymentFailed,
                ExpireOrder, Transition, FinishRelease, FinishCommit, SecondStepLost, VerifyRead,
                VerifyAsk, VerifyApply, VerifyLost
  <2>3. ASSUME NEW o \in Orders, GatewayNext(o) PROVE Goal
    BY <2>3 DEF GatewayNext, CustomerPays, ChargeDeclined, GatewayNotifies
  <2>4. ASSUME NEW o \in Orders, ReconcileApply(o) PROVE Goal
    <3>1. q = o /\ \/ reconciling[q] = "FAILED"
                   \/ reconciling[q] = "ABANDONED" /\ order'[q] = "EXPIRED"
      BY <2>4 DEF ReconcileApply, MarkPaid, MarkUnpaid
    <3> QED
      BY <2>1, <3>1 DEF AnswersKnown
  <2>5. ASSUME NEW o \in Orders, JobsNext(o) PROVE Goal
    BY <2>4, <2>5 DEF JobsNext, ReconcilePick, ReconcileAsk, ReconcileLost, InitiatePaymentDone,
                      CompensateInitiatePayment, MarkUnpaid
  <2>6. ASSUME NEW e \in Orders \X EventKinds, WebhookFailed(e) PROVE Goal
    <3>1. e = <<q, "charge.failed">> /\ e \in handling
      BY <2>6 DEF WebhookFailed, WebhookEnds, MarkUnpaid
    <3> QED
      BY <2>1, <3>1 DEF AnswersKnown
  <2>7. ASSUME NEW e \in Orders \X EventKinds, WebhookNext(e) PROVE Goal
    BY <2>6, <2>7 DEF WebhookNext, WebhookReceive, WebhookIgnored, WebhookSuspiciousAmount,
                      WebhookSuccess, WebhookLost, MarkPaid
  <2>8. ASSUME StockNext \/ UNCHANGED settlementVars PROVE Goal
    BY <2>8 DEF StockNext, settlementVars
  <2> QED
    BY <2>2, <2>3, <2>5, <2>7, <2>8 DEF SettlementNext
<1>3. OwnTypeOK /\ AnswersKnown /\ [SettlementNext]_settlementVars
          => [\A o \in Orders :
                 (Pending(o) /\ charge[o] = "SUCCESS" /\ order'[o] \in {"PAYMENT_FAILED", "EXPIRED"})
                     => \/ Declined(o)
                        \/ order'[o] = "EXPIRED" /\ o \in due
                        \/ order'[o] = "PAYMENT_FAILED" /\ o \in initiating]_settlementVars
  BY <1>2
<1> QED
  BY <1>1, <1>3, AnswersKnownHolds, OwnTypeCorrect, PTL DEF SettlementSpec, CapturedOrdersFailLate

-----------------------------------------------------------------------------
(* The stock of an open order.                                             *)

(* A second step is owed by an order that was closed or paid before.       *)
StockKnown ==
    /\ OpenOrdersKeepStock
    /\ \A o \in Orders : unfinished[o] # "none" => order[o] \notin {"NONE", "PENDING_PAYMENT"}

LEMMA OwedStep ==
    ASSUME OwnTypeOK, [SettlementNext]_settlementVars, NEW q \in Orders,
           unfinished[q] # "none" => order[q] \notin {"NONE", "PENDING_PAYMENT"},
           unfinished'[q] # "none"
    PROVE  order'[q] \notin {"NONE", "PENDING_PAYMENT"}
<1> USE DEF OwnTypeOK, restVars, orderVars
<1>1. ASSUME NEW o \in Orders, CustomerNext(o)
      PROVE  unfinished[q] # "none" \/ order'[q] \notin {"NONE", "PENDING_PAYMENT"}
  BY <1>1 DEF CustomerNext, PlaceOrder, CancelOrder, MarkOrderPaid, MarkOrderPaymentFailed,
              ExpireOrder, Transition, FinishRelease, FinishCommit, SecondStepLost, VerifyRead,
              VerifyAsk, VerifyApply, VerifyLost
<1>2. ASSUME NEW o \in Orders, GatewayNext(o) \/ JobsNext(o) PROVE UNCHANGED unfinished
  BY <1>2 DEF GatewayNext, CustomerPays, ChargeDeclined, GatewayNotifies, JobsNext, ReconcilePick,
              ReconcileAsk, ReconcileApply, ReconcileLost, InitiatePaymentDone,
              CompensateInitiatePayment
<1>3. ASSUME NEW e \in Orders \X EventKinds, WebhookNext(e) PROVE UNCHANGED unfinished
  BY <1>3 DEF WebhookNext, WebhookReceive, WebhookIgnored, WebhookSuspiciousAmount, WebhookSuccess,
              WebhookFailed, WebhookLost, WebhookEnds
<1>4. ASSUME StockNext \/ UNCHANGED settlementVars PROVE UNCHANGED unfinished
  BY <1>4 DEF StockNext, settlementVars
<1>5. unfinished[q] # "none" \/ order'[q] \notin {"NONE", "PENDING_PAYMENT"}
  BY <1>1, <1>2, <1>3, <1>4 DEF SettlementNext
<1> QED
  BY <1>5, SettledStep

LEMMA StockKnownStep ==
    ASSUME InventoryTypeOK, OwnTypeOK, StockKnown, [SettlementNext]_settlementVars
    PROVE  StockKnown'
<1>1. \A q \in Orders : (unfinished[q] # "none" => order[q] \notin {"NONE", "PENDING_PAYMENT"})'
  BY OwedStep DEF StockKnown
<1> SUFFICES ASSUME NEW q \in Orders, order'[q] = "PENDING_PAYMENT"
             PROVE  \/ reservation'[q].status = "ACTIVE"
                    \/ reservation'[q].status = "EXPIRED" /\ q \in due'
  BY <1>1 DEF StockKnown, OpenOrdersKeepStock, Pending
<1> DEFINE Goal == \/ reservation'[q].status = "ACTIVE"
                   \/ reservation'[q].status = "EXPIRED" /\ q \in due'
<1>2. ASSUME order[q] = "PENDING_PAYMENT", reservation'[q] = reservation[q] PROVE Goal
  BY <1>2, DueGrows DEF StockKnown, OpenOrdersKeepStock, Pending
<1>3. CASE OrderUnchanged
  BY <1>2, <1>3 DEF OrderUnchanged
<1>4. CASE OrderPlaced
  <2>1. PICK o \in Orders, items \in ItemLists :
           order' = [order EXCEPT ![o] = "PENDING_PAYMENT"] /\ ReserveStock(o, items)
    BY <1>4 DEF OrderPlaced
  <2>2. CASE q = o
    BY <2>1, <2>2 DEF ReserveStock, InventoryTypeOK
  <2>3. CASE q # o
    BY <1>2, <2>1, <2>3 DEF ReserveStock, InventoryTypeOK, OwnTypeOK
  <2> QED
    BY <2>2, <2>3
<1>5. CASE OrderPaid
  <2>1. PICK o \in Orders : order' = [order EXCEPT ![o] = "PAID"] /\ CommitReservation(o)
    BY <1>5 DEF OrderPaid
  <2>2. q # o /\ order[q] = "PENDING_PAYMENT"
    BY <2>1 DEF OwnTypeOK
  <2> QED
    BY <1>2, <2>1, <2>2, OthersKept DEF CommitReservation, ReservationStatus
<1>6. CASE OrderUnpaid
  <2>1. PICK o \in Orders, status \in Unpaid :
           order' = [order EXCEPT ![o] = status] /\ (ReleaseReservation(o) \/ UNCHANGED reservation)
    BY <1>6 DEF OrderUnpaid
  <2>2. q # o /\ order[q] = "PENDING_PAYMENT"
    BY <2>1 DEF OwnTypeOK, Unpaid
  <2> QED
    BY <1>2, <2>1, <2>2, OthersKept DEF ReleaseReservation, GiveBack, ReservationStatus
<1>7. CASE ReservationReturned
  <2>1. PICK o \in Orders, status \in {"RELEASED", "EXPIRED"} :
           /\ Settle(o, status) /\ UNCHANGED order
           /\ \/ status = "RELEASED" /\ unfinished[o] = "release"
              \/ status = "EXPIRED" /\ o \in due
    BY <1>7 DEF ReservationReturned
  <2>2. CASE q = o
    <3>1. reservation'[q].status = status
      BY <2>1, <2>2, OthersKept DEF ReservationStatus
    <3>2. unfinished[o] # "release"
      BY <2>1, <2>2 DEF StockKnown
    <3> QED
      BY <2>1, <2>2, <3>1, <3>2, DueGrows
  <2>3. CASE q # o
    BY <1>2, <2>1, <2>3, OthersKept DEF ReservationStatus
  <2> QED
    BY <2>2, <2>3
<1>8. CASE CommitOwed \/ VerifiedLate
  <2>1. PICK o \in Orders : /\ CommitReservation(o) /\ UNCHANGED order
                            /\ unfinished[o] = "commit" \/ ~Pending(o)
    BY <1>8 DEF CommitOwed, VerifiedLate, FinishCommit, VerifyApply, orderVars
  <2>2. q # o
    BY <2>1 DEF StockKnown, Pending
  <2> QED
    BY <1>2, <2>1, <2>2, OthersKept DEF CommitReservation, ReservationStatus
<1>9. CASE PaidFirst
  BY <1>2, <1>9 DEF PaidFirst, MarkOrderPaid, Transition, inventoryVars, OwnTypeOK
<1> QED
  BY <1>3, <1>4, <1>5, <1>6, <1>7, <1>8, <1>9, OrderStep

(* An open order has its stock until it expires, and never expires before  *)
(* its TTL, in any deployment: no cancellation, compensation, late commit  *)
(* or overlapping sweep takes it away while the order can still be paid.   *)
THEOREM OpenOrdersKeepTheirStock == SettlementSpec => []OpenOrdersKeepStock
<1>1. SettlementInit => StockKnown
  BY DEF SettlementInit, StockKnown, OpenOrdersKeepStock, Pending
<1>2. StockKnown => OpenOrdersKeepStock
  BY DEF StockKnown
<1>3. SettlementSpec => []InventoryTypeOK
  BY SettlementImplementsInventory, InventoryTypeCorrect DEF ImplementsInventory
<1> QED
  BY <1>1, <1>2, <1>3, StockKnownStep, OwnTypeCorrect, PTL DEF SettlementSpec

-----------------------------------------------------------------------------
(* The order book.                                                         *)

Units == [o \in Orders |-> ClaimOf(reservation[o].status)]
Captured == [o \in Orders |-> charge[o] = "SUCCESS"]

(* What the book's steps need to know: whoever has a commit still to do    *)
(* owes it to a PAID order, nothing is reserved for an order that does not *)
(* exist, nobody verifies where there is no verifyOrderPayment, and a PAID *)
(* order holds no units unless it may be PAID before they are sold.        *)
BookKnown ==
    /\ "markOrderPaid" \notin EntryPoints => PaidIsCommitted
    /\ \A o \in Orders :
          /\ unfinished[o] = "commit" => order[o] = "PAID" /\ "markOrderPaid" \in EntryPoints
          /\ order[o] = "NONE" => reservation[o].status = "NONE"
          /\ verifying[o] # "idle" => "verify" \in EntryPoints

LEMMA UnitsSettle ==
    ASSUME InventoryTypeOK, NEW o \in Orders, NEW status \in ReservationStatus,
           Settle(o, status)
    PROVE  Units[o] = "held" /\ Units' = [Units EXCEPT ![o] = ClaimOf(status)]
<1>1. Units[o] = "held"
  BY OthersKept DEF Units, ClaimOf
<1>2. Units'[o] = ClaimOf(status)
  <2>1. reservation'[o].status = status
    BY OthersKept
  <2> QED
    BY <2>1 DEF Units
<1>3. \A q \in Orders \ {o} : Units'[q] = Units[q]
  BY OthersKept DEF Units
<1> QED
  BY <1>1, <1>2, <1>3 DEF Units

(* An order without a document gets no reservation but by its checkout.    *)
LEMMA NothingReservedStep ==
    ASSUME InventoryTypeOK, OwnTypeOK, [SettlementNext]_settlementVars, NEW q \in Orders,
           order[q] = "NONE" => reservation[q].status = "NONE",
           order'[q] = "NONE"
    PROVE  reservation'[q].status = "NONE"
<1>1. CASE OrderUnchanged
  BY <1>1 DEF OrderUnchanged
<1>2. CASE OrderPlaced
  <2>1. PICK o \in Orders, items \in ItemLists :
           /\ order[o] = "NONE" /\ order' = [order EXCEPT ![o] = "PENDING_PAYMENT"]
           /\ ReserveStock(o, items)
    BY <1>2 DEF OrderPlaced
  <2>2. q # o /\ order[q] = "NONE"
    BY <2>1 DEF OwnTypeOK
  <2> QED
    BY <2>1, <2>2 DEF ReserveStock, InventoryTypeOK
<1>3. CASE OrderPaid
  <2>1. PICK o \in Orders : /\ Pending(o) /\ order' = [order EXCEPT ![o] = "PAID"]
                           /\ CommitReservation(o)
    BY <1>3 DEF OrderPaid
  <2>2. q # o /\ order[q] = "NONE"
    BY <2>1 DEF OwnTypeOK
  <2> QED
    BY <2>1, <2>2, OthersKept DEF CommitReservation, ReservationStatus
<1>4. CASE OrderUnpaid
  <2>1. PICK o \in Orders, status \in Unpaid :
           /\ Pending(o) /\ order' = [order EXCEPT ![o] = status]
           /\ ReleaseReservation(o) \/ UNCHANGED reservation
    BY <1>4 DEF OrderUnpaid
  <2>2. q # o /\ order[q] = "NONE"
    BY <2>1 DEF OwnTypeOK, Unpaid
  <2> QED
    BY <2>1, <2>2, OthersKept DEF ReleaseReservation, GiveBack, ReservationStatus
<1>5. CASE ReservationReturned
  <2>1. PICK o \in Orders, status \in {"RELEASED", "EXPIRED"} :
           Settle(o, status) /\ UNCHANGED order
    BY <1>5 DEF ReservationReturned
  <2> QED
    BY <2>1, OthersKept DEF ReservationStatus
<1>6. CASE CommitOwed \/ VerifiedLate
  <2>1. PICK o \in Orders : CommitReservation(o) /\ UNCHANGED order
    BY <1>6 DEF CommitOwed, VerifiedLate, FinishCommit, VerifyApply, orderVars
  <2> QED
    BY <2>1, OthersKept DEF CommitReservation, ReservationStatus
<1>7. CASE PaidFirst
  BY <1>7 DEF PaidFirst, MarkOrderPaid, Transition, inventoryVars, OwnTypeOK
<1> QED
  BY <1>1, <1>2, <1>3, <1>4, <1>5, <1>6, <1>7, OrderStep

LEMMA BookKnownHolds == SettlementSpec => []BookKnown
<1> DEFINE Rest == \A o \in Orders :
              /\ unfinished[o] = "commit" => order[o] = "PAID" /\ "markOrderPaid" \in EntryPoints
              /\ order[o] = "NONE" => reservation[o].status = "NONE"
              /\ verifying[o] # "idle" => "verify" \in EntryPoints
<1>1. SettlementInit => Rest
  BY DEF SettlementInit, InventoryInit
<1>2. ASSUME Rest, InventoryTypeOK, OwnTypeOK, [SettlementNext]_settlementVars
      PROVE  Rest'
  <2> SUFFICES ASSUME NEW q \in Orders
               PROVE  /\ (unfinished[q] = "commit" => order[q] = "PAID")'
                      /\ (unfinished[q] = "commit")' => "markOrderPaid" \in EntryPoints
                      /\ (order[q] = "NONE" => reservation[q].status = "NONE")'
                      /\ (verifying[q] # "idle")' => "verify" \in EntryPoints
    OBVIOUS
  <2>1. order[q] = "PAID" => order'[q] = "PAID"
    BY <1>2, SettledStep
  <2>2. /\ unfinished'[q] = "commit" => order'[q] = "PAID" /\ "markOrderPaid" \in EntryPoints
        /\ verifying'[q] # "idle" => "verify" \in EntryPoints
    BY <1>2, <2>1, CommitOwedStep
  <2>3. order'[q] = "NONE" => reservation'[q].status = "NONE"
    BY <1>2, NothingReservedStep
  <2> QED
    BY <2>2, <2>3
<1>3. SettlementSpec => []InventoryTypeOK
  BY SettlementImplementsInventory, InventoryTypeCorrect DEF ImplementsInventory
<1>4. SettlementSpec => []Rest
  BY <1>1, <1>2, <1>3, OwnTypeCorrect, PTL DEF SettlementSpec
<1>5. CASE "markOrderPaid" \notin EntryPoints
  <2>1. PaidIsCommitted /\ Rest => BookKnown
    BY <1>5 DEF BookKnown
  <2> QED
    BY <1>4, <1>5, <2>1, PaidOrdersAreCommitted, PTL
<1>6. CASE "markOrderPaid" \in EntryPoints
  <2>1. Rest => BookKnown
    BY <1>6 DEF BookKnown
  <2> QED
    BY <1>4, <2>1, PTL
<1> QED
  BY <1>5, <1>6

(* The gateway decides about charges by itself.                            *)
LEMMA ChargeStep ==
    ASSUME OwnTypeOK, [SettlementNext]_settlementVars
    PROVE  \/ UNCHANGED charge
           \/ /\ OrderUnchanged
              /\ \E o \in Orders, result \in ChargeStatus :
                    /\ order[o] # "NONE" /\ charge[o] # "SUCCESS"
                    /\ charge' = [charge EXCEPT ![o] = result]
<1> USE DEF OrderUnchanged, orderVars, restVars
<1> DEFINE Charged == \E o \in Orders, result \in ChargeStatus :
                    /\ order[o] # "NONE" /\ charge[o] # "SUCCESS"
                    /\ charge' = [charge EXCEPT ![o] = result]
<1>1. ASSUME NEW o \in Orders, GatewayNext(o)
      PROVE  UNCHANGED charge \/ (OrderUnchanged /\ Charged)
  BY <1>1 DEF GatewayNext, CustomerPays, ChargeDeclined, GatewayNotifies, ChargeStatus, inventoryVars
<1>2. ASSUME NEW o \in Orders, CustomerNext(o) \/ JobsNext(o) PROVE UNCHANGED charge
  BY <1>2 DEF CustomerNext, PlaceOrder, CancelOrder, MarkOrderPaid, MarkOrderPaymentFailed,
              ExpireOrder, Transition, FinishRelease, FinishCommit, SecondStepLost, VerifyRead,
              VerifyAsk, VerifyApply, VerifyLost, JobsNext, ReconcilePick, ReconcileAsk,
              ReconcileApply, ReconcileLost, InitiatePaymentDone, CompensateInitiatePayment
<1>3. ASSUME NEW e \in Orders \X EventKinds, WebhookNext(e) PROVE UNCHANGED charge
  BY <1>3 DEF WebhookNext, WebhookReceive, WebhookIgnored, WebhookSuspiciousAmount, WebhookSuccess,
              WebhookFailed, WebhookLost, WebhookEnds
<1>4. ASSUME StockNext \/ UNCHANGED settlementVars PROVE UNCHANGED charge
  BY <1>4 DEF StockNext, settlementVars
<1> QED
  BY <1>1, <1>2, <1>3, <1>4 DEF SettlementNext

(* Whoever makes an order PAID knows of its charge, or is markOrderPaid.   *)
LEMMA PaidStep ==
    ASSUME OwnTypeOK, ChargeKnown, [SettlementNext]_settlementVars, NEW q \in Orders,
           order[q] # "PAID", order'[q] = "PAID", ~PaidFirst
    PROVE  charge[q] = "SUCCESS"
<1> USE DEF ChargeKnown, orderVars, OwnTypeOK
<1>1. ASSUME NEW o \in Orders, CustomerNext(o) PROVE charge[q] = "SUCCESS"
  <2>1. ASSUME NEW items \in ItemLists, PlaceOrder(o, items) PROVE FALSE
    BY <2>1 DEF PlaceOrder
  <2>2. ASSUME CancelOrder(o) \/ MarkOrderPaymentFailed(o) \/ ExpireOrder(o) PROVE FALSE
    BY <2>2 DEF CancelOrder, MarkOrderPaymentFailed, ExpireOrder, Transition
  <2>3. ASSUME \/ FinishRelease(o) \/ FinishCommit(o) \/ SecondStepLost(o)
               \/ VerifyRead(o) \/ VerifyAsk(o) \/ VerifyLost(o)
        PROVE  FALSE
    BY <2>3 DEF FinishRelease, FinishCommit, SecondStepLost, VerifyRead, VerifyAsk, VerifyLost
  <2>4. ASSUME VerifyApply(o) PROVE charge[q] = "SUCCESS"
    BY <2>4 DEF VerifyApply
  <2>5. ~MarkOrderPaid(o)
    BY DEF PaidFirst
  <2> QED
    BY <1>1, <2>1, <2>2, <2>3, <2>4, <2>5 DEF CustomerNext
<1>2. ASSUME NEW o \in Orders, GatewayNext(o) PROVE FALSE
  BY <1>2 DEF GatewayNext, CustomerPays, ChargeDeclined, GatewayNotifies
<1>3. ASSUME NEW o \in Orders, JobsNext(o) PROVE charge[q] = "SUCCESS"
  <2>1. ASSUME ReconcileApply(o) PROVE charge[q] = "SUCCESS"
    BY <2>1 DEF ReconcileApply, MarkPaid, MarkUnpaid
  <2>2. ASSUME CompensateInitiatePayment(o) PROVE FALSE
    BY <2>2 DEF CompensateInitiatePayment, MarkUnpaid
  <2> QED
    BY <1>3, <2>1, <2>2 DEF JobsNext, ReconcilePick, ReconcileAsk, ReconcileLost, InitiatePaymentDone
<1>4. ASSUME NEW e \in Orders \X EventKinds, WebhookNext(e) PROVE charge[q] = "SUCCESS"
  <2>1. e[1] \in Orders
    OBVIOUS
  <2>2. ASSUME WebhookSuccess(e) PROVE charge[q] = "SUCCESS"
    BY <2>1, <2>2 DEF WebhookSuccess, WebhookEnds, MarkPaid
  <2>3. ASSUME WebhookFailed(e) PROVE FALSE
    BY <2>1, <2>3 DEF WebhookFailed, MarkUnpaid
  <2> QED
    BY <1>4, <2>2, <2>3
       DEF WebhookNext, WebhookReceive, WebhookIgnored, WebhookSuspiciousAmount, WebhookLost
<1>5. ~StockNext /\ ~UNCHANGED settlementVars
  BY DEF StockNext, settlementVars
<1> QED
  BY <1>1, <1>2, <1>3, <1>4, <1>5 DEF SettlementNext

(* Orders, reservations and charges implement the order book: whoever      *)
(* settles an order, webhook, browser, reconciliation, outbox or sweeper,  *)
(* and however they interleave, crash and repeat, its status, its units    *)
(* and its money change as one machine says they may.                      *)
THEOREM SettlementImplementsOrderBook == SettlementSpec => ImplementsOrderBook
<1> USE DEF Book!bookVars
<1>1. ASSUME SettlementInit PROVE Book!BookInit
  <2>1. Units = [o \in Orders |-> "none"]
    BY <1>1 DEF SettlementInit, InventoryInit, Units, ClaimOf
  <2>2. Captured = [o \in Orders |-> FALSE]
    BY <1>1 DEF SettlementInit, Captured
  <2> QED
    BY <1>1, <2>1, <2>2 DEF Book!BookInit, SettlementInit, Units, Captured
<1>2. ASSUME BookKnown, ChargeKnown, InventoryTypeOK, OwnTypeOK, [SettlementNext]_settlementVars
      PROVE  [Book!BookNext]_(Book!bookVars)
  <2>1. CASE charge' # charge
    <3>1. PICK o \in Orders, result \in ChargeStatus :
             /\ order[o] # "NONE" /\ charge[o] # "SUCCESS"
             /\ charge' = [charge EXCEPT ![o] = result]
      BY <1>2, <2>1, ChargeStep
    <3>2. order' = order /\ reservation' = reservation
      BY <1>2, <2>1, ChargeStep DEF OrderUnchanged
    <3>3. Units' = Units
      BY <3>2 DEF Units
    <3>4. Captured' = [Captured EXCEPT ![o] = (result = "SUCCESS")]
      BY <1>2, <3>1 DEF Captured, OwnTypeOK
    <3>5. Captured[o] = FALSE
      BY <3>1 DEF Captured
    <3>6. CASE result = "SUCCESS"
      <4>1. Book!Capture(o)
        BY <3>1, <3>2, <3>3, <3>4, <3>5, <3>6 DEF Book!Capture, Units, Captured
      <4> QED
        BY <4>1 DEF Book!BookNext
    <3>7. CASE result # "SUCCESS"
      <4>1. Captured' = Captured
        BY <3>4, <3>5, <3>7 DEF Captured
      <4> QED
        BY <3>2, <3>3, <4>1 DEF Units, Captured
    <3> QED
      BY <3>6, <3>7
  <2> SUFFICES ASSUME charge' = charge
               PROVE  [Book!BookNext]_(Book!bookVars)
    BY <2>1
  <2>2. Captured' = Captured
    BY DEF Captured
  <2>3. CASE OrderUnchanged
    <3>1. Units' = Units
      BY <2>3 DEF OrderUnchanged, Units
    <3> QED
      BY <2>2, <2>3, <3>1 DEF OrderUnchanged, Units, Captured
  <2>4. CASE OrderPlaced
    <3>1. PICK o \in Orders, items \in ItemLists :
             /\ order[o] = "NONE" /\ order' = [order EXCEPT ![o] = "PENDING_PAYMENT"]
             /\ ReserveStock(o, items)
      BY <2>4 DEF OrderPlaced
    <3>2. Units[o] = "none"
      BY <3>1 DEF ReserveStock, Units, ClaimOf
    <3>3. Units' = [Units EXCEPT ![o] = "held"]
      <4>1. ClaimOf("ACTIVE") = "held"
        BY DEF ClaimOf
      <4> QED
        BY <1>2, <3>1, <4>1 DEF ReserveStock, Units, InventoryTypeOK
    <3>4. Book!Open(o)
      BY <2>2, <3>1, <3>2, <3>3 DEF Book!Open, Units, Captured
    <3> QED
      BY <3>4 DEF Book!BookNext
  <2>5. CASE PaidFirst
    <3>1. PICK o \in Orders : MarkOrderPaid(o)
      BY <2>5 DEF PaidFirst
    <3>2. Units' = Units
      BY <3>1 DEF MarkOrderPaid, Transition, inventoryVars, Units
    <3>3. Book!MarkPaid(o)
      BY <2>2, <3>1, <3>2 DEF Book!MarkPaid, MarkOrderPaid, Transition, Pending, Units, Captured
    <3> QED
      BY <3>3 DEF Book!BookNext
  <2>6. CASE OrderPaid /\ ~PaidFirst
    <3>1. PICK o \in Orders : /\ Pending(o) /\ order' = [order EXCEPT ![o] = "PAID"]
                             /\ CommitReservation(o)
      BY <2>6 DEF OrderPaid
    <3>2. charge[o] = "SUCCESS"
      BY <1>2, <2>6, <3>1, PaidStep DEF Pending, OwnTypeOK
    <3>3. Units[o] = "held" /\ Units' = [Units EXCEPT ![o] = "sold"]
      BY <1>2, <3>1, UnitsSettle DEF CommitReservation, ClaimOf, ReservationStatus
    <3>4. Book!Pay(o)
      BY <2>2, <3>1, <3>2, <3>3 DEF Book!Pay, Pending, Units, Captured
    <3> QED
      BY <3>4 DEF Book!BookNext
  <2>7. CASE OrderUnpaid
    <3>1. PICK o \in Orders, status \in Unpaid :
             /\ Pending(o) /\ order' = [order EXCEPT ![o] = status]
             /\ ReleaseReservation(o) \/ UNCHANGED reservation
      BY <2>7 DEF OrderUnpaid
    <3>2. \/ Units' = Units
          \/ Units[o] = "held" /\ Units' = [Units EXCEPT ![o] = "returned"]
      <4>1. CASE UNCHANGED reservation
        BY <4>1 DEF Units
      <4>2. CASE Settle(o, "RELEASED")
        BY <1>2, <4>2, UnitsSettle DEF ClaimOf, ReservationStatus
      <4> QED
        BY <3>1, <4>1, <4>2 DEF ReleaseReservation, GiveBack
    <3>3. Book!Close(o, status)
      BY <2>2, <3>1, <3>2 DEF Book!Close, Pending, Units, Captured
    <3>4. status \in Book!Ends
      BY DEF Unpaid, Book!Ends
    <3> QED
      BY <3>3, <3>4 DEF Book!BookNext
  <2>8. CASE ReservationReturned
    <3>1. PICK o \in Orders, status \in {"RELEASED", "EXPIRED"} :
             Settle(o, status) /\ UNCHANGED order
      BY <2>8 DEF ReservationReturned
    <3>2. Units[o] = "held" /\ Units' = [Units EXCEPT ![o] = "returned"]
      BY <1>2, <3>1, UnitsSettle DEF ClaimOf, ReservationStatus
    <3>3. order[o] # "PAID" \/ "markOrderPaid" \in EntryPoints
      BY <3>1 , <1>2 DEF Settle, BookKnown, PaidIsCommitted
    <3>4. Book!GiveBack(o)
      BY <2>2, <3>1, <3>2, <3>3 DEF Book!GiveBack, Units, Captured
    <3> QED
      BY <3>4 DEF Book!BookNext
  <2>9. CASE CommitOwed
    <3>1. PICK o \in Orders : FinishCommit(o)
      BY <2>9 DEF CommitOwed
    <3>2. order[o] = "PAID" /\ "markOrderPaid" \in EntryPoints /\ UNCHANGED order
      BY <1>2, <3>1 DEF FinishCommit, BookKnown, orderVars
    <3>3. Units[o] = "held" /\ Units' = [Units EXCEPT ![o] = "sold"]
      BY <1>2, <3>1, UnitsSettle DEF FinishCommit, CommitReservation, ClaimOf, ReservationStatus
    <3>4. Book!SellAfterwards(o)
      BY <2>2, <3>2, <3>3 DEF Book!SellAfterwards, Units, Captured
    <3> QED
      BY <3>4 DEF Book!BookNext
  <2>10. CASE VerifiedLate
    <3>1. PICK o \in Orders : VerifyApply(o) /\ ~Pending(o)
      BY <2>10 DEF VerifiedLate
    <3>2. Settle(o, "COMMITTED") /\ reservation[o].status = "ACTIVE" /\ UNCHANGED order
      BY <3>1 DEF VerifyApply, CommitReservation, Settle
    <3>3. charge[o] = "SUCCESS"
      BY <1>2, <3>1 DEF VerifyApply, ChargeKnown
    <3>4. Units[o] = "held" /\ Units' = [Units EXCEPT ![o] = "sold"]
      BY <1>2, <3>2, UnitsSettle DEF ClaimOf, ReservationStatus
    <3>5. \/ order[o] = "PAID" /\ "markOrderPaid" \in EntryPoints
          \/ order[o] \in Book!Ends /\ "verify" \in EntryPoints
      BY <1>2, <3>1, <3>2
         DEF BookKnown, PaidIsCommitted, VerifyApply, OwnTypeOK, OrderStatus, Pending, Book!Ends
    <3>6. Book!SellAfterwards(o)
      BY <2>2, <3>2, <3>3, <3>4, <3>5 DEF Book!SellAfterwards, Units, Captured
    <3> QED
      BY <3>6 DEF Book!BookNext
  <2> QED
    BY <1>2, <2>3, <2>4, <2>5, <2>6, <2>7, <2>8, <2>9, <2>10, OrderStep
<1>3. SettlementSpec => []InventoryTypeOK
  BY SettlementImplementsInventory, InventoryTypeCorrect DEF ImplementsInventory
<1>4. SettlementInit => ChargeKnown
  BY DEF SettlementInit, ChargeKnown
<1>5. SettlementSpec => []ChargeKnown
  BY <1>4, ChargeKnownStep, OwnTypeCorrect, PTL DEF SettlementSpec
<1> QED
  BY <1>1, <1>2, <1>3, <1>5, BookKnownHolds, OwnTypeCorrect, PTL
     DEF SettlementSpec, ImplementsOrderBook, Book!BookSpec

(* No unit is sold without captured money, by any handler or job of any    *)
(* deployment without markOrderPaid.  The order book says so whoever sells,*)
(* and Settlement keeps to the book.                                       *)
THEOREM SoldUnitsWereCharged ==
    ASSUME "markOrderPaid" \notin EntryPoints
    PROVE  SettlementSpec => []SoldWasCharged
<1> DEFINE SoldIsCaptured == \A o \in Orders : Units[o] = "sold" => Captured[o]
<1>1. SettlementInit => SoldIsCaptured
  BY DEF SettlementInit, InventoryInit, Units, ClaimOf
<1>2. ASSUME SoldIsCaptured, [Book!BookNext]_(Book!bookVars) PROVE SoldIsCaptured'
  <2> SUFFICES ASSUME NEW q \in Orders, Units'[q] = "sold" PROVE Captured'[q]
    OBVIOUS
  <2>1. Units[q] = "sold" => Captured[q]
    BY <1>2
  <2>2. CASE UNCHANGED Book!bookVars
    BY <2>1, <2>2 DEF Book!bookVars, Units, Captured
  <2>3. ASSUME NEW o \in Orders, Units' = [Units EXCEPT ![o] = "held"] \/ Units' = [Units EXCEPT ![o] = "returned"],
               Captured' = Captured
        PROVE  Captured'[q]
    BY <2>1, <2>3 DEF Units
  <2>4. ASSUME NEW o \in Orders, Units' = [Units EXCEPT ![o] = "sold"], Captured[o],
               Captured' = Captured
        PROVE  Captured'[q]
    BY <2>1, <2>4 DEF Units
  <2>5. ASSUME NEW o \in Orders, Book!Capture(o) PROVE Captured'[q]
    <3>1. Units' = Units /\ Captured' = [Captured EXCEPT ![o] = TRUE]
      BY <2>5 DEF Book!Capture, Units, Captured
    <3> QED
      BY <2>1, <3>1 DEF Captured
  <2>6. ASSUME NEW o \in Orders, Book!Open(o) \/ Book!GiveBack(o) PROVE Captured'[q]
    BY <2>3, <2>6 DEF Book!Open, Book!GiveBack, Units, Captured
  <2>7. ASSUME NEW o \in Orders, NEW end, Book!Close(o, end) PROVE Captured'[q]
    <3>1. /\ Units' = Units \/ Units' = [Units EXCEPT ![o] = "returned"]
          /\ Captured' = Captured
      BY <2>7 DEF Book!Close, Units, Captured
    <3> QED
      BY <2>1, <2>3, <3>1
  <2>8. ASSUME NEW o \in Orders, Book!Pay(o) \/ Book!SellAfterwards(o) PROVE Captured'[q]
    BY <2>4, <2>8 DEF Book!Pay, Book!SellAfterwards, Units, Captured
  <2>9. ~\E o \in Orders : Book!MarkPaid(o)
    BY DEF Book!MarkPaid
  <2> QED
    BY <1>2, <2>2, <2>5, <2>6, <2>7, <2>8, <2>9 DEF Book!BookNext
<1>3. SoldIsCaptured => SoldWasCharged
  BY DEF SoldWasCharged, Units, Captured, ClaimOf
<1> QED
  BY <1>1, <1>2, <1>3, SettlementImplementsOrderBook, PTL
     DEF SettlementSpec, ImplementsOrderBook, Book!BookSpec
=============================================================================
