------------------------------ MODULE Inventory ------------------------------
(***************************************************************************)
(* Stock reservations: the inventory and reservations collections and      *)
(* every operation of modules/inventory that writes them.                  *)
(*                                                                         *)
(* A MongoDB transaction is one action: its writes commit together or not  *)
(* at all, and a transaction that fails (write conflict, throw) leaves the *)
(* state as it was.  What is NOT one transaction is several actions: a     *)
(* sweep reads its candidates, then runs one transaction per candidate,    *)
(* and anything may happen in between.                                     *)
(*                                                                         *)
(* A product without an inventory document is a document with no units:    *)
(* both refuse every reservation.                                          *)
(***************************************************************************)
EXTENDS Integers, FiniteSets

CONSTANTS
    Products, Orders,
    MaxQty,        \* bound: the largest quantity of one product in an order
    ItemLists,     \* the quantities, per product, that a reservation may ask for
    InitialStock,  \* onHand of each product when the shop opens
    AdminLevels,   \* the values an administrator may set onHand to
    EntryPoints,   \* the handlers and background jobs this deployment runs
    Sweepers,      \* sweeps that may overlap (one per tick and per instance)
    BatchSize      \* a sweep stops after expiring this many reservations

ASSUME InventoryAssumption ==
    /\ MaxQty \in Nat
    /\ ItemLists \subseteq [Products -> 0..MaxQty]
    /\ InitialStock \in [Products -> Nat]
    /\ AdminLevels \subseteq Nat
    /\ BatchSize \in Nat \ {0}

VARIABLES
    inventory,     \* the inventory documents: onHand and reserved per product
    reservation,   \* the reservation document of each order; NONE: not created
    due,           \* orders whose reservation is past its expiresAt
    expiryJobs,    \* the delayed expiry job of each order: none, queued, done
    cursor,        \* the candidates a running sweep still has to visit
    swept          \* totalExpired of a running sweep

inventoryVars == <<inventory, reservation, due, expiryJobs, cursor, swept>>

NoItems == [p \in Products |-> 0]

ReservationStatus == {"NONE", "ACTIVE", "COMMITTED", "RELEASED", "EXPIRED"}

Available(p) == inventory[p].onHand - inventory[p].reserved

InventoryInit ==
    /\ inventory = [p \in Products |-> [onHand |-> InitialStock[p], reserved |-> 0]]
    /\ reservation = [o \in Orders |-> [status |-> "NONE", items |-> NoItems]]
    /\ due = {}
    /\ expiryJobs = [o \in Orders |-> "none"]
    /\ cursor = [s \in Sweepers |-> {}]
    /\ swept = [s \in Sweepers |-> 0]

-----------------------------------------------------------------------------
(* The transactions' writes, for callers that run them in a session of     *)
(* their own together with writes to other collections.                    *)

(* The $inc of every item: dOnHand and dReserved units per unit asked for. *)
Increment(items, dOnHand, dReserved) ==
    [p \in Products |->
        [onHand   |-> inventory[p].onHand + dOnHand * items[p],
         reserved |-> inventory[p].reserved + dReserved * items[p]]]

(* Mutant: a read that checks the status, then a write that does not.      *)
SettleByIdOnly(o, status) ==
    /\ reservation[o].status # "NONE"
    /\ reservation' = [reservation EXCEPT ![o].status = status]

(* The compare-and-set on { orderId, status: 'ACTIVE' }.                   *)
Settle(o, status) ==
    /\ reservation[o].status = "ACTIVE"
    /\ reservation' = [reservation EXCEPT ![o].status = status]

(* Mutant: the stock was looked at before, and the $inc has no condition.  *)
ReserveStockUnconditional(o, items) ==
    /\ reservation[o].status = "NONE"
    /\ inventory' = Increment(items, 0, 1)
    /\ reservation' = [reservation EXCEPT ![o] = [status |-> "ACTIVE", items |-> items]]

(* One conditional $inc per item; a single item that does not fit aborts   *)
(* the transaction, so all guards are conjuncts.  The unique orderId       *)
(* refuses a second reservation of an order.                               *)
ReserveStock(o, items) ==
    /\ reservation[o].status = "NONE"
    /\ \A p \in Products : items[p] > 0 => Available(p) >= items[p]
    /\ inventory' = Increment(items, 0, 1)
    /\ reservation' = [reservation EXCEPT ![o] = [status |-> "ACTIVE", items |-> items]]

(* Mutant: a commit that only takes the units off the shelf.               *)
CommitReservationOnHand(o) ==
    /\ Settle(o, "COMMITTED")
    /\ inventory' = Increment(reservation[o].items, -1, 0)

CommitReservation(o) ==
    /\ Settle(o, "COMMITTED")
    /\ inventory' = Increment(reservation[o].items, -1, -1)

GiveBack(o, status) ==
    /\ Settle(o, status)
    /\ inventory' = Increment(reservation[o].items, 0, -1)

(* Silently does nothing when the reservation is not ACTIVE any more.      *)
ReleaseReservation(o) ==
    IF reservation[o].status = "ACTIVE"
    THEN GiveBack(o, "RELEASED")
    ELSE UNCHANGED <<inventory, reservation>>

ExpireReservation(o) ==
    IF reservation[o].status = "ACTIVE" /\ o \in due
    THEN GiveBack(o, "EXPIRED")
    ELSE UNCHANGED <<inventory, reservation>>

-----------------------------------------------------------------------------
(* Time, administrators and background jobs.                               *)

jobVars == <<due, expiryJobs, cursor, swept>>

TtlElapses(o) ==
    /\ reservation[o].status # "NONE"
    /\ o \notin due
    /\ due' = due \union {o}
    /\ UNCHANGED <<inventory, reservation, expiryJobs, cursor, swept>>

(* Best effort: a Redis failure is logged and no job exists.  The job id   *)
(* is derived from the orderId, so an order has at most one job, ever.     *)
ScheduleReservationExpiry(o) ==
    /\ reservation[o].status # "NONE"
    /\ expiryJobs[o] = "none"
    /\ expiryJobs' = [expiryJobs EXCEPT ![o] = "queued"]
    /\ UNCHANGED <<inventory, reservation, due, cursor, swept>>

(* The delay of a job starts after expiresAt was computed, so a job that   *)
(* fires finds its reservation due.                                        *)
ExpireSingleReservation(o) ==
    /\ "worker" \in EntryPoints
    /\ expiryJobs[o] = "queued" /\ o \in due
    /\ ExpireReservation(o)
    /\ expiryJobs' = [expiryJobs EXCEPT ![o] = "done"]
    /\ UNCHANGED <<due, cursor, swept>>

(* The job's transaction throws, or Redis loses it: jobs are not retried.  *)
ExpiryJobLost(o) ==
    /\ expiryJobs[o] = "queued"
    /\ expiryJobs' = [expiryJobs EXCEPT ![o] = "done"]
    /\ UNCHANGED <<inventory, reservation, due, cursor, swept>>

(* Mutant: the sweeper's cursor looks for a status nothing due has.        *)
SweepStartWrongStatus(s) ==
    LET expired == {o \in due : reservation[o].status = "EXPIRED"} IN
    /\ "sweeper" \in EntryPoints
    /\ cursor[s] = {} /\ expired # {}
    /\ cursor' = [cursor EXCEPT ![s] = expired]
    /\ UNCHANGED <<inventory, reservation, due, expiryJobs, swept>>

(* A sweep reads the ACTIVE reservations past its own `now`.               *)
SweepStart(s) ==
    LET expired == {o \in due : reservation[o].status = "ACTIVE"} IN
    /\ "sweeper" \in EntryPoints
    /\ cursor[s] = {} /\ expired # {}
    /\ cursor' = [cursor EXCEPT ![s] = expired]
    /\ UNCHANGED <<inventory, reservation, due, expiryJobs, swept>>

(* One candidate, in a transaction of its own: by now it may be settled.   *)
SweepOne(s, o) ==
    LET expires == reservation[o].status = "ACTIVE" /\ o \in due
        total   == swept[s] + (IF expires THEN 1 ELSE 0)
        rest    == IF total >= BatchSize THEN {} ELSE cursor[s] \ {o}
    IN  /\ o \in cursor[s]
        /\ ExpireReservation(o)
        /\ cursor' = [cursor EXCEPT ![s] = rest]
        /\ swept' = [swept EXCEPT ![s] = IF rest = {} THEN 0 ELSE total]
        /\ UNCHANGED <<due, expiryJobs>>

(* A transaction that throws ends the sweep, and so does a crash.          *)
SweepFails(s) ==
    /\ cursor[s] # {}
    /\ cursor' = [cursor EXCEPT ![s] = {}]
    /\ swept' = [swept EXCEPT ![s] = 0]
    /\ UNCHANGED <<inventory, reservation, due, expiryJobs>>

(* The administrator's number replaces onHand, whatever is reserved.       *)
UpsertInventory(p, onHand) ==
    /\ inventory' = [inventory EXCEPT ![p].onHand = onHand]
    /\ UNCHANGED <<reservation, jobVars>>

-----------------------------------------------------------------------------
BackgroundNext ==
    \/ \E o \in Orders : \/ TtlElapses(o)
                         \/ ExpireSingleReservation(o)
                         \/ ExpiryJobLost(o)
    \/ \E s \in Sweepers : \/ SweepStart(s)
                           \/ \E o \in Orders : SweepOne(s, o)
                           \/ SweepFails(s)
    \/ \E p \in Products, onHand \in AdminLevels : UpsertInventory(p, onHand)

(* The component by itself: any caller, in any order.                      *)
InventoryNext ==
    \/ BackgroundNext
    \/ \E o \in Orders :
          \/ \E items \in ItemLists : ReserveStock(o, items) /\ UNCHANGED jobVars
          \/ CommitReservation(o) /\ UNCHANGED jobVars
          \/ ReleaseReservation(o) /\ UNCHANGED jobVars
          \/ ScheduleReservationExpiry(o)

InventorySpec == InventoryInit /\ [][InventoryNext]_inventoryVars

(* The interval timer keeps starting sweeps, and a transaction that is     *)
(* attempted again and again is not aborted every time.                    *)
SweepFairness ==
    \A s \in Sweepers : /\ WF_inventoryVars(SweepStart(s))
                        /\ \A o \in Orders : SF_inventoryVars(SweepOne(s, o))

FairInventorySpec == InventorySpec /\ SweepFairness

-----------------------------------------------------------------------------
InventoryTypeOK ==
    /\ inventory \in [Products -> [onHand : Int, reserved : Int]]
    /\ reservation \in [Orders -> [status : ReservationStatus,
                                   items : [Products -> 0..MaxQty]]]
    /\ due \subseteq Orders
    /\ expiryJobs \in [Orders -> {"none", "queued", "done"}]
    /\ cursor \in [Sweepers -> SUBSET Orders]
    /\ swept \in [Sweepers -> 0..(BatchSize - 1)]

(* The units of p that reservations in this status account for, one pair   *)
(* per unit.                                                               *)
UnitsIn(status, p) ==
    {u \in Orders \X (1..MaxQty) : /\ reservation[u[1]].status = status
                                   /\ u[2] <= reservation[u[1]].items[p]}

(* The reserved counter is exactly what the ACTIVE reservations hold: no   *)
(* path gives the same units back twice, or forgets to.                    *)
ReservedIsHeld ==
    \A p \in Products : inventory[p].reserved = Cardinality(UnitsIn("ACTIVE", p))

(* Without stock adjustments, every unit of the opening stock is on the    *)
(* shelf or was sold by exactly one committed reservation.                 *)
SoldLeftTheShelf ==
    \A p \in Products :
        inventory[p].onHand + Cardinality(UnitsIn("COMMITTED", p)) = InitialStock[p]

(* DESIGN.md 1.3, first invariant: for every SKU, 0 <= reserved <= onHand. *)
(* invariant-checker.ts reports a violation of it.                         *)
StockBound ==
    \A p \in Products : /\ 0 <= inventory[p].reserved
                        /\ inventory[p].reserved <= inventory[p].onHand

(* Orders never oversell: more units are reserved than exist only after an *)
(* administrator lowered onHand below what is reserved.                    *)
OnlyRecountOversells ==
    [][\A p \in Products :
          Available(p) >= 0 /\ Available(p)' < 0
              => \E onHand \in AdminLevels : UpsertInventory(p, onHand)]_inventoryVars

(* The sweeper recovers every reservation past its TTL, whatever crashed   *)
(* or failed on the way.                                                   *)
DueReservationsSettle ==
    \A o \in Orders :
        (o \in due /\ reservation[o].status = "ACTIVE") ~> reservation[o].status # "ACTIVE"

(* The ledger of the orders' claims that the two counters implement.       *)
ClaimOf(status) ==
    CASE status = "NONE" -> "none"
      [] status = "ACTIVE" -> "held"
      [] status = "COMMITTED" -> "sold"
      [] OTHER -> "returned"

Ledger == INSTANCE StockLedger
            WITH free  <- [p \in Products |-> Available(p)],
                 claim <- [o \in Orders |-> [state |-> ClaimOf(reservation[o].status),
                                             items |-> reservation[o].items]]

(* Every reservation is taken from free units, and settled once.           *)
ImplementsLedger == Ledger!LedgerSpec
=============================================================================
