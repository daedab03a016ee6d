SPECIFICATION FairInventorySpec
CONSTANTS
    tea = tea
    mug = mug
    Products = {tea, mug}
    Orders = {o1, o2}
    MaxQty = 2
    ItemLists <- MCItemLists
    InitialStock <- MCInitialStock
    AdminLevels = {}
    EntryPoints = {"worker", "sweeper"}
    Sweepers = {s1, s2}
    BatchSize = 1
INVARIANTS
    ReservedIsHeld
    SoldLeftTheShelf
    StockBound
PROPERTIES
    ImplementsLedger
    DueReservationsSettle
CHECK_DEADLOCK FALSE
