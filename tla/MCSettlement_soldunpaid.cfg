SPECIFICATION SettlementSpec
CONSTANTS
    tea = tea
    Products = {tea}
    Orders = {o1}
    MaxQty = 1
    ItemLists <- MCItemLists
    InitialStock <- MCInitialStock
    AdminLevels = {}
    EntryPoints = {"cancelOrder", "verify"}
    Sweepers = {s1}
    BatchSize = 1
    EventKinds = {"charge.success", "charge.failed"}
    ChargeResults = {"SUCCESS"}
    GatewayRetries = FALSE
    LiveVerify = TRUE
INVARIANTS
    SoldIsPaid
CHECK_DEADLOCK FALSE
