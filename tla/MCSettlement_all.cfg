SPECIFICATION SettlementSpec
CONSTANTS
    tea = tea
    Products = {tea}
    Orders = {o1}
    MaxQty = 1
    ItemLists <- MCItemLists
    InitialStock <- MCInitialStock
    AdminLevels = {}
    EntryPoints = {"cancelOrder", "webhook", "verify", "reconcile", "outbox", "worker", "sweeper"}
    Sweepers = {s1}
    BatchSize = 1
    EventKinds = {"charge.success", "charge.failed"}
    ChargeResults = {"SUCCESS", "MISMATCH"}
    GatewayRetries = TRUE
    LiveVerify = TRUE
INVARIANTS
    PaidIsCommitted
    PaidWasCharged
    ReportedMoneyIsOnRecord
    NoReportIsDropped
    OpenOrdersKeepStock
PROPERTIES
    SettledForGood
    ImplementsInventory
    ImplementsOrderBook
    CapturedOrdersFailLate
CHECK_DEADLOCK FALSE
