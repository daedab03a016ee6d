SPECIFICATION FairSettlementSpec
CONSTANTS
    tea = tea
    Products = {tea}
    Orders = {o1}
    MaxQty = 1
    ItemLists <- MCItemLists
    InitialStock <- MCInitialStock
    AdminLevels = {0}
    EntryPoints = {"cancelOrder", "markOrderPaid", "markOrderPaymentFailed", "expireOrder", "webhook", "reconcile", "outbox", "sweeper"}
    Sweepers = {s1}
    BatchSize = 1
    EventKinds = {"charge.success", "charge.failed", "other"}
    ChargeResults = {"SUCCESS", "MISMATCH"}
    GatewayRetries = TRUE
    LiveVerify = FALSE
INVARIANTS
    SoldIsPaid
PROPERTIES
    UnpaidGivesBack
    OnlyRecountOversells
CHECK_DEADLOCK FALSE
