SPECIFICATION FairCacheSpec
CONSTANTS
    Products = {tea}
    Readers = {r1, r2}
    Admins = {a1, a2}
    Prices = {1, 2}
    StockBands = {"in_stock", "out_of_stock"}
    MaxEdits = 2
INVARIANTS
    StaleHasReason
    PagesAreCurrent
PROPERTIES
    PriceChangesShow
    GoneIsForgotten
CHECK_DEADLOCK FALSE
