SPECIFICATION CheckoutSpec
CONSTANTS
    Requests = {r1, r2}
    Keys = {k1, k2}
    Prices = {1, 2}
    MaxQty = 2
    MaxStock = 2
SYMMETRY Symmetry
INVARIANTS
    OneOrderPerKey
    SuccessesAgree
    PricedAsReserved
PROPERTIES
    ImplementsKeyedOrders
