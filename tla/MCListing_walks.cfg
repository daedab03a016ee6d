SPECIFICATION ListingSpec
CONSTANTS
    Products = {1, 2, 3}
    Times = {1, 2}
    Prices = {1, 2}
    Limit = 1
INVARIANTS
    NoneTwice
    NoneMissed
