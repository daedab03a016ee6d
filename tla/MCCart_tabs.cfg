SPECIFICATION CartSpec
CONSTANTS
    Products = {tea, mug}
    Calls = {c1, c2, c3}
    MaxItems = 2
    MaxQty = 3
SYMMETRY CallSymmetry
INVARIANTS
    CapWithinRace
    SplitWithinRace
    ExactUnlessRaced
