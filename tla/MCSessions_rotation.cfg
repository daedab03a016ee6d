SPECIFICATION SessionsSpec
CONSTANTS
    u1 = u1
    Users = {u1}
    Families = {f1, f2}
    Owner <- OneOwner
    Calls = {c1, c2}
    MaxRotations = 1
    MaxVersion = 2
SYMMETRY SessionSymmetry
CHECK_DEADLOCK FALSE
INVARIANTS
    OneCredential
    LoggedOutEverywhere
PROPERTIES
    ClosedForGood
