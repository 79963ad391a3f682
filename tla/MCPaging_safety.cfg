SPECIFICATION Spec
CONSTANTS
    w1 = w1  w2 = w2  w3 = w3  w4 = w4
    Rows = {w1, w2, w3, w4}
    PageSize = 2
    Lists = {"logins", "predictions", "users"}
    MaxTime = 6
SYMMETRY Symmetry
INVARIANTS
    TypeOK
    NoneMissed
    TwiceExplained
    ListWithinCount
