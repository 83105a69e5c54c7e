CONSTANTS
    o1 = o1
    o2 = o2
    r1 = r1
    r2 = r2
    r3 = r3
    NoKey = NoKey
    Orders <- OneOrder
    Requests <- TwoRequests
    MaxQty = 2
    Capacity = 2
    Ops <- Cancellations
    Overlap = TRUE
    Crashes = FALSE
SYMMETRY ChangeSymmetry
SPECIFICATION Spec
INVARIANTS
    SecondCancelRefused
CHECK_DEADLOCK FALSE
