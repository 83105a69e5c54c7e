CONSTANTS
    o1 = o1
    o2 = o2
    r1 = r1
    r2 = r2
    a1 = a1
    a2 = a2
    NoKey = NoKey
    Orders <- TwoOrders
    MaxQty = 1
    Capacity = 1
    Prefetch = 2
    Faults <- NoFaults
    Requests <- NoRequest
    Ops <- Customers
    Overlap = FALSE
    Admins <- OneAdmin
    Crashes = FALSE
    AdminCrashes = FALSE
    Settled = FALSE
    Exclusive = FALSE
SYMMETRY SystemSymmetry
SPECIFICATION SystemSpec
INVARIANTS
    NotOversold
CHECK_DEADLOCK FALSE
