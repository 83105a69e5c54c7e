CONSTANTS
    o1 = o1
    o2 = o2
    r1 = r1
    r2 = r2
    a1 = a1
    a2 = a2
    NoKey = NoKey
    Orders <- TwoOrders
    MaxQty = 1
    Capacity = 1
    Prefetch = 2
    Faults <- NoFaults
    Requests <- OneRequest
    Ops <- Cancellations
    Overlap = FALSE
    Admins <- NoAdmin
    Crashes = FALSE
    AdminCrashes = FALSE
    Settled = FALSE
    Exclusive = FALSE
SYMMETRY SystemSymmetry
SPECIFICATION SystemSpec
INVARIANTS
    WorkerNeverRefused
CHECK_DEADLOCK FALSE
