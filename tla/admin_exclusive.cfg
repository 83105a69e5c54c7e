CONSTANTS
    o1 = o1
    o2 = o2
    r1 = r1
    r2 = r2
    a1 = a1
    a2 = a2
    NoKey = NoKey
    Orders <- TwoOrders
    MaxQty = 2
    Capacity = 2
    Prefetch = 2
    Faults <- KeyLoss
    Requests <- OneRequest
    Ops <- Customers
    Overlap = FALSE
    Admins <- TwoAdmins
    Crashes = TRUE
    AdminCrashes = TRUE
    Settled = TRUE
    Exclusive = TRUE
SYMMETRY SystemSymmetry
SPECIFICATION SystemSpec
INVARIANTS
    SystemTypeOK
    DbBooksBalance
    BooksAgreeWhenQuiet
    LiveStatusWhenQuiet
    CrashLeavesFewer
    RefusedOnlyDuringGiveBack
CHECK_DEADLOCK FALSE
