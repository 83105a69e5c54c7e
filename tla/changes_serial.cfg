CONSTANTS
    o1 = o1
    o2 = o2
    r1 = r1
    r2 = r2
    r3 = r3
    NoKey = NoKey
    Orders <- TwoOrders
    Requests <- ThreeRequests
    MaxQty = 3
    Capacity = 4
    Ops <- AllOps
    Overlap = FALSE
    Crashes = TRUE
SYMMETRY ChangeSymmetry
SPECIFICATION Spec
INVARIANTS
    TypeOK
    DbBooksBalance
    BooksAgreeAtRest
    InFlightLedger
    CrashNeverOversells
    LiveStatusAgrees
PROPERTIES
    CancelledStays
CHECK_DEADLOCK FALSE
