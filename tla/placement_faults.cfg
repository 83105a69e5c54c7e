CONSTANTS
    o1 = o1
    o2 = o2
    o3 = o3
    NoKey = NoKey
    Orders <- TwoOrders
    MaxQty = 2
    Capacity = 3
    Prefetch = 2
    Faults <- FaultKinds
SYMMETRY OrderSymmetry
SPECIFICATION Spec
INVARIANTS
    TypeOK
    StockConserved
    AcceptedFit
    AcceptedNotLost
    DbBooksBalance
    SoldAtMostOnce
    ConfirmedIsSold
PROPERTIES
    LiveStatusForward
    ImplementsLedger
CHECK_DEADLOCK FALSE
