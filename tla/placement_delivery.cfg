CONSTANTS
    o1 = o1
    o2 = o2
    o3 = o3
    NoKey = NoKey
    Orders <- TwoOrders
    MaxQty = 2
    Capacity = 3
    Prefetch = 1
    Faults <- PublishFaults
SPECIFICATION FairSpec
PROPERTIES
    AcceptedPersisted
    ImplementsFairLedger
CHECK_DEADLOCK FALSE
