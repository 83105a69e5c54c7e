CONSTANTS
    o1 = o1
    o2 = o2
    o3 = o3
    NoKey = NoKey
    Orders <- TwoOrders
    MaxQty = 1
    Capacity = 2
    Prefetch = 2
    Faults <- NotifyFailure
SPECIFICATION FairSpec
PROPERTIES
    NotificationHarmless
CHECK_DEADLOCK FALSE
