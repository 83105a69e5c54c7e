CONSTANTS
    o1 = o1
    o2 = o2
    o3 = o3
    NoKey = NoKey
    Orders <- ThreeOrders
    MaxQty = 2
    Capacity = 3
    Prefetch = 2
    Faults <- CleanPublish
SYMMETRY OrderSymmetry
SPECIFICATION Spec
INVARIANTS
    WorkerNeverRefused
    ConfirmedHasUnits
CHECK_DEADLOCK FALSE
