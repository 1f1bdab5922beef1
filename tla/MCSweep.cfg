CONSTANTS
    o1 = o1
    o2 = o2
    o3 = o3
    h1 = h1
    Sweeper = Sweeper
    NoOrder = NoOrder
    Orders = {o1, o2, o3}
    Handlers = {h1}
    Batch = 1
    Fates <- MCFates
    MaxFaults = 2
SPECIFICATION Spec
INVARIANTS
    TypeOK
    ToldTheTruth
    ToldOnce
PROPERTIES
    NobodyStarves
    TakenUp
