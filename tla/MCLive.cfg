CONSTANTS
    o1 = o1
    o2 = o2
    c1 = c1
    h1 = h1
    h2 = h2
    t1 = t1
    t2 = t2
    t3 = t3
    Sweeper = Sweeper
    NoOrder = NoOrder
    NoSale = NoSale
    Orders = {o1, o2}
    Counter = {}
    Handlers = {h1}
    SaleIds = {t1, t2}
    Qty <- MCQty
    InitialStock = 3
    Prices = {1}
    SyncSettle = FALSE
    LostResponse = TRUE
    MaxFaults = 1
CHECK_DEADLOCK FALSE
SPECIFICATION FairSpec
PROPERTIES
    SettledIsSold
    ChargeResolves
