CONSTANTS
    o1 = o1
    o2 = o2
    c1 = c1
    h1 = h1
    h2 = h2
    t1 = t1
    t2 = t2
    t3 = t3
    Sweeper = Sweeper
    NoOrder = NoOrder
    NoSale = NoSale
    Orders = {o1}
    Counter = {o1}
    Handlers = {h1, h2}
    SaleIds = {t1, t2, t3}
    Qty <- MCQty
    InitialStock = 2
    Prices = {1, 2}
    SyncSettle = TRUE
    LostResponse = FALSE
    MaxFaults = 0
SPECIFICATION Spec
CHECK_DEADLOCK FALSE
INVARIANT NothingLost
