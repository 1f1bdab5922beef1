CONSTANTS
    o1 = o1
    o2 = o2
    c1 = c1
    h1 = h1
    h2 = h2
    t1 = t1
    t2 = t2
    t3 = t3
    Sweeper = Sweeper
    NoOrder = NoOrder
    NoSale = NoSale
    Orders = {o1}
    Counter = {c1}
    Handlers = {h1, h2}
    SaleIds = {t1, t2}
    Qty <- MCQty
    InitialStock = 1
    Prices = {1}
    SyncSettle = TRUE
    LostResponse = TRUE
    MaxFaults = 2
CHECK_DEADLOCK FALSE
SPECIFICATION Spec
SYMMETRY MCSymmetry
INVARIANTS
    TypeOK
    SoldOnlyIfPaid
