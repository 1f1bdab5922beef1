CONSTANTS
    w1 = w1
    w2 = w2
    s1 = s1
    s2 = s2
    o1 = o1
    NoWorker = NoWorker
    NoInvoice = NoInvoice
    Products = {1, 2, 3}
    Digital = {3}
    Sales = {s1, s2}
    Orders = {o1}
    Workers = {w1, w2}
    Carts <- MCCarts
    Deltas <- MCDeltas
    InitialStock = 4
    MaxEdits = 1
    MaxFaults = 1
SPECIFICATION Spec
SYMMETRY MCSymmetry
CHECK_DEADLOCK FALSE
INVARIANTS
    TypeOK
    StockAccounted
    CirclesNeedPrepaid
PROPERTIES
    DigitalUntouched
