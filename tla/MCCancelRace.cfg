CONSTANTS
    c1 = c1
    c2 = c2
    d1 = d1
    d2 = d2
    d3 = d3
    t1 = t1
    t2 = t2
    w1 = w1
    w2 = w2
    k1 = k1
    k2 = k2
    BlankKey = BlankKey
    NoKey = NoKey
    NoCustomer = NoCustomer
    NoDebt = NoDebt
    NoSale = NoSale
    Customers = {c1}
    DebtIds = {d1, d2}
    SaleIds = {t1}
    Workers = {w1, w2}
    Amounts = {1, 2}
    Nominals = {1, 2}
    Keys = {k1}
    MaxTxRetries = 3
    MaxTotal = 3
    MaxFaults = 0
SPECIFICATION Spec
CHECK_DEADLOCK FALSE
INVARIANTS
    LedgerBalances
