CONSTANTS
    w1 = w1
    w2 = w2
    NoOne = NoOne
    NoSku = NoSku
    Skus = {1, 2}
    Ids = {1, 2, 3}
    Files <- MCFiles
    MaxRows = 5
    Limit = 1
    Directions = {TRUE, FALSE}
    Importers = {w1, w2}
    MaxTime = 2
    MaxTrouble = 1
SPECIFICATION Spec
SYMMETRY MCSymmetry
CHECK_DEADLOCK FALSE
INVARIANTS
    TypeOK
    ReportAccounts
    ImportsDontBlock
    WalkComplete
