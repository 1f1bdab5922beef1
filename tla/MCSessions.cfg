CONSTANTS
    p1 = p1
    p2 = p2
    p3 = p3
    w1 = w1
    w2 = w2
    NoPair = NoPair
    Pairs = {p1, p2, p3}
    Workers = {w1, w2}
    MaxFaults = 2
SPECIFICATION Spec
SYMMETRY MCSymmetry
CHECK_DEADLOCK FALSE
INVARIANTS
    TypeOK
    OneRefreshToken
    LoggedOutStaysOut
    LogoutEndsLogin
    DamageBounded
PROPERTIES
    SpentStaysSpent
