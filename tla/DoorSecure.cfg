SPECIFICATION Spec
CONSTANTS
    c1 = c1
    c2 = c2
    c3 = c3
    NoConn = NoConn
    Conns = {c1, c2}
    FdLimit = 2
    MechInits <- ThreadUp
    Spurious = FALSE
INVARIANT SecureIsNamed
CHECK_DEADLOCK FALSE
