SPECIFICATION FairSpec
CONSTANTS
    c1 = c1
    c2 = c2
    c3 = c3
    NoConn = NoConn
    Conns = {c1, c2}
    FdLimit = 2
    MechInits <- Detached
    Spurious = FALSE
PROPERTY EmergencyOpens
CHECK_DEADLOCK FALSE
