SPECIFICATION FairSpec
CONSTANTS
    c1 = c1
    c2 = c2
    c3 = c3
    NoConn = NoConn
    Conns = {c1, c2, c3}
    FdLimit = 3
    MechInits <- ThreadUp
    Spurious = FALSE
PROPERTIES
    ToldWhenThere
    EmergencyOpens
    PeerIsServed
    ImplementsFairDoorSpec
CHECK_DEADLOCK FALSE
