SPECIFICATION Spec
CONSTANTS
    c1 = c1
    c2 = c2
    c3 = c3
    NoConn = NoConn
    Conns = {c1, c2, c3}
    FdLimit = 2
    MechInits <- AllMechs
    Spurious = TRUE
SYMMETRY ConnSymmetry
INVARIANTS
    TypeOK
    EmergencyIsFinal
    CachedNeverStale
    AnswersFit
    NoneForgotten
    NoOtherLeak
PROPERTIES
    ImplementsDoorSpec
    WakeupNotLost
    ToldWhenThere
CHECK_DEADLOCK FALSE
