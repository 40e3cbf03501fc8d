SPECIFICATION FairSpec
CONSTANTS
    Ports <- ThreePorts
    MaxFailSafe = 2
    InboxMax = 2
    Kinds <- AllKinds
    NetworkOrder = FALSE
    Faults = TRUE
INVARIANTS
    TypeOK
    ConfirmedIsOpened
PROPERTIES
    ImplementsFireSpec
    ListIsWorkedOff
    FireHeard
CHECK_DEADLOCK FALSE
