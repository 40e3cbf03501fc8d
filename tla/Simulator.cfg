SPECIFICATION FairSpec
CONSTANTS
    Files <- AllFiles
    MaxReaders = 2
    MaxDoors = 2
    MaxPoints = 1
    Spurious = TRUE
INVARIANTS
    TypeOK
    SlotsFit
    PeersKnown
    CleanEnd
PROPERTIES
    ComesToAnEnd
CHECK_DEADLOCK FALSE
