SPECIFICATION FairSpec
CONSTANTS
    d1 = d1
    d2 = d2
    d3 = d3
    d4 = d4
    s1 = s1
    r1 = r1
    o1 = o1
    SafeDoors = {d1, d2}
    SecureDoors = {s1}
    Readers = {r1}
    Others = {o1}
    Unit = Unit
    NoDoor = NoDoor
    MaxDoors = 2
    MaxThreads = 3
    Lossy = TRUE
    Faults = TRUE
INVARIANTS
    TypeOK
    ExitIsClean
PROPERTIES
    ImplementsRegistry
    SavedGoToUnit
    DoorServed
    FirstSavedIsSent
CHECK_DEADLOCK FALSE
