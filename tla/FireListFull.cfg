SPECIFICATION Spec
CONSTANTS
    d1 = d1
    d2 = d2
    SafeDoors = {d1, d2}
    SecureDoors = {}
    Readers = {}
    Others = {}
    Unit = Unit
    NoDoor = NoDoor
    MaxDoors = 2
    MaxThreads = 3
    Lossy = TRUE
    PortOf <- TwoPorts
    MaxFailSafe = 2
    InboxMax = 1
    NetworkOrder = FALSE
INVARIANTS
    ConfirmedHasRoom
CHECK_DEADLOCK FALSE
