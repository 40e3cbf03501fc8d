SPECIFICATION Spec
CONSTANTS
    d1 = d1
    d2 = d2
    d3 = d3
    d4 = d4
    s1 = s1
    r1 = r1
    o1 = o1
    SafeDoors = {d1, d2, d3}
    SecureDoors = {}
    Readers = {}
    Others = {}
    Unit = Unit
    NoDoor = NoDoor
    MaxDoors = 3
    MaxThreads = 5
    Lossy = FALSE
    Faults = FALSE
INVARIANT SavedIsKept
CHECK_DEADLOCK FALSE
