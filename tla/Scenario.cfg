SPECIFICATION FairSpec
CONSTANTS
    good = good
    bad = bad
    NoCode = NoCode
    Codes = {good, bad}
    Allowed = {good}
    Length = 3
    FdLimit = 3
    Spurious = TRUE
INVARIANTS
    TypeOK
    PressNotLost
PROPERTIES
    YesOnlyIfAllowed
    PressHeard
    ScenarioGoesOn
    ReaderComesBack
CHECK_DEADLOCK FALSE
