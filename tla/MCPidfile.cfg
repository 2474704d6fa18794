SPECIFICATION PidSpec
CONSTANTS
    Instances = {1, 2, 3, 4}
    Foreground = {1, 2}
CHECK_DEADLOCK FALSE
INVARIANTS
    PidShown
    LocksApart
PROPERTIES
    StaleFileHarmless
