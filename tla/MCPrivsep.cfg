SPECIFICATION FairSpec
CONSTANTS
    N = 4
CHECK_DEADLOCK FALSE
INVARIANTS
    NoStrayHolder
PROPERTIES
    GoDownTogether
