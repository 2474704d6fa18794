SPECIFICATION FairSpec
CONSTANTS
    Workers = {w1, w2}
    Files <- ThreeFiles
CHECK_DEADLOCK FALSE
INVARIANTS
    WholeConfig
    AckedServes
PROPERTIES
    ReloadCompletes
    ReloadFinishes
    AllGoDown
