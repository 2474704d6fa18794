SPECIFICATION AcceptFairSpec
CONSTANTS
    DtableSize = 18
    Base = 3
    FdReserve = 5
    MaxBacklog = 2
PROPERTIES
    PauseEnds
