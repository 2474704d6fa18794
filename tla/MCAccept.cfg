SPECIFICATION AcceptSpec
CONSTANTS
    DtableSize = 18
    Base = 3
    FdReserve = 5
    MaxBacklog = 2
INVARIANTS
    InflightExact
    UpstreamHasFd
