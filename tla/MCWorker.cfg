SPECIFICATION FairSpec
CONSTANTS
    Conns = {c1}
    Ids = {i1, i2}
    Hosts = {h1, h2}
    None = None
    Faults = {"alloc", "write"}
INVARIANTS
    ResourcesOwned
    OneDriver
    ResponseInOrder
    ConfigAlive
    NoneForgotten
    DoneCutsNone
PROPERTIES
    IsResponder
    DoneCloses
    StartedEnds
