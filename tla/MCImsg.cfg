SPECIFICATION FairSpec
CONSTANTS
    HdrSize = 2
    MaxImsg = 4
    Wrap = 6
    ReadSize = 5
    IovMax = 2
    SockSize = 5
    MaxMsgs = 3
CHECK_DEADLOCK FALSE
INVARIANTS
    WriteEventExact
    NoFalseEof
PROPERTIES
    IsChannel
    AllDelivered
    EofSeen
