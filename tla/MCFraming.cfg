SPECIFICATION FairSpec
CONSTANTS
    Streams <- AllStreams
    HdrSize = 2
    BeginSize = 1
    PnameSize = 2
    Room <- RoomOf
    TmpSize = 7
    MaxLen = 2
CHECK_DEADLOCK FALSE
INVARIANTS
    InSync
    FieldsRight
    FormRight
PROPERTIES
    AllHandled
