SPECIFICATION TpSpec
CONSTANTS
    Cap = 3
    MaxContent = 4
    MaxWritten = 6
    TextChars = {"<", "&", "'", "l", ";"}
    UrlChars = {"a", " ", "'"}
CHECK_DEADLOCK FALSE
INVARIANTS
    ShownAsMeant
    RecordsRight
