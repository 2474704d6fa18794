SPECIFICATION FairSpec
CONSTANTS
    MaxRounds = 3
    Request = 5
    Replies <- SmallReplies
    Room = 2
    ReadSize = 3
CHECK_DEADLOCK FALSE
INVARIANTS
    ResolverSafe
    NoLostWakeup
    WholeReply
PROPERTIES
    Answered
