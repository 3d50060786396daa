CONSTANTS
    Keys <- AllKeys
    Lower <- LowerTable
    Upper <- UpperTable
    InitialCtrs <- Ctrs
    Leftovers <- Bytes
    Timeout = 2
    FlushLength = 2
    MaxEvents = 5
    MaxBuffer = 4
SPECIFICATION FairSpec
INVARIANTS
    NoSilentByte
    NoOverrun
    EchoFollowsShift
    ShiftNotStuck
PROPERTIES
    InitEnds
    KeysAreRead
