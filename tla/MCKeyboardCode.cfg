CONSTANTS
    Keys <- FewKeys
    Lower <- LowerTable
    Upper <- UpperTable
    InitialCtrs <- Ctrs
    Leftovers <- Bytes
    Timeout = 2
    FlushLength = 2
    MaxEvents = 2
    MaxBuffer = 4
SPECIFICATION Spec
INVARIANT LastCodeReceived
