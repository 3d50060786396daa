CONSTANTS
    boot = boot
    a = a
    b = b
    c = c
    idle = idle
    Client <- Clients4
    Boot <- boot
    Idle <- idle
    MaxNest = 2
    Queue = queue
    NULL = null
SPECIFICATION RQSpec
SYMMETRY Symmetry
INVARIANTS
    IrqSeesQuiescent
    CriticalSectionsBalance
    NoStrandedTask
    SuspendedResumable
    NeverBackFromExit
    QueueLinked
    ListReads
