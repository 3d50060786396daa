CONSTANTS
    boot = boot
    a = a
    b = b
    idle = idle
    Client <- Clients3
    Boot <- boot
    Idle <- idle
    MaxNest = 1
SPECIFICATION FairSpec
PROPERTIES
    ReadyRuns
    IrqTaken
    ImplementsTasking
