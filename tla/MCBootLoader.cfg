CONSTANTS
    KernelSizes <- Sizes
    MaxErrors = 4
    MaxE820 = 2
    MaxPages = 2
SPECIFICATION FairSpec
INVARIANTS
    ReadsStayInTrack
    LoadedInOrder
    KernelComplete
PROPERTY BootsInTheEnd
