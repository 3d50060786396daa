CONSTANTS
    Base = 6
    Length = 25
    Page = 8
    Requests <- Sizes
    Alignments <- Bounds
    MaxBlocks = 3
    FreeList = freelist
    NULL = null
SPECIFICATION HLSpec
INVARIANTS
    TypeOK
    EachWordOnce
    SortedAndMerged
    PayloadFits
    FreeListLinked
PROPERTIES
    ImplementsAllocator
    ReallocKeepsABlock
