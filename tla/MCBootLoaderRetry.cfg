CONSTANTS
    KernelSizes <- FewSizes
    MaxErrors = 1
    MaxE820 = 1
    MaxPages = 1
SPECIFICATION Spec
INVARIANT RetriesTheRead
