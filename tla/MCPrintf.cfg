CONSTANTS
    Plain <- MCPlain
    Digits <- MCDigits
    Sizes <- MCSizes
    Console = Console
    Strings <- MCStrings
    Values <- MCValues
    TypeBits <- MCTypeBits
    MaxRead = 6
    MaxWidth = 33
SPECIFICATION Spec
INVARIANTS
    Terminated
    TruncationReported
    MatchesC
