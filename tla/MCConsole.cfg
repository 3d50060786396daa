CONSTANTS
    W = 4
    H = 2
    TabStop = 2
    Printable <- Letters
    Strings <- Texts
    Keys <- FewKeys
    MaxChars = 7
SPECIFICATION Spec
INVARIANTS
    ShowsTheTail
    OffScreenUntouched
    ColumnOnScreen
