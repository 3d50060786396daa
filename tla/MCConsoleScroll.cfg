CONSTANTS
    W = 4
    H = 2
    TabStop = 2
    Printable <- Letters
    Strings <- FewTexts
    Keys <- FewKeys
    MaxChars = 7
SPECIFICATION Spec
INVARIANT
    ScrollMovesUpOne
