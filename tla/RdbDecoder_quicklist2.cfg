SPECIFICATION Spec
CONSTANTS
    Strings <- MCStrings
    StrLen <- MCStrLen
    IntStrings = {}
    WideIntStrings = {}
    Scores <- MCScores
    EbInvalid = 8
    Corpora <- MCQuickList2
    WithSpecialOpCode = FALSE
    MayStop = FALSE
INVARIANT
    ValidFilesAreRead
CHECK_DEADLOCK FALSE
