SPECIFICATION Spec
CONSTANTS
    Strings <- MCStrings
    StrLen <- MCStrLen
    IntStrings = {}
    WideIntStrings = {}
    Scores <- MCScores
    EbInvalid = 8
    Corpora <- MCTruncated
    WithSpecialOpCode = FALSE
    MayStop = FALSE
INVARIANT
    AuxErrorReported
CHECK_DEADLOCK FALSE
