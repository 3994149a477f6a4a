SPECIFICATION Spec
CONSTANTS
    Strings <- MCStrings
    StrLen <- MCStrLen
    IntStrings = {}
    WideIntStrings = {}
    Scores <- MCScores
    EbInvalid = 8
    Corpora <- MCCorpora
    WithSpecialOpCode = TRUE
    MayStop = TRUE
INVARIANTS
    DecoderTypeOK
    NothingLost
    Aligned
    NoSilentTruncation
    ValidFilesAreRead
    OwnRegisters
PROPERTIES
    StopMeansStop
    Returns
CHECK_DEADLOCK FALSE
