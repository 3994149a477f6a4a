SPECIFICATION RSpec
CONSTANTS
    Strings <- MCStrings
    StrLen <- MCStrLen
    IntStrings <- MCIntStrings
    WideIntStrings <- MCWideIntStrings
    Scores <- MCScores
    EbInvalid = 8
    DBs = {0, 1}
    Keys = {"a"}
    TTLs = {5}
    MaxTTLOptions = 1
    Objects <- MCObjects
    Valkey = FALSE
    Compress = TRUE
    Compressible = {"lzf"}
    ZipListMaxValue = 3
    ZipListMaxEntries = 2
    ListZipListSize = 6
    MaxCalls = 4
    MaxFaults = 0
    WithSpecialOpCode = FALSE
    MayStop = FALSE
INVARIANTS
    RoundTrip
PROPERTY
    IsObjectPipe
CHECK_DEADLOCK FALSE
