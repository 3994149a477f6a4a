SPECIFICATION RSpec
CONSTANTS
    Strings <- MCStrings
    StrLen <- MCStrLen
    IntStrings <- MCIntStrings
    WideIntStrings <- MCWideIntStrings
    Scores <- MCScores
    EbInvalid = 8
    DBs = {0, 1}
    Keys = {"a"}
    TTLs = {5}
    MaxTTLOptions = 2
    Objects <- MCStringObjects
    Valkey = FALSE
    Compress = FALSE
    Compressible = {"lzf"}
    ZipListMaxValue = 3
    ZipListMaxEntries = 2
    ListZipListSize = 6
    MaxCalls = 6
    MaxFaults = 0
    WithSpecialOpCode = FALSE
    MayStop = FALSE
INVARIANT
    RoundTrip
CHECK_DEADLOCK FALSE
