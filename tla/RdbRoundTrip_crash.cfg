SPECIFICATION RSpec
CONSTANTS
    Strings <- MCStrings
    StrLen <- MCStrLen
    IntStrings <- MCIntStrings
    WideIntStrings <- MCWideIntStrings
    Scores <- MCScores
    EbInvalid = 8
    DBs = {0, 1}
    Keys = {"a"}
    TTLs = {5}
    MaxTTLOptions = 0
    Objects <- MCValkeyObjects
    Valkey = TRUE
    Compress = FALSE
    Compressible = {"lzf"}
    ZipListMaxValue = 3
    ZipListMaxEntries = 2
    ListZipListSize = 6
    MaxCalls = 6
    MaxFaults = 1
    WithSpecialOpCode = FALSE
    MayStop = FALSE
INVARIANTS
    CrashSafe
    NilMeansReadable
CHECK_DEADLOCK FALSE
