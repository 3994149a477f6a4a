SPECIFICATION Spec
CONSTANTS
    Strings <- MCStrings
    StrLen <- MCStrLen
    IntStrings <- MCIntStrings
    WideIntStrings <- MCWideIntStrings
    Scores <- MCScores
    EbInvalid = 8
    DBs = {0, 1}
    Keys = {"a"}
    TTLs = {5}
    MaxTTLOptions = 2
    Objects <- MCSomeObjects
    Valkey = FALSE
    Compress = TRUE
    Compressible = {"lzf"}
    ZipListMaxValue = 3
    ZipListMaxEntries = 2
    ListZipListSize = 6
    MaxCalls = 5
    MaxFaults = 2
INVARIANTS
    TypeOK
    NoDuplicateDB
    SumTellsDamage
    NoEmptyDB
    NoOrphanTTL
    NothingAfterEOF
CHECK_DEADLOCK FALSE
