\* Values at the edges of every encoding; files cut after every byte.
SPECIFICATION Spec
CONSTANTS
    TextLen <- MCTextLen
    CountMod = 4
    ZipMapCounts = 5
    Jobs <- MCJobs
    Names <- MCNames
    LitBits = 1
    LenBits = 2
INVARIANTS
    PrimitivesRoundTrip
    ImagesRoundTrip
    RedisImagesRead
    StreamRoundTrip
    CutIsError
    LzfRoundTrip
    LzfInBounds
CHECK_DEADLOCK FALSE
