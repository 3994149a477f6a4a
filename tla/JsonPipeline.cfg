SPECIFICATION Spec
CONSTANTS
    w1 = w1
    w2 = w2
    WorkerSets <- MCWorkerSets
    Objects = {"a", "b", "c", "inf"}
    Input <- MCInput
    Unmarshalable = {"inf"}
    ParseOutcomes = {TRUE, FALSE}
    Capacity = 2
    MaxWriteFaults = 2
INVARIANTS
    TypeOK
    OneCopy
    NothingLost
    WellFormedJson
    NoSendOnClosed
    KeepsOrder
PROPERTY
    EveryoneEnds
