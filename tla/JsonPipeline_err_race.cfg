SPECIFICATION Spec
CONSTANTS
    w1 = w1
    w2 = w2
    WorkerSets <- MCOneWorker
    Objects = {"a", "b", "c", "inf"}
    Input <- MCSingle
    Unmarshalable = {"inf"}
    ParseOutcomes = {TRUE}
    Capacity = 2
    MaxWriteFaults = 0
INVARIANT
    FinishedJson
