\* Files of up to four objects, in every order, for every command but json.
SPECIFICATION Spec
CONSTANTS
    Digits <- MCDigits
    TrimThreshold = 2
    bigNodeThreshold = 4
    Now = 25
    Second = 10
    MaxInt = 50
    Unlimited = 50
    MaxObjects = 4
    MaxSends = 2
    Jobs <- MCJobs
    Items <- MCItems
INVARIANTS
    FiltersExact
    TopListRight
    RadixTreeCanonical
    PrefixReportRight
    SepGroupsRight
    FlameGraphRight
    AofRebuilds
PROPERTY
    StopEndsServer
\* A command ends.
CHECK_DEADLOCK FALSE
