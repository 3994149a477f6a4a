\* The prefix report without limits.
SPECIFICATION Spec
CONSTANTS
    Digits <- MCDigits
    TrimThreshold = 2
    bigNodeThreshold = 4
    Now = 25
    Second = 10
    MaxInt = 50
    Unlimited = 50
    MaxObjects = 4
    MaxSends = 2
    Jobs <- PrefixJobs
    Items <- PrefixItems
INVARIANT AllPrefixesReported
\* A command ends.
CHECK_DEADLOCK FALSE
