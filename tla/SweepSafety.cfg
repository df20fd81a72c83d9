CONSTANTS
    Result = {1, 2, 3, 4}
    PageSize = 2
    MaxFaults = 1
SPECIFICATION FairSpec
INVARIANT RoundVisitsAll
PROPERTY Drained
CHECK_DEADLOCK FALSE
