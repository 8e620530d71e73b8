CONSTANTS
    s1 = s1
    s2 = s2
    Servers <- TwoServers
    Default = s1
    Android = TRUE
    Initial = 1
    Upload = 1
    Batch = 1
    PreKeyThreshold = 1
    Stored = 2
    MaxVal = 9
    MaxFirsts = 2
    MaxEvents = 1
SPECIFICATION PreKeysSpec
INVARIANT PreKeysInv
INVARIANT LostOnlyIfShared
PROPERTY PoolsRefilled
CHECK_DEADLOCK FALSE
