CONSTANTS
    a = a
    b = b
    Users <- TwoUsers
    Devices <- LinkedDevices
    Founders <- OneUser
    Refetches <- MCRefetches
    Shaky <- MCShaky
    Threshold = 2
    Limit = 1
    MaxMade = 2
    MaxActs = 1
    MaxFaults = 1
SPECIFICATION Spec
INVARIANT SenderKeysInv
INVARIANT ServedIsRead
PROPERTY KeysArrive
CHECK_DEADLOCK FALSE
