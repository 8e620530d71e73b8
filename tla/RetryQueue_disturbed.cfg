SPECIFICATION QueueSpec
CONSTANTS
    m1 = m1
    m2 = m2
    m3 = m3
    Ids <- ThreeIds
    RoomOf <- TwoRooms
    MaxRetries = 2
    MaxBackoff = 2
    NoItem = NoItem
    CleanupRooms <- BackendRooms
    ClearsDuringPass = TRUE
INVARIANT RobustInv
