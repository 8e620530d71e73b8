SPECIFICATION Spec
CONSTANTS
    m1 = m1
    m2 = m2
    m3 = m3
    r1 = r1
    r2 = r2
    u1 = u1
    u2 = u2
    x1 = x1
    d1 = d1
    Deletions <- OneDeletion
    DeletedMsg <- DeletesFirst
    NoRoom = NoRoom
    Msgs <- ThreeMsgs
    Mine <- OnlyM3
    OtherId = TRUE
    Rooms <- TwoRooms
    RoomOf <- InTwoRooms
    Users <- TwoUsers
    SenderOf <- FromTwo
    Syncs <- OneSync
    SyncRoom <- SyncIsFirst
    SyncOf <- SyncOfFirst
    Leavers <- OneUser
    MaxArrivals = 3
    MaxOpens = 2
    MaxRestarts = 1
INVARIANT TypeOK
INVARIANT NeverOverstated
INVARIANT UnseenIsCounted
INVARIANT NothingVanishes
INVARIANT ReadOnlyIfSeen
