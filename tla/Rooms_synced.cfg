CONSTANTS
    r1 = r1
    r2 = r2
    s1 = s1
    s2 = s2
    u1 = u1
    u2 = u2
    Rooms = {r1, r2}
    Servers = {s1, s2}
    ServerOf <- OneEach
    Users = {u1, u2}
    OwnId <- OtherIds
    GlobalId = u1
    Reachable = {s1, s2}
    Founded = {r1, r2}
    Entered = {r1}
    MaxActs = 2
    MaxFaults = 1
SPECIFICATION LivelySpec
INVARIANT RoomsInv
INVARIANT SyncedIsTrue
PROPERTY KeptWhileMember
PROPERTY RoomsCatchUp
CHECK_DEADLOCK FALSE
