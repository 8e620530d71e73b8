CONSTANTS
    Peer = Peer
    Own = Own
    MaxDevice = 2
    MaxLinks = 1
    MaxFetches = 2
    MaxSends = 1
    MaxReceives = 1
    MaxRevoked = 1
    MaxFaults = 1
SPECIFICATION LivelySpec
INVARIANT DevicesInv
INVARIANT KnownAreServed
PROPERTY ListsCatchUp
CHECK_DEADLOCK FALSE
