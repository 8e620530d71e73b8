CONSTANTS
    MaxSessions = 3
    MaxScans = 2
    MaxFailures = 1
    MaxLeaves = 1
SPECIFICATION PairingSpec
INVARIANT PairingInv
PROPERTY WaitEnds
CHECK_DEADLOCK FALSE
