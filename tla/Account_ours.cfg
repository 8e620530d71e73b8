CONSTANTS
    MaxIds = 3
    MaxStarts = 2
    MaxFaults = 2
SPECIFICATION Spec
INVARIANT AccountInv
INVARIANT SessionIsOurs
INVARIANT LockedOnlyIfLeft
INVARIANT DatabaseKept
CHECK_DEADLOCK FALSE
