SPECIFICATION Spec
CONSTANTS
    d = d
    o = o
    Servers <- Both
    Configured <- OnlyDefault
    Default = d
    Sockets <- TwoSockets
    Loops <- OneLoop
    MaxAttempts = 1
    MaxFaults = 2
    MaxActs = 2
 
 
PROPERTY ComesBack
CHECK_DEADLOCK FALSE
