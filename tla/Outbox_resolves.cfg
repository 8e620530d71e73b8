SPECIFICATION Spec
CONSTANTS
    m1 = m1
    s1 = s1
    Msgs <- OneMsg
    Group <- OneMsg
    Volatile <- OneMsg
    Servers <- OneServer
    ServerOf <- OneOnOne
    DefaultServer = s1
    MaxTries = 2
    MaxRestarts = 1
    MaxCopies = 3
    MaxChain = 2
INVARIANT OutboxInv
INVARIANT SentMeansAccepted
PROPERTY RenamedOnce
PROPERTY SendingResolves
PROPERTY ReceiptsOnlyAdvance
