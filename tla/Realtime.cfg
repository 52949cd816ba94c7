SPECIFICATION Spec
CONSTANTS
    c1 = c1
    c2 = c2
    r1 = r1
    r2 = r2
    Conns <- TwoConns
    Replies <- TwoReplies
    MaxInFlight = 2
    MaxLog = 3
INVARIANTS
    TypeOK
    ListedOnce
PROPERTIES
    ImplementsBroadcastLog
