SPECIFICATION FairSpec
CONSTANTS
    u1 = u1
    u2 = u2
    a = a
    b = b
    Codes <- MCCodes
    Users = {u1, u2}
    Ids = {a, b}
    MaxRetry = 2
    MaxSessions = 4
    MaxTickets = 3
INVARIANTS
    TypeOK
    ResultOnItsWay
    IdentityCurrent
    AuthedCount
PROPERTIES
    StartupEnds
CHECK_DEADLOCK FALSE
