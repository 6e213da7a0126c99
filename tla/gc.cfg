SPECIFICATION FairSpec
CONSTANTS
    MaxRetry = 2
    MaxStatuses = 3
    MaxOthers = 1
INVARIANTS
    TypeOK
    HelloPerStatus
    ListensWelcomed
PROPERTIES
    NeverOlder
    Reconnects
    HandshakeEnds
CHECK_DEADLOCK FALSE
