SPECIFICATION FairSpec
CONSTANTS
    c1 = c1
    c2 = c2
    r = r
    x = x
    ch = ch
    i1 = i1
    i2 = i2
    l1 = l1
    Redirect = r
    FirstInfo = i1
    Cells <- MCCells
    Clients = {c1}
    ClientDatagrams <- FewRequests
    RedirectDatagrams <- RedirectReplies
    SteamPackets <- None
    UninitBufs <- AnyBuf
    HasRdip = TRUE
    Mirror = TRUE
    IoErrors = TRUE
    SteamMayRefuse = TRUE
    MaxArrivals = 2
    MaxPolls = 3
    MaxOutgoing = 0
INVARIANTS
    TypeOK
    WireIntact
    ChallengeEchoed
PROPERTIES
    MirrorGenuine
    EachHandled
    PollsGoOn
CHECK_DEADLOCK FALSE
