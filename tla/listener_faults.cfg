SPECIFICATION FairSpec
CONSTANTS
    c1 = c1
    c2 = c2
    r = r
    x = x
    ch = ch
    i1 = i1
    i2 = i2
    l1 = l1
    Redirect = r
    FirstInfo = i1
    Cells <- MCCells
    Clients = {c1}
    ClientDatagrams <- MixedRequests
    RedirectDatagrams <- None
    SteamPackets <- OnePacket
    UninitBufs <- AnyBuf
    HasRdip = TRUE
    Mirror = FALSE
    IoErrors = TRUE
    SteamMayRefuse = TRUE
    MaxArrivals = 3
    MaxPolls = 0
    MaxOutgoing = 1
INVARIANTS
    WireIntact
    SteamIntact
PROPERTIES
    ServesEventually
CHECK_DEADLOCK FALSE
