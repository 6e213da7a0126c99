SPECIFICATION Spec
CONSTANTS
    c1 = c1
    c2 = c2
    r = r
    x = x
    ch = ch
    i1 = i1
    i2 = i2
    l1 = l1
    Redirect = r
    FirstInfo = i1
    Cells <- MCCells
    Clients = {c1, c2}
    ClientDatagrams <- PlainRequests
    RedirectDatagrams <- None
    SteamPackets <- OnePacket
    UninitBufs <- AnyBuf
    HasRdip = FALSE
    Mirror = FALSE
    IoErrors = FALSE
    SteamMayRefuse = FALSE
    MaxArrivals = 3
    MaxPolls = 0
    MaxOutgoing = 1
INVARIANTS
    LaterConnectRejected
PROPERTIES
    ServesQueries
CHECK_DEADLOCK FALSE
