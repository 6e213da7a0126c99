SPECIFICATION Spec
CONSTANTS
    c1 = c1
    c2 = c2
    r = r
    x = x
    ch = ch
    i1 = i1
    i2 = i2
    l1 = l1
    Redirect = r
    FirstInfo = i1
    Cells <- MCCells
    Clients = {c1}
    ClientDatagrams <- ConnectRequests
    RedirectDatagrams <- None
    SteamPackets <- None
    UninitBufs <- ConnBuf
    HasRdip = TRUE
    Mirror = TRUE
    IoErrors = FALSE
    SteamMayRefuse = FALSE
    MaxArrivals = 1
    MaxPolls = 2
    MaxOutgoing = 0
INVARIANTS
    ConnectRejected
CHECK_DEADLOCK FALSE
