SPECIFICATION FairSpec
CONSTANTS
    FirstInfo <- MCFirst
    AppId = 730
    VacStates = 1
    Version = "1.38.5.5"
    Port = 27015
    SteamId = "id1"
    Strings <- MCStrings
    TheirInfos <- MCInfos
    Straddling <- MCStraddling
    Garbage = "rubbish"
    Lists = {"l1", "l2"}
    Lengths = {0, 4, 5, 6, 200, 10240, 65507}
    BufSize = 10240
    ListMax = 20480
    None = None
    MaxChanges = 2
INVARIANTS
    TypeOK
    OneSnapshot
    ListWhole
    PlayersBelowMax
    ChallengeAgrees
PROPERTIES
    CatchesUp
CHECK_DEADLOCK FALSE
