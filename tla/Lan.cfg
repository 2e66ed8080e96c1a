SPECIFICATION Spec
INVARIANT
    LanTypeOK
    DeliveredOnce
    BurstCostsOneSearch
PROPERTY
    RefusedCredentialsRest
    RequestsEnd
    NoticesTellTheTruth
    FollowsTheAddress
    StopsOnceFree
CONSTANTS
    r1 = r1
    r2 = r2
    home = home
    away = away
    Request = {r1, r2}
    Address = {home, away}
    Elsewhere = {away}
    MaxPairings = 2
    MaxMoves = 1
    MaxMishaps = 1
    Watcher = Watcher
    Console = Console
    None = None
    i1 = i1
    i2 = i2
    v1 = v1
    v2 = v2
    LanAddress = {i1, i2}
    Visitor = {v1, v2}
    Loopback = Loopback
    NoLan = NoLan
CHECK_DEADLOCK FALSE
