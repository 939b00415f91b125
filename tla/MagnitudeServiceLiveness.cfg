CONSTANTS
    CCUT = CCUT
    LCMT = LCMT
    PKCU = PKCU
    NANS = NANS
    NonFinite = NonFinite
    Right = Right
    Wrong = Wrong
    NoToken = NoToken
    EmptyToken = EmptyToken
    r1 = r1
    r2 = r2
    RPCs = {r1, r2}
    Requests <- FewRequests
    Tokens = {Right, Wrong}
    AccessTokens = {Right}
    MaxClock = 1
    Stations <- MCStations
    StationCorrection <- MCStationCorrection
    MinimumDistance = 2
    MaximumDistance = 3
    DistanceCorrection <- MCDistanceCorrection
    RequiresDepth = TRUE
    MinimumNumberOfStationMagnitudes = 2
    MagnitudeLimit = 10
SPECIFICATION Spec
CHECK_DEADLOCK FALSE
PROPERTIES
    EveryRPCEnds
