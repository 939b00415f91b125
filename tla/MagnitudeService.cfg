CONSTANTS
    CCUT = CCUT
    LCMT = LCMT
    PKCU = PKCU
    NANS = NANS
    NonFinite = NonFinite
    Right = Right
    Wrong = Wrong
    NoToken = NoToken
    EmptyToken = EmptyToken
    r1 = r1
    r2 = r2
    RPCs = {r1, r2}
    Requests <- MCRequests
    Tokens = {Right, Wrong}
    AccessTokens = {NoToken, EmptyToken, Right}
    MaxClock = 0
    Stations <- MCStations
    StationCorrection <- MCStationCorrection
    MinimumDistance = 2
    MaximumDistance = 3
    DistanceCorrection <- MCDistanceCorrection
    RequiresDepth = TRUE
    MinimumNumberOfStationMagnitudes = 2
    MagnitudeLimit = 10
SPECIFICATION Spec
SYMMETRY Symmetry
CHECK_DEADLOCK FALSE
INVARIANTS
    TypeOK
    FinishExactlyOnce
    CountersMatchOutcomes
    RefusedSeesNothing
    ResponseAccountsForRequest
    EntriesFollowRequest
    MalformedIsNamed
PROPERTIES
    SettledStaysSettled
