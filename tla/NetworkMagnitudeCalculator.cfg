CONSTANTS
    CCUT = CCUT
    LCMT = LCMT
    PKCU = PKCU
    NANS = NANS
    NonFinite = NonFinite
    Pending = Pending
    MaxObservations = 3
    Stations <- MCStations
    StationCorrection <- MCStationCorrection
    MinimumDistance = 2
    MaximumDistance = 5
    DistanceCorrection <- MCDistanceCorrection
    RequiresDepth = TRUE
    MinimumNumberOfStationMagnitudes = 2
    MagnitudeLimit = 10
    Inputs <- MCInputs
SPECIFICATION Spec
CHECK_DEADLOCK FALSE
INVARIANTS
    TypeOK
    AccountedExactlyOnce
    ResidualsBalance
    EnoughStations
    EveryRejectionHasAReason
PROPERTIES
    ImplementsPromise
