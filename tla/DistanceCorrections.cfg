CONSTANTS
    NoDistance = NoDistance
    NaN = NaN
    MaxEntries = 3
    Tables <- MCTables
    Files <- MCFiles
    Datums <- MCDatums
    LastEntry = 3
    Tolerance = 2
    MinDatum <- MCMinDatum
    MaxDatum = 4
    MinDepth <- MCMinDepth
    MaxDepth = 5
    Queries <- MCQueries
    Depths <- MCDepths
SPECIFICATION Spec
INVARIANTS
    TypeOK
    TableFitForSearch
    EveryDistanceAnswered
    NearestIsNearest
    LinearIsLinear
    DepthIsBelowDatum
