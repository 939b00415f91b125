CONSTANTS
    Codes <- MCCodes
    Dotted <- MCDotted
    Tidy <- MCTidy
    Join <- MCJoin
    Instrument <- MCInstrument
    Written <- MCWritten
    Values = {0, 10}
    MaxValue = 5000
    Degrees <- MCDegrees
    Depths <- MCDepths
    Distances <- MCDistances
    Geodesics = {21000000}
    Measured <- MCMeasured
    SentAmplitudes <- MCSentAmplitudes
    SentIdentifiers <- MCSentIdentifiers
    HypocenterMessages <- MCHypocenters
    NotFinite = NotFinite
    Absent = Absent
    Unset = Unset
    Thrown = Thrown
SPECIFICATION Spec
INVARIANTS PairIsFromOneSensor MessagesRoundTrip RefusalIsAboutTheMeasurement
