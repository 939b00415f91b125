CONSTANTS
    Stations <- MCStations
    Spellings = {"UU CWU", "uu.cwu", "WY CWU", ".CWU"}
    Identify <- MCIdentify
    Invalid = Invalid
    Corrections = {1, NotANumber}
    NotANumber = NotANumber
    NoNumber = NoNumber
    Files <- MCFiles
    NoFile = NoFile
    LastEntry <- MCLastEntry
    Distances = {d1}
    NoDistance = NoDistance
    Minima = {0, 2}
    NoCalculator = NoCalculator
    NoCorrection = NoCorrection
SPECIFICATION Spec
INVARIANT AnswersItsOwnStation
PROPERTY ImplementsTable
