CONSTANTS
    Sizes = {0, 3, 4, 8, 28, 32, 36, 40, 60, 64, 72, 120, 124}
    Counts = {0, 1, 4, 7, 8, 9, 10, 15}
    StartTimes = {0, 7}
    Rates <- MCRates
    Messages <- MCMessages
    IntRange = 16
    SizeRange = 256
    FloatRange = 8
    FloatUnits = {1, 2, 4, 8, 16, 32}
    NotFinite = NotFinite
    Absent = Absent
SPECIFICATION Spec
INVARIANT SamplesAreTheBytes
CHECK_DEADLOCK FALSE
