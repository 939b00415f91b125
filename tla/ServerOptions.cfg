CONSTANTS
    Hosts = {"", "localhost"}
    Ports = {0, 50000}
    Texts = {"", "secret", "other"}
    Given = {"", "secret"}
    Sizes = {0, 4}
    Ages <- MCAges
    Files <- MCFiles
    Garbage = Garbage
    NoSecret = NoSecret
    NoOptions = NoOptions
    NoServer = NoServer
    MaxInt = 7
    DefaultSize = 4
    DefaultAge = 5
    DefaultGrace = 5
    ReceiveLimit = 6
SPECIFICATION Spec
INVARIANTS TokenAndPairAreUsed
PROPERTY SecretsComeFromTheirOwnSettings
