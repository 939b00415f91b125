SPECIFICATION StartupSpec
INVARIANTS
    StartupTypeOK
    NothingLeftAtExit
    ExportersWereAskedFor
\* main() returns.
CHECK_DEADLOCK FALSE
