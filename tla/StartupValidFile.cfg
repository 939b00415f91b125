SPECIFICATION StartupSpec
INVARIANT ValidFileStarts
CHECK_DEADLOCK FALSE
