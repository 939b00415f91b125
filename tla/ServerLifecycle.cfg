CONSTANTS
    Stoppers = {s1, s2, s3}
    RPCs = {r1, r2}
    Main = main
SPECIFICATION Spec
INVARIANTS OneShutdown StartedMeansServing ExportersOutliveRPCs
PROPERTIES StopEndsStart CaughtSignalEndsProcess
CHECK_DEADLOCK FALSE
