SPECIFICATION AdmissionSpec
CONSTANTS
    Calls = {"a", "b", "c"}
    Ops <- StopOps
    Earlier <- Chain
    NoCall = NoCall
    MaxRuns = 3
    SweepSize = 2
    MaxRetries = 0
    Requeue = FALSE
    MaxCrashes = 1
CHECK_DEADLOCK FALSE
PROPERTIES
    AnySweepStopsAtFailure
