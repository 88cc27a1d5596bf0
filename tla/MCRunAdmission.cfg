SPECIFICATION AdmissionSpec
CONSTANTS
    Calls = {c1, c2, c3}
    Ops <- Everything
    Earlier <- Unordered
    NoCall = NoCall
    MaxRuns = 3
    SweepSize = 2
    MaxRetries = 1
    Requeue = TRUE
    MaxCrashes = 0
SYMMETRY Symmetric
CHECK_DEADLOCK FALSE
INVARIANTS
    OneActive
    NothingUnapproved
PROPERTIES
    SweepStopsAtFailure
