SPECIFICATION FairAdmission
CONSTANTS
    Calls = {c1, c2}
    Ops <- Everything
    Earlier <- Ordered
    NoCall = NoCall
    MaxRuns = 3
    SweepSize = 2
    MaxRetries = 1
    Requeue = TRUE
    MaxCrashes = 1
CHECK_DEADLOCK FALSE
INVARIANTS
    OneActive
    OneRetryPerFailure
PROPERTIES
    EstimatingEnds
