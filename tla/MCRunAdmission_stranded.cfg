SPECIFICATION AdmissionSpec
CONSTANTS
    Calls = {c1, c2, c3}
    Ops <- SweepOps
    Earlier <- Unordered
    NoCall = NoCall
    MaxRuns = 3
    SweepSize = 2
    MaxRetries = 1
    Requeue = TRUE
    MaxCrashes = 0
CHECK_DEADLOCK FALSE
INVARIANTS
    RunningIsDriven
