SPECIFICATION FairSpec
CONSTANTS
    Steps <- OneStep
    Owners <- AllActors
    NoOwner = NoOwner
    Ghost = Ghost
    Deps <- NoDeps
    MaxParallel = 1
    MaxCrashes = 2
    MayInterrupt = FALSE
    Reusable <- OneStep
    Stalls = FALSE
CHECK_DEADLOCK FALSE
PROPERTIES
    RunEnds
