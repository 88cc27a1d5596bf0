SPECIFICATION FairSpec
CONSTANTS
    Steps <- OneStep
    Owners <- AllActors
    NoOwner = NoOwner
    Ghost = Ghost
    Deps <- NoDeps
    MaxParallel = 1
    MaxCrashes = 0
    MayInterrupt = TRUE
    Reusable <- OneStep
    Stalls = FALSE
CHECK_DEADLOCK FALSE
PROPERTIES
    InterruptedExecutionReturns
