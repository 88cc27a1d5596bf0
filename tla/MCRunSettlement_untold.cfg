SPECIFICATION FairSpec
CONSTANTS
    Steps <- TwoSteps
    Owners <- AllActors
    NoOwner = NoOwner
    Ghost = Ghost
    Deps <- NoDeps
    MaxParallel = 2
    MaxCrashes = 0
    MayInterrupt = FALSE
    Reusable <- TwoSteps
    Stalls = FALSE
CHECK_DEADLOCK FALSE
PROPERTIES
    AbandonedIsTold
