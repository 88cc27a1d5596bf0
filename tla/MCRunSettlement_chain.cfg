SPECIFICATION FairSpec
CONSTANTS
    Steps <- TwoSteps
    Owners <- AllActors
    NoOwner = NoOwner
    Ghost = Ghost
    Deps <- Chain
    MaxParallel = 2
    MaxCrashes = 1
    MayInterrupt = TRUE
    Reusable <- Second
    Stalls = FALSE
CHECK_DEADLOCK FALSE
PROPERTIES
    InputsAreReady
    RunEnds
    ToldUnlessStopped
