SPECIFICATION SettleSpec
CONSTANTS
    Steps <- TwoSteps
    Owners <- AllActors
    NoOwner = NoOwner
    Ghost = Ghost
    Deps <- NoDeps
    MaxParallel = 2
    MaxCrashes = 1
    MayInterrupt = FALSE
    Reusable <- TwoSteps
    Stalls = FALSE
CHECK_DEADLOCK FALSE
INVARIANTS
    SucceededRunIsComplete
PROPERTIES
    LiveOwnerIsWaitedFor
