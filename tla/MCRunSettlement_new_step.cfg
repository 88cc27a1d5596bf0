SPECIFICATION SettleSpec
CONSTANTS
    Steps <- ThreeSteps
    Owners <- AllActors
    NoOwner = NoOwner
    Ghost = Ghost
    Deps <- Fork
    MaxParallel = 2
    MaxCrashes = 0
    MayInterrupt = FALSE
    Reusable <- ThreeSteps
    Stalls = FALSE
CHECK_DEADLOCK FALSE
PROPERTIES
    NoStepAfterWorkItem
