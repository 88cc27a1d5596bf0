SPECIFICATION SettleSpec
CONSTANTS
    Steps <- OneStep
    Owners <- AllActors
    NoOwner = NoOwner
    Ghost = Ghost
    Deps <- NoDeps
    MaxParallel = 1
    MaxCrashes = 2
    MayInterrupt = TRUE
    Reusable <- OneStep
    Stalls = TRUE
CHECK_DEADLOCK FALSE
INVARIANTS
    RowsTellTheTruth
PROPERTIES
    NeverResubmits
    StoreSpec
