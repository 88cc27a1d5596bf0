SPECIFICATION ArtifactsSpec
CONSTANTS
    MaxSteps = 2
    LastPort = 1
    Bodies = {b1}
    MayRepeat = TRUE
    MaxArtifacts = 3
    MaxDrivers = 2
    MaxReviews = 1
    MaxFaults = 1
    MaxCrashes = 1
    MaxTroubles = 2
CHECK_DEADLOCK FALSE
INVARIANT
    ReferencedFileIsKept
