SPECIFICATION Spec
SYMMETRY Symmetric
CONSTANTS
    Requests = {r1, r2}
    Ops <- AllRoutes
    Keys = {k1}
    NoKey = NoKey
    Bodies = {b1, b2}
    Legacy = Legacy
    MaxVersions = 4
    MaxFaults = 1
    MaxCrashes = 1
INVARIANTS
    RowsHaveTheirFiles
    HistoryIsLinear
    ProposalsResolveOnce
    RepeatsCommitOnce
    OrphansAreExplained
CHECK_DEADLOCK FALSE
