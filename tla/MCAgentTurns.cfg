SPECIFICATION FairTurnsSpec
CONSTANTS
    MaxRounds = 3
    MaxTurns = 1
    MaxSaves = 1
    MaxFaults = 1
    MaxCrashes = 1
INVARIANTS
    OutcomesAgree
    EndedTurnsSayWhy
PROPERTIES
    TurnsEnd
CHECK_DEADLOCK FALSE
