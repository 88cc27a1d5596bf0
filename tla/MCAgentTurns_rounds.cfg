SPECIFICATION TurnsSpec
CONSTANTS
    MaxRounds = 3
    MaxTurns = 1
    MaxSaves = 0
    MaxFaults = 0
    MaxCrashes = 0
INVARIANTS
    OneRoundPerFailure
CHECK_DEADLOCK FALSE
