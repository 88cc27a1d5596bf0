SPECIFICATION Spec
CONSTANTS
    Steps = {s1}
    Owners = {o1, o2}
    NoOwner = NoOwner
    Ghost = Ghost
SYMMETRY StoreSymmetry
INVARIANTS
    TypeOK
    ChargedIffReported
    SettledRunAgrees
    OnlySettledFailuresRetry
PROPERTIES
    TerminalIsFinal
    Promise
