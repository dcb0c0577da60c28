SPECIFICATION RcSpec
CONSTANTS
    r1 = r1
    r2 = r2
    k1 = k1
    k2 = k2
    Refs = {r1, r2}
    Diverging = {r2}
    BatchKeys = {k1, k2}
    Windows <- MCWindows
    RcMaxTime = 3
INVARIANTS
    RcInvariant
    MismatchReportedOnce
    NothingSlips
    AdjustedOnce
PROPERTIES
    ResolutionIsFinal
SYMMETRY Keys
CHECK_DEADLOCK FALSE
