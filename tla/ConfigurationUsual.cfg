CONSTANTS
    nil = nil
    nan = nan
    unset = unset
    malformed = malformed
    One = 2
    Int64Blank <- MCInt64Blank
    FP64Blank <- MCFP64Blank
    NotFinite = nan
    Nil = nil
    Unset = unset
    Malformed = malformed
    Durations <- Usual
    Thresholds <- MCThresholds
SPECIFICATION Spec
INVARIANTS
    TypeOK
    GapIsTenIntervals
CHECK_DEADLOCK FALSE
