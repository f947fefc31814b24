SPECIFICATION Spec
CONSTANTS
    Data = {a, b}
    DP = 3
    CutReady = TRUE
    Bypass = TRUE
INVARIANT Agree
PROPERTY IsQueue
