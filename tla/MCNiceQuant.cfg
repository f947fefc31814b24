SPECIFICATION Spec
CONSTANTS
    ZeroPoint <- RealZeroPoint
    Acc <- EdgeAcc
    Scores <- EdgeScores
    Classes = 5
    MaxInt = 2147483647
INVARIANT TypeOK
INVARIANT SameBytes
INVARIANT SameClass
CHECK_DEADLOCK FALSE
