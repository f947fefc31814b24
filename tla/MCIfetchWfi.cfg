SPECIFICATION Spec
CONSTANTS
    Programs <- MCPrograms
    ItcmTop = 8
    Bad = {5}
    ResetVec = 0
    Targets = {3, 8}
    FlushesInRow = 2
    WakeInPlace = TRUE
INVARIANT InstructionRight
