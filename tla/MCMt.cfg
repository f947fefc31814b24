SPECIFICATION FairSpec
CONSTANTS
    NCores = 2
    Cores <- MCCores
    Programs <- MCPrograms
INVARIANTS
    NoRace
    Result
PROPERTIES
    IsBarrier
    Finishes
