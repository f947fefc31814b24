SPECIFICATION FairSpec
CONSTANTS
    Data = {a, b}
    Sync = 2
INVARIANT FourPhases
PROPERTY IsChannel
PROPERTY Progress
