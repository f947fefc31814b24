SPECIFICATION FairSpec
CONSTANTS
    Periph <- MCTwoPeriph
    Outs = 1
    CmdDP = 1
    RspDP = 1
    CgStop = FALSE
INVARIANT StaysAwake
INVARIANT Routed
PROPERTY IsChannel
PROPERTY Answered
