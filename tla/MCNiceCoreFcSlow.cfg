SPECIFICATION FairSpec
CONSTANTS
    Size <- SmallSize
    CntCycles <- SmallCntCycles
    CalCycles <- SmallCalCycles
    Blocks <- SmallBlocks
    SaRows = 2
    AddrSpace = 64
    Bases <- OneBase
    MemErrors = {FALSE, TRUE}
    Requests = {"conv1", "conv2", "fc1", "fc2", "input"}
    MinLatency = 2
    MaxLatency <- TwoCycles
    CmdStall = FALSE
    MaxIllegal = 0
PROPERTY Answered
