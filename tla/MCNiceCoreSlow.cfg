SPECIFICATION FairSpec
CONSTANTS
    Size <- SmallSize
    CntCycles <- SmallCntCycles
    CalCycles <- SmallCalCycles
    Blocks <- SmallBlocks
    SaRows = 2
    AddrSpace = 200
    Bases <- SmallBases
    MemErrors = {FALSE, TRUE}
    Requests = {"conv1", "conv2", "fc1", "fc2", "input"}
    MinLatency = 1
    MaxLatency <- FcInTcm
    CmdStall = FALSE
    MaxIllegal = 1
INVARIANT TypeOK
INVARIANT WordsInOrder
INVARIANT ReadsOneExtraWord
INVARIANT WeightsComplete
INVARIANT ImageComplete
INVARIANT OneAnswer
PROPERTY Answered
PROPERTY ImplementsService
