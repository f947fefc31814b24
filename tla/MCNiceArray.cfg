SPECIFICATION ArraySpec
CONSTANTS
    Size <- RealSize
    CntCycles <- RealCntCycles
    CalCycles <- RealCalCycles
    Blocks <- RealBlocks
    SaRows = 10
    AddrSpace = 65536
    Bases <- RealBases
    MemErrors = {FALSE}
    Requests = {"conv1", "conv2", "fc1", "fc2", "input"}
    MinLatency = 1
    MaxLatency <- OneCycle
    CmdStall = FALSE
    MaxIllegal = 0
    Program <- RealProgram
INVARIANT Conv1Right
INVARIANT Conv2Right
INVARIANT Fc1Right
PROPERTY ResultRight
