SPECIFICATION SysSpec
CONSTANTS
    Size <- OneWord
    CntCycles <- OneCycle
    SaRows = 1
    CalCycles <- OnePass
    Blocks <- OnePass
    AddrSpace = 100
    Bases <- AtZero
    Requests = {"conv1", "input"}
    MinLatency = 1
    MaxLatency <- TwoCycles
    MemErrors = {FALSE}
    CmdStall = TRUE
    MaxIllegal = 1
    OitfDepth = 2
    ItagDepth = 4
    NoReg = 0
    Instrs <- Program
    AguLatency = 4
INVARIANT Tracked
PROPERTY AnswerTaken
PROPERTY RetiresInOrder
PROPERTY Interlocked
PROPERTY Drained
PROPERTY PortIsOwn
