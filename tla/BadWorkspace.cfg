SPECIFICATION WsSpec
CONSTANTS
    RamSize = 5
    PageSize = 1
    Values = {v0, v1}
    Brk = Brk
    Blocks <- MCBlocks
    StoreCells <- MCStoreCells
    SegSize = 2
    Algos = {"check"}
    WriteAlgo = "write"
    Careful = FALSE
INVARIANT ProgramRunsClean
