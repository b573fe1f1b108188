SPECIFICATION SessionSpec
CONSTANTS
    op = op
    st = st
    bl = bl
    Brk = Brk
    RamSize = 3
    PageSize = 2
    Values = {op, st}
    Blocks <- MemBlocks
    StoreCells <- MemStores
    FlashCode <- MCFlashCode
    Code <- MemCode
    ResetPc <- FlashReset
    Requests <- MemRequests
    MainAddrs = {}
    StoreOps = {st}
    BranchLink = {bl}
    ForceHW = FALSE
    RemovesFirst = TRUE
    ListensAgain = FALSE
    MaxSessions = 1
CHECK_DEADLOCK FALSE
INVARIANTS BufferTrueAtPrompt StepsProgram
PROPERTIES BreakpointsKeepProgram Transparent
