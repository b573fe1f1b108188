SPECIFICATION SessionSpec
CONSTANTS
    op = op
    st = st
    bl = bl
    Brk = Brk
    RamSize = 2
    PageSize = 1
    Values = {op, st}
    Blocks <- ThumbBlocks
    StoreCells <- ThumbStores
    FlashCode <- MCFlashCode
    Code <- ThumbCode
    ResetPc <- FlashReset
    Requests <- ThumbRequests
    MainAddrs = {}
    StoreOps = {st}
    BranchLink = {bl}
    ForceHW = FALSE
    RemovesFirst = TRUE
    ListensAgain = FALSE
    MaxSessions = 0
CHECK_DEADLOCK FALSE
PROPERTY SoftwareBreakMet
