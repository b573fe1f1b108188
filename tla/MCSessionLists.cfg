SPECIFICATION SessionSpec
CONSTANTS
    op = op
    st = st
    bl = bl
    Brk = Brk
    RamSize = 2
    PageSize = 2
    Values = {op}
    Blocks <- NoBlocks
    StoreCells <- NoCells
    FlashCode <- MCFlashCode
    Code <- ListCode
    ResetPc <- FlashReset
    Requests <- ListRequests
    MainAddrs = {0}
    StoreOps = {st}
    BranchLink = {bl}
    ForceHW = FALSE
    RemovesFirst = FALSE
    ListensAgain = TRUE
    MaxSessions = 1
CHECK_DEADLOCK FALSE
INVARIANTS UnitBudget DistinctEntries ListedIsRemovable UnitsArmed BreaksPlanted
PROPERTIES NoBreakMissed
