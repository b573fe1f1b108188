SPECIFICATION Spec
CONSTANTS
    RamSize = 4
    PageSize = 2
    Values = {v0, v1}
    Brk = Brk
    Blocks <- MCBlocks
    StoreCells <- MCStoreCells
INVARIANTS TypeOK NothingHeldBack RunsWrittenExactly
PROPERTY FlatSpec
