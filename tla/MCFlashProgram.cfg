SPECIFICATION Spec
CONSTANTS
    NumSectors = 2
    SectorSize = 2
    Contents = {d, e}
    Erased = FF
    Torn = torn
    FlashBlocks <- InnerBlocks
    CharIsSigned = TRUE
    ForceInval = FALSE
    Kinds = {"program", "verify", "check", "erase"}
    MapEntries = 1
    MayFail = FALSE
    Client = {}
INVARIANTS OneJob ReadValidTrue MarkedErasedIsErased NothingTorn
PROPERTIES ProgrammedIsBuffer VerifiedIsEqual NoForeignLoss DownloadKept
