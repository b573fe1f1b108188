SPECIFICATION FairSpec
CONSTANTS
    NumSectors = 2
    SectorSize = 1
    Contents = {d}
    Erased = FF
    Torn = torn
    FlashBlocks <- EndBlocks
    CharIsSigned = FALSE
    ForceInval = TRUE
    Kinds = {"program", "verify", "check", "erase", "print"}
    MapEntries = 2
    MayFail = TRUE
    Client = {"fake", "close", "touch", "resume", "interrupt erase", "interrupt fake"}
INVARIANT PendingHasJob
PROPERTIES DownloadKept FakeEnds
