----------------------------- MODULE FlashRegion -----------------------------
(***************************************************************************)
(* One flash entry of the memory map: the flash of the target, the image   *)
(* gdb downloads into the server's buffer, and a state word per sector     *)
(* that says how the two are related.  A unit is what the flash programs   *)
(* at once; a sector is what it erases at once.                            *)
(***************************************************************************)
EXTENDS Integers, FiniteSets

CONSTANTS
    NumSectors,     \* sectors of the flash
    SectorSize,     \* units in a sector
    Contents,       \* what a programmed unit can hold
    Erased,         \* what an erased unit holds
    Torn,           \* what a unit holds that was programmed twice
    FlashBlocks,    \* the blocks of units gdb reads and writes
    CharIsSigned,   \* the sign of plain char on the host
    ForceInval      \* the option InvalFlashWhileEraseing

ASSUME FlashAssumption ==
    /\ NumSectors \in Nat \ {0}
    /\ SectorSize \in Nat \ {0}
    /\ Erased \notin Contents
    /\ Torn \notin Contents \cup {Erased}
    /\ CharIsSigned \in BOOLEAN
    /\ ForceInval \in BOOLEAN

Sectors  == 0 .. NumSectors - 1
Units    == 0 .. NumSectors * SectorSize - 1
Image    == Contents \cup {Erased}

ASSUME BlocksAssumption ==
    \A S \in FlashBlocks : S # {} /\ S \subseteq Units

VARIABLES
    flash,      \* the flash of the target
    fbuf,       \* the buffer of the memory map entry
    written,    \* writeByteBitmap: the units gdb ever wrote
    valid       \* the state of each sector, as the set of its flags

flashVars == <<flash, fbuf, written, valid>>

SECTOR_INVALID            == {}
SECTOR_READ_VALID         == {"data"}
SECTOR_READ_ERASED_VALID  == {"data", "erased"}
SECTOR_WRITE              == {"data", "rw"}
SECTOR_WRITE_DURTY        == {"data", "rw", "dirty"}
SECTOR_WRITE_DURTY_ERASED == {"data", "rw", "dirty", "erased"}

SectorState == {SECTOR_INVALID, SECTOR_READ_VALID, SECTOR_READ_ERASED_VALID,
                SECTOR_WRITE, SECTOR_WRITE_DURTY, SECTOR_WRITE_DURTY_ERASED}

RegionTypeOK ==
    /\ flash \in [Units -> Image \cup {Torn}]
    /\ fbuf \in [Units -> Image \cup {Torn}]
    /\ written \subseteq Units
    /\ valid \in [Sectors -> SectorState]

(* activateMemMap: the buffer is filled with FF and every sector invalid.  *)
RegionInit ==
    /\ flash \in [Units -> Image]
    /\ fbuf = [u \in Units |-> Erased]
    /\ written = {}
    /\ valid = [s \in Sectors |-> SECTOR_INVALID]

SectorOf(u) == u \div SectorSize
UnitsOf(s)  == {u \in Units : SectorOf(u) = s}
Equal(s)    == \A u \in UnitsOf(s) : fbuf[u] = flash[u]
Blank(s)    == \A u \in UnitsOf(s) : flash[u] = Erased

(* gdb_write_mem walks over the sectors until the address behind the block *)
(* lies inside one: that one is marked too.                                *)
Marked(S) ==
    {s \in Sectors : \E u, v \in S : SectorOf(u) <= s /\ s <= SectorOf(v + 1)}

(* A sector never read starts as if it was erased. *)
WriteFlash(S, v) ==
    /\ fbuf' = [u \in Units |->
                  IF u \in S THEN v
                  ELSE IF SectorOf(u) \in Marked(S) /\ valid[SectorOf(u)] = SECTOR_INVALID
                  THEN Erased ELSE fbuf[u]]
    /\ written' = written \cup S
    /\ valid' = [s \in Sectors |-> IF s \in Marked(S) THEN SECTOR_WRITE ELSE valid[s]]
    /\ UNCHANGED flash

(* gdb_read_mem reads a sector from the target when it is invalid or was   *)
(* written since; of the latter it takes only the units gdb never wrote.   *)
Touched(S) == {SectorOf(u) : u \in S}

MutMerged(u) == IF valid[SectorOf(u)] \in {SECTOR_INVALID, SECTOR_WRITE}
                THEN flash[u] ELSE fbuf[u]     \* without the write bitmap

Merged(u) ==
    CASE valid[SectorOf(u)] = SECTOR_INVALID -> flash[u]
      [] valid[SectorOf(u)] = SECTOR_WRITE /\ u \notin written -> flash[u]
      [] OTHER -> fbuf[u]

ReadState(s) ==
    CASE valid[s] = SECTOR_WRITE -> SECTOR_WRITE_DURTY
      [] valid[s] = SECTOR_INVALID /\ Blank(s) /\ ~CharIsSigned -> SECTOR_READ_ERASED_VALID
      [] valid[s] = SECTOR_INVALID -> SECTOR_READ_VALID
      [] OTHER -> valid[s]

ReadFlash(S) ==
    /\ fbuf' = [u \in Units |-> IF SectorOf(u) \in Touched(S) THEN Merged(u) ELSE fbuf[u]]
    /\ valid' = [s \in Sectors |-> IF s \in Touched(S) THEN ReadState(s) ELSE valid[s]]
    /\ UNCHANGED <<flash, written>>

(* The flash itself: erasing a sector, and programming the units of U from *)
(* the buffer.  FF programs nothing; a unit that is not erased is torn.    *)
ErasedSector(s) == [u \in Units |-> IF SectorOf(u) = s THEN Erased ELSE flash[u]]

Programmed(U) ==
    [u \in Units |->
        IF u \notin U \/ fbuf[u] \in {Erased, flash[u]} THEN flash[u]
        ELSE IF flash[u] = Erased THEN fbuf[u]
        ELSE Torn]

(* The state after a comparison with the target. *)
Compared(same) == IF same THEN SECTOR_READ_VALID ELSE SECTOR_WRITE_DURTY
=============================================================================
