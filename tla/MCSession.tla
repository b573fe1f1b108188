----------------------------- MODULE MCSession ------------------------------
(* Instances of the debugging session: RAM from cell 0 on and flash cells   *)
(* 4..6, where cell 6 holds the first part of a BL.                         *)
EXTENDS SessionProperties

CONSTANTS op, st, bl

Thumb(addr) == [addr |-> addr, len |-> 2]
ARM(addr)   == [addr |-> addr, len |-> 4]

MCFlashCode == [a \in 4 .. 6 |-> IF a = 6 THEN bl ELSE op]

FlashReset == Thumb(4)
NoBlocks   == {}
NoCells    == {}

(* The lists: two addresses in RAM, three in flash, one of them also as ARM *)
(* code, and no data.                                                       *)
ListRequests == {Thumb(a) : a \in {0, 1, 4, 5, 6}} \cup {ARM(4)}
ListCode     == {Thumb(0), Thumb(4), Thumb(6)}

(* The memory: an ARM instruction in cells 0 and 1, which gdb writes as a   *)
(* whole, and data in cell 2 of the next page.                              *)
MemRequests == {ARM(0), Thumb(5)}
MemCode     == {ARM(0), Thumb(4)}
MemBlocks   == {{0, 1}, {2}}
MemStores   == {2}

(* One Thumb instruction in RAM. *)
ThumbRequests == {Thumb(0), Thumb(5)}
ThumbCode     == {Thumb(0), Thumb(4)}
ThumbBlocks   == {{0}, {1}, {1, 2}}
ThumbStores   == {1}
=============================================================================
