---------------------------- MODULE WritePieces ----------------------------
(***************************************************************************)
(* How gdb_writeback_Ram cuts a run of written bytes, count bytes from     *)
(* position pos of a RAM entry, into accesses of the target's bus: a byte  *)
(* up to a halfword boundary, a halfword up to a word boundary, words, and *)
(* a halfword and a byte for the rest.                                     *)
(***************************************************************************)
EXTENDS Naturals

(* The bytes each access takes from the run in front of it. *)
HeadByte(pos) == IF pos % 2 = 1 THEN 1 ELSE 0

MutHeadHalf(pos, count) ==      \* count is not looked at
    IF pos % 4 \in {2, 3} THEN 2 ELSE 0
HeadHalf(pos, count) == IF pos % 4 = 2 /\ count > 1 THEN 2 ELSE 0

Words(pos, count)    == 4 * (count \div 4)
TailHalf(pos, count) == IF count > 1 THEN 2 ELSE 0
TailByte(pos, count) == IF count > 0 THEN 1 ELSE 0

(* An access of len bytes in units of the bus, none if len is 0. *)
Piece(unit, at, len) == [unit |-> unit, at |-> at, len |-> len]

Pieces(pos, count) ==
    LET b1 == HeadByte(pos)
        h1 == HeadHalf(pos + b1, count - b1)
        w  == Words(pos + b1 + h1, count - b1 - h1)
        h2 == TailHalf(pos + b1 + h1 + w, count - b1 - h1 - w)
        b2 == TailByte(pos + b1 + h1 + w + h2, count - b1 - h1 - w - h2)
    IN  <<Piece(1, pos, b1), Piece(2, pos + b1, h1),
          Piece(4, pos + b1 + h1, w), Piece(2, pos + b1 + h1 + w, h2),
          Piece(1, pos + b1 + h1 + w + h2, b2)>>

(* The accesses follow one another and take the run exactly, so that no    *)
(* byte beside it is touched ("paranoia check", arm_memory_write.c:380),   *)
(* and each is aligned to its unit, as the core would otherwise turn it to *)
(* another address.                                                        *)
Exact(pos, count) ==
    LET p == Pieces(pos, count) IN
    /\ p[1].at = pos
    /\ \A i \in 1 .. 5 : p[i].len >= 0
    /\ \A i \in 1 .. 4 : p[i + 1].at = p[i].at + p[i].len
    /\ p[5].at + p[5].len = pos + count

AlignedAccess(pos, count) ==
    \A i \in 1 .. 5 : LET p == Pieces(pos, count)[i] IN
        p.len > 0 => p.at % p.unit = 0 /\ p.len % p.unit = 0

=============================================================================
