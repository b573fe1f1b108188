---------------------------- MODULE MCMemoryMap -----------------------------
(* A small address space: 8 addresses, the sign bit at 4, and pages of two. *)
(* The regions follow one another, overlap, reach to the end or have no    *)
(* length, and one of the RAMs is no number of whole pages.  The second    *)
(* map has room for one entry.                                             *)
EXTENDS MemoryMap

MCLines == {<<"UNUSED", 0, 0>>, <<"RAM", 0, 3>>, <<"SFA", 2, 1>>,
            <<"FLASH", 3, 2>>, <<"SFA", 4, 4>>, <<"RAM", 4, 4>>,
            <<"WORKSPACE", 0, 3>>}
MCRooms == <<2, 1>>
=============================================================================
