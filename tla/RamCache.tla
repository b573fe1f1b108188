------------------------------ MODULE RamCache ------------------------------
(***************************************************************************)
(* The server's write-back cache of the target's RAM: the buffer of one    *)
(* memory map entry of type MMAP_T_RAM (arm_memory_read.c,                 *)
(* arm_memory_write.c).  The cells are halfwords, the smallest unit a      *)
(* breakpoint instruction replaces; the buffer keeps one "write" bit per   *)
(* cell (writeByteBitmap) and one "read" bit per page (readPageBitmap).    *)
(* The operators below give the values the variables take in one call, so  *)
(* that a handler that makes several calls composes them in one action.    *)
(***************************************************************************)
EXTENDS Naturals

CONSTANTS
    RamSize,    \* number of cells of the memory map entry
    PageSize,   \* cells in a page (RAM_PAGE_SIZE)
    Values,     \* what a cell of a program can hold
    Brk         \* the halfword 0xB710 the server plants for a breakpoint

ASSUME RamSizeAssumption  == RamSize \in Nat
ASSUME PageSizeAssumption == PageSize \in Nat \ {0}
ASSUME BrkAssumption      == Brk \notin Values

VARIABLES
    target,     \* contents of the target's RAM
    buf,        \* memBuffer
    dirty,      \* cells whose bit of writeByteBitmap is set
    pages       \* pages whose bit of readPageBitmap is set

cacheVars == <<target, buf, dirty, pages>>

Ram       == 0 .. RamSize - 1
CellValue == Values \cup {Brk}
PageOf(a) == a \div PageSize
Page      == {PageOf(a) : a \in Ram}
Contents  == [Ram -> CellValue]

CacheTypeOK ==
    /\ target \in Contents
    /\ buf \in Contents
    /\ dirty \subseteq Ram
    /\ pages \subseteq Page

-----------------------------------------------------------------------------
(* gdb_read_mem: the pages of S that are not in the buffer yet are read    *)
(* from the target; a cell that was written meanwhile keeps its new value. *)
MissingPages(S) == {PageOf(a) : a \in S} \ pages

MutLoadedBuf(S) ==      \* the write bits are not looked at
    [a \in Ram |-> IF PageOf(a) \in MissingPages(S) THEN target[a] ELSE buf[a]]

LoadedBuf(S) ==
    [a \in Ram |-> IF PageOf(a) \in MissingPages(S) /\ a \notin dirty
                   THEN target[a] ELSE buf[a]]

Load(S) ==
    /\ buf' = LoadedBuf(S)
    /\ pages' = pages \cup MissingPages(S)
    /\ UNCHANGED <<target, dirty>>

(* gdb_write_mem: the new cells go to the buffer only.  new is a function  *)
(* on the cells written; b is the buffer before the call.                  *)
Overwritten(b, new) ==
    [a \in Ram |-> IF a \in DOMAIN new THEN new[a] ELSE b[a]]

BufWrite(new) ==
    /\ buf' = Overwritten(buf, new)
    /\ dirty' = dirty \cup DOMAIN new
    /\ UNCHANGED <<target, pages>>

(* gdb_writeback_Ram: every dirty range goes to the target and its bits    *)
(* are cleared.  WrittenBack is also what gdb has a right to see: its own  *)
(* write where one is pending, the target's cell elsewhere.                *)
WrittenBack == [a \in Ram |-> IF a \in dirty THEN buf[a] ELSE target[a]]

WriteBack ==
    /\ target' = WrittenBack
    /\ dirty' = {}
    /\ UNCHANGED <<buf, pages>>

-----------------------------------------------------------------------------
(* A page marked as read holds what the target holds, except for the cells *)
(* that gdb wrote and that are not written back yet: "there is still a     *)
(* valid copy of the instruction inside of our buffer"                     *)
(* (arm_gdbstub_break.c:648) rests on it.                                  *)
BufferTrue ==
    \A a \in Ram : PageOf(a) \in pages /\ a \notin dirty => buf[a] = target[a]
=============================================================================
