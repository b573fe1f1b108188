----------------------------- MODULE GdbMemory ------------------------------
(***************************************************************************)
(* The memory requests of one debugging session: gdb reads ('m') and       *)
(* writes ('X') through the cache of RamCache, and resumes or steps the    *)
(* target, which may store into the same RAM behind the cache's back.      *)
(* Breakpoints are left to DebugSession.                                   *)
(***************************************************************************)
EXTENDS RamCache, WritePieces

CONSTANTS
    Blocks,     \* the blocks of addresses gdb reads and writes
    StoreCells  \* the cells the target's stores go to

ASSUME StoreCellsAssumption == StoreCells \subseteq Ram

VARIABLES
    mode,       \* "prompt": serving gdb; "run", "step": the target executes
    answer      \* the last answer to gdb

memVars == <<target, buf, dirty, pages, mode, answer>>

(* An answer to gdb: a status and the cells read. *)
Reply(status, cells) == [status |-> status, cells |-> cells]
Status(status)       == Reply(status, [a \in {} |-> 0])

Answer == [status : {"none", "OK", "error"},
           cells : UNION {[S -> CellValue] : S \in Blocks \cup {{}}}]

TypeOK ==
    /\ CacheTypeOK
    /\ mode \in {"prompt", "run", "step"}
    /\ answer \in Answer

Init ==
    /\ target \in [Ram -> Values]
    /\ buf \in [Ram -> Values]
    /\ dirty = {}
    /\ pages = {}
    /\ mode = "prompt"
    /\ answer = Status("none")

(* case 'm': gdb_read_mem loads the pages the block touches and returns    *)
(* the buffer; a block that leaves the memory map entry reads nothing.     *)
ReadMem(S) ==
    /\ mode = "prompt"
    /\ IF S \subseteq Ram
       THEN Load(S) /\ answer' = Reply("OK", [a \in S |-> LoadedBuf(S)[a]])
       ELSE answer' = Status("error") /\ UNCHANGED cacheVars
    /\ UNCHANGED mode

(* case 'X': gdb_write_mem writes map entry by map entry, so that of a     *)
(* block that leaves the entry the cells inside are written before the     *)
(* failure is met.                                                         *)
MutWriteMem(new) ==     \* the length is not cut at the end of the entry
    /\ mode = "prompt"
    /\ BufWrite(new)
    /\ answer' = Status(IF DOMAIN new \subseteq Ram THEN "OK" ELSE "error")
    /\ UNCHANGED mode

WriteMem(new) ==
    /\ mode = "prompt"
    /\ BufWrite([a \in DOMAIN new \cap Ram |-> new[a]])
    /\ answer' = Status(IF DOMAIN new \subseteq Ram THEN "OK" ELSE "error")
    /\ UNCHANGED mode

(* case 'c' and action 0 of gdb_main_loop: write back, restart the core,   *)
(* and forget what was read.                                               *)
MutContinueHeld ==      \* no gdb_writeback_Ram
    /\ mode = "prompt"
    /\ pages' = {}
    /\ mode' = "run"
    /\ UNCHANGED <<target, buf, dirty, answer>>

Continue ==
    /\ mode = "prompt"
    /\ target' = WrittenBack
    /\ dirty' = {}
    /\ pages' = {}
    /\ mode' = "run"
    /\ UNCHANGED <<buf, answer>>

(* case 's' and action 1: write back and execute one instruction; the      *)
(* buffer is forgotten only if that instruction stores.  The store itself  *)
(* is TargetStore, before the debug state is entered again.                *)
Step ==
    /\ mode = "prompt"
    /\ target' = WrittenBack
    /\ dirty' = {}
    /\ \/ mode' = "run" /\ pages' = {}
       \/ mode' = "step" /\ UNCHANGED pages
    /\ UNCHANGED <<buf, answer>>

(* A store of the program.  Only an instruction that gdb_main_loop took    *)
(* for a store runs in mode "run".                                         *)
TargetStore ==
    /\ mode = "run"
    /\ \E a \in StoreCells, v \in Values : target' = [target EXCEPT ![a] = v]
    /\ UNCHANGED <<buf, dirty, pages, mode, answer>>

(* The poll loop finds the core in debug state. *)
Stop ==
    /\ mode # "prompt"
    /\ mode' = "prompt"
    /\ UNCHANGED <<target, buf, dirty, pages, answer>>

Next ==
    \/ \E S \in Blocks : ReadMem(S)
    \/ \E S \in Blocks : \E new \in [S -> Values] : WriteMem(new)
    \/ Continue \/ Step \/ TargetStore \/ Stop

Spec == Init /\ [][Next]_memVars

-----------------------------------------------------------------------------
(* The buffer is never stale while gdb can look at it. *)
BufferTrueAtPrompt == mode = "prompt" => BufferTrue

(* While the target executes nothing gdb wrote is still held back. *)
NothingHeldBack == mode # "prompt" => dirty = {}

(* The runs of written cells gdb_writeback_Ram finds, as the first cell    *)
(* and the number of cells.                                                *)
WrittenRuns ==
    {run \in Ram \X (1 .. RamSize) :
        /\ run[1] .. run[1] + run[2] - 1 \subseteq dirty
        /\ run[1] - 1 \notin dirty /\ run[1] + run[2] \notin dirty}

(* With a byte to the cell: each of these runs is written exactly, in      *)
(* accesses the bus of the target can do (arm_memory_write.c:337-382).     *)
RunsWrittenExactly ==
    \A run \in WrittenRuns :
        Exact(run[1], run[2]) /\ AlignedAccess(run[1], run[2])

Flat == INSTANCE FlatMemory WITH
    Cell <- Ram, Content <- CellValue,
    mem <- WrittenBack, running <- (mode # "prompt"), answer <- answer

(* Through the cache gdb and the target share one flat memory: each read   *)
(* answers the last value written by either, and nothing but a write of    *)
(* gdb or a store of the target changes it.                                *)
FlatSpec == Flat!Spec
=============================================================================
