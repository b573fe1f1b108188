----------------------------- MODULE Workspace -----------------------------
(***************************************************************************)
(* RAM as workspace (arm_memory_workspace.c): the top of a RAM entry of    *)
(* the memory map lends its cells to small programs of the server that     *)
(* move data over the debug channel.  What stood there is saved in the     *)
(* cache of GdbMemory as if gdb had written it, and gdb_writeback_Ram      *)
(* puts it back before the program of the user runs.                       *)
(*                                                                         *)
(* A cell is a word here, and Brk of RamCache stands for everything the    *)
(* server itself puts into the workspace: test words and programs.         *)
(***************************************************************************)
EXTENDS GdbMemory, Integers

CONSTANTS
    SegSize,    \* cells of the workspace (WORKSPACE_SEGMENT_SIZE)
    Algos,      \* the programs a flash job may ask for
    WriteAlgo,  \* WORKSPACE_ALGO_WRITE, which the write back asks for
    Careful     \* the workspace is entered only while no page of it is in
                \* the buffer with a cell that is not marked as written

(* activateMemMap cuts a RAM entry down to whole pages, and the workspace  *)
(* is four of them.                                                        *)
ASSUME SegAssumption ==
    /\ SegSize \in Nat \ {0} /\ SegSize <= RamSize
    /\ SegSize % PageSize = 0 /\ RamSize % PageSize = 0
ASSUME AlgoAssumption ==
    /\ WriteAlgo \notin Algos
    /\ (Algos \cup {WriteAlgo}) \cap {"untested", "broken", "free"} = {}
ASSUME CarefulAssumption == Careful \in BOOLEAN

VARIABLES
    inRam,      \* is memMapContainer.workspace the RAM entry, or NULL?
    state,      \* memBufferType.Workspace.state of the RAM entry
    wsMode      \* workspace_mode

wsVars   == <<inRam, state, wsMode>>
wsAllVars == <<memVars, wsVars>>

SegBase  == RamSize - SegSize
Seg      == SegBase .. RamSize - 1
SegPages == {PageOf(a) : a \in Seg}
State    == {"untested", "broken", "free", WriteAlgo} \cup Algos

WsTypeOK ==
    /\ TypeOK
    /\ inRam \in BOOLEAN
    /\ state \in State
    /\ wsMode \in {-2, -1, 0, 1, 2}

(* activateMemMap begins with a buffer of zeros, and modeWorkspace is 0 at *)
(* first, so that no workspace is set up.                                  *)
Zeros == [a \in Ram |-> CHOOSE v \in Values : TRUE]

WsInit ==
    /\ Init
    /\ buf = Zeros
    /\ inRam = FALSE
    /\ state = "untested"
    /\ wsMode = 0

-----------------------------------------------------------------------------
(* useWorkspace: the pages of the workspace that are not in the buffer are *)
(* read into it, and all their cells are marked as written.  With a        *)
(* program in the workspace already nothing is saved again.                *)
SavedPages == IF state \in {"untested", "free"} THEN SegPages \ pages ELSE {}
EnterBuf   == IF SavedPages = {} THEN buf ELSE LoadedBuf(Seg)

MutEnterDirty == dirty      \* no bit_nset

EnterDirty == dirty \cup {a \in Seg : PageOf(a) \in SavedPages}

(* The server's words reach the cells of T, some of the workspace. *)
Filled(T) == [a \in Ram |-> IF a \in T THEN Brk ELSE target[a]]

(* The test words of the first use decide whether it is usable. *)
Entered(algo, works) == IF state = "untested" /\ ~works THEN "broken" ELSE algo

Saved == Careful => \A a \in Seg : PageOf(a) \in pages => a \in dirty

(* A flash job asks for one of its programs.  The data is in flash, so the *)
(* tests of the address against the workspace pass; a request that is too  *)
(* short changes nothing.                                                  *)
UseWorkspace(algo, works) ==
    /\ mode = "prompt" /\ inRam
    /\ state \notin {algo, "broken"}
    /\ Saved
    /\ \E T \in SUBSET Seg : target' = Filled(T)
    /\ buf' = EnterBuf
    /\ dirty' = EnterDirty
    /\ pages' = pages \cup SavedPages
    /\ state' = Entered(algo, works)
    /\ UNCHANGED <<mode, answer, inRam, wsMode>>

-----------------------------------------------------------------------------
(* gdb_writeback_Ram goes through the runs of written cells outside the    *)
(* workspace first; a run of two words or more asks useWorkspace for the   *)
(* writing program, which is refused to a run that is shorter than the     *)
(* workspace or ends at its base.                                          *)
Run(lo, hi) ==
    /\ lo .. hi \subseteq dirty \ Seg
    /\ lo - 1 \notin dirty \ Seg
    /\ hi + 1 \notin dirty \ Seg

WriterLoaded ==
    /\ inRam /\ state # "broken"
    /\ \E lo, hi \in Ram :
        /\ lo < hi /\ Run(lo, hi)
        /\ hi - lo + 1 >= SegSize
        /\ hi + 1 < SegBase

(* Then the workspace is free, and what is still marked in the RAM entry,  *)
(* the workspace's own cells with the rest, is written.                    *)
MutRestored(T) ==           \* the second pass is left out
    [a \in Ram |-> IF a \in dirty \ Seg THEN buf[a] ELSE Filled(T)[a]]

Restored(T) ==
    [a \in Ram |-> IF a \in EnterDirty THEN EnterBuf[a] ELSE Filled(T)[a]]

Released(works) ==
    IF ~inRam THEN state
    ELSE IF WriterLoaded
    THEN IF Entered(WriteAlgo, works) = "broken" THEN "broken" ELSE "free"
    ELSE IF state \in {"untested", "broken"} THEN state ELSE "free"

(* gdb_writeback_Ram on the target. *)
Returned ==
    IF WriterLoaded
    THEN Saved /\ \E T \in SUBSET Seg : target' = Restored(T)
    ELSE target' = WrittenBack

WsWriteBack ==
    /\ Returned
    /\ dirty' = {}
    /\ buf' = IF WriterLoaded THEN EnterBuf ELSE buf
    /\ \E works \in BOOLEAN : state' = Released(works)

PagesAfter == pages \cup (IF WriterLoaded THEN SavedPages ELSE {})

(* The requests of GdbMemory, with this write back. *)
WsReadMem(S) == ReadMem(S) /\ UNCHANGED wsVars
WsWriteMem(new) == WriteMem(new) /\ UNCHANGED wsVars

WsContinue ==
    /\ mode = "prompt"
    /\ WsWriteBack
    /\ pages' = {}
    /\ mode' = "run"
    /\ UNCHANGED <<answer, inRam, wsMode>>

WsStep ==
    /\ mode = "prompt"
    /\ WsWriteBack
    /\ \/ mode' = "run" /\ pages' = {}
       \/ mode' = "step" /\ pages' = PagesAfter
    /\ UNCHANGED <<answer, inRam, wsMode>>

WsTargetStore == TargetStore /\ UNCHANGED wsVars
WsStop == Stop /\ UNCHANGED wsVars

-----------------------------------------------------------------------------
(* changeWorkSpaceMode, for the modes 0 to 2 that the monitor takes; a job  *)
(* in process turns the request down and loses the old mode.  Mode 2       *)
(* searches its loop with a pointer that is NULL from the start, and never *)
(* finds a RAM.                                                            *)
ChangeWorkSpaceMode(m, pending) ==
    /\ mode = "prompt"
    /\ m # wsMode
    /\ IF pending
       THEN wsMode' = -2 /\ UNCHANGED <<inRam, state>>
       ELSE /\ wsMode' = m
            /\ inRam' = IF m = 0 THEN FALSE ELSE IF m = 1 THEN TRUE ELSE inRam
            /\ state' = IF m = 1 THEN "untested" ELSE state
    /\ UNCHANGED memVars

(* UseMemMap with no job in process: the write back, deactivateMemMap, and *)
(* activateMemMap, which begins with a buffer of zeros and empty bitmaps   *)
(* and sets the workspace up for its mode again.                           *)
MutUseMemMap ==             \* no gdb_writeback_Ram
    /\ mode = "prompt"
    /\ dirty' = {} /\ pages' = {}
    /\ buf' = Zeros
    /\ wsMode' = IF wsMode < 0 THEN -1 ELSE wsMode
    /\ inRam' = (wsMode = 1)
    /\ state' = IF wsMode = 1 THEN "untested" ELSE state
    /\ answer' = Status("OK")
    /\ UNCHANGED <<target, mode>>

UseMemMap ==
    /\ mode = "prompt"
    /\ Returned
    /\ dirty' = {} /\ pages' = {}
    /\ buf' = Zeros
    /\ wsMode' = IF wsMode < 0 THEN -1 ELSE wsMode
    /\ inRam' = (wsMode = 1)
    /\ state' = IF wsMode = 1 THEN "untested" ELSE state
    /\ answer' = Status("OK")
    /\ UNCHANGED mode

-----------------------------------------------------------------------------
WsNext ==
    \/ \E S \in Blocks : WsReadMem(S)
    \/ \E S \in Blocks : \E new \in [S -> Values] : WsWriteMem(new)
    \/ \E algo \in Algos, works \in BOOLEAN : UseWorkspace(algo, works)
    \/ \E m \in 0 .. 2, pending \in BOOLEAN : ChangeWorkSpaceMode(m, pending)
    \/ UseMemMap
    \/ WsContinue \/ WsStep \/ WsTargetStore \/ WsStop

WsSpec == WsInit /\ [][WsNext]_wsAllVars

-----------------------------------------------------------------------------
(* What the server put into the RAM is gone whenever the program executes: *)
(* it never meets a word of the server's in place of its own.              *)
ProgramRunsClean == mode # "prompt" => \A a \in Ram : target[a] # Brk

(* A cell the server took is marked as written, with the program's word in *)
(* the buffer, so that the next write back returns it.                     *)
DisplacedKept ==
    \A a \in Ram : target[a] = Brk => a \in dirty /\ buf[a] \in Values

(* gdb sees through the workspace: FlatSpec of GdbMemory, that every read  *)
(* answers what gdb or the program wrote last, holds of this specification *)
(* as well.                                                                *)
WsFlatSpec == Flat!Spec
=============================================================================
