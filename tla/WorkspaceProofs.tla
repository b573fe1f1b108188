-------------------------- MODULE WorkspaceProofs --------------------------
(***************************************************************************)
(* For every RAM, workspace, page size and set of programs, as long as the *)
(* workspace is entered with care (Careful): the words the server puts     *)
(* into the RAM are gone when the program runs, and gdb sees one flat      *)
(* memory through the cache and through the workspace.                     *)
(***************************************************************************)
EXTENDS Workspace, GdbMemoryProofs

USE RamSizeAssumption, PageSizeAssumption

Loaded == inRam /\ state \notin {"untested", "broken", "free"}

(* The strengthening of GdbMemoryProofs, with what the workspace adds: no  *)
(* word of the server is ever in the buffer, one in the target lies under  *)
(* a cell that is marked as written, and so does all of the workspace      *)
(* while a program of the server is in it, since nothing is saved then.    *)
WsInv ==
    /\ Inv
    /\ WsTypeOK
    /\ buf \in [Ram -> Values]
    /\ Zeros \in [Ram -> Values]
    /\ \A a \in Ram : target[a] = Brk => a \in dirty
    /\ Loaded => Seg \subseteq dirty

-----------------------------------------------------------------------------
(* Entering the workspace *)

LEMMA SegInRam == Seg \subseteq Ram /\ SegPages \subseteq Page
<1>1. Seg \subseteq Ram
  BY SegAssumption DEF Seg, SegBase, Ram
<1> QED
  BY <1>1 DEF SegPages, Page

LEMMA WrittenBackProgram ==
    ASSUME WsInv
    PROVE  WrittenBack \in [Ram -> Values]
BY DEF WsInv, Inv, TypeOK, CacheTypeOK, Contents, CellValue, WrittenBack

(* What is in the buffer after useWorkspace is what gdb has a right to see. *)
LEMMA EnterSeen ==
    ASSUME WsInv, NEW a \in Ram, PageOf(a) \in pages \cup SavedPages
    PROVE  EnterBuf[a] = WrittenBack[a]
<1>1. CASE SavedPages = {}
  BY <1>1 DEF EnterBuf, WsInv, Inv, BufferTrue, WrittenBack, TypeOK, CacheTypeOK, Contents
<1>2. CASE SavedPages # {}
  <2>1. EnterBuf = LoadedBuf(Seg)
    BY <1>2 DEF EnterBuf
  <2>2. SavedPages \subseteq MissingPages(Seg)
    BY DEF SavedPages, MissingPages, SegPages
  <2> QED
    BY <2>1, <2>2, LoadedIsSeen DEF WsInv, Inv, TypeOK
<1> QED
  BY <1>1, <1>2

LEMMA EnterDirtyBuf ==
    ASSUME WsInv, NEW a \in EnterDirty
    PROVE  EnterBuf[a] = WrittenBack[a]
<1>1. a \in Ram
  BY SegInRam DEF EnterDirty, WsInv, Inv, TypeOK, CacheTypeOK
<1>2. CASE a \in dirty
  BY <1>1, <1>2 DEF EnterBuf, LoadedBuf, WrittenBack, WsInv, Inv, TypeOK,
                    CacheTypeOK, Contents
<1>3. CASE a \notin dirty
  <2>1. PageOf(a) \in SavedPages
    BY <1>3 DEF EnterDirty
  <2> QED
    BY <1>1, <2>1, EnterSeen
<1> QED
  BY <1>2, <1>3

LEMMA EnterTypes ==
    ASSUME WsInv
    PROVE  /\ EnterBuf \in [Ram -> Values]
           /\ EnterBuf \in Contents
           /\ EnterDirty \subseteq Ram
           /\ SavedPages \subseteq Page
<1>1. EnterBuf \in [Ram -> Values]
  <2>1. CASE SavedPages = {}
    BY <2>1 DEF EnterBuf, WsInv
  <2>2. CASE SavedPages # {}
    <3>1. \A a \in Ram : LoadedBuf(Seg)[a] \in Values
      BY DEF LoadedBuf, WsInv, Inv, TypeOK, CacheTypeOK, Contents, CellValue
    <3> QED
      BY <2>2, <3>1 DEF EnterBuf, LoadedBuf
  <2> QED
    BY <2>1, <2>2
<1>2. EnterBuf \in Contents
  BY <1>1, CellValues DEF Contents
<1>3. EnterDirty \subseteq Ram
  BY SegInRam DEF EnterDirty, WsInv, Inv, TypeOK, CacheTypeOK
<1>4. SavedPages \subseteq Page
  BY SegInRam DEF SavedPages
<1> QED
  BY <1>1, <1>2, <1>3, <1>4

(* Every cell of the workspace is marked as written once it is entered. *)
LEMMA EnterAllDirty ==
    ASSUME WsInv, Careful, Saved, inRam, state # "broken"
    PROVE  Seg \subseteq EnterDirty
<1> SUFFICES ASSUME NEW a \in Seg, a \notin dirty
             PROVE  a \in EnterDirty
  BY DEF EnterDirty
<1>1. state \in {"untested", "free"}
  BY DEF WsInv, Loaded
<1>2. PageOf(a) \in SegPages
  BY DEF SegPages
<1>3. PageOf(a) \notin pages
  BY DEF Saved
<1> QED
  BY <1>1, <1>2, <1>3 DEF EnterDirty, SavedPages

(* So what the second pass of gdb_writeback_Ram puts back is what was      *)
(* there, whichever words the server wrote.                                *)
LEMMA RestoredIsSeen ==
    ASSUME WsInv, Careful, Saved, inRam, state # "broken", NEW T \in SUBSET Seg
    PROVE  Restored(T) = WrittenBack
<1>1. \A a \in Ram : a \in EnterDirty => EnterBuf[a] = WrittenBack[a]
  BY EnterDirtyBuf
<1>2. \A a \in Ram : a \notin EnterDirty => Filled(T)[a] = WrittenBack[a]
  <2> SUFFICES ASSUME NEW a \in Ram, a \notin EnterDirty
               PROVE  Filled(T)[a] = WrittenBack[a]
    OBVIOUS
  <2>1. a \notin T /\ a \notin dirty
    BY EnterAllDirty DEF EnterDirty
  <2> QED
    BY <2>1 DEF Filled, WrittenBack
<1> QED
  BY <1>1, <1>2 DEF Restored, WrittenBack

LEMMA ReturnedIsSeen ==
    ASSUME WsInv, Careful, Returned
    PROVE  target' = WrittenBack
<1>1. CASE WriterLoaded
  <2>1. Saved /\ inRam /\ state # "broken"
    BY <1>1 DEF Returned, WriterLoaded
  <2>2. PICK T \in SUBSET Seg : target' = Restored(T)
    BY <1>1 DEF Returned
  <2> QED
    BY <2>1, <2>2, RestoredIsSeen
<1>2. CASE ~WriterLoaded
  BY <1>2 DEF Returned
<1> QED
  BY <1>1, <1>2

-----------------------------------------------------------------------------
(* Every action preserves the invariant *)

LEMMA WsInitInv == WsInit => WsInv
<1> SUFFICES ASSUME WsInit
             PROVE  WsInv
  OBVIOUS
<1>1. Inv
  BY InitInv DEF WsInit
<1>2. \A a \in Ram : target[a] # Brk
  BY BrkAssumption DEF WsInit, Init
<1> QED
  BY <1>1, <1>2 DEF WsInit, Init, WsInv, Inv, WsTypeOK, State, Loaded

(* A step that leaves the target and the workspace alone and takes no mark *)
(* back.                                                                   *)
LEMMA KeepsWorkspace ==
    ASSUME WsInv, Inv', buf' \in [Ram -> Values], UNCHANGED <<target, wsVars>>,
           dirty \subseteq dirty'
    PROVE  WsInv'
BY DEF WsInv, Inv, WsTypeOK, wsVars, Loaded

LEMMA WsReadMemInv ==
    ASSUME WsInv, NEW S \in Blocks, WsReadMem(S)
    PROVE  WsInv'
<1>1. Inv'
  BY ReadMemInv DEF WsReadMem, WsInv
<1>2. buf' \in [Ram -> Values]
  <2>1. \A a \in Ram : LoadedBuf(S)[a] \in Values
    BY DEF LoadedBuf, WsInv, Inv, TypeOK, CacheTypeOK, Contents, CellValue
  <2> QED
    BY <2>1 DEF WsReadMem, ReadMem, Load, LoadedBuf, cacheVars, WsInv
<1>3. UNCHANGED <<target, wsVars>> /\ dirty' = dirty
  BY DEF WsReadMem, ReadMem, Load, cacheVars
<1> QED
  BY <1>1, <1>2, <1>3, KeepsWorkspace

LEMMA WsWriteMemInv ==
    ASSUME WsInv, NEW S \in Blocks, NEW new \in [S -> Values], WsWriteMem(new)
    PROVE  WsInv'
<1>1. Inv'
  BY WriteMemInv DEF WsWriteMem, WsInv
<1>2. buf' \in [Ram -> Values]
  BY DEF WsWriteMem, WriteMem, BufWrite, Overwritten, WsInv
<1>3. UNCHANGED <<target, wsVars>> /\ dirty \subseteq dirty'
  BY DEF WsWriteMem, WriteMem, BufWrite
<1> QED
  BY <1>1, <1>2, <1>3, KeepsWorkspace

LEMMA UseWorkspaceInv ==
    ASSUME WsInv, Careful, NEW algo \in Algos, NEW works \in BOOLEAN,
           UseWorkspace(algo, works)
    PROVE  WsInv'
<1>1. PICK T \in SUBSET Seg : target' = Filled(T)
  BY DEF UseWorkspace
<1>2. Seg \subseteq dirty'
  BY EnterAllDirty DEF UseWorkspace
<1>3. /\ buf' \in [Ram -> Values] /\ buf' \in Contents
      /\ dirty' \subseteq Ram /\ pages' \subseteq Page
  BY EnterTypes DEF UseWorkspace, WsInv, Inv, TypeOK, CacheTypeOK
<1>4. target' \in Contents
  BY <1>1 DEF Filled, WsInv, Inv, TypeOK, CacheTypeOK, Contents, CellValue
<1>5. \A a \in Ram : target'[a] = Brk => a \in dirty'
  BY <1>1, <1>2 DEF Filled, WsInv, UseWorkspace, EnterDirty
<1>6. BufferTrue'
  <2> SUFFICES ASSUME NEW a \in Ram, PageOf(a) \in pages', a \notin dirty'
               PROVE  buf'[a] = target'[a]
    BY DEF BufferTrue
  <2>1. buf'[a] = WrittenBack[a]
    BY EnterSeen DEF UseWorkspace
  <2>2. a \notin dirty /\ a \notin T
    BY <1>2 DEF UseWorkspace, EnterDirty
  <2> QED
    BY <1>1, <2>1, <2>2 DEF WrittenBack, Filled
<1>7. state' \in State
  BY DEF UseWorkspace, Entered, State
<1>8. Inv'
  BY <1>3, <1>4, <1>6 DEF UseWorkspace, WsInv, Inv, TypeOK, CacheTypeOK, NothingHeldBack
<1> QED
  BY <1>2, <1>3, <1>5, <1>7, <1>8 DEF UseWorkspace, WsInv, Inv, WsTypeOK, Loaded

LEMMA ReleasedState ==
    ASSUME WsInv, NEW works \in BOOLEAN
    PROVE  /\ Released(works) \in State
           /\ inRam => Released(works) \in {"untested", "broken", "free"}
BY DEF Released, State, WsInv, WsTypeOK

(* After a write back nothing is marked, and the target holds what gdb and *)
(* the program have a right to see; the pages still in the buffer are      *)
(* among those that held it before.                                        *)
LEMMA WrittenBackInv ==
    ASSUME WsInv, Careful, Returned, dirty' = {},
           buf' \in [Ram -> Values], answer' \in Answer,
           mode' \in {"prompt", "run", "step"},
           mode' = "run" => pages' = {},
           pages' \subseteq Page,
           \A a \in Ram : PageOf(a) \in pages' => buf'[a] = WrittenBack[a],
           inRam' \in BOOLEAN, state' \in State, wsMode' \in {-2, -1, 0, 1, 2},
           ~Loaded'
    PROVE  WsInv'
<1>1. target' = WrittenBack
  BY ReturnedIsSeen
<1>2. target' \in [Ram -> Values] /\ target' \in Contents /\ buf' \in Contents
  BY <1>1, WrittenBackProgram, CellValues DEF Contents
<1>3. BufferTrue'
  BY <1>1 DEF BufferTrue
<1>4. Inv'
  BY <1>2, <1>3 DEF Inv, TypeOK, CacheTypeOK, NothingHeldBack
<1>5. \A a \in Ram : target'[a] # Brk
  BY <1>2, BrkAssumption
<1> QED
  BY <1>2, <1>4, <1>5 DEF WsInv, WsTypeOK, Inv

LEMMA WsContinueInv ==
    ASSUME WsInv, Careful, WsContinue
    PROVE  WsInv'
<1>1. PICK works \in BOOLEAN : state' = Released(works)
  BY DEF WsContinue, WsWriteBack
<1>2. state' \in State /\ ~Loaded'
  BY <1>1, ReleasedState DEF WsContinue, Loaded
<1>3. buf' \in [Ram -> Values]
  BY EnterTypes DEF WsContinue, WsWriteBack, WsInv
<1> QED
  BY <1>2, <1>3, WrittenBackInv DEF WsContinue, WsWriteBack, WsInv, WsTypeOK, TypeOK

LEMMA WsStepInv ==
    ASSUME WsInv, Careful, WsStep
    PROVE  WsInv'
<1>1. PICK works \in BOOLEAN : state' = Released(works)
  BY DEF WsStep, WsWriteBack
<1>2. state' \in State /\ ~Loaded'
  BY <1>1, ReleasedState DEF WsStep, Loaded
<1>3. buf' \in [Ram -> Values]
  BY EnterTypes DEF WsStep, WsWriteBack, WsInv
<1>4. pages' \subseteq Page
  BY EnterTypes DEF WsStep, PagesAfter, WsInv, Inv, TypeOK, CacheTypeOK
<1>5. ASSUME NEW a \in Ram, PageOf(a) \in pages'
      PROVE  buf'[a] = WrittenBack[a]
  <2>1. CASE WriterLoaded
    <3>1. PageOf(a) \in pages \cup SavedPages
      BY <1>5, <2>1 DEF WsStep, PagesAfter
    <3> QED
      BY <2>1, <3>1, EnterSeen DEF WsStep, WsWriteBack
  <2>2. CASE ~WriterLoaded
    <3>1. PageOf(a) \in pages
      BY <1>5, <2>2 DEF WsStep, PagesAfter
    <3> QED
      BY <2>2, <3>1 DEF WsStep, WsWriteBack, WsInv, Inv, BufferTrue, WrittenBack
  <2> QED
    BY <2>1, <2>2
<1> QED
  BY <1>2, <1>3, <1>4, <1>5, WrittenBackInv
  DEF WsStep, WsWriteBack, WsInv, WsTypeOK, TypeOK

LEMMA UseMemMapInv ==
    ASSUME WsInv, Careful, UseMemMap
    PROVE  WsInv'
<1>1. state' \in State /\ ~Loaded'
  BY DEF UseMemMap, Loaded, State, WsInv, WsTypeOK
<1>2. answer' \in Answer
  BY StatusType DEF UseMemMap
<1>3. wsMode' \in {-2, -1, 0, 1, 2}
  BY DEF UseMemMap, WsInv, WsTypeOK
<1>4. buf' \in [Ram -> Values] /\ mode' = "prompt" /\ inRam' \in BOOLEAN
      /\ pages' = {} /\ dirty' = {} /\ Returned
  BY DEF UseMemMap, WsInv
<1> QED
  BY <1>1, <1>2, <1>3, <1>4, WrittenBackInv

LEMMA ChangeWorkSpaceModeInv ==
    ASSUME WsInv, NEW m \in 0 .. 2, NEW pending \in BOOLEAN,
           ChangeWorkSpaceMode(m, pending)
    PROVE  WsInv'
<1>1. Inv'
  BY DEF ChangeWorkSpaceMode, memVars, WsInv, Inv, TypeOK, CacheTypeOK, BufferTrue,
         NothingHeldBack
<1>2. inRam' \in BOOLEAN
  BY DEF ChangeWorkSpaceMode, WsInv, WsTypeOK
<1>3. state' \in State
  BY DEF ChangeWorkSpaceMode, WsInv, WsTypeOK, State
<1>4. wsMode' \in {-2, -1, 0, 1, 2}
  <2>1. m \in {0, 1, 2}
    OBVIOUS
  <2>2. wsMode' \in {-2, m}
    BY Zenon DEF ChangeWorkSpaceMode
  <2> QED
    BY <2>1, <2>2
<1>5. Loaded' => Loaded
  BY DEF ChangeWorkSpaceMode, Loaded
<1> QED
  BY <1>1, <1>2, <1>3, <1>4, <1>5
  DEF ChangeWorkSpaceMode, memVars, WsInv, Inv, WsTypeOK

LEMMA WsTargetStoreInv ==
    ASSUME WsInv, WsTargetStore
    PROVE  WsInv'
<1>1. Inv'
  BY TargetStoreInv DEF WsTargetStore, WsInv
<1>2. PICK a \in StoreCells, v \in Values : target' = [target EXCEPT ![a] = v]
  BY DEF WsTargetStore, TargetStore
<1>3. \A b \in Ram : target'[b] = Brk => b \in dirty'
  <2>1. target \in [Ram -> CellValue] /\ a \in Ram /\ v # Brk
    BY StoreCellsAssumption, BrkAssumption
    DEF WsInv, Inv, TypeOK, CacheTypeOK, Contents
  <2>2. dirty' = dirty
    BY DEF WsTargetStore, TargetStore
  <2> QED
    BY <1>2, <2>1, <2>2 DEF WsInv
<1> QED
  BY <1>1, <1>3 DEF WsTargetStore, TargetStore, wsVars, WsInv, Inv, WsTypeOK, Loaded

LEMMA WsStopInv ==
    ASSUME WsInv, WsStop
    PROVE  WsInv'
<1>1. Inv'
  BY StopInv DEF WsStop, WsInv
<1> QED
  BY <1>1, KeepsWorkspace DEF WsStop, Stop, WsInv

LEMMA WsNextInv == WsInv /\ Careful /\ [WsNext]_wsAllVars => WsInv'
<1> SUFFICES ASSUME WsInv, Careful, [WsNext]_wsAllVars
             PROVE  WsInv'
  OBVIOUS
<1>1. ASSUME NEW S \in Blocks, WsReadMem(S)
      PROVE  WsInv'
  BY <1>1, WsReadMemInv
<1>2. ASSUME NEW S \in Blocks, NEW new \in [S -> Values], WsWriteMem(new)
      PROVE  WsInv'
  BY <1>2, WsWriteMemInv
<1>3. ASSUME NEW algo \in Algos, NEW works \in BOOLEAN, UseWorkspace(algo, works)
      PROVE  WsInv'
  BY <1>3, UseWorkspaceInv
<1>4. ASSUME NEW m \in 0 .. 2, NEW pending \in BOOLEAN,
             ChangeWorkSpaceMode(m, pending)
      PROVE  WsInv'
  BY <1>4, ChangeWorkSpaceModeInv
<1>5. CASE UseMemMap
  BY <1>5, UseMemMapInv
<1>6. CASE WsContinue
  BY <1>6, WsContinueInv
<1>7. CASE WsStep
  BY <1>7, WsStepInv
<1>8. CASE WsTargetStore
  BY <1>8, WsTargetStoreInv
<1>9. CASE WsStop
  BY <1>9, WsStopInv
<1>10. CASE UNCHANGED wsAllVars
  <2>1. Inv'
    BY <1>10 DEF wsAllVars, memVars, WsInv, Inv, TypeOK, CacheTypeOK, BufferTrue,
                 NothingHeldBack
  <2> QED
    BY <1>10, <2>1, KeepsWorkspace DEF wsAllVars, memVars, WsInv
<1> QED
  BY <1>1, <1>2, <1>3, <1>4, <1>5, <1>6, <1>7, <1>8, <1>9, <1>10 DEF WsNext

-----------------------------------------------------------------------------
(* The invariant holds in every state. *)
THEOREM WsInvariance ==
    ASSUME Careful
    PROVE  WsSpec => []WsInv
<1>1. WsInv /\ [WsNext]_wsAllVars => WsInv'
  BY WsNextInv
<1> QED
  BY <1>1, WsInitInv, PTL DEF WsSpec

(* Type correctness: saving and restoring the workspace keeps the bitmaps  *)
(* and the buffer inside the RAM entry.                                    *)
THEOREM WsTypeCorrect ==
    ASSUME Careful
    PROVE  WsSpec => []WsTypeOK
<1>1. WsInv => WsTypeOK
  BY DEF WsInv
<1>2. WsSpec => []WsInv
  BY WsInvariance
<1> QED
  BY <1>1, <1>2, PTL

(* No program of the server is left in the RAM the user's program runs in. *)
THEOREM RunsClean ==
    ASSUME Careful
    PROVE  WsSpec => []ProgramRunsClean
<1>1. WsInv => ProgramRunsClean
  BY DEF WsInv, Inv, NothingHeldBack, ProgramRunsClean
<1>2. WsSpec => []WsInv
  BY WsInvariance
<1> QED
  BY <1>1, <1>2, PTL

(* What the workspace displaces is in the buffer, marked to be restored. *)
THEOREM KeepsDisplaced ==
    ASSUME Careful
    PROVE  WsSpec => []DisplacedKept
<1>1. WsInv => DisplacedKept
  BY DEF WsInv, DisplacedKept
<1>2. WsSpec => []WsInv
  BY WsInvariance
<1> QED
  BY <1>1, <1>2, PTL

-----------------------------------------------------------------------------
(* The refinement of the flat memory *)

LEMMA UseWorkspaceFlat ==
    ASSUME WsInv, Careful, NEW algo \in Algos, NEW works \in BOOLEAN,
           UseWorkspace(algo, works)
    PROVE  UNCHANGED Flat!flatVars
<1>1. PICK T \in SUBSET Seg : target' = Filled(T)
  BY DEF UseWorkspace
<1>2. WrittenBack' = Restored(T)
  BY <1>1 DEF UseWorkspace, WrittenBack, Restored
<1>3. Restored(T) = WrittenBack
  BY RestoredIsSeen DEF UseWorkspace
<1> QED
  BY <1>2, <1>3 DEF UseWorkspace, Flat!flatVars

LEMMA ReturnedKeepsSeen ==
    ASSUME WsInv, Careful, Returned, dirty' = {}
    PROVE  WrittenBack' = WrittenBack
BY ReturnedIsSeen DEF WrittenBack

LEMMA WsFlatNext == WsInv /\ Careful /\ [WsNext]_wsAllVars => [Flat!Next]_Flat!flatVars
<1> SUFFICES ASSUME WsInv, Careful, [WsNext]_wsAllVars
             PROVE  Flat!Next \/ UNCHANGED Flat!flatVars
  OBVIOUS
<1>1. ASSUME NEW S \in Blocks, WsReadMem(S)
      PROVE  Flat!Next
  BY <1>1, ReadMemFlat DEF WsReadMem, WsInv, Flat!Next
<1>2. ASSUME NEW S \in Blocks, NEW new \in [S -> Values], WsWriteMem(new)
      PROVE  Flat!Next
  <2>1. new \in [S -> CellValue]
    BY CellValues
  <2> QED
    BY <1>2, <2>1, WriteMemFlat DEF WsWriteMem, WsInv, Flat!Next
<1>3. ASSUME NEW algo \in Algos, NEW works \in BOOLEAN, UseWorkspace(algo, works)
      PROVE  UNCHANGED Flat!flatVars
  BY <1>3, UseWorkspaceFlat
<1>4. ASSUME NEW m \in 0 .. 2, NEW pending \in BOOLEAN,
             ChangeWorkSpaceMode(m, pending)
      PROVE  UNCHANGED Flat!flatVars
  BY <1>4 DEF ChangeWorkSpaceMode, memVars, WrittenBack, Flat!flatVars
<1>5. CASE UseMemMap
  <2>1. WrittenBack' = WrittenBack
    BY <1>5, ReturnedKeepsSeen DEF UseMemMap
  <2> QED
    BY <1>5, <2>1 DEF UseMemMap, Flat!Next, Flat!Other, Status, Reply,
                      Flat!Status, Flat!Reply
<1>6. CASE WsContinue \/ WsStep
  <2>1. WrittenBack' = WrittenBack
    BY <1>6, ReturnedKeepsSeen DEF WsContinue, WsStep, WsWriteBack
  <2> QED
    BY <1>6, <2>1 DEF WsContinue, WsStep, Flat!Next, Flat!Resume
<1>7. CASE WsTargetStore
  BY <1>7, TargetStoreFlat DEF WsTargetStore, WsInv, Flat!Next
<1>8. CASE WsStop
  BY <1>8, StopFlat DEF WsStop, Flat!Next
<1>9. CASE UNCHANGED wsAllVars
  BY <1>9 DEF wsAllVars, memVars, WrittenBack, Flat!flatVars
<1> QED
  BY <1>1, <1>2, <1>3, <1>4, <1>5, <1>6, <1>7, <1>8, <1>9 DEF WsNext

(* The workspace is transparent: gdb reads what the program and gdb wrote, *)
(* whatever ran in the workspace in between.                               *)
THEOREM WorkspaceTransparent ==
    ASSUME Careful
    PROVE  WsSpec => WsFlatSpec
<1>1. WsInit => Flat!Init
  BY FlatInit DEF WsInit
<1>2. WsInv /\ [WsNext]_wsAllVars => [Flat!Next]_Flat!flatVars
  BY WsFlatNext
<1>3. WsSpec => []WsInv
  BY WsInvariance
<1> QED
  BY <1>1, <1>2, <1>3, PTL DEF WsSpec, WsFlatSpec, Flat!Spec
=============================================================================
