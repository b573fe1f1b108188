-------------------------- MODULE GdbMemoryProofs ---------------------------
(***************************************************************************)
(* For every RAM, page size, set of blocks and set of stores: the cache is *)
(* type correct, its buffer is never stale, nothing is held back while the *)
(* target executes, and gdb and the target share one flat memory.          *)
(***************************************************************************)
EXTENDS GdbMemory, TLAPS

USE RamSizeAssumption, PageSizeAssumption

(* The strengthening: the buffer is true whatever the mode, because no     *)
(* page is marked as read while the target may store.                      *)
Inv ==
    /\ TypeOK
    /\ BufferTrue
    /\ mode = "run" => pages = {}
    /\ NothingHeldBack

-----------------------------------------------------------------------------
(* The operators on the cache *)

LEMMA CellValues == Values \subseteq CellValue
BY DEF CellValue

LEMMA AnswerType ==
    ASSUME NEW status \in {"none", "OK", "error"},
           NEW S \in Blocks \cup {{}}, NEW cells \in [S -> CellValue]
    PROVE  Reply(status, cells) \in Answer
<1>1. cells \in UNION {[T -> CellValue] : T \in Blocks \cup {{}}}
  OBVIOUS
<1> QED
  BY <1>1 DEF Reply, Answer

LEMMA StatusType ==
    ASSUME NEW status \in {"none", "OK", "error"}
    PROVE  Status(status) \in Answer
<1>1. [a \in {} |-> 0] \in [{} -> CellValue]
  OBVIOUS
<1> QED
  BY <1>1, AnswerType DEF Status

LEMMA WrittenBackType ==
    ASSUME CacheTypeOK
    PROVE  WrittenBack \in Contents
BY DEF CacheTypeOK, Contents, WrittenBack

(* A load keeps the buffer's type, and whatever it replaces is a clean     *)
(* cell that it takes from the target.                                     *)
LEMMA LoadedBufType ==
    ASSUME CacheTypeOK, NEW S
    PROVE  LoadedBuf(S) \in Contents
BY DEF CacheTypeOK, Contents, LoadedBuf

(* After a load every cell of a page in the buffer is the one gdb is to    *)
(* see.                                                                    *)
LEMMA LoadedIsSeen ==
    ASSUME CacheTypeOK, BufferTrue, NEW S, NEW a \in Ram,
           PageOf(a) \in pages \cup MissingPages(S)
    PROVE  LoadedBuf(S)[a] = WrittenBack[a]
BY DEF CacheTypeOK, Contents, BufferTrue, LoadedBuf, WrittenBack, MissingPages

LEMMA MissingPagesType ==
    ASSUME NEW S \in SUBSET Ram
    PROVE  MissingPages(S) \subseteq Page
BY DEF MissingPages, Page

LEMMA LoadStep ==
    ASSUME CacheTypeOK, BufferTrue, NEW S \in SUBSET Ram, Load(S)
    PROVE  /\ CacheTypeOK'
           /\ BufferTrue'
           /\ WrittenBack' = WrittenBack
<1>1. CacheTypeOK'
  BY LoadedBufType, MissingPagesType DEF Load, CacheTypeOK
<1>2. BufferTrue'
  <2> SUFFICES ASSUME NEW a \in Ram, PageOf(a) \in pages', a \notin dirty'
               PROVE  buf'[a] = target'[a]
    BY DEF BufferTrue
  <2>1. LoadedBuf(S)[a] = WrittenBack[a]
    BY LoadedIsSeen DEF Load
  <2> QED
    BY <2>1 DEF Load, WrittenBack
<1>3. WrittenBack' = WrittenBack
  BY DEF Load, WrittenBack, LoadedBuf
<1> QED
  BY <1>1, <1>2, <1>3

LEMMA BufWriteStep ==
    ASSUME CacheTypeOK, BufferTrue, NEW S \in SUBSET Ram,
           NEW new \in [S -> CellValue], BufWrite(new)
    PROVE  /\ CacheTypeOK'
           /\ BufferTrue'
           /\ WrittenBack' = Overwritten(WrittenBack, new)
<1>1. CacheTypeOK'
  BY DEF BufWrite, Overwritten, CacheTypeOK, Contents
<1>2. BufferTrue'
  BY DEF BufWrite, Overwritten, BufferTrue, CacheTypeOK, Contents
<1>3. WrittenBack' = Overwritten(WrittenBack, new)
  BY DEF BufWrite, Overwritten, WrittenBack
<1> QED
  BY <1>1, <1>2, <1>3
LEMMA WriteBackStep ==
    ASSUME CacheTypeOK, target' = WrittenBack, dirty' = {}
    PROVE  WrittenBack' = WrittenBack
BY DEF WrittenBack, CacheTypeOK, Contents

-----------------------------------------------------------------------------
(* Every action preserves the invariant *)

LEMMA InitInv == Init => Inv
BY StatusType DEF Init, Inv, TypeOK, CacheTypeOK, Contents, CellValue,
                  BufferTrue, NothingHeldBack

LEMMA ReadMemInv ==
    ASSUME Inv, NEW S \in Blocks, ReadMem(S)
    PROVE  Inv'
<1>1. CASE S \subseteq Ram
  <2>1. Load(S) /\ answer' = Reply("OK", [a \in S |-> LoadedBuf(S)[a]])
    BY <1>1 DEF ReadMem
  <2>2. CacheTypeOK' /\ BufferTrue'
    BY <1>1, <2>1, LoadStep DEF Inv, TypeOK
  <2>3. answer' \in Answer
    <3>1. [a \in S |-> LoadedBuf(S)[a]] \in [S -> CellValue]
      BY <1>1, LoadedBufType DEF Inv, TypeOK, Contents
    <3> QED
      BY <2>1, <3>1, AnswerType
  <2> QED
    BY <2>1, <2>2, <2>3 DEF ReadMem, Load, Inv, TypeOK, NothingHeldBack
<1>2. CASE ~(S \subseteq Ram)
  <2>1. answer' \in Answer
    BY <1>2, StatusType DEF ReadMem
  <2> QED
    BY <1>2, <2>1 DEF ReadMem, cacheVars, Inv, TypeOK, CacheTypeOK, BufferTrue,
                      NothingHeldBack
<1> QED
  BY <1>1, <1>2

LEMMA WriteMemInv ==
    ASSUME Inv, NEW S \in Blocks, NEW new \in [S -> Values], WriteMem(new)
    PROVE  Inv'
<1> DEFINE inside == [a \in DOMAIN new \cap Ram |-> new[a]]
<1>1. S \cap Ram \in SUBSET Ram /\ inside \in [S \cap Ram -> CellValue]
  BY CellValues
<1>2. CacheTypeOK' /\ BufferTrue'
  BY <1>1, BufWriteStep DEF WriteMem, Inv, TypeOK
<1>3. answer' \in Answer
  BY StatusType DEF WriteMem
<1> QED
  BY <1>2, <1>3 DEF WriteMem, BufWrite, Inv, TypeOK, NothingHeldBack

LEMMA ContinueInv ==
    ASSUME Inv, Continue
    PROVE  Inv'
BY WrittenBackType DEF Continue, Inv, TypeOK, CacheTypeOK, BufferTrue, NothingHeldBack

LEMMA StepInv ==
    ASSUME Inv, Step
    PROVE  Inv'
<1>1. CacheTypeOK'
  BY WrittenBackType DEF Step, Inv, TypeOK, CacheTypeOK
<1>2. BufferTrue'
  BY DEF Step, Inv, TypeOK, CacheTypeOK, Contents, BufferTrue, WrittenBack
<1> QED
  BY <1>1, <1>2 DEF Step, Inv, TypeOK, NothingHeldBack

LEMMA TargetStoreInv ==
    ASSUME Inv, TargetStore
    PROVE  Inv'
<1>1. target' \in Contents
  BY StoreCellsAssumption, CellValues DEF TargetStore, Inv, TypeOK, CacheTypeOK, Contents
<1> QED
  BY <1>1 DEF TargetStore, Inv, TypeOK, CacheTypeOK, BufferTrue, NothingHeldBack

LEMMA StopInv ==
    ASSUME Inv, Stop
    PROVE  Inv'
BY DEF Stop, Inv, TypeOK, CacheTypeOK, BufferTrue, NothingHeldBack

LEMMA NextInv == Inv /\ [Next]_memVars => Inv'
<1> SUFFICES ASSUME Inv, [Next]_memVars
             PROVE  Inv'
  OBVIOUS
<1>1. ASSUME NEW S \in Blocks, ReadMem(S)
      PROVE  Inv'
  BY <1>1, ReadMemInv
<1>2. ASSUME NEW S \in Blocks, NEW new \in [S -> Values], WriteMem(new)
      PROVE  Inv'
  BY <1>2, WriteMemInv
<1>3. CASE Continue
  BY <1>3, ContinueInv
<1>4. CASE Step
  BY <1>4, StepInv
<1>5. CASE TargetStore
  BY <1>5, TargetStoreInv
<1>6. CASE Stop
  BY <1>6, StopInv
<1>7. CASE UNCHANGED memVars
  BY <1>7 DEF memVars, Inv, TypeOK, CacheTypeOK, BufferTrue, NothingHeldBack
<1> QED
  BY <1>1, <1>2, <1>3, <1>4, <1>5, <1>6, <1>7 DEF Next

-----------------------------------------------------------------------------
(* The invariant holds in every state. *)
THEOREM Invariance == Spec => []Inv
BY InitInv, NextInv, PTL DEF Spec

(* Type correctness: handlers keep the cache inside the memory map entry   *)
(* and answer gdb with cells of the block it asked for.                    *)
THEOREM TypeCorrect == Spec => []TypeOK
<1>1. Inv => TypeOK
  BY DEF Inv
<1> QED
  BY <1>1, Invariance, PTL

(* At the prompt the buffer of gdb_read_mem is never stale. *)
THEOREM BufferNeverStale == Spec => []BufferTrueAtPrompt
<1>1. Inv => BufferTrueAtPrompt
  BY DEF Inv, BufferTrueAtPrompt
<1> QED
  BY <1>1, Invariance, PTL

(* gdb_writeback_Ram is never missed on the way to the running target. *)
THEOREM NeverHeldBack == Spec => []NothingHeldBack
<1>1. Inv => NothingHeldBack
  BY DEF Inv
<1> QED
  BY <1>1, Invariance, PTL

-----------------------------------------------------------------------------
(* The refinement of the flat memory *)

LEMMA FlatInit == Init => Flat!Init
BY CellValues DEF Init, Flat!Init, WrittenBack, Status, Reply, Flat!Status, Flat!Reply

LEMMA ReadMemFlat ==
    ASSUME Inv, NEW S \in Blocks, ReadMem(S)
    PROVE  Flat!Read(S) \/ Flat!Other
<1>1. CASE S \subseteq Ram
  <2>1. Load(S) /\ answer' = Reply("OK", [a \in S |-> LoadedBuf(S)[a]])
    BY <1>1 DEF ReadMem
  <2>2. WrittenBack' = WrittenBack
    BY <1>1, <2>1, LoadStep DEF Inv, TypeOK
  <2>3. \A a \in S : LoadedBuf(S)[a] = WrittenBack[a]
    BY <1>1, LoadedIsSeen DEF Inv, TypeOK, MissingPages
  <2> QED
    BY <1>1, <2>1, <2>2, <2>3 DEF ReadMem, Flat!Read, Reply, Flat!Reply
<1>2. CASE ~(S \subseteq Ram)
  BY <1>2 DEF ReadMem, cacheVars, WrittenBack, Flat!Other, Status, Reply,
              Flat!Status, Flat!Reply
<1> QED
  BY <1>1, <1>2

LEMMA WriteMemFlat ==
    ASSUME Inv, NEW S \in Blocks, NEW new \in [S -> Values], WriteMem(new)
    PROVE  Flat!Write(new)
<1> DEFINE inside == [a \in DOMAIN new \cap Ram |-> new[a]]
<1>1. S \cap Ram \in SUBSET Ram /\ inside \in [S \cap Ram -> CellValue]
  BY CellValues
<1>2. WrittenBack' = Overwritten(WrittenBack, inside)
  BY <1>1, BufWriteStep DEF WriteMem, Inv, TypeOK
<1> QED
  BY <1>2 DEF WriteMem, Overwritten, Flat!Write, Status, Reply, Flat!Status, Flat!Reply

LEMMA ResumeFlat ==
    ASSUME Inv, Continue \/ Step
    PROVE  Flat!Resume
<1>1. WrittenBack' = WrittenBack
  BY WriteBackStep DEF Continue, Step, Inv, TypeOK
<1> QED
  BY <1>1 DEF Continue, Step, Flat!Resume

LEMMA TargetStoreFlat ==
    ASSUME Inv, TargetStore
    PROVE  Flat!Store
<1>1. dirty = {} /\ dirty' = {}
  BY DEF TargetStore, Inv, NothingHeldBack
<1>2. WrittenBack = target
  BY <1>1 DEF WrittenBack, Inv, TypeOK, CacheTypeOK, Contents
<1>3. PICK a \in StoreCells, v \in Values : target' = [target EXCEPT ![a] = v]
  BY DEF TargetStore
<1>4. WrittenBack' = target'
  BY <1>1, <1>3 DEF WrittenBack, Inv, TypeOK, CacheTypeOK, Contents
<1>5. a \in Ram /\ v \in CellValue
  BY StoreCellsAssumption, CellValues
<1> QED
  BY <1>2, <1>3, <1>4, <1>5 DEF TargetStore, Flat!Store

LEMMA StopFlat ==
    ASSUME Stop
    PROVE  Flat!Halt
BY DEF Stop, Flat!Halt, WrittenBack

LEMMA FlatNext == Inv /\ [Next]_memVars => [Flat!Next]_Flat!flatVars
<1> SUFFICES ASSUME Inv, [Next]_memVars
             PROVE  Flat!Next \/ UNCHANGED Flat!flatVars
  OBVIOUS
<1>1. ASSUME NEW S \in Blocks, ReadMem(S)
      PROVE  Flat!Next
  BY <1>1, ReadMemFlat DEF Flat!Next
<1>2. ASSUME NEW S \in Blocks, NEW new \in [S -> Values], WriteMem(new)
      PROVE  Flat!Next
  <2>1. new \in [S -> CellValue]
    BY CellValues
  <2> QED
    BY <1>2, <2>1, WriteMemFlat DEF Flat!Next
<1>3. CASE Continue \/ Step
  BY <1>3, ResumeFlat DEF Flat!Next
<1>4. CASE TargetStore
  BY <1>4, TargetStoreFlat DEF Flat!Next
<1>5. CASE Stop
  BY <1>5, StopFlat DEF Flat!Next
<1>6. CASE UNCHANGED memVars
  BY <1>6 DEF memVars, WrittenBack, Flat!flatVars
<1> QED
  BY <1>1, <1>2, <1>3, <1>4, <1>5, <1>6 DEF Next

(* The cache is transparent: what gdb reads and the target stores is what  *)
(* one flat memory would show them.                                        *)
THEOREM ImplementsFlatMemory == Spec => FlatSpec
BY Invariance, FlatInit, FlatNext, PTL DEF Spec, FlatSpec, Flat!Spec

-----------------------------------------------------------------------------
(* For every run of bytes: gdb_writeback_Ram writes it exactly, with       *)
(* accesses that are aligned.                                              *)
THEOREM PiecesExactAligned ==
    ASSUME NEW pos \in Nat, NEW count \in Nat \ {0}
    PROVE  Exact(pos, count) /\ AlignedAccess(pos, count)
<1> DEFINE b1 == HeadByte(pos)
           h1 == HeadHalf(pos + b1, count - b1)
           w  == Words(pos + b1 + h1, count - b1 - h1)
           h2 == TailHalf(pos + b1 + h1 + w, count - b1 - h1 - w)
           b2 == TailByte(pos + b1 + h1 + w + h2, count - b1 - h1 - w - h2)
<1>1. /\ b1 \in 0 .. 1 /\ b1 <= count
      /\ (pos + b1) % 2 = 0
  BY DEF HeadByte
<1> HIDE DEF b1
<1>2. /\ h1 \in {0, 2} /\ b1 + h1 <= count
      /\ h1 # 0 => (pos + b1) % 2 = 0
      /\ (pos + b1 + h1) % 4 = 0 \/ (count - b1 - h1 <= 1 /\ (pos + b1 + h1) % 2 = 0)
  <2> DEFINE p == pos + b1
             c == count - b1
  <2>1. p \in Nat /\ c \in Nat /\ p % 2 = 0 /\ h1 = HeadHalf(p, c)
    BY <1>1
  <2> HIDE DEF p, c
  <2>2. p % 4 = 0 \/ p % 4 = 2
    BY <2>1
  <2>3. CASE p % 4 = 2 /\ c > 1
    <3>1. h1 = 2 /\ (p + 2) % 4 = 0
      BY <2>1, <2>3 DEF HeadHalf
    <3> QED
      BY <1>1, <2>1, <2>3, <3>1 DEF p, c
  <2>4. CASE p % 4 = 2 /\ c <= 1
    <3>1. h1 = 0
      BY <2>1, <2>4 DEF HeadHalf
    <3> QED
      BY <1>1, <2>1, <2>4, <3>1 DEF p, c
  <2>5. CASE p % 4 = 0
    <3>1. h1 = 0
      BY <2>1, <2>5 DEF HeadHalf
    <3> QED
      BY <1>1, <2>1, <2>5, <3>1 DEF p, c
  <2> QED
    BY <2>1, <2>2, <2>3, <2>4, <2>5
<1> HIDE DEF h1
<1>3. /\ w \in Nat /\ w % 4 = 0 /\ b1 + h1 + w <= count
      /\ count - b1 - h1 - w <= 3
      /\ w > 0 => (pos + b1 + h1) % 4 = 0
      /\ (pos + b1 + h1 + w) % 2 = 0
  BY <1>1, <1>2 DEF Words
<1> HIDE DEF w
<1>4. /\ h2 \in {0, 2} /\ b1 + h1 + w + h2 <= count
      /\ count - b1 - h1 - w - h2 <= 1
  BY <1>1, <1>2, <1>3 DEF TailHalf
<1> HIDE DEF h2
<1>5. b2 = count - b1 - h1 - w - h2
  BY <1>1, <1>2, <1>3, <1>4 DEF TailByte
<1>6. Pieces(pos, count) =
        <<Piece(1, pos, b1), Piece(2, pos + b1, h1),
          Piece(4, pos + b1 + h1, w), Piece(2, pos + b1 + h1 + w, h2),
          Piece(1, pos + b1 + h1 + w + h2, b2)>>
  BY DEF Pieces, b1, h1, w, h2
<1> HIDE DEF b2
<1>7. Exact(pos, count)
  <2> SUFFICES ASSUME NEW i \in 1 .. 4, NEW j \in 1 .. 5
               PROVE  /\ Pieces(pos, count)[j].len >= 0
                      /\ Pieces(pos, count)[i + 1].at =
                           Pieces(pos, count)[i].at + Pieces(pos, count)[i].len
                      /\ Pieces(pos, count)[1].at = pos
                      /\ Pieces(pos, count)[5].at + Pieces(pos, count)[5].len
                           = pos + count
    BY DEF Exact
  <2>1. i = 1 \/ i = 2 \/ i = 3 \/ i = 4
    OBVIOUS
  <2>2. j = 1 \/ j = 2 \/ j = 3 \/ j = 4 \/ j = 5
    OBVIOUS
  <2>3. Pieces(pos, count)[j].len >= 0
    BY <1>1, <1>2, <1>3, <1>4, <1>5, <1>6, <2>2 DEF Piece
  <2> QED
    BY <1>1, <1>2, <1>3, <1>4, <1>5, <1>6, <2>1, <2>3 DEF Piece
<1>8. AlignedAccess(pos, count)
  <2> SUFFICES ASSUME NEW i \in 1 .. 5, Pieces(pos, count)[i].len > 0
               PROVE  /\ Pieces(pos, count)[i].at % Pieces(pos, count)[i].unit = 0
                      /\ Pieces(pos, count)[i].len % Pieces(pos, count)[i].unit = 0
    BY DEF AlignedAccess
  <2>1. i = 1 \/ i = 2 \/ i = 3 \/ i = 4 \/ i = 5
    OBVIOUS
  <2> QED
    BY <1>1, <1>2, <1>3, <1>4, <1>5, <1>6, <2>1 DEF Piece
<1> QED
  BY <1>7, <1>8

(* Whatever cells are dirty in a state, gdb_writeback_Ram writes each run  *)
(* of them and no cell beside it, in accesses the bus can do.              *)
THEOREM RunsWritten == Spec => []RunsWrittenExactly
<1>1. RunsWrittenExactly
  <2>1. ASSUME NEW run \in WrittenRuns
        PROVE  run[1] \in Nat /\ run[2] \in Nat \ {0}
    BY DEF WrittenRuns, Ram
  <2> QED
    BY <2>1, PiecesExactAligned DEF RunsWrittenExactly
<1> QED
  BY <1>1, PTL
=============================================================================
