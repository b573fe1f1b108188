---------------------------- MODULE SessionProofs ----------------------------
(***************************************************************************)
(* A session, for every memory map, program and set of requests: what is   *)
(* listed fits the two watchpoint units and is armed while the program     *)
(* runs; with one connection the buffer is never stale at the prompt; if   *)
(* ARM breakpoints are asked for at word addresses, no address is listed   *)
(* twice and what is listed can be removed; and if breakpoints are asked   *)
(* for on instructions the session implements a flat memory, in which they *)
(* and the cache cannot be seen.                                           *)
(***************************************************************************)
EXTENDS SessionProperties, GdbMemoryProofs, SequenceTheorems, WellFoundedInduction

USE RamSizeAssumption, PageSizeAssumption

ListTypes == hw \in Seq(Breakpoint) /\ sw \in Seq(Breakpoint)

(* Software breakpoints lie in RAM: only there is an instruction saved, and *)
(* only there may it be put back.                                          *)
Saved(e) == CellsOf(e) \subseteq Ram /\ Len(e.instr) = Half(e.len)
InstructionsSaved == \A i \in DOMAIN sw : Saved(sw[i])

MainType == main \in [addr : MainAddrs \cup {NoAddr}, active : BOOLEAN]

(* UnitBudget is inductive, once the lists are known to be sequences of    *)
(* breakpoints; and what is saved in them comes out of the cache.          *)
ListsInv ==
    /\ CacheTypeOK
    /\ ListTypes
    /\ InstructionsSaved
    /\ MainType
    /\ UnitBudget

-----------------------------------------------------------------------------
(* Removing the element at i from a sequence. *)
LEMMA RemoveAtProperties ==
    ASSUME NEW S, NEW s \in Seq(S), NEW i \in 1 .. Len(s)
    PROVE  /\ RemoveAt(s, i) \in Seq(S)
           /\ Len(RemoveAt(s, i)) = Len(s) - 1
           /\ \A j \in 1 .. Len(s) - 1 :
                 RemoveAt(s, i)[j] = IF j < i THEN s[j] ELSE s[j + 1]
PROOF
  <1> DEFINE front == SubSeq(s, 1, i - 1)
             back  == SubSeq(s, i + 1, Len(s))
  <1>1. /\ front \in Seq(S) /\ Len(front) = i - 1
        /\ \A j \in 1 .. i - 1 : front[j] = s[j]
    BY SubSeqProperties
  <1>2. /\ back \in Seq(S) /\ Len(back) = Len(s) - i
        /\ \A j \in 1 .. Len(s) - i : back[j] = s[i + j]
    <2>1. /\ i + 1 \in Int /\ Len(s) \in Int
          /\ \A k \in i + 1 .. Len(s) : s[k] \in S
      OBVIOUS
    <2>2. /\ back \in Seq(S)
          /\ Len(back) = IF i + 1 <= Len(s) THEN Len(s) - (i + 1) + 1 ELSE 0
          /\ \A j \in 1 .. Len(s) - (i + 1) + 1 : back[j] = s[(i + 1) + j - 1]
      BY <2>1, SubSeqProperties
    <2> HIDE DEF back
    <2> QED
      BY <2>2
  <1> HIDE DEF front, back
  <1>3. /\ front \o back \in Seq(S)
        /\ Len(front \o back) = Len(s) - 1
        /\ \A j \in 1 .. Len(s) - 1 :
              (front \o back)[j] = IF j < i THEN s[j] ELSE s[j + 1]
    <2>1. /\ front \o back \in Seq(S)
          /\ Len(front \o back) = Len(front) + Len(back)
          /\ \A j \in 1 .. Len(front) + Len(back) :
                (front \o back)[j] =
                    IF j <= Len(front) THEN front[j] ELSE back[j - Len(front)]
      BY <1>1, <1>2, ConcatProperties
    <2>2. Len(front) + Len(back) = Len(s) - 1
      BY <1>1, <1>2
    <2>3. ASSUME NEW j \in 1 .. Len(s) - 1
          PROVE  (front \o back)[j] = IF j < i THEN s[j] ELSE s[j + 1]
      <3>1. CASE j < i
        BY <3>1, <2>1, <2>2, <1>1
      <3>2. CASE ~(j < i)
        <4>1. (front \o back)[j] = back[j - (i - 1)]
          BY <3>2, <2>1, <2>2, <1>1
        <4>2. j - (i - 1) \in 1 .. Len(s) - i /\ i + (j - (i - 1)) = j + 1
          BY <3>2
        <4> QED
          BY <3>2, <4>1, <4>2, <1>2
      <3> QED
        BY <3>1, <3>2
    <2> QED
      BY <2>1, <2>2, <2>3
  <1> QED
    BY <1>3 DEF RemoveAt, front, back

-----------------------------------------------------------------------------
(* Inserting and removing *)

(* What InsertBreakpoint is called with. *)
Asked(addr, len) ==
    /\ addr \in Nat /\ len \in {2, 4}
    /\ addr \in Ram => Aligned(addr, len) + Half(len) - 1 \in Ram

LEMMA AlignedRange ==
    ASSUME NEW addr \in Nat, NEW len \in {2, 4}
    PROVE  /\ Aligned(addr, len) \in Nat
           /\ Aligned(addr, len) <= addr
           /\ Half(len) \in {1, 2}
           /\ len = 2 => Aligned(addr, len) = addr
BY DEF Aligned, Half

LEMMA AskedCells ==
    ASSUME NEW addr, NEW len, Asked(addr, len), addr \in Ram
    PROVE  \A i \in 1 .. Half(len) : Aligned(addr, len) + i - 1 \in Ram
BY AlignedRange DEF Asked, Ram

LEMMA RequestIsAsked ==
    ASSUME NEW r \in Requests
    PROVE  Asked(r.addr, r.len)
BY RequestsAssumption DEF Asked

LEMMA MainIsAsked ==
    ASSUME MainType, MainOnly
    PROVE  Asked(main.addr, 2)
PROOF
  <1>1. main.addr \in Nat
    BY RequestsAssumption DEF MainType, MainOnly
  <1> QED
    BY <1>1, AlignedRange DEF Asked, Half

(* The instruction saved is one of the program's. *)
LEMMA CapturedType ==
    ASSUME CacheTypeOK, NEW addr, NEW len, Asked(addr, len), addr \in Ram
    PROVE  Captured(addr, len) \in Seq(CellValue) /\ Len(Captured(addr, len)) = Half(len)
PROOF
  <1>1. ASSUME NEW content \in Contents
        PROVE  /\ Instr(content, Aligned(addr, len), len) \in Seq(CellValue)
               /\ Len(Instr(content, Aligned(addr, len), len)) = Half(len)
    <2>1. Half(len) \in Nat
      BY AlignedRange DEF Asked
    <2>2. \A i \in 1 .. Half(len) : content[Aligned(addr, len) + i - 1] \in CellValue
      BY <1>1, AskedCells DEF Contents
    <2> QED
      BY <2>1, <2>2 DEF Instr
  <1> QED
    BY <1>1 DEF Captured, CacheTypeOK

LEMMA EntryType ==
    ASSUME CacheTypeOK, NEW addr, NEW len, Asked(addr, len)
    PROVE  /\ Entry(addr, len) \in Breakpoint
           /\ NeedsSW(addr) => Saved(Entry(addr, len))
PROOF
  <1>1. Aligned(addr, len) \in Nat /\ len \in {2, 4}
    BY AlignedRange DEF Asked
  <1>2. NeedsSW(addr) => /\ Captured(addr, len) \in Seq(CellValue)
                         /\ Len(Captured(addr, len)) = Half(len)
    BY CapturedType DEF NeedsSW, InRam
  <1>3. <<>> \in Seq(CellValue)
    OBVIOUS
  <1>4. Entry(addr, len) \in Breakpoint
    BY <1>1, <1>2, <1>3 DEF Entry, Breakpoint
  <1>5. ASSUME NeedsSW(addr) PROVE CellsOf(Entry(addr, len)) \subseteq Ram
    <2>1. \A i \in 1 .. Half(len) : Aligned(addr, len) + i - 1 \in Ram
      BY <1>5, AskedCells DEF NeedsSW, InRam
    <2>2. Half(len) \in {1, 2}
      BY AlignedRange DEF Asked
    <2> QED
      BY <1>1, <2>1, <2>2 DEF CellsOf, Entry, Ram
  <1> QED
    BY <1>2, <1>4, <1>5 DEF Saved, Entry

LEMMA InsertKeeps ==
    ASSUME CacheTypeOK, ListTypes, InstructionsSaved, UnitBudget,
           NEW addr, NEW len, Asked(addr, len), NEW ret, InsertBreakpoint(addr, len, ret)
    PROVE  ListTypes' /\ InstructionsSaved' /\ UnitBudget'
PROOF
  <1> DEFINE e == Entry(addr, len)
  <1>1. e \in Breakpoint /\ (NeedsSW(addr) => Saved(e))
    BY EntryType
  <1> HIDE DEF e
  <1>2. CASE UNCHANGED <<hw, sw>>
    BY <1>2 DEF ListTypes, InstructionsSaved, UnitBudget, UnitsUsed
  <1>3. CASE HasRoom(addr) /\ NeedsHW(addr) /\ hw' = Append(hw, e) /\ UNCHANGED sw
    BY <1>3, <1>1 DEF ListTypes, InstructionsSaved, UnitBudget, UnitsUsed, HasRoom, NeedsSW
  <1>4. CASE HasRoom(addr) /\ NeedsSW(addr) /\ sw' = Append(sw, e) /\ UNCHANGED hw
    <2>1. ListTypes'
      BY <1>4, <1>1 DEF ListTypes
    <2>2. \A i \in DOMAIN sw' : sw'[i] = e \/ (i \in DOMAIN sw /\ sw'[i] = sw[i])
      BY <1>4, <1>1 DEF ListTypes
    <2>3. InstructionsSaved'
      BY <1>4, <1>1, <2>2 DEF InstructionsSaved
    <2>4. UnitBudget'
      BY <1>4, <1>1 DEF ListTypes, UnitBudget, UnitsUsed, HasRoom, NeedsSW
    <2> QED
      BY <2>1, <2>3, <2>4
  <1> QED
    BY <1>2, <1>3, <1>4 DEF InsertBreakpoint, HasRoom, NeedsSW, e

LEMMA FirstAtIsAt ==
    ASSUME NEW s \in Seq(Breakpoint), NEW addr, At(s, addr) # {}
    PROVE  FirstAt(s, addr) \in 1 .. Len(s) /\ s[FirstAt(s, addr)].addr = addr
PROOF
  <1>1. At(s, addr) \subseteq Nat
    BY DEF At
  <1>2. \E i \in At(s, addr) : \A j \in At(s, addr) : i <= j
    <2> DEFINE Less == OpToRel(<, Nat)
    <2>1. \E i \in At(s, addr) : \A j \in At(s, addr) : <<j, i>> \notin Less
      <3> HIDE DEF Less
      <3>1. IsWellFoundedOn(Less, Nat)
        BY NatLessThanWellFounded DEF Less
      <3> QED
        BY <1>1, <3>1, WFMin
    <2>2. \A i, j \in Nat : <<j, i>> \notin Less => i <= j
      BY DEF OpToRel
    <2> HIDE DEF Less
    <2> QED
      BY <1>1, <2>1, <2>2
  <1>3. FirstAt(s, addr) \in At(s, addr)
    BY <1>2 DEF FirstAt
  <1> QED
    BY <1>3 DEF At

(* An overwritten buffer keeps its type. *)
LEMMA OverwrittenType ==
    ASSUME NEW b \in Contents, NEW new,
           \A a \in DOMAIN new \cap Ram : new[a] \in CellValue
    PROVE  Overwritten(b, new) \in Contents
BY DEF Overwritten, Contents

(* The saved instruction goes back to cells of the RAM. *)
LEMMA RestoringType ==
    ASSUME NEW e \in Breakpoint, CacheTypeOK, Saved(e)
    PROVE  Overwritten(buf, Restoring(e)) \in Contents
PROOF
  <1>1. ASSUME NEW a \in CellsOf(e) PROVE Restoring(e)[a] \in CellValue
    <2>1. Half(e.len) \in Nat /\ e.addr \in Nat
      BY DEF Breakpoint, Half
    <2>2. a - e.addr + 1 \in 1 .. Half(e.len)
      BY <2>1 DEF CellsOf
    <2> QED
      BY <2>2 DEF Restoring, Breakpoint, Saved
  <1> QED
    BY <1>1, OverwrittenType DEF Restoring, CacheTypeOK, Contents

LEMMA RemoveKeeps ==
    ASSUME ListsInv, NEW addr, NEW ret, RemoveBreakpoint(addr, ret)
    PROVE  /\ ListTypes' /\ InstructionsSaved' /\ UnitBudget'
           /\ buf' \in Contents /\ dirty' \subseteq Ram
PROOF
  <1> USE DEF ListsInv
  <1>1. CASE /\ At(hw, addr) # {}
             /\ hw' = RemoveAt(hw, FirstAt(hw, addr))
             /\ UNCHANGED <<sw, buf, dirty>>
    <2>1. hw' \in Seq(Breakpoint) /\ Len(hw') = Len(hw) - 1
      BY <1>1, FirstAtIsAt, RemoveAtProperties DEF ListTypes
    <2> QED
      BY <1>1, <2>1
      DEF ListTypes, InstructionsSaved, UnitBudget, UnitsUsed, CacheTypeOK
  <1>2. CASE /\ At(sw, addr) # {}
             /\ buf' = Overwritten(buf, Restoring(sw[FirstAt(sw, addr)]))
             /\ dirty' = dirty \cup CellsOf(sw[FirstAt(sw, addr)])
             /\ sw' = RemoveAt(sw, FirstAt(sw, addr))
             /\ UNCHANGED hw
    <2> DEFINE i == FirstAt(sw, addr)
    <2>1. i \in 1 .. Len(sw)
      BY <1>2, FirstAtIsAt DEF ListTypes
    <2> HIDE DEF i
    <2>2. /\ sw' \in Seq(Breakpoint) /\ Len(sw') = Len(sw) - 1
          /\ \A j \in 1 .. Len(sw) - 1 : sw'[j] = IF j < i THEN sw[j] ELSE sw[j + 1]
      BY <1>2, <2>1, RemoveAtProperties DEF ListTypes, i
    <2>3. sw[i] \in Breakpoint /\ Saved(sw[i])
      BY <2>1 DEF ListTypes, InstructionsSaved
    <2>4. InstructionsSaved'
      <3>1. \A j \in DOMAIN sw' : \E k \in DOMAIN sw : sw'[j] = sw[k]
        <4>1. DOMAIN sw' = 1 .. Len(sw) - 1 /\ DOMAIN sw = 1 .. Len(sw)
          BY <2>1, <2>2 DEF ListTypes
        <4> QED
          BY <2>1, <2>2, <4>1
      <3> QED
        BY <3>1 DEF InstructionsSaved
    <2>5. UnitBudget'
      BY <1>2, <2>1, <2>2 DEF UnitBudget, UnitsUsed, ListTypes
    <2>6. buf' \in Contents /\ dirty' \subseteq Ram
      BY <1>2, <2>3, RestoringType DEF i, Saved, CacheTypeOK
    <2> QED
      BY <1>2, <2>2, <2>4, <2>5, <2>6 DEF ListTypes
  <1>3. CASE UNCHANGED <<hw, sw, buf, dirty>>
    BY <1>3 DEF ListTypes, InstructionsSaved, UnitBudget, UnitsUsed, CacheTypeOK
  <1> QED
    BY <1>1, <1>2, <1>3 DEF RemoveBreakpoint

-----------------------------------------------------------------------------
(* Each step keeps the lists and the cache in order. *)

LEMMA ListsSame ==
    ASSUME ListsInv, CacheTypeOK', MainType', UNCHANGED <<hw, sw>>
    PROVE  ListsInv'
BY DEF ListsInv, ListTypes, InstructionsSaved, UnitBudget, UnitsUsed

LEMMA CacheSame ==
    ASSUME CacheTypeOK, UNCHANGED cacheVars
    PROVE  CacheTypeOK'
BY DEF CacheTypeOK, cacheVars

LEMMA MainSame ==
    ASSUME MainType, UNCHANGED main
    PROVE  MainType'
BY DEF MainType

LEMMA ReadLists ==
    ASSUME ListsInv, NEW S, Read(S)
    PROVE  ListsInv'
PROOF
  <1>1. MainType' /\ UNCHANGED <<hw, sw>>
    BY MainSame DEF Read, breakVars, ListsInv
  <1>2. CacheTypeOK'
    <2>1. CASE S \subseteq Ram
      BY <2>1, LoadedBufType, MissingPagesType
      DEF Read, ReadMem, Load, ListsInv, CacheTypeOK, Contents
    <2>2. CASE ~(S \subseteq Ram)
      BY <2>2, CacheSame DEF Read, ReadMem, ListsInv
    <2> QED
      BY <2>1, <2>2
  <1> QED
    BY <1>1, <1>2, ListsSame

LEMMA WriteLists ==
    ASSUME ListsInv, NEW S, NEW new \in [S -> Values], Write(new)
    PROVE  ListsInv'
PROOF
  <1> DEFINE inside == [a \in DOMAIN new \cap Ram |-> new[a]]
  <1>1. MainType' /\ UNCHANGED <<hw, sw>>
    BY MainSame DEF Write, breakVars, ListsInv
  <1>2. \A a \in DOMAIN inside \cap Ram : inside[a] \in CellValue
    BY CellValues
  <1>3. DOMAIN inside \subseteq Ram
    OBVIOUS
  <1>4. BufWrite(inside)
    BY DEF Write, WriteMem
  <1> HIDE DEF inside
  <1>5. CacheTypeOK'
    BY <1>2, <1>3, <1>4, OverwrittenType DEF BufWrite, ListsInv, CacheTypeOK, Contents
  <1> QED
    BY <1>1, <1>5, ListsSame

LEMMA InsertLists ==
    ASSUME ListsInv, NEW r \in Requests, InsertRequest(r.addr, r.len)
    PROVE  ListsInv'
PROOF
  <1>1. CacheTypeOK' /\ MainType'
    BY CacheSame, MainSame DEF InsertRequest, ListsInv
  <1>2. PICK ret \in {0, 1} : InsertBreakpoint(r.addr, r.len, ret)
    BY DEF InsertRequest
  <1> QED
    BY <1>1, <1>2, RequestIsAsked, InsertKeeps DEF ListsInv

LEMMA RemoveLists ==
    ASSUME ListsInv, NEW addr, RemoveRequest(addr)
    PROVE  ListsInv'
PROOF
  <1>1. PICK ret \in {0, -1} : RemoveBreakpoint(addr, ret)
    BY DEF RemoveRequest
  <1>2. UNCHANGED <<target, pages>> /\ MainType'
    BY MainSame DEF RemoveRequest, ListsInv
  <1> QED
    BY <1>1, <1>2, RemoveKeeps DEF ListsInv, CacheTypeOK, Contents

(* The breakpoint at main, before the target is resumed. *)
LEMMA ArmMainKeeps ==
    ASSUME ListsInv, ArmMain
    PROVE  ListTypes' /\ InstructionsSaved' /\ UnitBudget'
PROOF
  <1>1. CASE MainOnly
    BY <1>1, MainIsAsked, InsertKeeps DEF ArmMain, ListsInv
  <1>2. CASE ~MainOnly
    BY <1>2 DEF ArmMain, ListsInv, ListTypes, InstructionsSaved, UnitBudget, UnitsUsed
  <1> QED
    BY <1>1, <1>2

LEMMA RunLists ==
    ASSUME ListsInv, Run
    PROVE  ListsInv'
PROOF
  <1>1. \A a \in DOMAIN Planted(hw', sw') \cap Ram : Planted(hw', sw')[a] \in CellValue
    BY DEF Planted, CellValue
  <1>2. buf' \in Contents /\ target' \in Contents
    BY <1>1, OverwrittenType, WrittenBackType DEF Run, ListsInv, CacheTypeOK, Contents
  <1>3. CacheTypeOK' /\ MainType'
    BY <1>2, MainSame DEF Run, ListsInv, CacheTypeOK, Contents
  <1>4. ArmMain
    BY DEF Run
  <1> QED
    BY <1>3, <1>4, ArmMainKeeps DEF ListsInv

LEMMA SingleStepLists ==
    ASSUME ListsInv, SingleStep \/ EmulateBranchLink
    PROVE  ListsInv'
PROOF
  <1>1. CacheTypeOK' /\ MainType'
    BY WrittenBackType, MainSame
    DEF SingleStep, EmulateBranchLink, ListsInv, CacheTypeOK, Contents
  <1>2. ArmMain
    BY DEF SingleStep, EmulateBranchLink
  <1> QED
    BY <1>1, <1>2, ArmMainKeeps DEF ListsInv

(* An instruction of the program changes cells of the RAM only. *)
LEMMA ExecuteLists ==
    ASSUME ListsInv, NEW instr, Execute(instr)
    PROVE  ListsInv'
PROOF
  <1>1. target' \in Contents
    <2>1. target \in Contents
      BY DEF ListsInv, CacheTypeOK
    <2>2. CASE UNCHANGED target
      BY <2>1, <2>2
    <2>3. CASE \E a \in StoreCells, v \in Values : target' = [target EXCEPT ![a] = v]
      BY <2>1, <2>3, StoreCellsAssumption, CellValues DEF Contents
    <2> QED
      BY <2>2, <2>3 DEF Execute
  <1>2. CacheTypeOK' /\ MainType' /\ UNCHANGED <<hw, sw>>
    BY <1>1, MainSame DEF Execute, ListsInv, CacheTypeOK, Contents, breakVars
  <1> QED
    BY <1>2, ListsSame

LEMMA EnterPromptLists ==
    ASSUME ListsInv, EnterPrompt
    PROVE  ListsInv'
PROOF
  <1>1. UNCHANGED <<target, pages>>
    BY DEF EnterPrompt
  <1>2. CASE MainOnly /\ pc.addr = main.addr
    <2>1. PICK ret \in {0, -1} : RemoveBreakpoint(main.addr, ret)
      BY <1>2 DEF EnterPrompt, LoopTop
    <2>2. MainType'
      BY <1>2 DEF EnterPrompt, LoopTop, MainType, ListsInv
    <2> QED
      BY <1>1, <2>1, <2>2, RemoveKeeps DEF ListsInv, CacheTypeOK, Contents
  <1>3. CASE ~(MainOnly /\ pc.addr = main.addr)
    <2>1. UNCHANGED <<main, hw, sw, buf, dirty>>
      BY <1>3 DEF EnterPrompt, LoopTop
    <2> QED
      BY <1>1, <2>1, CacheSame, MainSame, ListsSame DEF cacheVars, ListsInv
  <1> QED
    BY <1>2, <1>3

LEMMA QuietLists ==
    ASSUME ListsInv, UNCHANGED <<cacheVars, hw, sw>>, MainType'
    PROVE  ListsInv'
BY CacheSame, ListsSame DEF ListsInv

(* qSymbol, monitor ForceTempHWBreakAtMain and Restart touch main alone. *)
LEMMA MainLists ==
    ASSUME ListsInv, \/ \E addr \in MainAddrs : SymbolMain(addr)
                     \/ \E on \in BOOLEAN : TempMainBreak(on)
                     \/ Restarted
    PROVE  ListsInv'
PROOF
  <1>1. UNCHANGED <<cacheVars, hw, sw>>
    BY DEF SymbolMain, TempMainBreak, Restarted
  <1>2. MainType
    BY DEF ListsInv
  <1>3. ASSUME NEW addr \in MainAddrs, SymbolMain(addr) PROVE MainType'
    BY <1>3 DEF SymbolMain, MainType
  <1>4. ASSUME NEW on \in BOOLEAN, TempMainBreak(on) PROVE MainType'
    <2>1. (on /\ main.addr # NoAddr) \in BOOLEAN
      BY <1>4
    <2> QED
      BY <1>2, <1>4, <2>1 DEF TempMainBreak, MainType
  <1>5. ASSUME Restarted PROVE MainType'
    BY <1>2, <1>5 DEF Restarted, MainType
  <1> QED
    BY <1>1, <1>3, <1>4, <1>5, QuietLists

LEMMA EndLists ==
    ASSUME ListsInv, Kill \/ Close \/ Detach \/ Restart \/ Accept
    PROVE  ListsInv'
PROOF
  <1>1. CacheTypeOK'
    BY CacheSame, WrittenBackType
    DEF ListsInv, Kill, WriteBack, Close, Detach, Restart, Accept, CacheTypeOK, Contents, cacheVars
  <1>2. UNCHANGED <<hw, sw, main>>
    BY DEF Kill, Close, Detach, Restart, Accept, breakVars
  <1> QED
    BY <1>1, <1>2, MainSame, ListsSame DEF ListsInv

LEMMA ListsInit == SessionInit => ListsInv
PROOF
  <1> SUFFICES ASSUME SessionInit PROVE ListsInv
    OBVIOUS
  <1>1. CacheTypeOK
    BY CellValues DEF SessionInit, Init, CacheTypeOK, Contents
  <1>2. hw = <<>> /\ sw = <<>>
    BY DEF SessionInit
  <1>3. ListTypes /\ InstructionsSaved /\ UnitBudget
    BY <1>2 DEF ListTypes, InstructionsSaved, UnitBudget, UnitsUsed
  <1>4. MainType
    BY DEF SessionInit, MainType
  <1> QED
    BY <1>1, <1>3, <1>4 DEF ListsInv

LEMMA ListsStep ==
    ASSUME ListsInv, [SessionNext]_vars
    PROVE  ListsInv'
PROOF
  <1>1. CASE MemoryRequest
    BY <1>1, ReadLists, WriteLists DEF MemoryRequest
  <1>2. CASE BreakpointRequest
    BY <1>2, InsertLists, RemoveLists, MainLists DEF BreakpointRequest
  <1>3. CASE \E p \in Code : SetPc(p)
    BY <1>3, QuietLists, MainSame DEF SetPc, breakVars, ListsInv
  <1>4. CASE ResumeRequest
    <2>1. CASE RefuseResume
      <3>1. CacheTypeOK' /\ MainType'
        BY <2>1, CacheSame, MainSame DEF RefuseResume, ListsInv
      <3>2. MainOnly /\ InsertBreakpoint(main.addr, 2, 1)
        BY <2>1 DEF RefuseResume
      <3> QED
        BY <3>1, <3>2, MainIsAsked, InsertKeeps DEF ListsInv
    <2> QED
      BY <1>4, <2>1, RunLists, SingleStepLists DEF ResumeRequest
  <1>5. CASE ProgramStep
    BY <1>5, ExecuteLists DEF ProgramStep, RunInstr, StepInstr, ResetInstr
  <1>6. CASE Emulated \/ Halted \/ Interrupted \/ Attached
    BY <1>6, EnterPromptLists DEF Emulated, Halted, Interrupted, Attached
  <1>7. CASE EndRequest \/ Accept
    BY <1>7, EndLists DEF EndRequest
  <1>8. CASE Restarted
    BY <1>8, MainLists
  <1>9. CASE UNCHANGED vars
    BY <1>9, QuietLists, MainSame DEF vars, memVars, breakVars, cacheVars, ListsInv
  <1> QED
    BY <1>1, <1>2, <1>3, <1>4, <1>5, <1>6, <1>7, <1>8, <1>9 DEF SessionNext

(* In every state of a session the lists hold breakpoints, each software    *)
(* breakpoint with a whole saved instruction of the RAM, within the budget  *)
(* of units, and the cache stays inside its entry.                         *)
THEOREM ListsInvariance == SessionSpec => []ListsInv
PROOF
  <1>1. ListsInv /\ [SessionNext]_vars => ListsInv'
    BY ListsStep
  <1> QED
    BY ListsInit, <1>1, PTL DEF SessionSpec

(* Two watchpoint units suffice for what is listed: whatever the memory    *)
(* map, the options, main and the order of requests, InsertBreakpoint      *)
(* refuses what gdbSetupJtagICE_RTbreakpoint could not set up.             *)
THEOREM TwoUnitsSuffice == SessionSpec => []UnitBudget
PROOF
  <1>1. ListsInv => UnitBudget
    BY DEF ListsInv
  <1> QED
    BY <1>1, ListsInvariance, PTL

-----------------------------------------------------------------------------
(* While the program runs *)

LEMMA RunningStep ==
    ASSUME [SessionNext]_vars, mode' = "run"
    PROVE  Run \/ (mode = "run" /\ UNCHANGED <<hw, sw, wp>>)
PROOF
  <1>1. CASE MemoryRequest
    BY <1>1 DEF MemoryRequest, Read, Write, ReadMem, WriteMem
  <1>2. CASE BreakpointRequest
    BY <1>2 DEF BreakpointRequest, InsertRequest, RemoveRequest, SymbolMain, TempMainBreak
  <1>3. CASE \E p \in Code : SetPc(p)
    BY <1>3 DEF SetPc
  <1>4. CASE ResumeRequest
    BY <1>4 DEF ResumeRequest, RefuseResume, SingleStep, EmulateBranchLink
  <1>5. CASE ProgramStep
    BY <1>5 DEF ProgramStep, RunInstr, StepInstr, ResetInstr, Execute, breakVars
  <1>6. CASE Emulated \/ Halted \/ Interrupted \/ Attached
    BY <1>6 DEF Emulated, Halted, Interrupted, Attached, EnterPrompt
  <1>7. CASE EndRequest \/ Accept \/ Restarted
    BY <1>7 DEF EndRequest, Kill, Close, Detach, Restart, Accept, Restarted, Ended
  <1>8. CASE UNCHANGED vars
    BY <1>8 DEF vars, memVars, breakVars, coreVars
  <1> QED
    BY <1>1, <1>2, <1>3, <1>4, <1>5, <1>6, <1>7, <1>8 DEF SessionNext

UnitsType == wp \in [{0, 1} -> Unit]

LEMMA SWUnitsType ==
    ASSUME UnitsType
    PROVE  /\ PutSWBreakPoint0 \in Unit /\ PutSWBreakPoint1 \in Unit
           /\ PutSWBreakPoint0.on /\ PutSWBreakPoint0.data = "brk"
           /\ PutSWBreakPoint1.on /\ PutSWBreakPoint1.data = "brk"
PROOF
  <1>1. wp[0] \in Unit /\ wp[1] \in Unit
    BY DEF UnitsType
  <1> QED
    BY <1>1 DEF Unit, PutSWBreakPoint0, PutSWBreakPoint1

LEMMA NoUnitsType ==
    ASSUME UnitsType
    PROVE  NoUnits \in [{0, 1} -> Unit]
PROOF
  <1>1. ASSUME NEW i \in {0, 1} PROVE [wp[i] EXCEPT !.on = FALSE] \in Unit
    <2>1. wp[i] \in Unit
      BY DEF UnitsType
    <2> QED
      BY <2>1 DEF Unit
  <1> QED
    BY <1>1 DEF NoUnits

LEMMA AnyUnitsType ==
    ASSUME UnitsType
    PROVE  AnyUnits \in [{0, 1} -> Unit]
PROOF
  <1> DEFINE any == [on |-> TRUE, addr |-> 0, mask |-> "bit0", data |-> "any"]
  <1>1. any \in Unit
    BY DEF Unit
  <1>2. AnyUnits = [NoUnits EXCEPT ![0] = any]
    BY Zenon DEF AnyUnits
  <1> HIDE DEF any
  <1> QED
    BY <1>1, <1>2, NoUnitsType

LEMMA SetupUnitsType ==
    ASSUME UnitsType, NEW h \in Seq(Breakpoint), NEW s
    PROVE  SetupUnits(h, s) \in [{0, 1} -> Unit]
PROOF
  <1>1. ASSUME NEW i \in {0, 1} PROVE SetupUnits(h, s)[i] \in Unit
    <2>1. CASE i < Len(h)
      <3>1. h[i + 1].addr \in Nat
        <4>1. i + 1 \in 1 .. Len(h)
          BY <2>1
        <4>2. h[i + 1] \in Breakpoint
          BY <4>1
        <4> QED
          BY <4>2 DEF Breakpoint
      <3>2. SetupUnits(h, s)[i] = PutHWBreakPoint(h[i + 1].addr)
        BY <2>1 DEF SetupUnits
      <3> QED
        BY <3>1, <3>2 DEF PutHWBreakPoint, Unit
    <2>2. CASE ~(i < Len(h)) /\ i = Len(h) /\ s # <<>>
      <3>1. SetupUnits(h, s)[i] = IF i = 0 THEN PutSWBreakPoint0 ELSE PutSWBreakPoint1
        BY <2>2 DEF SetupUnits
      <3> QED
        BY <3>1, SWUnitsType
    <2>3. CASE ~(i < Len(h)) /\ ~(i = Len(h) /\ s # <<>>)
      <3>1. SetupUnits(h, s)[i] = NoUnits[i]
        BY <2>3 DEF SetupUnits
      <3> QED
        BY <3>1, NoUnitsType
    <2> QED
      BY <2>1, <2>2, <2>3
  <1> QED
    BY <1>1 DEF SetupUnits

(* Lists that fit the units are set up completely. *)
LEMMA SetupArms ==
    ASSUME UnitsType, NEW h \in Seq(Breakpoint), NEW s \in Seq(Breakpoint),
           Len(h) <= 2, s # <<>> => Len(h) <= 1
    PROVE  /\ \A e \in Entries(h) :
                 \E i \in {0, 1} : SetupUnits(h, s)[i] = PutHWBreakPoint(e.addr)
           /\ s # <<>> => \E i \in {0, 1} :
                 SetupUnits(h, s)[i].on /\ SetupUnits(h, s)[i].data = "brk"
PROOF
  <1>1. ASSUME NEW i \in {0, 1}, i < Len(h)
        PROVE  SetupUnits(h, s)[i] = PutHWBreakPoint(h[i + 1].addr)
    BY <1>1 DEF SetupUnits
  <1>2. ASSUME NEW e \in Entries(h)
        PROVE  \E i \in {0, 1} : SetupUnits(h, s)[i] = PutHWBreakPoint(e.addr)
    <2>1. PICK j \in 1 .. Len(h) : e = h[j]
      BY DEF Entries
    <2>2. j - 1 \in {0, 1} /\ j - 1 < Len(h) /\ (j - 1) + 1 = j
      BY <2>1
    <2> QED
      BY <1>1, <2>1, <2>2
  <1>3. ASSUME s # <<>>
        PROVE  \E i \in {0, 1} :
                  SetupUnits(h, s)[i].on /\ SetupUnits(h, s)[i].data = "brk"
    <2>0. Len(h) \in Nat /\ Len(h) <= 1
      BY <1>3
    <2>1. Len(h) \in {0, 1}
      <3>1. ASSUME NEW n \in Nat, n <= 1 PROVE n \in {0, 1}
        BY <3>1
      <3> QED
        BY <2>0, <3>1, Zenon
    <2>2. SetupUnits(h, s)[Len(h)] =
             IF Len(h) = 0 THEN PutSWBreakPoint0 ELSE PutSWBreakPoint1
      BY <1>3, <2>1 DEF SetupUnits
    <2>3. /\ PutSWBreakPoint0.on /\ PutSWBreakPoint0.data = "brk"
          /\ PutSWBreakPoint1.on /\ PutSWBreakPoint1.data = "brk"
      BY SWUnitsType
    <2> QED
      BY <2>1, <2>2, <2>3
  <1> QED
    BY <1>2, <1>3

LEMMA UnitsStep ==
    ASSUME ListsInv', UnitsType, [SessionNext]_vars
    PROVE  UnitsType'
PROOF
  <1>1. CASE UNCHANGED wp
    BY <1>1 DEF UnitsType
  <1>2. CASE wp' = AnyUnits \/ wp' = NoUnits
    BY <1>2, AnyUnitsType, NoUnitsType DEF UnitsType
  <1>3. CASE wp' = SetupUnits(hw', sw')
    <2>1. hw' \in Seq(Breakpoint)
      BY DEF ListsInv, ListTypes
    <2> QED
      BY <1>3, <2>1, SetupUnitsType DEF UnitsType
  <1>4. \/ UNCHANGED wp
        \/ wp' = AnyUnits \/ wp' = NoUnits
        \/ wp' = SetupUnits(hw', sw')
    <2>1. CASE MemoryRequest \/ BreakpointRequest \/ \E p \in Code : SetPc(p)
      BY <2>1 DEF MemoryRequest, Read, Write, BreakpointRequest, InsertRequest,
                  RemoveRequest, SymbolMain, TempMainBreak, SetPc, coreVars
    <2>2. CASE ResumeRequest
      BY <2>2 DEF ResumeRequest, RefuseResume, Run, SingleStep, EmulateBranchLink, coreVars
    <2>3. CASE ProgramStep
      BY <2>3 DEF ProgramStep, RunInstr, StepInstr, ResetInstr, Execute
    <2>4. CASE Emulated \/ Halted \/ Interrupted \/ Attached \/ Restarted
      BY <2>4 DEF Emulated, Halted, Interrupted, Attached, Restarted
    <2>5. CASE EndRequest \/ Accept
      BY <2>5 DEF EndRequest, Kill, Close, Detach, Restart, Accept, HardReset, coreVars
    <2>6. CASE UNCHANGED vars
      BY <2>6 DEF vars, coreVars
    <2> QED
      BY <2>1, <2>2, <2>3, <2>4, <2>5, <2>6 DEF SessionNext
  <1> QED
    BY <1>1, <1>2, <1>3, <1>4

LEMMA ArmedStep ==
    ASSUME ListsInv', UnitsType, UnitsArmed, [SessionNext]_vars
    PROVE  UnitsArmed'
PROOF
  <1> SUFFICES ASSUME mode' = "run" PROVE UnitsArmed'
    BY DEF UnitsArmed
  <1>1. CASE Run
    <2>1. /\ hw' \in Seq(Breakpoint) /\ sw' \in Seq(Breakpoint)
          /\ Len(hw') <= 2
          /\ sw' # <<>> => Len(hw') <= 1
      BY DEF ListsInv, ListTypes, UnitBudget, UnitsUsed
    <2>2. /\ \A e \in Entries(hw') :
                \E i \in {0, 1} : SetupUnits(hw', sw')[i] = PutHWBreakPoint(e.addr)
          /\ sw' # <<>> => \E i \in {0, 1} :
                SetupUnits(hw', sw')[i].on /\ SetupUnits(hw', sw')[i].data = "brk"
      BY <2>1, SetupArms
    <2>3. wp' = SetupUnits(hw', sw')
      BY <1>1 DEF Run
    <2> QED
      BY <2>2, <2>3 DEF UnitsArmed, Entries
  <1>2. CASE mode = "run" /\ UNCHANGED <<hw, sw, wp>>
    BY <1>2 DEF UnitsArmed, Entries
  <1> QED
    BY <1>1, <1>2, RunningStep

LEMMA UnitsInit == SessionInit => UnitsType /\ UnitsArmed
PROOF
  <1> SUFFICES ASSUME SessionInit PROVE UnitsType /\ UnitsArmed
    OBVIOUS
  <1>1. mode = "prompt"
    BY DEF SessionInit, Init
  <1>2. /\ [on |-> TRUE, addr |-> 0, mask |-> "bit0", data |-> "any"] \in Unit
        /\ [on |-> FALSE, addr |-> 0, mask |-> "exact", data |-> "any"] \in Unit
    BY DEF Unit
  <1>3. UnitsType
    BY <1>2 DEF UnitsType, SessionInit
  <1> QED
    BY <1>1, <1>3 DEF UnitsArmed

(* While the program runs each listed hardware breakpoint has a unit of    *)
(* its own that compares its address, and the software breakpoints have    *)
(* one that compares the breakpoint instruction: no entry of a list is     *)
(* left without a unit by gdbSetupJtagICE_RTbreakpoint.                    *)
THEOREM EveryBreakpointArmed == SessionSpec => []UnitsArmed
PROOF
  <1>1. ListsInv' /\ (UnitsType /\ UnitsArmed) /\ [SessionNext]_vars
        => (UnitsType /\ UnitsArmed)'
    BY UnitsStep, ArmedStep
  <1> QED
    BY UnitsInit, <1>1, ListsInvariance, PTL DEF SessionSpec

(* The program goes on only by executing an instruction at which no unit   *)
(* stops it.                                                               *)
LEMMA RunsOn ==
    ASSUME SessionNext, mode = "run", mode' = "run"
    PROVE  ~Stopping(pc)
PROOF
  <1>1. CASE RunInstr
    BY <1>1 DEF RunInstr
  <1>2. CASE MemoryRequest \/ BreakpointRequest \/ \E p \in Code : SetPc(p)
    BY <1>2 DEF MemoryRequest, Read, Write, ReadMem, WriteMem, BreakpointRequest,
                InsertRequest, RemoveRequest, SymbolMain, TempMainBreak, SetPc
  <1>3. CASE ResumeRequest \/ EndRequest
    BY <1>3 DEF ResumeRequest, RefuseResume, Run, SingleStep, EmulateBranchLink,
                EndRequest, Kill, Close, Detach, Restart
  <1>4. CASE StepInstr \/ ResetInstr \/ Emulated \/ Halted \/ Interrupted
    BY <1>4 DEF StepInstr, ResetInstr, Emulated, Halted, Interrupted, EnterPrompt
  <1>5. CASE Accept \/ Attached \/ Restarted
    BY <1>5 DEF Accept, Attached, Restarted
  <1> QED
    BY <1>1, <1>2, <1>3, <1>4, <1>5 DEF SessionNext, ProgramStep

LEMMA ArmedStops ==
    ASSUME ListsInv, UnitsArmed, mode = "run", NEW p, At(hw, p.addr) # {}
    PROVE  Stopping(p)
PROOF
  <1>1. PICK j \in DOMAIN hw : hw[j].addr = p.addr
    BY DEF At
  <1>2. PICK i \in {0, 1} : wp[i] = PutHWBreakPoint(hw[j].addr)
    BY <1>1 DEF UnitsArmed, Entries
  <1>3. wp[i] = [on |-> TRUE, addr |-> p.addr, mask |-> "exact", data |-> "any"]
    BY <1>1, <1>2 DEF PutHWBreakPoint
  <1>4. /\ wp[i].on /\ wp[i].addr = p.addr
        /\ wp[i].mask = "exact" /\ wp[i].data = "any"
    BY <1>3
  <1> QED
    BY <1>4 DEF Stopping, Matches

(* The program never runs past a listed hardware breakpoint, wherever it   *)
(* goes and whatever was inserted, removed and stepped before.             *)
THEOREM NoHardwareBreakMissed == SessionSpec => NoBreakMissed
PROOF
  <1>1. ASSUME ListsInv, UnitsArmed, [SessionNext]_vars
        PROVE  [mode = "run" /\ mode' = "run" => At(hw, pc.addr) = {}]_vars
    BY <1>1, RunsOn, ArmedStops
  <1> QED
    BY <1>1, ListsInvariance, EveryBreakpointArmed, PTL DEF SessionSpec, NoBreakMissed

-----------------------------------------------------------------------------
(* The cache.  Whenever the target may store the buffer has been forgotten, *)
(* but not between two connections (gdb_restart).                          *)
BufferInv ==
    /\ BufferTrue
    /\ mode \in {"run", "restart"} => pages = {}
    /\ mode = "step" /\ IsStore(ir) => pages = {}
    /\ mode \notin {"listen", "attach"}

LEMMA BufferSame ==
    ASSUME BufferInv, UNCHANGED cacheVars, UNCHANGED <<mode, ir>>
    PROVE  BufferInv'
BY DEF BufferInv, BufferTrue, cacheVars, IsStore

LEMMA MemoryBuffer ==
    ASSUME CacheTypeOK, BufferInv, MemoryRequest
    PROVE  BufferInv'
PROOF
  <1>1. ASSUME NEW S \in Blocks, Read(S) PROVE BufferInv'
    <2>1. mode = "prompt" /\ mode' = "prompt"
      BY <1>1 DEF Read, ReadMem
    <2>2. BufferTrue'
      <3>1. CASE S \subseteq Ram
        BY <1>1, <3>1, LoadStep DEF Read, ReadMem, BufferInv
      <3>2. CASE ~(S \subseteq Ram)
        BY <1>1, <3>2 DEF Read, ReadMem, BufferInv, BufferTrue, cacheVars
      <3> QED
        BY <3>1, <3>2
    <2> QED
      BY <2>1, <2>2 DEF BufferInv
  <1>2. ASSUME NEW S \in Blocks, NEW new \in [S -> Values], Write(new) PROVE BufferInv'
    <2> DEFINE inside == [a \in DOMAIN new \cap Ram |-> new[a]]
    <2>1. S \cap Ram \in SUBSET Ram /\ inside \in [S \cap Ram -> CellValue]
      BY CellValues
    <2>2. BufWrite(inside) /\ mode = "prompt" /\ mode' = "prompt"
      BY <1>2 DEF Write, WriteMem
    <2> HIDE DEF inside
    <2>3. BufferTrue'
      BY <2>1, <2>2, BufWriteStep DEF BufferInv
    <2> QED
      BY <2>2, <2>3 DEF BufferInv
  <1> QED
    BY <1>1, <1>2 DEF MemoryRequest

(* What RemoveBreakpoint puts back is marked as written. *)
LEMMA RemoveBuffer ==
    ASSUME ListsInv, BufferTrue, UNCHANGED <<target, pages>>,
           NEW addr, NEW ret, RemoveBreakpoint(addr, ret)
    PROVE  BufferTrue'
PROOF
  <1>1. CASE UNCHANGED <<buf, dirty>>
    BY <1>1 DEF BufferTrue
  <1>2. CASE /\ buf' = Overwritten(buf, Restoring(sw[FirstAt(sw, addr)]))
             /\ dirty' = dirty \cup CellsOf(sw[FirstAt(sw, addr)])
    BY <1>2 DEF BufferTrue, Overwritten, Restoring
  <1> QED
    BY <1>1, <1>2 DEF RemoveBreakpoint

LEMMA EnterPromptBuffer ==
    ASSUME ListsInv, BufferTrue, EnterPrompt
    PROVE  BufferInv'
PROOF
  <1>1. BufferTrue'
    <2>1. CASE MainOnly /\ pc.addr = main.addr
      BY <2>1, RemoveBuffer DEF EnterPrompt, LoopTop
    <2>2. CASE ~(MainOnly /\ pc.addr = main.addr)
      BY <2>2 DEF EnterPrompt, LoopTop, BufferTrue
    <2> QED
      BY <2>1, <2>2
  <1>2. mode' = "prompt"
    BY DEF EnterPrompt
  <1> QED
    BY <1>1, <1>2 DEF BufferInv

LEMMA ResumeBuffer ==
    ASSUME ListsInv, BufferInv, ResumeRequest
    PROVE  BufferInv'
PROOF
  <1>1. CASE RefuseResume
    BY <1>1 DEF RefuseResume, BufferInv, BufferTrue, cacheVars
  <1>2. CASE Run
    BY <1>2 DEF Run, BufferInv, BufferTrue
  <1>3. ASSUME target' = WrittenBack, dirty' = {}, buf' = buf,
               pages' = {} \/ pages' = pages
        PROVE  BufferTrue'
    BY <1>3 DEF BufferInv, BufferTrue, WrittenBack
  <1>4. CASE SingleStep
    <2>1. mode' = "step" /\ (IsStore(ir') => pages' = {})
      BY <1>4 DEF SingleStep, TakenForStore
    <2>2. BufferTrue'
      BY <1>3, <1>4 DEF SingleStep
    <2> QED
      BY <2>1, <2>2 DEF BufferInv, IsStore
  <1>5. CASE EmulateBranchLink
    BY <1>3, <1>5 DEF EmulateBranchLink, BufferInv
  <1> QED
    BY <1>1, <1>2, <1>4, <1>5 DEF ResumeRequest

(* The program stores while the buffer is forgotten. *)
LEMMA ProgramBuffer ==
    ASSUME ListsInv, BufferInv, ProgramStep
    PROVE  BufferInv'
PROOF
  <1>1. CASE pages = {}
    <2>1. UNCHANGED <<pages, mode>>
      BY DEF ProgramStep, RunInstr, StepInstr, ResetInstr, Execute
    <2> QED
      BY <1>1, <2>1 DEF BufferInv, BufferTrue
  <1>2. CASE StepInstr /\ ~IsStore(ir)
    <2>1. UNCHANGED <<target, buf, dirty, pages, mode>> /\ mode = "step"
      BY <1>2 DEF StepInstr, Execute
    <2>2. ~IsStore(ir')
      BY <1>2 DEF StepInstr, IsStore
    <2> QED
      BY <2>1, <2>2 DEF BufferInv, BufferTrue, IsStore
  <1>3. pages = {} \/ (StepInstr /\ ~IsStore(ir))
    BY DEF ProgramStep, RunInstr, StepInstr, ResetInstr, BufferInv
  <1> QED
    BY <1>1, <1>2, <1>3

LEMMA BufferInit == SessionInit => BufferInv
BY DEF SessionInit, Init, BufferInv, BufferTrue

LEMMA BufferStep ==
    ASSUME ~ListensAgain, ListsInv, BufferInv, [SessionNext]_vars
    PROVE  BufferInv'
PROOF
  <1>1. CASE MemoryRequest
    BY <1>1, MemoryBuffer DEF ListsInv
  <1>2. CASE BreakpointRequest \/ \E p \in Code : SetPc(p)
    <2>1. ASSUME NEW addr, RemoveRequest(addr) PROVE BufferInv'
      BY <2>1, RemoveBuffer DEF RemoveRequest, BufferInv
    <2>2. CASE /\ UNCHANGED cacheVars /\ mode = "prompt" /\ mode' = "prompt"
      BY <2>2 DEF BufferInv, BufferTrue, cacheVars
    <2> QED
      BY <1>2, <2>1, <2>2
      DEF BreakpointRequest, InsertRequest, SymbolMain, TempMainBreak, SetPc
  <1>3. CASE ResumeRequest
    BY <1>3, ResumeBuffer
  <1>4. CASE ProgramStep
    BY <1>4, ProgramBuffer
  <1>5. CASE Emulated \/ Halted \/ Interrupted \/ Attached
    BY <1>5, EnterPromptBuffer DEF Emulated, Halted, Interrupted, Attached, BufferInv
  <1>6. CASE EndRequest
    BY <1>6 DEF EndRequest, Kill, WriteBack, Close, Detach, Restart, Ended,
                BufferInv, BufferTrue, WrittenBack, cacheVars
  <1>7. CASE Accept \/ Restarted
    BY <1>7 DEF Accept, Restarted, BufferInv, BufferTrue, cacheVars
  <1>8. CASE UNCHANGED vars
    BY <1>8, BufferSame DEF vars, memVars, cacheVars, coreVars
  <1> QED
    BY <1>1, <1>2, <1>3, <1>4, <1>5, <1>6, <1>7, <1>8 DEF SessionNext

(* Breakpoints, single steps, the breakpoint at main and monitor Restart   *)
(* leave no stale page in the buffer while gdb may look at it, as long as  *)
(* the server serves one connection: it keeps the pages read in one for    *)
(* the next, before which the target was reset and ran.                    *)
THEOREM BufferTrueInSession ==
    ASSUME ~ListensAgain
    PROVE  SessionSpec => []BufferTrueAtPrompt
PROOF
  <1>1. ListsInv /\ BufferInv /\ [SessionNext]_vars => BufferInv'
    BY BufferStep
  <1>2. BufferInv => BufferTrueAtPrompt
    BY DEF BufferInv, BufferTrueAtPrompt
  <1> QED
    BY BufferInit, <1>1, <1>2, ListsInvariance, PTL DEF SessionSpec

-----------------------------------------------------------------------------
(* Addresses listed once.  An ARM breakpoint is asked for at its word.     *)
ArmRequestsAligned == \A r \in Requests : r.len = 4 => r.addr % 2 = 0

Once(s)  == \A i, j \in DOMAIN s : s[i].addr = s[j].addr => i = j
WordsAligned(s) == \A i \in DOMAIN s : s[i].len = 4 => s[i].addr % 2 = 0
Apart    == \A i \in DOMAIN hw, j \in DOMAIN sw : hw[i].addr # sw[j].addr

OnceInv == Once(hw) /\ Once(sw) /\ Apart /\ WordsAligned(hw) /\ WordsAligned(sw)

LEMMA MatchingAt ==
    ASSUME ListTypes, NEW addr \in Nat
    PROVE  /\ \A i \in DOMAIN hw : hw[i].addr = Aligned(addr, hw[i].len)
                                 => i \in Matching(addr)
           /\ \A i \in DOMAIN sw : sw[i].addr = Aligned(addr, sw[i].len)
                                 => Len(hw) + i \in Matching(addr)
           /\ \A k \in Matching(addr) :
                 \E b \in Breakpoint : /\ (hw \o sw)[k] = b
                                       /\ b.addr = Aligned(addr, b.len)
                                       /\ \/ \E i \in DOMAIN hw : hw[i] = b
                                          \/ \E i \in DOMAIN sw : sw[i] = b
PROOF
  <1>1. /\ hw \o sw \in Seq(Breakpoint)
        /\ Len(hw \o sw) = Len(hw) + Len(sw)
        /\ \A i \in 1 .. Len(hw) + Len(sw) :
              (hw \o sw)[i] = IF i <= Len(hw) THEN hw[i] ELSE sw[i - Len(hw)]
    BY ConcatProperties DEF ListTypes
  <1>2. /\ Len(hw) \in Nat /\ DOMAIN hw = 1 .. Len(hw)
        /\ Len(sw) \in Nat /\ DOMAIN sw = 1 .. Len(sw)
        /\ DOMAIN (hw \o sw) = 1 .. Len(hw) + Len(sw)
    BY <1>1 DEF ListTypes
  <1> DEFINE both == hw \o sw
  <1> HIDE DEF both
  <1>3. \A i \in 1 .. Len(hw) : i \in DOMAIN both /\ both[i] = hw[i]
    BY <1>1, <1>2 DEF both
  <1>4. \A i \in 1 .. Len(sw) : Len(hw) + i \in DOMAIN both /\ both[Len(hw) + i] = sw[i]
    BY <1>1, <1>2 DEF both
  <1>5. Matching(addr) = {i \in DOMAIN both : both[i].addr = Aligned(addr, both[i].len)}
    BY DEF Matching, both
  <1>6. ASSUME NEW k \in DOMAIN both
        PROVE  /\ both[k] \in Breakpoint
               /\ \/ \E i \in DOMAIN hw : hw[i] = both[k]
                  \/ \E i \in DOMAIN sw : sw[i] = both[k]
    <2>1. CASE k <= Len(hw)
      BY <2>1, <1>1, <1>2 DEF both, ListTypes
    <2>2. CASE ~(k <= Len(hw))
      <3>1. k - Len(hw) \in 1 .. Len(sw) /\ both[k] = sw[k - Len(hw)]
        BY <2>2, <1>1, <1>2 DEF both
      <3> QED
        BY <3>1, <1>2 DEF ListTypes
    <2> QED
      BY <2>1, <2>2
  <1>7. \A k \in Matching(addr) :
           \E b \in Breakpoint : /\ both[k] = b
                                 /\ b.addr = Aligned(addr, b.len)
                                 /\ \/ \E i \in DOMAIN hw : hw[i] = b
                                    \/ \E i \in DOMAIN sw : sw[i] = b
    BY <1>5, <1>6
  <1> QED
    BY <1>2, <1>3, <1>4, <1>5, <1>7 DEF both

(* A breakpoint InsertBreakpoint finds room for is at an address that no   *)
(* entry has.                                                              *)
LEMMA NewAddress ==
    ASSUME ListTypes, WordsAligned(hw), WordsAligned(sw), NEW addr \in Nat, Matching(addr) = {}
    PROVE  /\ \A i \in DOMAIN hw : hw[i].addr # addr
           /\ \A i \in DOMAIN sw : sw[i].addr # addr
PROOF
  <1>1. ASSUME NEW b \in Breakpoint, b.len = 4 => b.addr % 2 = 0, b.addr = addr
        PROVE  b.addr = Aligned(addr, b.len)
    BY <1>1 DEF Aligned, Breakpoint
  <1>2. ASSUME NEW i \in DOMAIN hw PROVE hw[i].addr # addr
    <2>1. hw[i] \in Breakpoint
      BY DEF ListTypes
    <2> QED
      BY <1>1, <2>1, MatchingAt DEF WordsAligned
  <1>3. ASSUME NEW i \in DOMAIN sw PROVE sw[i].addr # addr
    <2>1. sw[i] \in Breakpoint
      BY DEF ListTypes
    <2> QED
      BY <1>1, <2>1, MatchingAt DEF WordsAligned
  <1> QED
    BY <1>2, <1>3

LEMMA AppendOnce ==
    ASSUME NEW s \in Seq(Breakpoint), Once(s), WordsAligned(s), NEW e \in Breakpoint,
           \A i \in DOMAIN s : s[i].addr # e.addr, e.len = 4 => e.addr % 2 = 0
    PROVE  Once(Append(s, e)) /\ WordsAligned(Append(s, e))
PROOF
  <1> DEFINE t == Append(s, e)
  <1>1. /\ DOMAIN t = 1 .. Len(s) + 1 /\ Len(s) \in Nat
        /\ t[Len(s) + 1] = e
        /\ \A i \in 1 .. Len(s) : t[i] = s[i]
    OBVIOUS
  <1> HIDE DEF t
  <1>2. \A i \in DOMAIN t : i = Len(s) + 1 \/ i \in DOMAIN s
    BY <1>1
  <1>3. \A i \in DOMAIN s : t[i] = s[i]
    BY <1>1
  <1>4. Once(t)
    BY <1>1, <1>2, <1>3 DEF Once
  <1>5. WordsAligned(t)
    BY <1>1, <1>2, <1>3 DEF WordsAligned
  <1> QED
    BY <1>4, <1>5 DEF t

LEMMA InsertOnce ==
    ASSUME ListTypes, CacheTypeOK, OnceInv, NEW addr, NEW len, Asked(addr, len),
           len = 4 => addr % 2 = 0, NEW ret, InsertBreakpoint(addr, len, ret)
    PROVE  OnceInv'
PROOF
  <1> DEFINE e == Entry(addr, len)
  <1>1. e \in Breakpoint /\ e.addr = addr /\ e.len = len
    <2>1. e.addr = Aligned(addr, len) /\ e.len = len
      BY DEF Entry
    <2>2. Aligned(addr, len) = addr
      BY DEF Aligned, Asked
    <2> QED
      BY <2>1, <2>2, EntryType
  <1> HIDE DEF e
  <1>2. CASE UNCHANGED <<hw, sw>>
    BY <1>2 DEF OnceInv, Once, WordsAligned, Apart
  <1>3. CASE Matching(addr) = {}
    <2>1. /\ \A i \in DOMAIN hw : hw[i].addr # e.addr
          /\ \A i \in DOMAIN sw : sw[i].addr # e.addr
      BY <1>1, <1>3, NewAddress DEF OnceInv, Asked
    <2>2. CASE hw' = Append(hw, e) /\ UNCHANGED sw
      <3>1. Once(hw') /\ WordsAligned(hw') /\ Once(sw') /\ WordsAligned(sw')
        BY <1>1, <2>1, <2>2, AppendOnce DEF OnceInv, ListTypes
      <3>2. \A i \in DOMAIN hw' : hw'[i] = e \/ (i \in DOMAIN hw /\ hw'[i] = hw[i])
        BY <2>2, <1>1 DEF ListTypes
      <3>3. Apart'
        BY <2>1, <2>2, <3>2 DEF Apart, OnceInv
      <3> QED
        BY <3>1, <3>3 DEF OnceInv, Once, WordsAligned
    <2>3. CASE sw' = Append(sw, e) /\ UNCHANGED hw
      <3>1. Once(hw') /\ WordsAligned(hw') /\ Once(sw') /\ WordsAligned(sw')
        BY <1>1, <2>1, <2>3, AppendOnce DEF OnceInv, ListTypes
      <3>2. \A i \in DOMAIN sw' : sw'[i] = e \/ (i \in DOMAIN sw /\ sw'[i] = sw[i])
        BY <2>3, <1>1 DEF ListTypes
      <3>3. Apart'
        BY <2>1, <2>3, <3>2 DEF Apart, OnceInv
      <3> QED
        BY <3>1, <3>3 DEF OnceInv, Once, WordsAligned
    <2>4. \/ UNCHANGED <<hw, sw>>
          \/ hw' = Append(hw, e) /\ UNCHANGED sw
          \/ sw' = Append(sw, e) /\ UNCHANGED hw
      BY DEF InsertBreakpoint, e
    <2> QED
      BY <1>2, <2>2, <2>3, <2>4
  <1>4. UNCHANGED <<hw, sw>> \/ Matching(addr) = {}
    BY DEF InsertBreakpoint
  <1> QED
    BY <1>2, <1>3, <1>4

LEMMA RemoveAtOnce ==
    ASSUME NEW s \in Seq(Breakpoint), Once(s), WordsAligned(s), NEW i \in 1 .. Len(s)
    PROVE  /\ Once(RemoveAt(s, i)) /\ WordsAligned(RemoveAt(s, i))
           /\ \A j \in DOMAIN RemoveAt(s, i) :
                 \E k \in DOMAIN s : RemoveAt(s, i)[j] = s[k]
PROOF
  <1> DEFINE t == RemoveAt(s, i)
             old(j) == IF j < i THEN j ELSE j + 1
  <1>1. /\ t \in Seq(Breakpoint) /\ Len(t) = Len(s) - 1
        /\ \A j \in 1 .. Len(s) - 1 : t[j] = IF j < i THEN s[j] ELSE s[j + 1]
    BY RemoveAtProperties
  <1> HIDE DEF t
  <1>2. DOMAIN t = 1 .. Len(s) - 1 /\ DOMAIN s = 1 .. Len(s)
    BY <1>1
  <1>3. ASSUME NEW j \in DOMAIN t
        PROVE  old(j) \in DOMAIN s /\ t[j] = s[old(j)]
    BY <1>1, <1>2
  <1>4. \A j, k \in DOMAIN t : old(j) = old(k) => j = k
    BY <1>2
  <1> HIDE DEF old
  <1>5. Once(t)
    BY <1>3, <1>4 DEF Once
  <1>6. WordsAligned(t)
    BY <1>3 DEF WordsAligned
  <1>7. \A j \in DOMAIN t : \E k \in DOMAIN s : t[j] = s[k]
    BY <1>3
  <1> QED
    BY <1>5, <1>6, <1>7 DEF t

LEMMA RemoveOnce ==
    ASSUME ListTypes, OnceInv, NEW addr, NEW ret, RemoveBreakpoint(addr, ret)
    PROVE  OnceInv'
PROOF
  <1>1. CASE At(hw, addr) # {} /\ hw' = RemoveAt(hw, FirstAt(hw, addr)) /\ UNCHANGED sw
    <2>1. /\ Once(hw') /\ WordsAligned(hw')
          /\ \A j \in DOMAIN hw' : \E k \in DOMAIN hw : hw'[j] = hw[k]
      BY <1>1, FirstAtIsAt, RemoveAtOnce DEF OnceInv, ListTypes
    <2>2. Apart'
      BY <1>1, <2>1 DEF OnceInv, Apart
    <2> QED
      BY <1>1, <2>1, <2>2 DEF OnceInv, Once, WordsAligned
  <1>2. CASE At(sw, addr) # {} /\ sw' = RemoveAt(sw, FirstAt(sw, addr)) /\ UNCHANGED hw
    <2>1. /\ Once(sw') /\ WordsAligned(sw')
          /\ \A j \in DOMAIN sw' : \E k \in DOMAIN sw : sw'[j] = sw[k]
      BY <1>2, FirstAtIsAt, RemoveAtOnce DEF OnceInv, ListTypes
    <2>2. Apart'
      BY <1>2, <2>1 DEF OnceInv, Apart
    <2> QED
      BY <1>2, <2>1, <2>2 DEF OnceInv, Once, WordsAligned
  <1>3. CASE UNCHANGED <<hw, sw>>
    BY <1>3 DEF OnceInv, Once, WordsAligned, Apart
  <1> QED
    BY <1>1, <1>2, <1>3 DEF RemoveBreakpoint

LEMMA OnceInit == SessionInit => OnceInv
BY DEF SessionInit, OnceInv, Once, WordsAligned, Apart

LEMMA OnceSame ==
    ASSUME OnceInv, UNCHANGED <<hw, sw>>
    PROVE  OnceInv'
BY DEF OnceInv, Once, WordsAligned, Apart

LEMMA OnceStep ==
    ASSUME ArmRequestsAligned, ListsInv, OnceInv, [SessionNext]_vars
    PROVE  OnceInv'
PROOF
  <1> USE DEF ListsInv
  <1>1. CASE BreakpointRequest
    <2>1. ASSUME NEW r \in Requests, InsertRequest(r.addr, r.len) PROVE OnceInv'
      <3>1. PICK ret \in {0, 1} : InsertBreakpoint(r.addr, r.len, ret)
        BY <2>1 DEF InsertRequest
      <3> QED
        BY <3>1, RequestIsAsked, InsertOnce DEF ArmRequestsAligned
    <2>2. ASSUME NEW addr, RemoveRequest(addr) PROVE OnceInv'
      BY <2>2, RemoveOnce DEF RemoveRequest
    <2> QED
      BY <1>1, <2>1, <2>2, OnceSame DEF BreakpointRequest, SymbolMain, TempMainBreak
  <1>2. CASE ResumeRequest
    <2>1. ASSUME NEW ret, MainOnly, InsertBreakpoint(main.addr, 2, ret) PROVE OnceInv'
      BY <2>1, MainIsAsked, InsertOnce
    <2>2. ASSUME ArmMain PROVE OnceInv'
      BY <2>1, <2>2, OnceSame DEF ArmMain
    <2> QED
      BY <1>2, <2>1, <2>2 DEF ResumeRequest, RefuseResume, Run, SingleStep, EmulateBranchLink
  <1>3. CASE Emulated \/ Halted \/ Interrupted \/ Attached
    <2>1. LoopTop
      BY <1>3 DEF Emulated, Halted, Interrupted, Attached, EnterPrompt
    <2> QED
      BY <2>1, RemoveOnce, OnceSame DEF LoopTop
  <1>4. CASE MemoryRequest \/ \E p \in Code : SetPc(p)
    BY <1>4, OnceSame DEF MemoryRequest, Read, Write, SetPc, breakVars
  <1>5. CASE ProgramStep
    BY <1>5, OnceSame DEF ProgramStep, RunInstr, StepInstr, ResetInstr, Execute, breakVars
  <1>6. CASE EndRequest \/ Accept \/ Restarted
    BY <1>6, OnceSame
    DEF EndRequest, Kill, Close, Detach, Restart, Accept, Restarted, breakVars
  <1>7. CASE UNCHANGED vars
    BY <1>7, OnceSame DEF vars, breakVars
  <1> QED
    BY <1>1, <1>2, <1>3, <1>4, <1>5, <1>6, <1>7 DEF SessionNext

LEMMA OnceIsDistinct ==
    ASSUME ListTypes, OnceInv
    PROVE  DistinctEntries
PROOF
  <1>1. /\ hw \o sw \in Seq(Breakpoint)
        /\ Len(hw \o sw) = Len(hw) + Len(sw)
        /\ \A i \in 1 .. Len(hw) + Len(sw) :
              (hw \o sw)[i] = IF i <= Len(hw) THEN hw[i] ELSE sw[i - Len(hw)]
    BY ConcatProperties DEF ListTypes
  <1> DEFINE both == hw \o sw
  <1>2. /\ Len(hw) \in Nat /\ DOMAIN hw = 1 .. Len(hw)
        /\ Len(sw) \in Nat /\ DOMAIN sw = 1 .. Len(sw)
        /\ DOMAIN both = 1 .. Len(hw) + Len(sw)
    BY <1>1 DEF ListTypes
  <1>3. \A i \in DOMAIN both :
           \/ i \in DOMAIN hw /\ both[i] = hw[i]
           \/ i > Len(hw) /\ i - Len(hw) \in DOMAIN sw /\ both[i] = sw[i - Len(hw)]
    BY <1>1, <1>2
  <1> HIDE DEF both
  <1>4. ASSUME NEW i \in DOMAIN both, NEW j \in DOMAIN both, both[i].addr = both[j].addr
        PROVE  i = j
    <2>1. CASE i \in DOMAIN hw /\ both[i] = hw[i] /\ j \in DOMAIN hw /\ both[j] = hw[j]
      BY <1>4, <2>1 DEF OnceInv, Once
    <2>2. CASE /\ i - Len(hw) \in DOMAIN sw /\ both[i] = sw[i - Len(hw)]
               /\ j - Len(hw) \in DOMAIN sw /\ both[j] = sw[j - Len(hw)]
      <3>1. i - Len(hw) = j - Len(hw)
        BY <1>4, <2>2 DEF OnceInv, Once
      <3> QED
        BY <3>1, <1>2
    <2>3. CASE \/ /\ i \in DOMAIN hw /\ both[i] = hw[i]
                  /\ j - Len(hw) \in DOMAIN sw /\ both[j] = sw[j - Len(hw)]
               \/ /\ j \in DOMAIN hw /\ both[j] = hw[j]
                  /\ i - Len(hw) \in DOMAIN sw /\ both[i] = sw[i - Len(hw)]
      BY <1>4, <2>3 DEF OnceInv, Apart
    <2> QED
      BY <1>3, <2>1, <2>2, <2>3
  <1> QED
    BY <1>4 DEF DistinctEntries, both

(* No address is listed twice, so that no software breakpoint is saved as  *)
(* the instruction of another one: neither requests of gdb nor the         *)
(* breakpoint at main nor a rounded address make a second entry.           *)
THEOREM AddressesListedOnce ==
    ASSUME ArmRequestsAligned
    PROVE  SessionSpec => []DistinctEntries
PROOF
  <1>1. ListsInv /\ OnceInv /\ [SessionNext]_vars => OnceInv'
    BY OnceStep
  <1>2. ListsInv /\ OnceInv => DistinctEntries
    BY OnceIsDistinct DEF ListsInv
  <1> QED
    BY OnceInit, <1>1, <1>2, ListsInvariance, PTL DEF SessionSpec

-----------------------------------------------------------------------------
LEMMA FirstMatchIsMatch ==
    ASSUME NEW addr, Matching(addr) # {}
    PROVE  \E k \in Matching(addr) : FirstMatch(addr) = (hw \o sw)[k]
PROOF
  <1>1. Matching(addr) \subseteq Nat
    BY DEF Matching
  <1>2. PICK i \in Matching(addr) : \A j \in Matching(addr) : i <= j
    <2> DEFINE Less == OpToRel(<, Nat)
    <2>1. \E i \in Matching(addr) : \A j \in Matching(addr) : <<j, i>> \notin Less
      <3> HIDE DEF Less
      <3>1. IsWellFoundedOn(Less, Nat)
        BY NatLessThanWellFounded DEF Less
      <3> QED
        BY <1>1, <3>1, WFMin
    <2>2. \A i, j \in Nat : <<j, i>> \notin Less => i <= j
      BY DEF OpToRel
    <2> HIDE DEF Less
    <2> QED
      BY <1>1, <2>1, <2>2
  <1> QED
    BY <1>2 DEF FirstMatch

(* What a second Z request finds listed already, a z request removes.      *)
THEOREM ListedCanBeRemoved ==
    ASSUME ArmRequestsAligned
    PROVE  SessionSpec => []ListedIsRemovable
PROOF
  <1>1. ASSUME ListTypes, NEW r \in Requests, Matching(r.addr) # {},
               FirstMatch(r.addr).len = r.len
        PROVE  OnList(hw, sw, r.addr)
    <2>1. r.addr \in Nat /\ r.len \in {2, 4} /\ (r.len = 4 => r.addr % 2 = 0)
      BY RequestsAssumption DEF ArmRequestsAligned
    <2>2. PICK k \in Matching(r.addr) : FirstMatch(r.addr) = (hw \o sw)[k]
      BY <1>1, FirstMatchIsMatch
    <2>3. PICK b \in Breakpoint : /\ (hw \o sw)[k] = b
                                  /\ b.addr = Aligned(r.addr, b.len)
                                  /\ \/ \E i \in DOMAIN hw : hw[i] = b
                                     \/ \E i \in DOMAIN sw : sw[i] = b
      BY <1>1, <2>1, <2>2, MatchingAt
    <2>4. b.len = r.len
      BY <1>1, <2>2, <2>3
    <2>5. b.addr = r.addr
      BY <2>1, <2>3, <2>4 DEF Aligned
    <2> QED
      BY <2>3, <2>5 DEF OnList, At
  <1>2. ListsInv => ListedIsRemovable
    BY <1>1 DEF ListsInv, ListedIsRemovable
  <1> QED
    BY <1>2, ListsInvariance, PTL

-----------------------------------------------------------------------------
(* The program behind the breakpoints.  What gdb asks for in RAM are       *)
(* instructions: they lie in one page and do not overlap, gdb writes them  *)
(* as a whole and the program does not store to them; and what the program *)
(* executes in RAM is one of them or apart from all.                       *)
RamRequests == {r \in Requests : r.addr \in Ram}

Meet(b, c) == CellsOf(b) \cap CellsOf(c) # {}
Same(b, c) == b.addr = c.addr /\ b.len = c.len

OnePage(b) == \A a \in CellsOf(b) : PageOf(a) = PageOf(b.addr)

CodeLayout ==
    /\ \A r \in RamRequests :
          /\ OnePage(r)
          /\ CellsOf(r) \cap StoreCells = {}
          /\ \A q \in RamRequests : Meet(r, q) => Same(r, q)
          /\ \A S \in Blocks : CellsOf(r) \subseteq S \/ CellsOf(r) \cap S = {}
    /\ \A p \in Code :
          /\ p.addr \in Nat /\ p.len \in {2, 4}
          /\ ~InFlash(p.addr) => CellsOf(p) \subseteq Ram /\ OnePage(p)
          /\ \A r \in RamRequests : Meet(r, p) => Same(r, p)
    /\ ResetPc \in Code

(* The software breakpoints are requests in RAM, and a request is written  *)
(* back as a whole.                                                        *)
FromRequests(s) == \A i \in DOMAIN s : \E r \in RamRequests : Same(s[i], r)
DirtyWhole == \A r \in RamRequests : CellsOf(r) \subseteq dirty \/ CellsOf(r) \cap dirty = {}

CodeInv == FromRequests(sw) /\ DirtyWhole /\ pc \in Code

LEMMA RequestCells ==
    ASSUME ArmRequestsAligned, NEW r \in RamRequests
    PROVE  /\ r.addr \in Nat /\ r.len \in {2, 4} /\ Half(r.len) \in {1, 2}
           /\ Aligned(r.addr, r.len) = r.addr
           /\ CellsOf(r) \subseteq Ram /\ r.addr \in CellsOf(r)
PROOF
  <1>1. r \in Requests /\ r.addr \in Ram
    BY DEF RamRequests
  <1>2. /\ r.addr \in Nat /\ r.len \in {2, 4}
        /\ Aligned(r.addr, r.len) + Half(r.len) - 1 \in Ram
        /\ r.len = 4 => r.addr % 2 = 0
    BY <1>1, RequestsAssumption DEF ArmRequestsAligned
  <1>3. Aligned(r.addr, r.len) = r.addr
    BY <1>2 DEF Aligned
  <1>4. Half(r.len) \in {1, 2}
    BY <1>2 DEF Half
  <1>5. CellsOf(r) = r.addr .. r.addr + Half(r.len) - 1
    BY DEF CellsOf
  <1>6. CellsOf(r) \subseteq Ram /\ r.addr \in CellsOf(r)
    BY <1>1, <1>2, <1>3, <1>4, <1>5 DEF Ram
  <1> QED
    BY <1>2, <1>3, <1>4, <1>6

LEMMA SameCells ==
    ASSUME NEW b, NEW c, Same(b, c)
    PROVE  CellsOf(b) = CellsOf(c)
BY DEF Same, CellsOf

(* Two entries that meet are one. *)
LEMMA CoveredOnce ==
    ASSUME CodeLayout, ArmRequestsAligned, NEW s, Once(s), FromRequests(s),
           NEW e \in Entries(s), NEW f \in Entries(s), Meet(e, f)
    PROVE  e = f
PROOF
  <1>1. PICK i \in DOMAIN s, j \in DOMAIN s : e = s[i] /\ f = s[j]
    BY DEF Entries
  <1>2. PICK r \in RamRequests, q \in RamRequests : Same(e, r) /\ Same(f, q)
    BY <1>1 DEF FromRequests
  <1>3. Meet(r, q)
    BY <1>2, SameCells DEF Meet
  <1>4. r.addr = q.addr
    BY <1>3 DEF CodeLayout, Same
  <1> QED
    BY <1>1, <1>2, <1>4 DEF Same, Once

(* Program, of any list and any memory. *)
Behind(s, m) ==
    [a \in Ram |->
        IF a \in Covered(s)
        THEN LET e == CHOOSE e \in Entries(s) : a \in CellsOf(e)
             IN  e.instr[a - e.addr + 1]
        ELSE m[a]]

LEMMA ProgramIsBehind == Program = Behind(sw, WrittenBack) /\ Program' = Behind(sw', WrittenBack')
BY DEF Program, Behind

LEMMA BehindAt ==
    ASSUME CodeLayout, ArmRequestsAligned, NEW s, Once(s), FromRequests(s), NEW m,
           NEW a \in Ram
    PROVE  /\ \A e \in Entries(s) : a \in CellsOf(e) => Behind(s, m)[a] = e.instr[a - e.addr + 1]
           /\ a \notin Covered(s) => Behind(s, m)[a] = m[a]
PROOF
  <1>1. ASSUME NEW e \in Entries(s), a \in CellsOf(e)
        PROVE  Behind(s, m)[a] = e.instr[a - e.addr + 1]
    <2> DEFINE f == CHOOSE f \in Entries(s) : a \in CellsOf(f)
    <2>1. f \in Entries(s) /\ a \in CellsOf(f)
      BY <1>1
    <2> HIDE DEF f
    <2>2. f = e
      BY <1>1, <2>1, CoveredOnce DEF Meet
    <2>3. a \in Covered(s)
      BY <1>1 DEF Covered
    <2>4. Behind(s, m)[a] = f.instr[a - f.addr + 1]
      BY <2>3, Zenon DEF Behind, f
    <2> QED
      BY <2>2, <2>4
  <1>2. a \notin Covered(s) => Behind(s, m)[a] = m[a]
    BY DEF Behind
  <1> QED
    BY <1>1, <1>2

(* The program is the same behind the same list if the memory is, but for  *)
(* covered cells.                                                          *)
LEMMA BehindSame ==
    ASSUME NEW s, NEW m, NEW n, \A a \in Ram \ Covered(s) : m[a] = n[a]
    PROVE  Behind(s, m) = Behind(s, n)
BY DEF Behind

LEMMA EntryCells ==
    ASSUME ArmRequestsAligned, NEW s \in Seq(Breakpoint), FromRequests(s), NEW e \in Entries(s)
    PROVE  /\ e \in Breakpoint
           /\ CellsOf(e) \subseteq Ram
           /\ \E r \in RamRequests : Same(e, r) /\ CellsOf(r) = CellsOf(e)
PROOF
  <1>1. PICK i \in DOMAIN s : e = s[i]
    BY DEF Entries
  <1>2. PICK r \in RamRequests : Same(e, r)
    BY <1>1 DEF FromRequests
  <1> QED
    BY <1>1, <1>2, SameCells, RequestCells

(* The instruction InsertBreakpoint saves is the one gdb is to see. *)
LEMMA CapturedIsSeen ==
    ASSUME CodeLayout, ArmRequestsAligned, CacheTypeOK, BufferTrue, DirtyWhole,
           NEW r \in RamRequests, NEW i \in 1 .. Half(r.len)
    PROVE  Captured(r.addr, r.len)[i] = WrittenBack[r.addr + i - 1]
PROOF
  <1> DEFINE a == r.addr + i - 1
  <1>1. a \in CellsOf(r) /\ a \in Ram /\ Aligned(r.addr, r.len) = r.addr
    BY RequestCells DEF CellsOf
  <1>2. CellsOf(r) = r.addr .. r.addr + Half(r.len) - 1
    BY DEF CellsOf
  <1>3. PageOf(a) = PageOf(r.addr)
    BY <1>1 DEF CodeLayout, OnePage
  <1>4. Instr(buf, r.addr, r.len)[i] = buf[a] /\ Instr(target, r.addr, r.len)[i] = target[a]
    BY DEF Instr
  <1> HIDE DEF a
  <1>5. CASE CellsOf(r) \subseteq dirty \/ PageOf(r.addr) \in pages
    <2>1. Captured(r.addr, r.len) = Instr(buf, r.addr, r.len)
      BY <1>1, <1>2, <1>5 DEF Captured
    <2>2. WrittenBack[a] = buf[a]
      BY <1>1, <1>3, <1>5 DEF WrittenBack, BufferTrue
    <2> QED
      BY <1>4, <2>1, <2>2 DEF a
  <1>6. CASE ~(CellsOf(r) \subseteq dirty \/ PageOf(r.addr) \in pages)
    <2>1. Captured(r.addr, r.len) = Instr(target, r.addr, r.len)
      BY <1>1, <1>2, <1>6 DEF Captured
    <2>2. a \notin dirty
      BY <1>1, <1>6 DEF DirtyWhole
    <2>3. WrittenBack[a] = target[a]
      BY <1>1, <2>2 DEF WrittenBack
    <2> QED
      BY <1>4, <2>1, <2>3 DEF a
  <1> QED
    BY <1>5, <1>6

(* Listing an instruction as it is changes nothing behind the list. *)
LEMMA BehindAppend ==
    ASSUME CodeLayout, ArmRequestsAligned, NEW s \in Seq(Breakpoint), NEW e \in Breakpoint,
           FromRequests(s), FromRequests(Append(s, e)), Once(s), Once(Append(s, e)), NEW m,
           \A a \in CellsOf(e) : e.instr[a - e.addr + 1] = m[a]
    PROVE  Behind(Append(s, e), m) = Behind(s, m)
PROOF
  <1> DEFINE t == Append(s, e)
  <1>1. Entries(t) = Entries(s) \cup {e}
    BY DEF Entries
  <1> HIDE DEF t
  <1>2. ASSUME NEW a \in Ram PROVE Behind(t, m)[a] = Behind(s, m)[a]
    <2>1. CASE a \in Covered(s)
      <3>1. PICK f \in Entries(s) : a \in CellsOf(f)
        BY <2>1 DEF Covered
      <3> QED
        BY <1>1, <3>1, BehindAt DEF t
    <2>2. CASE a \notin Covered(s) /\ a \in CellsOf(e)
      BY <1>1, <2>2, BehindAt DEF t
    <2>3. CASE a \notin Covered(s) /\ a \notin CellsOf(e)
      <3>1. a \notin Covered(t)
        BY <1>1, <2>3 DEF Covered
      <3> QED
        BY <2>3, <3>1, BehindAt DEF t
    <2> QED
      BY <2>1, <2>2, <2>3
  <1> QED
    BY <1>2 DEF Behind, t

(* Putting a saved instruction back and taking it off the list changes     *)
(* nothing either.                                                         *)
LEMMA BehindRemove ==
    ASSUME CodeLayout, ArmRequestsAligned, NEW s, NEW t, NEW e \in Entries(s),
           FromRequests(s), FromRequests(t), Once(s), Once(t),
           Entries(t) = Entries(s) \ {e}, NEW m, NEW n,
           \A a \in Ram : n[a] = IF a \in CellsOf(e) THEN e.instr[a - e.addr + 1] ELSE m[a]
    PROVE  Behind(t, n) = Behind(s, m)
PROOF
  <1>1. ASSUME NEW a \in Ram PROVE Behind(t, n)[a] = Behind(s, m)[a]
    <2>1. CASE a \in CellsOf(e)
      <3>1. ASSUME a \in Covered(t) PROVE FALSE
        <4>1. PICK f \in Entries(t) : a \in CellsOf(f)
          BY <3>1 DEF Covered
        <4>2. f = e
          BY <2>1, <4>1, CoveredOnce DEF Meet
        <4> QED
          BY <4>1, <4>2
      <3>2. Behind(t, n)[a] = n[a] /\ Behind(s, m)[a] = e.instr[a - e.addr + 1]
        BY <2>1, <3>1, BehindAt
      <3> QED
        BY <2>1, <3>2
    <2>2. CASE a \notin CellsOf(e) /\ a \in Covered(t)
      <3>1. PICK f \in Entries(t) : a \in CellsOf(f)
        BY <2>2 DEF Covered
      <3> QED
        BY <3>1, BehindAt
    <2>3. CASE a \notin CellsOf(e) /\ a \notin Covered(t)
      <3>1. a \notin Covered(s)
        BY <2>3 DEF Covered
      <3> QED
        BY <2>3, <3>1, BehindAt
    <2> QED
      BY <2>1, <2>2, <2>3
  <1> QED
    BY <1>1 DEF Behind

-----------------------------------------------------------------------------
(* Inserting and removing, on the program *)

(* What InsertBreakpoint is asked for: by gdb, or for main.                *)
OfProgram(addr, len) ==
    \/ \E r \in Requests : r.addr = addr /\ r.len = len
    \/ MainOnly /\ addr = main.addr

LEMMA InsertProgram ==
    ASSUME CodeLayout, ArmRequestsAligned, ListsInv, OnceInv, OnceInv', CodeInv, BufferTrue,
           NEW addr, NEW len, OfProgram(addr, len), NEW ret, InsertBreakpoint(addr, len, ret)
    PROVE  FromRequests(sw') /\ Behind(sw', WrittenBack) = Behind(sw, WrittenBack)
PROOF
  <1>1. CASE UNCHANGED sw
    BY <1>1 DEF CodeInv
  <1>2. CASE NeedsSW(addr) /\ sw' = Append(sw, Entry(addr, len))
    <2> DEFINE e == Entry(addr, len)
    <2>1. ~MainOnly
      BY <1>2 DEF NeedsSW, NeedsHW, InsertBreakpoint, OfProgram
    <2>2. PICK r \in RamRequests : r.addr = addr /\ r.len = len
      BY <1>2, <2>1 DEF OfProgram, RamRequests, NeedsSW, InRam
    <2>3. e.addr = r.addr /\ e.len = r.len /\ e.instr = Captured(r.addr, r.len)
      BY <1>2, <2>2, RequestCells DEF Entry
    <2>4. e \in Breakpoint
      BY <2>2, RequestIsAsked, EntryType DEF ListsInv, RamRequests
    <2> HIDE DEF e
    <2>5. ASSUME NEW a \in CellsOf(e)
          PROVE  e.instr[a - e.addr + 1] = WrittenBack[a]
      <3>1. r.addr \in Nat /\ Half(r.len) \in {1, 2}
        BY RequestCells
      <3>2. a \in r.addr .. r.addr + Half(r.len) - 1
        BY <2>3, <2>5 DEF CellsOf
      <3> DEFINE i == a - r.addr + 1
      <3>3. i \in 1 .. Half(r.len) /\ r.addr + i - 1 = a
        BY <3>1, <3>2
      <3> HIDE DEF i
      <3>4. Captured(r.addr, r.len)[i] = WrittenBack[r.addr + i - 1]
        BY <3>3, CapturedIsSeen DEF CodeInv, ListsInv
      <3> QED
        BY <2>3, <3>3, <3>4 DEF i
    <2>6. FromRequests(Append(sw, e))
      <3>1. sw \in Seq(Breakpoint)
        BY DEF ListsInv, ListTypes
      <3>2. ASSUME NEW i \in DOMAIN Append(sw, e)
            PROVE  \E q \in RamRequests : Same(Append(sw, e)[i], q)
        <4>1. Append(sw, e)[i] = e \/ (i \in DOMAIN sw /\ Append(sw, e)[i] = sw[i])
          BY <3>1, <2>4
        <4> QED
          BY <4>1, <2>3 DEF Same, CodeInv, FromRequests
      <3> QED
        BY <3>2 DEF FromRequests
    <2>7. Once(sw) /\ Once(Append(sw, e))
      BY <1>2 DEF OnceInv, e
    <2>8. Behind(Append(sw, e), WrittenBack) = Behind(sw, WrittenBack)
      BY <2>4, <2>5, <2>6, <2>7, BehindAppend DEF CodeInv, ListsInv, ListTypes
    <2> QED
      BY <1>2, <2>6, <2>8 DEF e
  <1> QED
    BY <1>1, <1>2 DEF InsertBreakpoint, HasRoom

LEMMA RemovedEntries ==
    ASSUME NEW s \in Seq(Breakpoint), Once(s), NEW i \in 1 .. Len(s)
    PROVE  Entries(RemoveAt(s, i)) = Entries(s) \ {s[i]}
PROOF
  <1> DEFINE t == RemoveAt(s, i)
  <1>0. /\ t \in Seq(Breakpoint) /\ Len(t) = Len(s) - 1
        /\ \A j \in 1 .. Len(s) - 1 : t[j] = IF j < i THEN s[j] ELSE s[j + 1]
    BY RemoveAtProperties
  <1> HIDE DEF t
  <1>1. DOMAIN t = 1 .. Len(s) - 1 /\ DOMAIN s = 1 .. Len(s) /\ Len(s) \in Nat
    BY <1>0
  <1>2. ASSUME NEW j \in DOMAIN t PROVE \E k \in DOMAIN s : k # i /\ t[j] = s[k]
    <2>1. CASE j < i
      BY <1>0, <1>1, <2>1
    <2>2. CASE ~(j < i)
      <3>1. j + 1 \in DOMAIN s /\ j + 1 # i /\ t[j] = s[j + 1]
        BY <1>0, <1>1, <2>2
      <3> QED
        BY <3>1
    <2> QED
      BY <2>1, <2>2
  <1>3. ASSUME NEW k \in DOMAIN s, k # i PROVE \E j \in DOMAIN t : t[j] = s[k]
    <2>1. CASE k < i
      BY <1>0, <1>1, <2>1
    <2>2. CASE ~(k < i)
      <3>1. k - 1 \in DOMAIN t /\ ~(k - 1 < i) /\ (k - 1) + 1 = k
        BY <1>1, <1>3, <2>2
      <3>2. t[k - 1] = s[(k - 1) + 1]
        BY <1>0, <1>1, <3>1
      <3> QED
        BY <3>1, <3>2
    <2> QED
      BY <2>1, <2>2
  <1>4. \A k \in DOMAIN s : k # i => s[k] # s[i]
    BY <1>1 DEF Once
  <1>5. i \in DOMAIN s
    BY <1>1
  <1> QED
    BY <1>2, <1>3, <1>4, <1>5 DEF Entries, t

LEMMA RemoveProgram ==
    ASSUME CodeLayout, ArmRequestsAligned, ListsInv, OnceInv, OnceInv', CodeInv,
           UNCHANGED target, NEW addr, NEW ret, RemoveBreakpoint(addr, ret)
    PROVE  FromRequests(sw') /\ DirtyWhole' /\ Program' = Program
PROOF
  <1>1. CASE UNCHANGED <<sw, buf, dirty>>
    BY <1>1 DEF CodeInv, DirtyWhole, Program, WrittenBack
  <1>2. CASE /\ At(sw, addr) # {}
             /\ buf' = Overwritten(buf, Restoring(sw[FirstAt(sw, addr)]))
             /\ dirty' = dirty \cup CellsOf(sw[FirstAt(sw, addr)])
             /\ sw' = RemoveAt(sw, FirstAt(sw, addr))
    <2> DEFINE i == FirstAt(sw, addr)
    <2>1. i \in 1 .. Len(sw) /\ sw \in Seq(Breakpoint)
      BY <1>2, FirstAtIsAt DEF ListsInv, ListTypes
    <2> HIDE DEF i
    <2> DEFINE e == sw[i]
    <2>2. e \in Entries(sw) /\ Entries(sw') = Entries(sw) \ {e}
      <3>1. sw' = RemoveAt(sw, i)
        BY <1>2 DEF i
      <3>2. Entries(RemoveAt(sw, i)) = Entries(sw) \ {sw[i]}
        BY <2>1, RemovedEntries DEF OnceInv
      <3>3. sw[i] \in Entries(sw)
        BY <2>1 DEF Entries
      <3> QED
        BY <3>1, <3>2, <3>3
    <2> HIDE DEF e
    <2>3. FromRequests(sw')
      <3>1. \A j \in DOMAIN sw' : sw'[j] \in Entries(sw)
        BY <2>2 DEF Entries
      <3> QED
        BY <3>1 DEF FromRequests, CodeInv, Entries
    <2>4. PICK r \in RamRequests : CellsOf(r) = CellsOf(e)
      BY <2>1, <2>2, EntryCells DEF CodeInv
    <2>5. dirty' = dirty \cup CellsOf(r)
      BY <1>2, <2>4 DEF e, i
    <2>6. \A q \in RamRequests : CellsOf(q) = CellsOf(r) \/ CellsOf(q) \cap CellsOf(r) = {}
      BY SameCells DEF CodeLayout, Meet
    <2>7. DirtyWhole'
      BY <2>5, <2>6 DEF DirtyWhole, CodeInv
    <2>8. ASSUME NEW a \in Ram
          PROVE  WrittenBack'[a] = IF a \in CellsOf(e) THEN e.instr[a - e.addr + 1]
                                   ELSE WrittenBack[a]
      <3>1. buf' = Overwritten(buf, Restoring(e)) /\ dirty' = dirty \cup CellsOf(e)
        BY <1>2 DEF e, i
      <3> QED
        BY <3>1 DEF WrittenBack, Overwritten, Restoring
    <2>9. Behind(sw', WrittenBack') = Behind(sw, WrittenBack)
      BY <2>2, <2>3, <2>8, BehindRemove DEF OnceInv, CodeInv
    <2> QED
      BY <2>3, <2>7, <2>9, ProgramIsBehind
  <1> QED
    BY <1>1, <1>2 DEF RemoveBreakpoint

-----------------------------------------------------------------------------
(* Each action, on the program *)

ProgramInv == ListsInv /\ OnceInv /\ BufferInv /\ CodeInv

LEMMA SameProgram ==
    ASSUME UNCHANGED sw, \A a \in Ram \ Covered(sw) : WrittenBack'[a] = WrittenBack[a]
    PROVE  Program' = Program
BY ProgramIsBehind, BehindSame

(* The answers are the same records in both specifications. *)
LEMMA SameReplies ==
    /\ \A status, cells : Session!Reply(status, cells) = Reply(status, cells)
    /\ \A status : Session!Status(status) = Status(status)
BY DEF Session!Reply, Session!Status, Reply, Status

LEMMA ReadProgram ==
    ASSUME CodeLayout, ArmRequestsAligned, RemovesFirst, ProgramInv, NEW S \in Blocks, Read(S)
    PROVE  CodeInv' /\ Program' = Program /\ (Session!Read(S) \/ Session!Other)
PROOF
  <1>0. UNCHANGED <<sw, pc, mode>> /\ mode = "prompt" /\ S \cap Covered(sw) = {}
    BY DEF Read, ReadMem, Touchable, breakVars, coreVars
  <1>1. CASE S \subseteq Ram
    <2>1. Load(S) /\ answer' = Reply("OK", [a \in S |-> LoadedBuf(S)[a]])
      BY <1>1 DEF Read, ReadMem
    <2>2. WrittenBack' = WrittenBack
      BY <1>1, <2>1, LoadStep DEF ProgramInv, ListsInv, BufferInv
    <2>3. Program' = Program
      BY <1>0, <2>2, SameProgram
    <2>4. ASSUME NEW a \in S PROVE LoadedBuf(S)[a] = Program[a]
      <3>1. LoadedBuf(S)[a] = WrittenBack[a]
        BY <1>1, LoadedIsSeen DEF ProgramInv, ListsInv, BufferInv, MissingPages
      <3>2. Behind(sw, WrittenBack)[a] = WrittenBack[a]
        BY <1>0, <1>1, BehindAt DEF ProgramInv, OnceInv, CodeInv
      <3> QED
        BY <3>1, <3>2, ProgramIsBehind
    <2>5. answer' = Reply("OK", [a \in S |-> Program[a]])
      BY <2>1, <2>4
    <2>6. CodeInv'
      BY <1>0, <2>1 DEF Load, ProgramInv, CodeInv, FromRequests, DirtyWhole
    <2> QED
      BY <1>0, <1>1, <2>3, <2>5, <2>6, SameReplies DEF Session!Read
  <1>2. CASE ~(S \subseteq Ram)
    <2>1. UNCHANGED cacheVars /\ answer' = Status("error")
      BY <1>2 DEF Read, ReadMem
    <2>2. WrittenBack' = WrittenBack
      BY <2>1 DEF cacheVars, WrittenBack
    <2>3. Program' = Program
      BY <1>0, <2>2, SameProgram
    <2>4. CodeInv'
      BY <1>0, <2>1 DEF cacheVars, ProgramInv, CodeInv, FromRequests, DirtyWhole
    <2> QED
      BY <1>0, <2>1, <2>3, <2>4, SameReplies DEF Session!Other
  <1> QED
    BY <1>1, <1>2

LEMMA WriteProgram ==
    ASSUME CodeLayout, ArmRequestsAligned, RemovesFirst, ProgramInv,
           NEW S \in Blocks, NEW new \in [S -> Values], Write(new)
    PROVE  CodeInv' /\ Session!Write(new)
PROOF
  <1> DEFINE inside == [a \in DOMAIN new \cap Ram |-> new[a]]
  <1>0. UNCHANGED <<sw, pc, mode>> /\ mode = "prompt" /\ S \cap Covered(sw) = {}
    BY DEF Write, WriteMem, Touchable, breakVars, coreVars
  <1>1. S \cap Ram \in SUBSET Ram /\ inside \in [S \cap Ram -> CellValue]
    BY CellValues
  <1>2. BufWrite(inside) /\ answer' = Status(IF S \subseteq Ram THEN "OK" ELSE "error")
    BY DEF Write, WriteMem
  <1>3. WrittenBack' = Overwritten(WrittenBack, inside)
    BY <1>1, <1>2, BufWriteStep DEF ProgramInv, ListsInv, BufferInv
  <1>4. DirtyWhole'
    <2>1. dirty' = dirty \cup (S \cap Ram)
      BY <1>2 DEF BufWrite
    <2>2. ASSUME NEW r \in RamRequests
          PROVE  CellsOf(r) \subseteq dirty' \/ CellsOf(r) \cap dirty' = {}
      <3>1. CellsOf(r) \subseteq Ram
        BY RequestCells
      <3>2. CellsOf(r) \subseteq S \/ CellsOf(r) \cap S = {}
        BY DEF CodeLayout
      <3>3. CellsOf(r) \subseteq dirty \/ CellsOf(r) \cap dirty = {}
        BY DEF ProgramInv, CodeInv, DirtyWhole
      <3> QED
        BY <2>1, <3>1, <3>2, <3>3
    <2> QED
      BY <2>2 DEF DirtyWhole
  <1>5. CodeInv'
    BY <1>0, <1>4 DEF ProgramInv, CodeInv, FromRequests
  <1>6. ASSUME NEW a \in Ram
        PROVE  Behind(sw, WrittenBack')[a] = IF a \in S THEN new[a] ELSE Program[a]
    <2>1. CASE a \in S
      <3>1. a \notin Covered(sw)
        BY <1>0, <2>1
      <3>2. WrittenBack'[a] = new[a]
        BY <1>3, <2>1 DEF Overwritten
      <3> QED
        BY <2>1, <3>1, <3>2, BehindAt DEF ProgramInv, OnceInv, CodeInv
    <2>2. CASE a \notin S
      <3>1. WrittenBack'[a] = WrittenBack[a]
        BY <1>3, <2>2 DEF Overwritten
      <3> QED
        BY <2>2, <3>1, ProgramIsBehind DEF Behind
    <2> QED
      BY <2>1, <2>2
  <1>7. Program' = [a \in Ram |-> IF a \in DOMAIN new THEN new[a] ELSE Program[a]]
    BY <1>0, <1>6, ProgramIsBehind DEF Behind
  <1> HIDE DEF inside
  <1> QED
    BY <1>0, <1>2, <1>5, <1>7, SameReplies DEF Session!Write

LEMMA AnswersOther ==
    ASSUME Program' = Program, UNCHANGED mode,
           \E status \in {"none", "OK", "error"} : answer' = Status(status)
    PROVE  Session!Other
BY SameReplies DEF Session!Other

LEMMA RequestProgram ==
    ASSUME CodeLayout, ArmRequestsAligned, ProgramInv, OnceInv',
           BreakpointRequest \/ (\E p \in Code : SetPc(p)) \/ RefuseResume
    PROVE  CodeInv' /\ Session!Other /\ Program' = Program
PROOF
  <1>1. ASSUME NEW addr, NEW len, OfProgram(addr, len), NEW ret,
               InsertBreakpoint(addr, len, ret), UNCHANGED <<cacheVars, pc>>
        PROVE  CodeInv' /\ Program' = Program
    <2>1. FromRequests(sw') /\ Behind(sw', WrittenBack) = Behind(sw, WrittenBack)
      BY <1>1, InsertProgram DEF ProgramInv, BufferInv
    <2>2. WrittenBack' = WrittenBack /\ DirtyWhole'
      BY <1>1 DEF cacheVars, WrittenBack, DirtyWhole, ProgramInv, CodeInv
    <2> QED
      BY <1>1, <2>1, <2>2, ProgramIsBehind DEF CodeInv, ProgramInv
  <1>2. ASSUME NEW r \in Requests, InsertRequest(r.addr, r.len)
        PROVE  CodeInv' /\ Session!Other /\ Program' = Program
    <2>1. PICK ret \in {0, 1} : InsertBreakpoint(r.addr, r.len, ret)
      BY <1>2 DEF InsertRequest
    <2>2. UNCHANGED <<cacheVars, pc>> /\ OfProgram(r.addr, r.len)
      BY <1>2 DEF InsertRequest, coreVars, OfProgram
    <2>3. CodeInv' /\ Program' = Program
      BY <1>1, <2>1, <2>2
    <2>4. UNCHANGED mode /\ \E status \in {"none", "OK", "error"} : answer' = Status(status)
      BY <1>2 DEF InsertRequest
    <2> QED
      BY <2>3, <2>4, AnswersOther
  <1>3. ASSUME NEW addr, RemoveRequest(addr)
        PROVE  CodeInv' /\ Session!Other /\ Program' = Program
    <2>1. PICK ret \in {0, -1} : RemoveBreakpoint(addr, ret)
      BY <1>3 DEF RemoveRequest
    <2>2. UNCHANGED <<target, pc>>
      BY <1>3 DEF RemoveRequest, coreVars
    <2>3. CodeInv' /\ Program' = Program
      BY <2>1, <2>2, RemoveProgram DEF ProgramInv, CodeInv
    <2>4. UNCHANGED mode /\ \E status \in {"none", "OK", "error"} : answer' = Status(status)
      BY <1>3 DEF RemoveRequest
    <2> QED
      BY <2>3, <2>4, AnswersOther
  <1>4. CASE RefuseResume
    <2>1. /\ InsertBreakpoint(main.addr, 2, 1) /\ OfProgram(main.addr, 2)
          /\ UNCHANGED <<cacheVars, pc, mode>> /\ answer' = Status("error")
      BY <1>4 DEF RefuseResume, OfProgram, coreVars
    <2> QED
      BY <1>1, <2>1, AnswersOther
  <1>5. CASE \/ \E addr \in MainAddrs : SymbolMain(addr)
             \/ \E on \in BOOLEAN : TempMainBreak(on)
             \/ \E p \in Code : SetPc(p)
    <2>1. /\ UNCHANGED <<cacheVars, sw, mode>> /\ pc' \in Code
          /\ \E status \in {"none", "OK", "error"} : answer' = Status(status)
      BY <1>5 DEF SymbolMain, TempMainBreak, SetPc, coreVars, breakVars, ProgramInv, CodeInv
    <2>2. WrittenBack' = WrittenBack /\ CodeInv'
      BY <2>1 DEF cacheVars, WrittenBack, ProgramInv, CodeInv, FromRequests, DirtyWhole
    <2>3. Program' = Program
      BY <2>1, <2>2, SameProgram
    <2> QED
      BY <2>1, <2>2, <2>3, AnswersOther
  <1> QED
    BY <1>2, <1>3, <1>4, <1>5 DEF BreakpointRequest

(* The breakpoint at main is a hardware breakpoint, even in RAM. *)
LEMMA ArmMainProgram ==
    ASSUME CodeLayout, ArmRequestsAligned, ProgramInv, OnceInv', ArmMain
    PROVE  FromRequests(sw') /\ Behind(sw', WrittenBack) = Behind(sw, WrittenBack)
PROOF
  <1>1. CASE MainOnly
    <2>1. InsertBreakpoint(main.addr, 2, 0) /\ OfProgram(main.addr, 2)
      BY <1>1 DEF ArmMain, OfProgram
    <2> QED
      BY <2>1, InsertProgram DEF ProgramInv, BufferInv
  <1>2. CASE ~MainOnly
    BY <1>2 DEF ArmMain, ProgramInv, CodeInv
  <1> QED
    BY <1>1, <1>2

LEMMA NoneDirty == dirty' = {} => DirtyWhole'
BY DEF DirtyWhole

LEMMA ResumeProgram ==
    ASSUME CodeLayout, ArmRequestsAligned, ProgramInv, OnceInv', ListsInv',
           Run \/ SingleStep \/ EmulateBranchLink
    PROVE  CodeInv' /\ Session!Resume /\ Program' = Program
PROOF
  <1>0. /\ ArmMain /\ dirty' = {} /\ pc' \in Code /\ UNCHANGED answer
        /\ mode = "prompt" /\ mode' # "prompt"
    BY DEF Run, SingleStep, EmulateBranchLink, ProgramInv, CodeInv
  <1>1. FromRequests(sw') /\ Behind(sw', WrittenBack) = Behind(sw, WrittenBack)
    BY <1>0, ArmMainProgram
  <1>2. CodeInv'
    BY <1>0, <1>1, NoneDirty DEF CodeInv
  <1>3. \A a \in Ram \ Covered(sw') : WrittenBack'[a] = WrittenBack[a]
    <2>1. CASE Run
      <3>1. target' = Overwritten(WrittenBack, Planted(hw', sw'))
        BY <2>1 DEF Run
      <3>2. DOMAIN Planted(hw', sw') \subseteq Covered(sw')
        BY DEF Planted
      <3> QED
        BY <1>0, <3>1, <3>2 DEF WrittenBack, Overwritten
    <2>2. CASE target' = WrittenBack
      BY <1>0, <2>2 DEF WrittenBack
    <2> QED
      BY <2>1, <2>2 DEF SingleStep, EmulateBranchLink
  <1>4. Program' = Program
    BY <1>1, <1>3, ProgramIsBehind, BehindSame
  <1> QED
    BY <1>0, <1>2, <1>4 DEF Session!Resume

(* The program stores outside of what the breakpoints cover. *)
LEMMA ExecuteProgram ==
    ASSUME CodeLayout, ArmRequestsAligned, ProgramInv, ProgramStep
    PROVE  CodeInv' /\ (Session!Store \/ Program' = Program)
           /\ UNCHANGED <<sw, mode, answer>> /\ mode # "prompt"
PROOF
  <1>1. PICK instr : Execute(instr)
    BY DEF ProgramStep, RunInstr, StepInstr, ResetInstr
  <1>2. UNCHANGED <<sw, buf, dirty, mode, answer>> /\ pc' \in Code
    BY <1>1 DEF Execute, breakVars
  <1>3. mode # "prompt"
    BY DEF ProgramStep, RunInstr, StepInstr, ResetInstr
  <1>4. CodeInv'
    BY <1>2 DEF CodeInv, ProgramInv, FromRequests, DirtyWhole
  <1>5. CASE UNCHANGED target
    BY <1>2, <1>3, <1>4, <1>5 DEF Program, WrittenBack
  <1>6. CASE \E a \in StoreCells, v \in Values : target' = [target EXCEPT ![a] = v]
    <2>1. PICK a \in StoreCells, v \in Values : target' = [target EXCEPT ![a] = v]
      BY <1>6
    <2>2. a \in Ram /\ v \in CellValue /\ target \in Contents
      BY StoreCellsAssumption, CellValues DEF ProgramInv, ListsInv, CacheTypeOK
    <2>3. a \notin Covered(sw)
      <3>1. ASSUME NEW e \in Entries(sw) PROVE a \notin CellsOf(e)
        BY EntryCells DEF ProgramInv, ListsInv, ListTypes, CodeInv, CodeLayout
      <3> QED
        BY <3>1 DEF Covered
    <2>4. CASE a \in dirty
      <3>1. \A b \in Ram : WrittenBack'[b] = WrittenBack[b]
        BY <1>2, <2>1, <2>2, <2>4 DEF WrittenBack, Contents
      <3> QED
        BY <1>2, <1>3, <1>4, <3>1, SameProgram
    <2>5. CASE a \notin dirty
      <3>1. \A b \in Ram : WrittenBack'[b] = IF b = a THEN v ELSE WrittenBack[b]
        BY <1>2, <2>1, <2>2, <2>5 DEF WrittenBack, Contents
      <3>2. Program' = [Program EXCEPT ![a] = v]
        <4>1. ASSUME NEW b \in Ram
              PROVE  Behind(sw, WrittenBack')[b] = IF b = a THEN v ELSE Program[b]
          BY <2>3, <3>1, ProgramIsBehind DEF Behind
        <4>2. Program' = Behind(sw, WrittenBack')
          BY <1>2, ProgramIsBehind
        <4>3. Program' = [b \in Ram |-> IF b = a THEN v ELSE Program[b]]
          BY <4>1, <4>2 DEF Behind
        <4>4. Program = [b \in Ram |-> Program[b]]
          BY DEF Program
        <4> QED
          BY <2>2, <4>3, <4>4
      <3>3. Session!Store
        BY <1>2, <1>3, <2>2, <3>2 DEF Session!Store
      <3> QED
        BY <1>2, <1>3, <1>4, <3>3
    <2> QED
      BY <2>4, <2>5
  <1> QED
    BY <1>1, <1>5, <1>6 DEF Execute

LEMMA HaltProgram ==
    ASSUME CodeLayout, ArmRequestsAligned, ProgramInv, OnceInv',
           Emulated \/ Halted \/ Interrupted \/ Attached \/ Restarted
    PROVE  CodeInv' /\ Session!Halt /\ Program' = Program
PROOF
  <1>1. CASE EnterPrompt /\ mode # "prompt"
    <2>1. UNCHANGED <<target, answer, pc>> /\ mode' = "prompt" /\ LoopTop
      BY <1>1 DEF EnterPrompt
    <2>2. CASE UNCHANGED <<sw, buf, dirty>>
      BY <1>1, <2>1, <2>2
      DEF CodeInv, ProgramInv, FromRequests, DirtyWhole, Program, WrittenBack, Session!Halt
    <2>3. CASE \E ret \in {0, -1} : RemoveBreakpoint(main.addr, ret)
      <3>1. FromRequests(sw') /\ DirtyWhole' /\ Program' = Program
        BY <2>1, <2>3, RemoveProgram DEF ProgramInv
      <3> QED
        BY <1>1, <2>1, <3>1 DEF CodeInv, ProgramInv, Session!Halt
    <2> QED
      BY <2>1, <2>2, <2>3 DEF LoopTop
  <1>2. CASE Restarted
    <2>1. UNCHANGED <<cacheVars, sw>> /\ pc' \in Code /\ answer' = Status("OK")
          /\ mode # "prompt" /\ mode' = "prompt"
      BY <1>2 DEF Restarted, CodeLayout
    <2>2. CodeInv' /\ Program' = Program
      BY <2>1 DEF cacheVars, CodeInv, ProgramInv, FromRequests, DirtyWhole, Program, WrittenBack
    <2> QED
      BY <2>1, <2>2, SameReplies DEF Session!Halt
  <1> QED
    BY <1>1, <1>2 DEF Emulated, Halted, Interrupted, Attached

LEMMA EndProgram ==
    ASSUME CodeLayout, ~ListensAgain, ProgramInv, EndRequest
    PROVE  CodeInv' /\ Session!Resume /\ Program' = Program
PROOF
  <1>1. UNCHANGED <<answer, sw>> /\ mode = "prompt" /\ mode' # "prompt" /\ pc' \in Code
    BY DEF EndRequest, Kill, Close, Detach, Restart, HardReset, Ended, breakVars, coreVars,
           CodeLayout, ProgramInv, CodeInv
  <1>2. CASE UNCHANGED <<target, buf, dirty>>
    BY <1>1, <1>2
    DEF CodeInv, ProgramInv, FromRequests, DirtyWhole, Program, WrittenBack, Session!Resume
  <1>3. CASE WriteBack
    <2>1. WrittenBack' = WrittenBack
      BY <1>3, WriteBackStep DEF WriteBack, ProgramInv, ListsInv
    <2>2. DirtyWhole'
      BY <1>3, NoneDirty DEF WriteBack
    <2>3. Program' = Program
      BY <1>1, <2>1, SameProgram
    <2> QED
      BY <1>1, <2>2, <2>3 DEF CodeInv, ProgramInv, FromRequests, Session!Resume
  <1> QED
    BY <1>2, <1>3 DEF EndRequest, Kill, Close, Detach, Restart, cacheVars

LEMMA ProgramInit == CodeLayout /\ SessionInit => ProgramInv
PROOF
  <1> SUFFICES ASSUME CodeLayout, SessionInit PROVE CodeInv
    BY ListsInit, OnceInit, BufferInit DEF ProgramInv
  <1>1. sw = <<>> /\ dirty = {} /\ pc \in Code
    BY DEF SessionInit, Init, CodeLayout
  <1> QED
    BY <1>1 DEF CodeInv, FromRequests, DirtyWhole

(* Each step keeps the invariant, is a step of the flat memory or none,    *)
(* and changes the program only where it leaves the list alone.            *)
LEMMA ProgramNext ==
    ASSUME CodeLayout, ArmRequestsAligned, RemovesFirst, ~ListensAgain,
           ProgramInv, [SessionNext]_vars
    PROVE  /\ ProgramInv'
           /\ [Session!Next]_(Session!flatVars)
           /\ [sw' # sw => Program' = Program]_vars
PROOF
  <1>1. ListsInv' /\ OnceInv' /\ BufferInv'
    BY ListsStep, OnceStep, BufferStep DEF ProgramInv
  <1>2. CASE MemoryRequest
    <2>1. ASSUME NEW S \in Blocks, Read(S)
          PROVE  CodeInv' /\ Session!Next /\ UNCHANGED sw
      BY <2>1, ReadProgram DEF Session!Next, Read, breakVars
    <2>2. ASSUME NEW S \in Blocks, NEW new \in [S -> Values], Write(new)
          PROVE  CodeInv' /\ Session!Next /\ UNCHANGED sw
      <3>1. new \in [S -> CellValue]
        BY CellValues
      <3> QED
        BY <2>2, <3>1, WriteProgram DEF Session!Next, Write, breakVars
    <2> QED
      BY <1>1, <1>2, <2>1, <2>2 DEF MemoryRequest, ProgramInv
  <1>3. CASE BreakpointRequest \/ (\E p \in Code : SetPc(p)) \/ RefuseResume
    BY <1>1, <1>3, RequestProgram DEF Session!Next, ProgramInv
  <1>4. CASE Run \/ SingleStep \/ EmulateBranchLink
    BY <1>1, <1>4, ResumeProgram DEF Session!Next, ProgramInv
  <1>5. CASE ProgramStep
    BY <1>1, <1>5, ExecuteProgram DEF Session!Next, Session!flatVars, ProgramInv
  <1>6. CASE Emulated \/ Halted \/ Interrupted \/ Attached \/ Restarted
    BY <1>1, <1>6, HaltProgram DEF Session!Next, ProgramInv
  <1>7. CASE EndRequest
    BY <1>1, <1>7, EndProgram DEF Session!Next, ProgramInv
  <1>8. CASE Accept
    BY <1>8 DEF Accept, ProgramInv, BufferInv
  <1>9. CASE UNCHANGED vars
    <2>1. CodeInv'
      BY <1>9 DEF vars, memVars, breakVars, coreVars, ProgramInv, CodeInv, FromRequests, DirtyWhole
    <2>2. Program' = Program /\ UNCHANGED <<mode, answer>>
      BY <1>9 DEF vars, memVars, breakVars, Program, WrittenBack
    <2> QED
      BY <1>1, <1>9, <2>1, <2>2 DEF ProgramInv, Session!flatVars
  <1> QED
    BY <1>2, <1>3, <1>4, <1>5, <1>6, <1>7, <1>8, <1>9 DEF SessionNext, ResumeRequest

LEMMA ProgramStart == CodeLayout /\ SessionInit => Session!Init
PROOF
  <1> SUFFICES ASSUME CodeLayout, SessionInit PROVE Session!Init
    OBVIOUS
  <1>1. /\ target \in [Ram -> Values] /\ dirty = {} /\ sw = <<>>
        /\ mode = "prompt" /\ answer = Status("none")
    BY DEF SessionInit, Init
  <1>2. Covered(sw) = {}
    BY <1>1 DEF Covered, Entries
  <1>3. Program = target
    BY <1>1, <1>2 DEF Program, WrittenBack
  <1> QED
    BY <1>1, <1>3, CellValues, SameReplies DEF Session!Init

(* What a careful client may rely on, in every state of a session.         *)
THEOREM ProgramInvariance ==
    ASSUME CodeLayout, ArmRequestsAligned, RemovesFirst, ~ListensAgain
    PROVE  SessionSpec => []ProgramInv
PROOF
  <1>1. SessionInit => ProgramInv
    BY ProgramInit
  <1>2. ProgramInv /\ [SessionNext]_vars => ProgramInv'
    BY ProgramNext
  <1> QED
    BY <1>1, <1>2, PTL DEF SessionSpec

(* Inserting and removing a software breakpoint never changes the program  *)
(* behind the breakpoints, although the instruction saved may come from    *)
(* the buffer or the target, and goes back to the buffer alone.            *)
THEOREM ListsKeepProgram ==
    ASSUME CodeLayout, ArmRequestsAligned, RemovesFirst, ~ListensAgain
    PROVE  SessionSpec => BreakpointsKeepProgram
PROOF
  <1>1. ProgramInv /\ [SessionNext]_vars => [sw' # sw => Program' = Program]_vars
    BY ProgramNext
  <1> QED
    BY <1>1, ProgramInvariance, PTL DEF SessionSpec, BreakpointsKeepProgram

(* The session with cache, breakpoints, units, single steps and restarts   *)
(* implements the flat memory: gdb and the program cannot tell that there  *)
(* is anything between them.                                               *)
THEOREM SessionIsTransparent ==
    ASSUME CodeLayout, ArmRequestsAligned, RemovesFirst, ~ListensAgain
    PROVE  SessionSpec => Transparent
PROOF
  <1>1. SessionInit => Session!Init
    BY ProgramStart
  <1>2. ProgramInv /\ [SessionNext]_vars => [Session!Next]_(Session!flatVars)
    BY ProgramNext
  <1> QED
    BY <1>1, <1>2, ProgramInvariance, PTL DEF SessionSpec, Transparent, Session!Spec

-----------------------------------------------------------------------------
(* Single steps *)

Looked(p) ==
    IF InFlash(p.addr) THEN Instr(FlashCode, p.addr, p.len)
    ELSE Instr(Program, p.addr, p.len)

LEMMA SteppingStep ==
    ASSUME [SessionNext]_vars, mode' = "step", ir' # <<>>
    PROVE  SingleStep \/ UNCHANGED vars
PROOF
  <1>1. CASE MemoryRequest \/ BreakpointRequest \/ \E p \in Code : SetPc(p)
    BY <1>1 DEF MemoryRequest, Read, Write, ReadMem, WriteMem, BreakpointRequest,
                InsertRequest, RemoveRequest, SymbolMain, TempMainBreak, SetPc
  <1>2. CASE ResumeRequest
    BY <1>2 DEF ResumeRequest, RefuseResume, Run, EmulateBranchLink
  <1>3. CASE ProgramStep
    BY <1>3 DEF ProgramStep, RunInstr, StepInstr, ResetInstr, Execute
  <1>4. CASE Emulated \/ Halted \/ Interrupted \/ Attached
    BY <1>4 DEF Emulated, Halted, Interrupted, Attached, EnterPrompt
  <1>5. CASE EndRequest \/ Accept \/ Restarted
    BY <1>5 DEF EndRequest, Kill, Close, Detach, Restart, Accept, Restarted, Ended
  <1> QED
    BY <1>1, <1>2, <1>3, <1>4, <1>5 DEF SessionNext

(* What gdbLockupArmInstr and gdbLockupThumbInstr find for an instruction  *)
(* of the program.                                                         *)
LEMMA LookupIsSeen ==
    ASSUME CodeLayout, ArmRequestsAligned, ProgramInv, NEW s \in Seq(Breakpoint),
           Once(s), FromRequests(s), \A i \in DOMAIN s : Saved(s[i]), NEW p \in Code,
           ~InFlash(p.addr)
    PROVE  Lookup(s, p.addr, p.len) = Instr(Behind(s, WrittenBack), p.addr, p.len)
PROOF
  <1>1. /\ p.addr \in Nat /\ p.len \in {2, 4} /\ Half(p.len) \in {1, 2}
        /\ CellsOf(p) \subseteq Ram /\ OnePage(p)
    BY DEF CodeLayout, Half
  <1>2. ASSUME NEW i \in 1 .. Half(p.len)
        PROVE  p.addr + i - 1 \in CellsOf(p)
    BY <1>1 DEF CellsOf
  <1>3. CASE At(s, p.addr) # {}
    <2> DEFINE e == s[FirstAt(s, p.addr)]
    <2>1. FirstAt(s, p.addr) \in 1 .. Len(s) /\ e.addr = p.addr
      BY <1>3, FirstAtIsAt
    <2>2. e \in Entries(s) /\ e \in Breakpoint /\ Saved(e)
      BY <2>1 DEF Entries
    <2> HIDE DEF e
    <2>3. PICK r \in RamRequests : Same(e, r)
      BY <2>2, EntryCells
    <2>4. p.addr \in CellsOf(p) /\ p.addr \in CellsOf(r)
      <3>1. p.addr \in CellsOf(p)
        BY <1>1 DEF CellsOf
      <3> QED
        BY <2>1, <2>3, <3>1, RequestCells DEF Same
    <2>5. e.len = p.len
      BY <2>3, <2>4 DEF CodeLayout, Meet, Same
    <2>6. Lookup(s, p.addr, p.len) = SubSeq(e.instr, 1, Half(p.len))
      BY <1>3 DEF Lookup, e
    <2>7. e.instr \in Seq(CellValue) /\ Len(e.instr) = Half(p.len)
      BY <2>2, <2>5 DEF Breakpoint, Saved
    <2>8. /\ SubSeq(e.instr, 1, Half(p.len)) = [i \in 1 .. Half(p.len) |-> e.instr[i]]
      BY <1>1, <2>7
    <2>9. ASSUME NEW i \in 1 .. Half(p.len)
          PROVE  Behind(s, WrittenBack)[p.addr + i - 1] = e.instr[i]
      <3> DEFINE a == p.addr + i - 1
      <3>1. a \in CellsOf(e) /\ a \in Ram
        BY <1>1, <1>2, <2>1, <2>5 DEF CellsOf
      <3>2. a - e.addr + 1 = i
        BY <1>1, <2>1
      <3> HIDE DEF a
      <3>3. Behind(s, WrittenBack)[a] = e.instr[a - e.addr + 1]
        BY <2>2, <3>1, BehindAt
      <3> QED
        BY <3>2, <3>3 DEF a
    <2> QED
      BY <2>6, <2>8, <2>9 DEF Instr
  <1>4. CASE At(s, p.addr) = {}
    <2>1. ASSUME NEW a \in CellsOf(p) PROVE a \notin Covered(s)
      <3>1. ASSUME NEW e \in Entries(s), a \in CellsOf(e) PROVE FALSE
        <4>1. PICK r \in RamRequests : Same(e, r) /\ CellsOf(r) = CellsOf(e)
          BY EntryCells
        <4>2. e.addr = p.addr
          BY <3>1, <4>1 DEF CodeLayout, Meet, Same
        <4> QED
          BY <1>4, <4>2 DEF At, Entries
      <3> QED
        BY <3>1 DEF Covered
    <2>2. ASSUME NEW i \in 1 .. Half(p.len)
          PROVE  Behind(s, WrittenBack)[p.addr + i - 1] = WrittenBack[p.addr + i - 1]
      BY <1>1, <1>2, <2>1, BehindAt
    <2>3. ASSUME PageOf(p.addr) \in pages, NEW i \in 1 .. Half(p.len)
          PROVE  buf[p.addr + i - 1] = WrittenBack[p.addr + i - 1]
      <3> DEFINE a == p.addr + i - 1
      <3>1. a \in Ram /\ PageOf(a) \in pages
        BY <1>1, <1>2, <2>3 DEF OnePage
      <3> HIDE DEF a
      <3>2. buf[a] = WrittenBack[a]
        BY <3>1 DEF WrittenBack, ProgramInv, BufferInv, BufferTrue
      <3> QED
        BY <3>2 DEF a
    <2> QED
      BY <1>4, <2>2, <2>3 DEF Lookup, Instr
  <1> QED
    BY <1>3, <1>4

LEMMA SteppedStep ==
    ASSUME CodeLayout, ArmRequestsAligned, RemovesFirst, ~ListensAgain,
           ProgramInv, ProgramInv', StepsProgram, [SessionNext]_vars
    PROVE  StepsProgram'
PROOF
  <1> SUFFICES ASSUME mode' = "step", ir' # <<>> PROVE ir' = Looked(pc)'
    BY DEF StepsProgram, Looked
  <1>1. CASE SingleStep
    <2>1. ir' = Lookup(sw', pc.addr, pc.len) /\ pc' = pc /\ ArmMain /\ pc \in Code
      BY <1>1 DEF SingleStep, ProgramInv, CodeInv
    <2>2. CASE InFlash(pc.addr)
      BY <2>1, <2>2 DEF Lookup, Looked, InFlash, Instr
    <2>3. CASE ~InFlash(pc.addr)
      <3>1. /\ sw' \in Seq(Breakpoint) /\ Once(sw') /\ FromRequests(sw')
            /\ \A i \in DOMAIN sw' : Saved(sw'[i])
        BY DEF ProgramInv, ListsInv, ListTypes, InstructionsSaved, OnceInv, CodeInv, Once,
               FromRequests, Saved
      <3>2. ir' = Instr(Behind(sw', WrittenBack), pc.addr, pc.len)
        BY <2>1, <2>3, <3>1, LookupIsSeen
      <3>3. Program' = Behind(sw', WrittenBack)
        <4>1. Behind(sw', WrittenBack) = Behind(sw, WrittenBack)
          BY <2>1, ArmMainProgram DEF ProgramInv
        <4>2. Program' = Program
          BY <1>1, ResumeProgram DEF ProgramInv
        <4> QED
          BY <4>1, <4>2, ProgramIsBehind
      <3> QED
        BY <2>1, <2>3, <3>2, <3>3 DEF Looked, InFlash, Instr
    <2> QED
      BY <2>2, <2>3
  <1>2. CASE UNCHANGED vars
    <2>1. Program' = Program /\ UNCHANGED <<ir, pc, mode>>
      BY <1>2 DEF vars, memVars, breakVars, coreVars, Program, WrittenBack
    <2> QED
      BY <2>1 DEF StepsProgram, Looked, InFlash, Instr
  <1> QED
    BY <1>1, <1>2, SteppingStep

(* A single step executes what gdb and the program take for the            *)
(* instruction, whichever of the three places the server looks it up in.   *)
THEOREM StepsExecuteProgram ==
    ASSUME CodeLayout, ArmRequestsAligned, RemovesFirst, ~ListensAgain
    PROVE  SessionSpec => []StepsProgram
PROOF
  <1>1. SessionInit => StepsProgram
    BY DEF SessionInit, Init, StepsProgram
  <1>2. ProgramInv /\ ProgramInv' /\ StepsProgram /\ [SessionNext]_vars => StepsProgram'
    BY SteppedStep
  <1> QED
    BY <1>1, <1>2, ProgramInvariance, PTL DEF SessionSpec

-----------------------------------------------------------------------------
(* The breakpoints in the target.  Stores keep off the instructions gdb    *)
(* asks breakpoints for.                                                   *)
StoresKeepOff ==
    \A r \in Requests :
        r.addr \in Ram =>
            (Aligned(r.addr, r.len) .. Aligned(r.addr, r.len) + Half(r.len) - 1)
                \cap StoreCells = {}

OffStores(s) == \A e \in Entries(s) : CellsOf(e) \cap StoreCells = {}

LEMMA InsertOffStores ==
    ASSUME StoresKeepOff, ListTypes, OffStores(sw), NEW addr, NEW len, OfProgram(addr, len),
           NEW ret, InsertBreakpoint(addr, len, ret)
    PROVE  OffStores(sw')
PROOF
  <1>1. CASE UNCHANGED sw
    BY <1>1
  <1>2. CASE NeedsSW(addr) /\ sw' = Append(sw, Entry(addr, len))
    <2>1. ~MainOnly
      BY <1>2 DEF NeedsSW, NeedsHW, InsertBreakpoint, OfProgram
    <2>2. PICK r \in Requests : r.addr = addr /\ r.len = len /\ r.addr \in Ram
      BY <1>2, <2>1 DEF OfProgram, NeedsSW, InRam
    <2>3. CellsOf(Entry(addr, len)) \cap StoreCells = {}
      BY <2>2 DEF StoresKeepOff, CellsOf, Entry
    <2>4. Entries(sw') = Entries(sw) \cup {Entry(addr, len)}
      <3> DEFINE e == Entry(addr, len)
      <3>1. sw \in Seq(Breakpoint) /\ sw' = Append(sw, e)
        BY <1>2 DEF ListTypes
      <3> HIDE DEF e
      <3>2. Entries(sw') = Entries(sw) \cup {e}
        BY <3>1 DEF Entries
      <3> QED
        BY <3>2 DEF e
    <2> QED
      BY <2>3, <2>4 DEF OffStores
  <1> QED
    BY <1>1, <1>2 DEF InsertBreakpoint, HasRoom

LEMMA RemoveOffStores ==
    ASSUME ListTypes, OffStores(sw), NEW addr, NEW ret, RemoveBreakpoint(addr, ret)
    PROVE  OffStores(sw')
PROOF
  <1>1. CASE UNCHANGED sw
    BY <1>1
  <1>2. CASE At(sw, addr) # {} /\ sw' = RemoveAt(sw, FirstAt(sw, addr))
    <2> DEFINE i == FirstAt(sw, addr)
    <2>1. i \in 1 .. Len(sw) /\ sw \in Seq(Breakpoint)
      BY <1>2, FirstAtIsAt DEF ListTypes
    <2> HIDE DEF i
    <2>2. /\ sw' \in Seq(Breakpoint) /\ Len(sw') = Len(sw) - 1
          /\ \A j \in 1 .. Len(sw) - 1 : sw'[j] = IF j < i THEN sw[j] ELSE sw[j + 1]
      BY <1>2, <2>1, RemoveAtProperties DEF i
    <2>3. DOMAIN sw' = 1 .. Len(sw) - 1 /\ DOMAIN sw = 1 .. Len(sw) /\ Len(sw) \in Nat
      BY <2>1, <2>2
    <2>4. ASSUME NEW j \in DOMAIN sw' PROVE \E k \in DOMAIN sw : sw'[j] = sw[k]
      BY <2>1, <2>2, <2>3
    <2> QED
      BY <2>4 DEF OffStores, Entries
  <1> QED
    BY <1>1, <1>2 DEF RemoveBreakpoint

LEMMA OffStoresStep ==
    ASSUME StoresKeepOff, ListsInv, OffStores(sw), [SessionNext]_vars
    PROVE  OffStores(sw')
PROOF
  <1>0. ListTypes
    BY DEF ListsInv
  <1>1. CASE UNCHANGED sw
    BY <1>1
  <1>2. ASSUME NEW r \in Requests, InsertRequest(r.addr, r.len) PROVE OffStores(sw')
    BY <1>0, <1>2, InsertOffStores DEF InsertRequest, OfProgram
  <1>3. ASSUME NEW addr, RemoveRequest(addr) PROVE OffStores(sw')
    BY <1>0, <1>3, RemoveOffStores DEF RemoveRequest
  <1>4. CASE ResumeRequest
    <2>1. ASSUME NEW ret, MainOnly, InsertBreakpoint(main.addr, 2, ret) PROVE OffStores(sw')
      BY <1>0, <2>1, InsertOffStores DEF OfProgram
    <2> QED
      BY <1>1, <1>4, <2>1
      DEF ResumeRequest, RefuseResume, Run, SingleStep, EmulateBranchLink, ArmMain
  <1>5. CASE Emulated \/ Halted \/ Interrupted \/ Attached
    BY <1>0, <1>1, <1>5, RemoveOffStores
    DEF Emulated, Halted, Interrupted, Attached, EnterPrompt, LoopTop
  <1>6. CASE \/ MemoryRequest \/ \E addr \in MainAddrs : SymbolMain(addr)
             \/ \E on \in BOOLEAN : TempMainBreak(on)
             \/ \E p \in Code : SetPc(p)
             \/ ProgramStep \/ EndRequest \/ Accept \/ Restarted
    BY <1>1, <1>6
    DEF MemoryRequest, Read, Write, SymbolMain, TempMainBreak, SetPc, ProgramStep, RunInstr,
        StepInstr, ResetInstr, Execute, EndRequest, Kill, Close, Detach, Restart, Accept,
        Restarted, breakVars
  <1>7. CASE UNCHANGED vars
    BY <1>1, <1>7 DEF vars, breakVars
  <1> QED
    BY <1>2, <1>3, <1>4, <1>5, <1>6, <1>7 DEF SessionNext, BreakpointRequest

LEMMA PlantedStep ==
    ASSUME ListsInv, ListsInv', OffStores(sw), BreaksPlanted, [SessionNext]_vars
    PROVE  BreaksPlanted'
PROOF
  <1> SUFFICES ASSUME mode' = "run" PROVE BreaksPlanted'
    BY DEF BreaksPlanted
  <1>1. CASE Run
    <2>1. ASSUME NEW a \in Covered(sw') PROVE target'[a] = Brk
      <3>1. PICK i \in DOMAIN sw' : a \in CellsOf(sw'[i])
        BY DEF Covered, Entries
      <3>2. a \in Ram
        BY <3>1 DEF ListsInv, InstructionsSaved, Saved
      <3>3. sw' # <<>>
        BY <3>1
      <3>4. Len(hw') < 2
        BY <3>3 DEF ListsInv, ListTypes, UnitBudget, UnitsUsed
      <3>5. a \in DOMAIN Planted(hw', sw') /\ Planted(hw', sw')[a] = Brk
        BY <3>4 DEF Planted
      <3> QED
        BY <1>1, <3>2, <3>5 DEF Run, Overwritten
    <2>2. dirty' = {}
      BY <1>1 DEF Run
    <2>3. Covered(sw)' = Covered(sw')
      BY DEF Covered, Entries, CellsOf
    <2> QED
      BY <2>1, <2>2, <2>3 DEF BreaksPlanted
  <1>2. CASE RunInstr
    <2>1. UNCHANGED <<sw, dirty>> /\ mode = "run"
      BY <1>2 DEF RunInstr, Execute, breakVars
    <2>2. ASSUME NEW a \in Covered(sw) PROVE target'[a] = target[a]
      <3>1. a \notin StoreCells
        BY DEF Covered, OffStores
      <3>2. CASE UNCHANGED target
        BY <3>2
      <3>3. CASE \E b \in StoreCells, v \in Values : target' = [target EXCEPT ![b] = v]
        <4>1. PICK b \in StoreCells, v \in Values : target' = [target EXCEPT ![b] = v]
          BY <3>3
        <4>2. a \in Ram
          BY DEF Covered, Entries, ListsInv, InstructionsSaved, Saved
        <4> QED
          BY <3>1, <4>1, <4>2 DEF ListsInv, CacheTypeOK, Contents
      <3> QED
        BY <1>2, <3>2, <3>3 DEF RunInstr, Execute
    <2>3. Covered(sw)' = Covered(sw)
      BY <2>1 DEF Covered, Entries, CellsOf
    <2> QED
      BY <2>1, <2>2, <2>3 DEF BreaksPlanted
  <1>3. CASE UNCHANGED vars
    <2>1. UNCHANGED <<mode, dirty, sw, target>>
      BY <1>3 DEF vars, memVars, breakVars
    <2> QED
      BY <2>1 DEF BreaksPlanted, Covered, Entries, CellsOf
  <1>4. Run \/ RunInstr \/ UNCHANGED vars
    <2>1. CASE MemoryRequest \/ BreakpointRequest \/ \E p \in Code : SetPc(p)
      BY <2>1 DEF MemoryRequest, Read, Write, ReadMem, WriteMem, BreakpointRequest,
                  InsertRequest, RemoveRequest, SymbolMain, TempMainBreak, SetPc
    <2>2. CASE ResumeRequest
      BY <2>2 DEF ResumeRequest, RefuseResume, SingleStep, EmulateBranchLink
    <2>3. CASE ProgramStep
      BY <2>3 DEF ProgramStep, StepInstr, ResetInstr, Execute
    <2>4. CASE Emulated \/ Halted \/ Interrupted \/ Attached
      BY <2>4 DEF Emulated, Halted, Interrupted, Attached, EnterPrompt
    <2>5. CASE EndRequest \/ Accept \/ Restarted
      BY <2>5 DEF EndRequest, Kill, Close, Detach, Restart, Accept, Restarted, Ended
    <2> QED
      BY <2>1, <2>2, <2>3, <2>4, <2>5 DEF SessionNext
  <1> QED
    BY <1>1, <1>2, <1>3, <1>4

(* While the program runs nothing gdb wrote is held back and every listed  *)
(* software breakpoint stands in the target, whatever the client and       *)
(* however often it connects.                                              *)
THEOREM BreaksInPlace ==
    ASSUME StoresKeepOff
    PROVE  SessionSpec => []BreaksPlanted
PROOF
  <1>1. SessionInit => OffStores(sw) /\ BreaksPlanted
    BY DEF SessionInit, Init, OffStores, Entries, BreaksPlanted
  <1>2. /\ ListsInv /\ ListsInv' /\ OffStores(sw) /\ BreaksPlanted /\ [SessionNext]_vars
        => (OffStores(sw) /\ BreaksPlanted)'
    <2> SUFFICES ASSUME ListsInv, ListsInv', OffStores(sw), BreaksPlanted, [SessionNext]_vars
                 PROVE  (OffStores(sw) /\ BreaksPlanted)'
      OBVIOUS
    <2>1. OffStores(sw') /\ BreaksPlanted'
      BY OffStoresStep, PlantedStep
    <2> QED
      BY <2>1 DEF OffStores, Entries, CellsOf
  <1> QED
    BY <1>1, <1>2, ListsInvariance, PTL DEF SessionSpec

-----------------------------------------------------------------------------
(* Types *)

RestType ==
    /\ mode \in {"prompt", "run", "step", "emulated", "listen", "attach",
                 "restart", "detached", "exit"}
    /\ answer \in Answer
    /\ pc \in Code \cup {ResetPc}
    /\ ir # <<>> => mode = "step"
    /\ periphery \in {"started", "stopped"}
    /\ sessions \in Nat

LEMMA AnswersType ==
    ASSUME CacheTypeOK, answer \in Answer, [SessionNext]_vars
    PROVE  answer' \in Answer
PROOF
  <1>1. CASE UNCHANGED answer
    BY <1>1
  <1>2. CASE \E status \in {"none", "OK", "error"} : answer' = Status(status)
    BY <1>2, StatusType
  <1>3. ASSUME NEW S \in Blocks, S \subseteq Ram, Read(S) PROVE answer' \in Answer
    <2>1. [a \in S |-> LoadedBuf(S)[a]] \in [S -> CellValue]
      BY <1>3, LoadedBufType DEF Contents
    <2>2. answer' = Reply("OK", [a \in S |-> LoadedBuf(S)[a]])
      BY <1>3 DEF Read, ReadMem
    <2> QED
      BY <2>1, <2>2, AnswerType
  <1>4. CASE MemoryRequest
    BY <1>2, <1>3, <1>4 DEF MemoryRequest, Read, ReadMem, Write, WriteMem
  <1>5. CASE BreakpointRequest \/ \E p \in Code : SetPc(p)
    BY <1>2, <1>5 DEF BreakpointRequest, InsertRequest, RemoveRequest, SymbolMain,
                      TempMainBreak, SetPc
  <1>6. CASE ResumeRequest
    BY <1>1, <1>2, <1>6 DEF ResumeRequest, RefuseResume, Run, SingleStep, EmulateBranchLink
  <1>7. CASE ProgramStep \/ Emulated \/ Halted \/ Interrupted \/ Attached
    BY <1>1, <1>7 DEF ProgramStep, RunInstr, StepInstr, ResetInstr, Execute, Emulated,
                      Halted, Interrupted, Attached, EnterPrompt
  <1>8. CASE EndRequest \/ Accept \/ Restarted
    BY <1>1, <1>2, <1>8 DEF EndRequest, Kill, Close, Detach, Restart, Accept, Restarted
  <1>9. CASE UNCHANGED vars
    BY <1>1, <1>9 DEF vars, memVars
  <1> QED
    BY <1>4, <1>5, <1>6, <1>7, <1>8, <1>9 DEF SessionNext

LEMMA RestStep ==
    ASSUME ListsInv, RestType, [SessionNext]_vars
    PROVE  RestType'
PROOF
  <1>0. answer' \in Answer
    BY AnswersType DEF ListsInv, RestType
  <1> USE <1>0 DEF RestType
  <1>1. CASE MemoryRequest
    BY <1>1 DEF MemoryRequest, Read, ReadMem, Write, WriteMem, coreVars
  <1>2. CASE BreakpointRequest \/ \E p \in Code : SetPc(p)
    BY <1>2 DEF BreakpointRequest, InsertRequest, RemoveRequest, SymbolMain, TempMainBreak,
                SetPc, coreVars
  <1>3. CASE ResumeRequest
    BY <1>3 DEF ResumeRequest, RefuseResume, Run, SingleStep, EmulateBranchLink, coreVars
  <1>4. CASE ProgramStep
    BY <1>4 DEF ProgramStep, RunInstr, StepInstr, ResetInstr, Execute
  <1>5. CASE Emulated \/ Halted \/ Interrupted \/ Attached
    BY <1>5 DEF Emulated, Halted, Interrupted, Attached, EnterPrompt
  <1>6. CASE EndRequest \/ Accept \/ Restarted
    BY <1>6 DEF EndRequest, Kill, Close, Detach, Restart, Accept, Restarted, HardReset,
                Ended, coreVars
  <1>7. CASE UNCHANGED vars
    BY <1>7 DEF vars, memVars, coreVars
  <1> QED
    BY <1>1, <1>2, <1>3, <1>4, <1>5, <1>6, <1>7 DEF SessionNext

(* Type correctness of the session: the lists hold breakpoints, the units  *)
(* registers the code can write, answers the cells of the block asked for. *)
THEOREM SessionTypes == SessionSpec => []SessionTypeOK
PROOF
  <1>1. SessionInit => RestType
    BY StatusType DEF SessionInit, Init, RestType
  <1>2. ListsInv /\ RestType /\ [SessionNext]_vars => RestType'
    BY RestStep
  <1>3. ListsInv' /\ UnitsType /\ [SessionNext]_vars => UnitsType'
    BY UnitsStep
  <1>4. ListsInv /\ RestType /\ UnitsType => SessionTypeOK
    BY DEF ListsInv, ListTypes, MainType, RestType, UnitsType, SessionTypeOK
  <1>5. SessionInit => UnitsType
    BY UnitsInit
  <1> QED
    BY <1>1, <1>2, <1>3, <1>4, <1>5, ListsInvariance, PTL DEF SessionSpec
=============================================================================
