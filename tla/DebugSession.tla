---------------------------- MODULE DebugSession ----------------------------
(***************************************************************************)
(* The core of the server: gdb_main_loop and gdb_handle_exception          *)
(* (arm_gdbstub.c) with the breakpoint lists (arm_gdbstub_break.c), the    *)
(* two watchpoint units of the core's ICE-RT logic (jt_arm_iceRT.c), the   *)
(* temporary breakpoint at main (arm_gdbstub_rcmd.c) and the RAM cache of  *)
(* GdbMemory, beside a target that executes, stores and stops.             *)
(*                                                                         *)
(* Addresses count halfwords: bit 0 of a byte address, which the code      *)
(* clears everywhere, is gone, and "& 0xFFFFfffc" rounds to an even cell.  *)
(* Lengths are in bytes: 4 is an ARM instruction, 2 a Thumb instruction.   *)
(***************************************************************************)
EXTENDS GdbMemory, Integers, Sequences, SequencesExt

CONSTANTS
    FlashCode,      \* contents of the flash, a function on its addresses
    Code,           \* the instructions of the program, [addr, len] records
    ResetPc,        \* the one executed after a reset
    Requests,       \* the breakpoints gdb may ask for, [addr, len] records
    MainAddrs,      \* the addresses gdb may give for the symbol main
    StoreOps,       \* halfwords that are (the high half of) a store
    BranchLink,     \* halfwords that are the first part of a Thumb BL or BLX
    ForceHW,        \* force_hardware_breakpoint (monitor ForceHWBreak)
    RemovesFirst,   \* gdb removes a breakpoint before it touches its cells
    ListensAgain,   \* errno happens to be 0 when a connection ends
    MaxSessions     \* bound on the connections and restarts

VARIABLES
    hw,             \* breakpointList, the HW list
    sw,             \* breakpointList, the SW list
    wp,             \* the registers of watchpoint units 0 and 1
    pc,             \* the instruction the program is at
    ir,             \* the instruction a single step feeds to the core
    main,           \* symbolMain
    periphery,      \* did arm_sfa_StartPeriphery or StopPeriphery run last?
    sessions        \* connections and restarts so far

breakVars == <<hw, sw, main>>
coreVars  == <<wp, pc, ir, periphery, sessions>>
vars      == <<memVars, breakVars, coreVars>>

Flash  == DOMAIN FlashCode
NoAddr == -1            \* symbolMain.state is not SYM_PRESENT
Ones   == -2            \* an address register that holds 0xffffffff

-----------------------------------------------------------------------------
(* Breakpoint entries *)

Half(len)      == len \div 2
CellsOf(b)     == b.addr .. b.addr + Half(b.len) - 1
Entries(s)     == {s[i] : i \in DOMAIN s}
Covered(s)     == UNION {CellsOf(e) : e \in Entries(s)}

(* The address an entry of this length is stored under. *)
MutAligned(addr, len) == addr - (addr % 2)      \* Thumb rounded to words too

Aligned(addr, len) == IF len = 4 THEN addr - (addr % 2) ELSE addr

Instr(content, addr, len) == [i \in 1 .. Half(len) |-> content[addr + i - 1]]

(* What gdb asks for: the RAM of the memory map holds whole words. *)
ASSUME RequestsAssumption ==
    /\ \A r \in Requests :
          /\ r.addr \in Nat /\ r.len \in {2, 4}
          /\ r.addr \in Ram => Aligned(r.addr, r.len) + Half(r.len) - 1 \in Ram
    /\ MainAddrs \subseteq Nat

MainOnly == main.active /\ main.addr # NoAddr

(* The first entry, HW list before SW list, that InsertBreakpoint takes    *)
(* for a breakpoint at addr.                                               *)
MutMatching(addr) ==    \* the SW list is not searched
    {i \in DOMAIN hw : hw[i].addr = Aligned(addr, hw[i].len)}

Matching(addr) ==
    {i \in DOMAIN (hw \o sw) : (hw \o sw)[i].addr = Aligned(addr, (hw \o sw)[i].len)}
FirstMatch(addr) ==
    (hw \o sw)[CHOOSE i \in Matching(addr) : \A j \in Matching(addr) : i <= j]

InRam(addr)   == addr \in Ram
InFlash(addr) == addr \in Flash
NeedsHW(addr) == InFlash(addr) \/ (InRam(addr) /\ (ForceHW \/ MainOnly))
NeedsSW(addr) == InRam(addr) /\ ~NeedsHW(addr)

(* The two units: all software breakpoints together take one. *)
UnitsUsed == Len(hw) + (IF sw # <<>> THEN 1 ELSE 0)
MutHasRoom(addr) ==     \* the unit of the software breakpoints is not counted
    (NeedsHW(addr) \/ NeedsSW(addr)) /\ Len(hw) <= 1

HasRoom(addr) ==
    \/ NeedsHW(addr) /\ UnitsUsed <= 1
    \/ NeedsSW(addr) /\ (sw # <<>> \/ Len(hw) <= 1)

(* The instruction to put back later: from the buffer when all its cells   *)
(* are waiting there or its page was read, from the target otherwise.      *)
MutCaptured(addr, len) ==       \* the code under "#if 0"
    Instr(target, Aligned(addr, len), len)

Captured(addr, len) ==
    Instr(IF (addr .. addr + Half(len) - 1) \subseteq dirty \/ PageOf(addr) \in pages
          THEN buf ELSE target,
          Aligned(addr, len), len)

Entry(addr, len) ==
    [addr  |-> Aligned(addr, len), len |-> len,
     instr |-> IF NeedsSW(addr) THEN Captured(addr, len) ELSE <<>>]

(* InsertBreakpoint: returns 0 for inserted, listed already, or ignored    *)
(* because only main is wanted yet; 1 for refused.                         *)
InsertBreakpoint(addr, len, ret) ==
    \/ /\ MainOnly /\ addr # main.addr
       /\ ret = 0
       /\ UNCHANGED <<hw, sw>>
    \/ /\ ~(MainOnly /\ addr # main.addr) /\ Matching(addr) # {}
       /\ ret = IF FirstMatch(addr).len = len THEN 0 ELSE 1
       /\ UNCHANGED <<hw, sw>>
    \/ /\ ~(MainOnly /\ addr # main.addr) /\ Matching(addr) = {}
       /\ ~HasRoom(addr)
       /\ ret = 1
       /\ UNCHANGED <<hw, sw>>
    \/ /\ ~(MainOnly /\ addr # main.addr) /\ Matching(addr) = {}
       /\ HasRoom(addr)
       /\ ret = 0
       /\ IF NeedsHW(addr)
          THEN hw' = Append(hw, Entry(addr, len)) /\ UNCHANGED sw
          ELSE sw' = Append(sw, Entry(addr, len)) /\ UNCHANGED hw

At(s, addr)    == {i \in DOMAIN s : s[i].addr = addr}
FirstAt(s, addr) == CHOOSE i \in At(s, addr) : \A j \in At(s, addr) : i <= j

(* The cells of entry e with its saved instruction. *)
Restoring(e) == [a \in CellsOf(e) |-> e.instr[a - e.addr + 1]]

(* RemoveBreakpoint: the first entry stored under addr leaves its list; a  *)
(* software breakpoint's instruction is written to the buffer.             *)
RemoveBreakpoint(addr, ret) ==
    \/ /\ At(hw, addr) # {}
       /\ hw' = RemoveAt(hw, FirstAt(hw, addr))
       /\ ret = 0
       /\ UNCHANGED <<sw, buf, dirty>>
    \/ /\ At(hw, addr) = {} /\ At(sw, addr) # {}
       /\ LET e == sw[FirstAt(sw, addr)]
          IN  /\ buf' = Overwritten(buf, Restoring(e))
              /\ dirty' = dirty \cup CellsOf(e)
       /\ sw' = RemoveAt(sw, FirstAt(sw, addr))
       /\ ret = 0
       /\ UNCHANGED hw
    \/ /\ At(hw, addr) = {} /\ At(sw, addr) = {}
       /\ ret = -1
       /\ UNCHANGED <<hw, sw, buf, dirty>>

(* isAddrOnBreakpointList *)
OnList(h, s, addr) == At(h, addr) \cup At(s, addr) # {}

-----------------------------------------------------------------------------
(* The watchpoint units.  mask is the address mask register: "exact"       *)
(* compares all but bit 0, "bit0" nothing else, "all" nothing.  data is    *)
(* what the data registers compare: nothing, or the breakpoint instruction.*)

(* jtag_arm_ClearAnyBreakPoint *)
NoUnits == [i \in {0, 1} |-> [wp[i] EXCEPT !.on = FALSE]]

(* jtag_arm_PutAnyBreakPoint: unit 0 matches any instruction, 1 is off. *)
AnyUnits ==
    [NoUnits EXCEPT ![0] = [on |-> TRUE, addr |-> 0, mask |-> "bit0", data |-> "any"]]

(* jtag_arm_PutHWBreakPoint0, 1 *)
PutHWBreakPoint(addr) ==
    [on |-> TRUE, addr |-> addr, mask |-> "exact", data |-> "any"]

(* jtag_arm_PutSWBreakPoint0 writes the address register, ..Point1 the     *)
(* address mask register.                                                  *)
MutPutSWBreakPoint1 == [wp[1] EXCEPT !.on = TRUE, !.mask = "all"]  \* no data

PutSWBreakPoint0 == [wp[0] EXCEPT !.on = TRUE, !.addr = Ones,  !.data = "brk"]
PutSWBreakPoint1 == [wp[1] EXCEPT !.on = TRUE, !.mask = "all", !.data = "brk"]

(* gdbSetupJtagICE_RTbreakpoint, after ClearAnyBreakPoint: the HW list     *)
(* takes the units first.                                                  *)
MutSetupUnits(h, s) ==  \* the second unit is left to software breakpoints
    [i \in {0, 1} |->
        IF i = 0 /\ h # <<>> THEN PutHWBreakPoint(h[1].addr)
        ELSE IF s # <<>> THEN PutSWBreakPoint1 ELSE NoUnits[i]]

SetupUnits(h, s) ==
    [i \in {0, 1} |->
        CASE i < Len(h)              -> PutHWBreakPoint(h[i + 1].addr)
          [] i = Len(h) /\ s # <<>>  -> IF i = 0 THEN PutSWBreakPoint0 ELSE PutSWBreakPoint1
          [] OTHER                   -> NoUnits[i]]

(* What the core fetches at p. *)
Fetched(p) == Instr(IF InFlash(p.addr) THEN FlashCode ELSE target, p.addr, p.len)

Matches(w, p) ==
    /\ w.on
    /\ w.mask = "exact" => w.addr = p.addr
    /\ w.mask = "bit0"  => w.addr # Ones
    /\ w.data = "brk"   => Entries(Fetched(p)) = {Brk}

Stopping(p) == \E i \in {0, 1} : Matches(wp[i], p)

-----------------------------------------------------------------------------
(* Requests of gdb, served at the prompt *)

Touchable(S) == RemovesFirst => S \cap Covered(sw) = {}

Read(S) ==
    /\ Touchable(S)
    /\ ReadMem(S)
    /\ UNCHANGED <<breakVars, coreVars>>

Write(new) ==
    /\ Touchable(DOMAIN new)
    /\ WriteMem(new)
    /\ UNCHANGED <<breakVars, coreVars>>

(* case 'Z' *)
InsertRequest(addr, len) ==
    /\ mode = "prompt"
    /\ \E ret \in {0, 1} :
          /\ InsertBreakpoint(addr, len, ret)
          /\ answer' = Status(IF ret = 0 THEN "OK" ELSE "error")
    /\ UNCHANGED <<cacheVars, mode, main, coreVars>>

(* case 'z'.  Nothing to remove is answered with "", neither OK nor error. *)
RemoveRequest(addr) ==
    /\ mode = "prompt"
    /\ \E ret \in {0, -1} :
          /\ RemoveBreakpoint(addr, ret)
          /\ answer' = Status(IF ret = 0 THEN "OK" ELSE "none")
    /\ UNCHANGED <<target, pages, mode, main, coreVars>>

(* case 'G', case 'P', and the address argument of 'c' and 's' *)
SetPc(p) ==
    /\ mode = "prompt"
    /\ pc' = p
    /\ answer' = Status("OK")
    /\ UNCHANGED <<cacheVars, mode, breakVars, wp, ir, periphery, sessions>>

(* gdb_query, qSymbol:<addr>:main *)
SymbolMain(addr) ==
    /\ mode = "prompt"
    /\ main' = [addr |-> addr, active |-> TRUE]
    /\ answer' = Status("OK")
    /\ UNCHANGED <<cacheVars, mode, hw, sw, coreVars>>

(* monitor ForceTempHWBreakAtMain, an error while main is unknown *)
TempMainBreak(on) ==
    /\ mode = "prompt"
    /\ main' = [main EXCEPT !.active = on /\ main.addr # NoAddr]
    /\ answer' = Status(IF main.addr # NoAddr THEN "OK" ELSE "error")
    /\ UNCHANGED <<cacheVars, mode, hw, sw, coreVars>>

(* The resume requests first make sure that the breakpoint at main is set; *)
(* if it cannot be set they answer E03 and change nothing else.            *)
ArmMain ==
    IF MainOnly THEN InsertBreakpoint(main.addr, 2, 0) ELSE UNCHANGED <<hw, sw>>

RefuseResume ==
    /\ mode = "prompt"
    /\ MainOnly /\ InsertBreakpoint(main.addr, 2, 1)
    /\ answer' = Status("error")
    /\ UNCHANGED <<cacheVars, mode, main, coreVars>>

(* gdbWriteSoftwareBreakToRAM: nothing while the HW list takes both units. *)
MutPlanted(h, s) ==     \* any hardware breakpoint keeps them out
    [a \in (IF Len(h) < 1 THEN Covered(s) ELSE {}) |-> Brk]

Planted(h, s) ==
    [a \in (IF Len(h) < 2 THEN Covered(s) ELSE {}) |-> Brk]

(* case 'c', then action 0 of gdb_main_loop away from every breakpoint:    *)
(* write back, plant the software breakpoints and write them back too, set *)
(* the units up, restart the core, forget the buffer.                      *)
Run ==
    /\ mode = "prompt"
    /\ ArmMain
    /\ ~OnList(hw', sw', pc.addr)
    /\ buf' = Overwritten(buf, Planted(hw', sw'))
    /\ target' = Overwritten(WrittenBack, Planted(hw', sw'))
    /\ dirty' = {}
    /\ pages' = {}
    /\ wp' = SetupUnits(hw', sw')
    /\ periphery' = "started"
    /\ mode' = "run"
    /\ UNCHANGED <<answer, main, pc, ir, sessions>>

(* gdbLockupThumbInstr, gdbLockupArmInstr, after the write back: the saved *)
(* instruction of a software breakpoint, else the buffer (only while there *)
(* is no software breakpoint at all), else the target.                     *)
MutLookup(s, addr, len) ==      \* the SW list is not searched
    IF InFlash(addr) THEN Instr(FlashCode, addr, len)
    ELSE IF PageOf(addr) \in pages THEN Instr(buf, addr, len)
    ELSE Instr(WrittenBack, addr, len)

Lookup(s, addr, len) ==
    IF InFlash(addr) THEN Instr(FlashCode, addr, len)
    ELSE IF At(s, addr) # {} THEN SubSeq(s[FirstAt(s, addr)].instr, 1, Half(len))
    ELSE IF s = <<>> /\ PageOf(addr) \in pages THEN Instr(buf, addr, len)
    ELSE Instr(WrittenBack, addr, len)

(* Does the core store when it executes instr? *)
IsStore(instr) == instr # <<>> /\ Last(instr) \in StoreOps

(* is_arm_store_instr, is_thumb_store_instr: does the server think so? *)
MutTakenForStore(instr) == Len(instr) = 1 /\ IsStore(instr)      \* Thumb only

TakenForStore(instr) == IsStore(instr)

IsBranchLink(p, instr) == p.len = 2 /\ instr[1] \in BranchLink

(* case 's', or case 'c' at a breakpoint, then action 1: one instruction   *)
(* goes to the core through the scan chain; the units stay as they are.    *)
SingleStep ==
    /\ mode = "prompt"
    /\ ArmMain
    /\ ir' = Lookup(sw', pc.addr, pc.len)
    /\ ~IsBranchLink(pc, ir')
    /\ target' = WrittenBack
    /\ dirty' = {}
    /\ pages' = IF TakenForStore(ir') THEN {} ELSE pages
    /\ periphery' = "started"
    /\ mode' = "step"
    /\ UNCHANGED <<buf, answer, main, wp, pc, sessions>>

(* A step of a Thumb BL or BLX is emulated: the core stays in debug state, *)
(* gdb_main_loop starts over with the new program counter.                 *)
EmulateBranchLink ==
    /\ mode = "prompt"
    /\ ArmMain
    /\ IsBranchLink(pc, Lookup(sw', pc.addr, pc.len))
    /\ target' = WrittenBack
    /\ dirty' = {}
    /\ pc' \in Code
    /\ mode' = "emulated"
    /\ UNCHANGED <<buf, pages, answer, main, wp, ir, periphery, sessions>>

(* The start of gdb_main_loop's body, before it serves gdb again: the      *)
(* breakpoint at main goes when the program first stops there.             *)
LoopTop ==
    IF MainOnly /\ pc.addr = main.addr
    THEN /\ main' = [main EXCEPT !.active = FALSE]
         /\ \E ret \in {0, -1} : RemoveBreakpoint(main.addr, ret)
    ELSE UNCHANGED <<main, hw, sw, buf, dirty>>

EnterPrompt ==
    /\ mode' = "prompt"
    /\ ir' = <<>>
    /\ LoopTop
    /\ UNCHANGED <<target, pages, answer, pc, sessions>>

Emulated == mode = "emulated" /\ EnterPrompt /\ UNCHANGED <<wp, periphery>>

(* PollDbgState finds the core in debug state. *)
Halted ==
    /\ \/ mode = "run" /\ Stopping(pc)
       \/ mode = "step" /\ ir = <<>>
    /\ EnterPrompt
    /\ wp' = AnyUnits
    /\ periphery' = "stopped"

(* poll finds a request of gdb first: the core is forced into debug state. *)
Interrupted ==
    /\ mode = "run" \/ (mode = "step" /\ ir = <<>>)
    /\ EnterPrompt
    /\ wp' = AnyUnits
    /\ UNCHANGED periphery

-----------------------------------------------------------------------------
(* The program.  A halfword that is not an instruction of its own (a       *)
(* breakpoint instruction no unit matched) traps and stores nothing.       *)
Execute(instr) ==
    /\ IF IsStore(instr)
       THEN \E a \in StoreCells, v \in Values : target' = [target EXCEPT ![a] = v]
       ELSE UNCHANGED target
    /\ pc' \in Code
    /\ UNCHANGED <<buf, dirty, pages, mode, answer, breakVars, wp, periphery, sessions>>

RunInstr == mode = "run" /\ ~Stopping(pc) /\ Execute(Fetched(pc)) /\ UNCHANGED ir

StepInstr == mode = "step" /\ ir # <<>> /\ Execute(ir) /\ ir' = <<>>

-----------------------------------------------------------------------------
(* The end of a connection *)

(* jtag_hard_reset: the ICE logic is reset with the TAP, and the program   *)
(* runs from its start until jtag_arm_PutAnyBreakPoint stops it.           *)
HardReset ==
    /\ sessions < MaxSessions
    /\ sessions' = sessions + 1
    /\ wp' = NoUnits
    /\ pc' = ResetPc

(* After a connection the server listens again, unless errno still holds   *)
(* the error of some earlier call ("if( errno != 0 || i != 0)").           *)
Ended == IF ListensAgain THEN "listen" ELSE "exit"

(* case 'k' *)
Kill ==
    /\ mode = "prompt"
    /\ WriteBack
    /\ mode' = Ended
    /\ UNCHANGED <<answer, breakVars, coreVars>>

(* The connection is lost (case 0x04). *)
Close ==
    /\ mode = "prompt"
    /\ mode' = Ended
    /\ UNCHANGED <<cacheVars, answer, breakVars, coreVars>>

(* case 'D' and the end of gdb_main_loop: the target is set running. *)
Detach ==
    /\ mode = "prompt"
    /\ mode' = "detached"
    /\ wp' = NoUnits
    /\ periphery' = "started"
    /\ UNCHANGED <<cacheVars, answer, breakVars, pc, ir, sessions>>

(* A new connection: gdb_restart, then the first pass of gdb_main_loop. *)
Accept ==
    /\ mode = "listen"
    /\ HardReset
    /\ mode' = "attach"
    /\ UNCHANGED <<cacheVars, answer, breakVars, ir, periphery>>

ResetInstr ==
    mode \in {"attach", "restart"} /\ Execute(Fetched(pc)) /\ UNCHANGED ir

Attached ==
    /\ mode = "attach"
    /\ EnterPrompt
    /\ wp' = AnyUnits
    /\ periphery' = "stopped"

(* monitor Restart: the buffer is forgotten before the reset. *)
Restart ==
    /\ mode = "prompt"
    /\ HardReset
    /\ pages' = {}
    /\ mode' = "restart"
    /\ UNCHANGED <<target, buf, dirty, answer, breakVars, ir, periphery>>

(* The registers are set to the reset state whatever was executed, and the *)
(* breakpoint at main is wanted again.                                     *)
Restarted ==
    /\ mode = "restart"
    /\ wp' = AnyUnits
    /\ pc' = ResetPc
    /\ main' = [main EXCEPT !.active = main.addr # NoAddr]
    /\ mode' = "prompt"
    /\ answer' = Status("OK")
    /\ UNCHANGED <<cacheVars, hw, sw, ir, periphery, sessions>>

-----------------------------------------------------------------------------
SessionInit ==
    /\ Init
    /\ hw = <<>> /\ sw = <<>>
    /\ main = [addr |-> NoAddr, active |-> FALSE]
    /\ wp = [i \in {0, 1} |-> IF i = 0
             THEN [on |-> TRUE, addr |-> 0, mask |-> "bit0", data |-> "any"]
             ELSE [on |-> FALSE, addr |-> 0, mask |-> "exact", data |-> "any"]]
    /\ pc = ResetPc
    /\ ir = <<>>
    /\ periphery = "stopped"
    /\ sessions = 0

MemoryRequest ==
    \/ \E S \in Blocks : Read(S)
    \/ \E S \in Blocks : \E new \in [S -> Values] : Write(new)

BreakpointRequest ==
    \/ \E r \in Requests : InsertRequest(r.addr, r.len)
    \/ \E r \in Requests : RemoveRequest(r.addr)
    \/ \E addr \in MainAddrs : SymbolMain(addr)
    \/ \E on \in BOOLEAN : TempMainBreak(on)

ResumeRequest == RefuseResume \/ Run \/ SingleStep \/ EmulateBranchLink

ProgramStep == RunInstr \/ StepInstr \/ ResetInstr

EndRequest == Kill \/ Close \/ Detach \/ Restart

SessionNext ==
    \/ MemoryRequest
    \/ BreakpointRequest
    \/ \E p \in Code : SetPc(p)
    \/ ResumeRequest
    \/ ProgramStep
    \/ Emulated \/ Halted \/ Interrupted
    \/ EndRequest
    \/ Accept \/ Attached \/ Restarted

SessionSpec == SessionInit /\ [][SessionNext]_vars
=============================================================================
