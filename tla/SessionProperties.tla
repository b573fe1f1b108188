------------------------- MODULE SessionProperties --------------------------
(* What a debugging session must keep true. *)
EXTENDS DebugSession

Breakpoint ==
    [addr : Nat, len : {2, 4}, instr : Seq(CellValue)]

Unit == [on : BOOLEAN, addr : Nat \cup {Ones},
         mask : {"exact", "bit0", "all"}, data : {"any", "brk"}]

(* Every variable holds what the code can hold in it; an instruction is in *)
(* hand only during a single step.                                         *)
SessionTypeOK ==
    /\ CacheTypeOK
    /\ mode \in {"prompt", "run", "step", "emulated", "listen", "attach",
                 "restart", "detached", "exit"}
    /\ answer \in Answer
    /\ hw \in Seq(Breakpoint) /\ sw \in Seq(Breakpoint)
    /\ wp \in [{0, 1} -> Unit]
    /\ pc \in Code \cup {ResetPc}
    /\ ir # <<>> => mode = "step"
    /\ main \in [addr : MainAddrs \cup {NoAddr}, active : BOOLEAN]
    /\ periphery \in {"started", "stopped"}
    /\ sessions \in Nat

-----------------------------------------------------------------------------
(* The lists *)

(* "unlimited SWBkpt and either one HWBkpt or one SWBkpt", or two HWBkpt:  *)
(* what is listed fits the two units whatever gdb, main and the map ask    *)
(* for (arm_gdbstub_break.c:48-55).                                        *)
UnitBudget == UnitsUsed <= 2

(* No address is listed twice, in either list.  A second entry of an       *)
(* address would save the first one's breakpoint as its instruction.       *)
DistinctEntries ==
    \A i, j \in DOMAIN (hw \o sw) :
        (hw \o sw)[i].addr = (hw \o sw)[j].addr => i = j

(* A breakpoint InsertBreakpoint would call listed already is one that     *)
(* RemoveBreakpoint finds: "remove a watch or breakpoint if it is on its   *)
(* List" (arm_gdbstub_break.c:321).                                        *)
ListedIsRemovable ==
    \A r \in Requests :
        Matching(r.addr) # {} /\ FirstMatch(r.addr).len = r.len
            => OnList(hw, sw, r.addr)

-----------------------------------------------------------------------------
(* The program behind the breakpoints *)

(* The memory as it is without cache and breakpoints. *)
Program ==
    [a \in Ram |->
        IF a \in Covered(sw)
        THEN LET e == CHOOSE e \in Entries(sw) : a \in CellsOf(e)
             IN  e.instr[a - e.addr + 1]
        ELSE WrittenBack[a]]

(* Inserting and removing software breakpoints never changes the program:  *)
(* "its original instruction will be also restored back to RAM"            *)
(* (arm_gdbstub_break.c:322).                                              *)
BreakpointsKeepProgram == [][sw' # sw => Program' = Program]_vars

Session == INSTANCE FlatMemory WITH
    Cell <- Ram, Content <- CellValue,
    mem <- Program, running <- (mode # "prompt"), answer <- answer

(* Cache and breakpoints together are transparent: gdb reads, writes and   *)
(* resumes, and the target stores, as on one flat memory.                  *)
Transparent == Session!Spec

(* A single step executes the program's instruction, not a breakpoint or a *)
(* stale copy: "lookup 'real' instruction" (arm_gdbstub_break.c:625).      *)
StepsProgram ==
    mode = "step" /\ ir # <<>> =>
        ir = IF InFlash(pc.addr) THEN Instr(FlashCode, pc.addr, pc.len)
             ELSE Instr(Program, pc.addr, pc.len)

-----------------------------------------------------------------------------
(* While the program runs *)

(* Every listed hardware breakpoint has a unit of its own that compares    *)
(* its address, and the listed software breakpoints have one together.     *)
UnitsArmed ==
    mode = "run" =>
        /\ \A e \in Entries(hw) :
              \E i \in {0, 1} : wp[i] = PutHWBreakPoint(e.addr)
        /\ sw # <<>> => \E i \in {0, 1} : wp[i].on /\ wp[i].data = "brk"

(* All of gdb's writes are in the target, and so is every software         *)
(* breakpoint.                                                             *)
BreaksPlanted ==
    mode = "run" =>
        /\ dirty = {}
        /\ \A a \in Covered(sw) : target[a] = Brk

(* The program does not run past a listed hardware breakpoint. *)
NoBreakMissed ==
    [][mode = "run" /\ mode' = "run" => At(hw, pc.addr) = {}]_vars

-----------------------------------------------------------------------------
(* What comments of the code say and some sequence of requests refutes *)

(* The program does not run past a breakpoint instruction planted for it:  *)
(* the unit for software breakpoints compares the instruction and takes it *)
(* from any address, "Addr mask=ignore" (jt_arm_iceRT.c:453 and 476).      *)
SoftwareBreakMet ==
    [][mode = "run" /\ mode' = "run" => pc.addr \notin Covered(sw)]_vars
=============================================================================
