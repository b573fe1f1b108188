----------------------------- MODULE ScanChain ------------------------------
(***************************************************************************)
(* How the server holds the core through JTAG (jt_arm.c, jt_arm_iceRT.c):  *)
(* it remembers which scan chain and which instruction it selected last    *)
(* and skips the selection when it needs the same again.  A reset of the   *)
(* TAP controller selects anew, behind the back of that memory.            *)
(*                                                                         *)
(* Each action is one function of those files, or the part of one between  *)
(* two polls of the debug status; the core moves between any two of them.  *)
(***************************************************************************)
EXTENDS Naturals

CONSTANTS
    IdLooksDebug,  \* has the identification word of the device bits 0 and 3
                   \* set, so that it reads like a debug status of "stopped"?
    Careful        \* the TAP is reset only while chain 2 is not the chain
                   \* in use, as a plain access to the memory leaves it

ASSUME FlagAssumption == IdLooksDebug \in BOOLEAN /\ Careful \in BOOLEAN

VARIABLES
    scan_chain, scan_mode,  \* what the server remembers of the TAP
    flags,      \* ice_state.is_debugrequest: bits 1, 2 and 4
    step,       \* ice_state.is_step_mode
    pc, req,    \* where the server is, and the request it serves
    ir, sel,    \* the device: instruction register and selected scan chain
    wp, dbgrq,  \* the device: watchpoint units; debug request line
    core, cause \* the device: the core, and why it was stopped

cache  == <<scan_chain, scan_mode>>
tap    == <<ir, sel>>
ice    == <<wp, dbgrq>>
corevs == <<core, cause>>
vars   == <<cache, flags, step, pc, req, tap, ice, corevs>>

None == 0    \* scan_chain is -1 before the first selection

Places == {"reset", "put", "request", "await", "hold", "poll", "regs",
           "sys", "awaitSys", "back", "prompt", "feed", "dcc", "clear", "run",
           "talk", "leave", "leaveRequest", "leaveAwait", "rearm", "exit",
           "breaks", "final", "go", "step", "wait", "off"}

TypeOK ==
    /\ scan_chain \in {None, 1, 2} /\ scan_mode \in {"NON", "INTEST", "RESTART"}
    /\ flags \in SUBSET {1, 2, 4} /\ step \in BOOLEAN
    /\ pc \in Places
    /\ req \in {"start", "restart", "access", "long", "block",
                "continue", "interrupt", "stop", "step", "detach"}
    /\ ir \in {"IDCODE", "INTEST", "RESTART"} /\ sel \in {0, 1, 2}
    /\ wp \in {"off", "any", "set"} /\ dbgrq \in BOOLEAN
    /\ core \in {"run", "sys", "debug"} /\ cause \in {"break", "request"}

(* jtag_start and jtag_arm_verify leave the TAP at the identification; the *)
(* core runs since power on.                                               *)
Init ==
    /\ scan_chain = None /\ scan_mode = "NON"
    /\ flags = {} /\ step = FALSE
    /\ pc = "put" /\ req = "start"
    /\ ir = "IDCODE" /\ sel = 0
    /\ wp = "off" /\ dbgrq = FALSE
    /\ core = "run" /\ cause = "break"

Resting == {"prompt", "wait", "off"}
To(p) == pc' = p
Goes(from, p) == pc = from /\ To(p)

-----------------------------------------------------------------------------
(* The TAP.                                                                *)

Selected(c) ==
    /\ scan_chain' = c /\ scan_mode' = "INTEST"
    /\ ir' = "INTEST" /\ sel' = c

MutSelect(c) ==     \* the instruction is not looked at
    IF scan_chain # c THEN Selected(c) ELSE UNCHANGED <<cache, tap>>

(* "if(scan_chain != c || scan_mode != INTEST)" before every access        *)
Select(c) ==
    IF scan_chain # c \/ scan_mode # "INTEST"
    THEN Selected(c)
    ELSE UNCHANGED <<cache, tap>>

Reached(c) == ir' = "INTEST" /\ sel' = c    \* by the shift that follows

(* The answers to a read of the debug status.                              *)
Seen ==
    IF Reached(2) THEN {core = "debug"}
    ELSE IF ir' = "IDCODE" THEN {IdLooksDebug} ELSE BOOLEAN

ReadStatus(stopped) == Select(2) /\ stopped \in Seen

(* A write of the registers of the unit gets there only through chain 2.   *)
WriteIce(w, q) ==
    /\ Select(2)
    /\ wp' = IF Reached(2) THEN w ELSE wp
    /\ dbgrq' = IF Reached(2) THEN q ELSE dbgrq

(* The instruction RESTART lets a stopped core go on.                      *)
Released(c) == core' = IF core = "debug" THEN c ELSE core
Restart(c) == ir' = "RESTART" /\ sel' = sel /\ Released(c) /\ UNCHANGED cause

-----------------------------------------------------------------------------
(* Stopping the core: jtag_arm_PutAnyBreakPoint.                           *)

MutFindsStopped(from, stopped, running) ==  \* the check is forgotten
    /\ pc = from
    /\ \E s \in BOOLEAN : ReadStatus(s) /\ To(running)
    /\ UNCHANGED <<flags, step, req, ice, corevs>>

FindsStopped(from, stopped, running) ==
    /\ pc = from
    /\ \E s \in BOOLEAN :
          ReadStatus(s) /\ To(IF s THEN stopped ELSE running)
    /\ UNCHANGED <<flags, step, req, ice, corevs>>

Put == FindsStopped("put", "hold", "request")

Request(from, p) ==
    /\ Goes(from, p)
    /\ WriteIce(wp, TRUE)
    /\ UNCHANGED <<flags, step, req, corevs>>

(* "make sure we enter DEBUG State"                                        *)
Await(from, p) ==
    /\ pc = from
    /\ \E s \in BOOLEAN :
          /\ ReadStatus(s)
          /\ To(IF s THEN p ELSE from)
          /\ flags' = IF s THEN flags \cup {1, 2} ELSE flags
    /\ UNCHANGED <<step, req, ice, corevs>>

(* Unit 0 matches every instruction: the core stops after each one.        *)
MutHold ==
    /\ Goes("hold", IF req \in {"stop", "step"} THEN "regs" ELSE "poll")
    /\ WriteIce("any", dbgrq)
    /\ UNCHANGED <<flags, step, req, corevs>>

Hold ==
    /\ Goes("hold", IF req \in {"stop", "step"} THEN "regs" ELSE "poll")
    /\ WriteIce("any", FALSE)
    /\ UNCHANGED <<flags, step, req, corevs>>

(* "while(jtag_arm_PollDbgState() == 0)"                                   *)
AfterPoll == IF req = "block" THEN {"prompt", "feed"} ELSE {"regs"}
Poll ==
    /\ pc = "poll"
    /\ \/ 1 \in flags /\ pc' \in AfterPoll /\ UNCHANGED <<cache, tap, ice, flags>>
       \/ /\ 1 \notin flags
          /\ \E s \in BOOLEAN :
                /\ ReadStatus(s)
                /\ IF s THEN WriteIce(wp, FALSE) ELSE UNCHANGED ice
                /\ flags' = IF s THEN flags \cup {1} ELSE flags
                /\ IF s THEN pc' \in AfterPoll ELSE To("poll")
    /\ UNCHANGED <<step, req, corevs>>

(* jtag_arm_ReadCpuRegs: the registers come out over chain 1, and a jump   *)
(* to 0 goes in at system speed.                                           *)
ReadCpuRegs ==
    /\ pc = "regs"
    /\ step' = FALSE
    /\ IF flags = {}
       THEN To("prompt") /\ UNCHANGED <<cache, tap>>
       ELSE To("sys") /\ Selected(1)
    /\ UNCHANGED <<flags, req, ice, corevs>>

-----------------------------------------------------------------------------
(* Accesses at the prompt.                                                 *)

(* jtag_arm_chain1_sysspeed_restart does not note its RESTART, ...         *)
SysSpeedRestart ==
    /\ Goes("sys", "awaitSys")
    /\ Restart("sys")
    /\ UNCHANGED <<cache, flags, step, req, ice>>

(* ... and polls the status until the core is back, ...                    *)
SysSpeedAwait ==
    /\ pc = "awaitSys"
    /\ \E s \in BOOLEAN : ReadStatus(s) /\ To(IF s THEN "back" ELSE "awaitSys")
    /\ UNCHANGED <<flags, step, req, ice, corevs>>

(* ... and ends on chain 1.  A long access goes round again, once here.    *)
SysSpeedEnd ==
    /\ Goes("back", IF req = "long" THEN "feed" ELSE "prompt")
    /\ Selected(1)
    /\ req' = IF req = "long" THEN "access" ELSE req
    /\ UNCHANGED <<flags, step, ice, corevs>>

(* jtag_arm_ReadWordMemory, jtag_arm_WriteMemoryBuf and their like refuse  *)
(* a core that is not known to be stopped.                                 *)
Feed ==
    /\ pc = "feed"
    /\ IF flags = {}
       THEN To("prompt") /\ UNCHANGED <<cache, tap>>
       ELSE To("sys") /\ Select(1)
    /\ UNCHANGED <<flags, step, req, ice, corevs>>

(* gdb_write_memory_block and its like: a program of the server runs in    *)
(* the workspace and is talked to over the debug channel.                  *)
Drain ==
    /\ Goes("dcc", "clear")
    /\ Select(2)
    /\ UNCHANGED <<flags, step, req, ice, corevs>>

RunProgram ==
    /\ Goes("run", "go")
    /\ Select(1)
    /\ UNCHANGED <<flags, step, req, ice, corevs>>

EnterMonitorMode ==     \* the flash drivers do, the memory blocks do not
    /\ pc = "talk" /\ 4 \notin flags
    /\ WriteIce(wp, FALSE)
    /\ flags' = {4}
    /\ UNCHANGED <<step, req, pc, corevs>>

Talk ==
    /\ Goes("talk", "leave")
    /\ Select(2)
    /\ UNCHANGED <<flags, step, req, ice, corevs>>

Leave == FindsStopped("leave", "rearm", "leaveRequest")

Rearm ==
    /\ Goes("rearm", "poll")
    /\ WriteIce("any", FALSE)
    /\ flags' = (flags \cup {1}) \ {4}
    /\ UNCHANGED <<step, req, corevs>>

-----------------------------------------------------------------------------
(* Letting the core go.                                                    *)

PrepareExitDebug ==
    /\ Goes("exit", "clear")
    /\ Select(1)
    /\ flags' = {}
    /\ UNCHANGED <<step, req, ice, corevs>>

ClearAnyBreakPoint ==
    /\ Goes("clear", CASE req = "block" -> "run" [] req = "continue" -> "breaks"
                       [] OTHER -> "final")
    /\ WriteIce("off", dbgrq)
    /\ flags' = flags \ {1}
    /\ UNCHANGED <<step, req, corevs>>

SetupBreakpoints ==     \* gdbSetupJtagICE_RTbreakpoint, with or without any
    /\ Goes("breaks", "final")
    /\ \E w \in {"off", "set"} : WriteIce(w, dbgrq)
    /\ UNCHANGED <<flags, step, req, corevs>>

FinalExitDebug ==
    /\ Goes("final", "go")
    /\ WriteIce(wp, FALSE)
    /\ UNCHANGED <<flags, step, req, corevs>>

(* One instruction: unit 0 still matches every instruction, and bit 1 of   *)
(* is_debugrequest stays set while the core runs.                          *)
Step ==
    /\ Goes("step", "go")
    /\ Select(1)
    /\ step' = TRUE
    /\ UNCHANGED <<flags, req, ice, corevs>>

(* The RESTART that ends RunProgram, FinalExitDebug and Step.              *)
Go ==
    /\ Goes("go", CASE req = "block" -> "talk" [] req = "detach" -> "off"
                    [] OTHER -> "wait")
    /\ Restart("run")
    /\ scan_mode' = "RESTART" /\ UNCHANGED scan_chain
    /\ flags' = IF req \in {"continue", "detach"} THEN {} ELSE flags
    /\ UNCHANGED <<step, req, ice>>

-----------------------------------------------------------------------------
(* The main loop while the target runs.                                    *)

Stopped == req' = IF req = "continue" THEN "stop" ELSE req

PollRunning ==
    /\ pc = "wait"
    /\ \/ 1 \in flags /\ To("put") /\ Stopped
          /\ UNCHANGED <<cache, tap, ice, flags>>
       \/ /\ 1 \notin flags
          /\ ReadStatus(TRUE)
          /\ WriteIce(wp, FALSE)
          /\ flags' = flags \cup {1}
          /\ To("put") /\ Stopped
       \/ /\ 1 \notin flags
          /\ ReadStatus(FALSE)
          /\ UNCHANGED <<pc, req, flags, ice>>
    /\ UNCHANGED <<step, corevs>>

(* gdb asks to stop after a poll that found the core running.              *)
Interrupt ==
    /\ Goes("wait", "put") /\ 1 \notin flags
    /\ ReadStatus(FALSE)
    /\ req' = "interrupt"
    /\ UNCHANGED <<flags, step, ice, corevs>>

-----------------------------------------------------------------------------
(* Requests of gdb, and the connection.                                    *)

Asks(r, p) ==
    /\ Goes("prompt", p) /\ req' = r
    /\ UNCHANGED <<cache, flags, step, tap, ice, corevs>>

Asked ==
    \/ Asks("access", "feed")
    \/ Asks("long", "feed")
    \/ Asks("block", "dcc")
    \/ Asks("continue", "exit")
    \/ Asks("step", "step")
    \/ Asks("detach", "exit")

Cautious == Careful => ~(scan_chain = 2 /\ scan_mode = "INTEST")

(* After a kill, or a line that broke, the core stays as it is.            *)
Close ==
    /\ Goes("prompt", "off")
    /\ Cautious
    /\ UNCHANGED <<cache, flags, step, req, tap, ice, corevs>>

(* A new connection, or monitor Restart: gdb_restart.                      *)
Restarts ==
    /\ pc \in {"off", "prompt"} /\ To("reset")
    /\ Cautious
    /\ req' = "restart"
    /\ UNCHANGED <<cache, flags, step, tap, ice, corevs>>

(* The TAP forgets; how much of the core and the unit a reset reaches      *)
(* depends on the board and on how the server was built.                   *)
Reset ==
    /\ Goes("reset", "put")
    /\ ir' = "IDCODE" /\ sel' = 0
    /\ wp' \in {wp, "off"} /\ dbgrq' \in {dbgrq, FALSE}
    /\ core' \in {core, "run"}
    /\ UNCHANGED <<cache, flags, step, req, cause>>

-----------------------------------------------------------------------------
(* The core.                                                               *)

CoreStops ==
    /\ core = "run"
    /\ core' = "debug"
    /\ \/ dbgrq /\ cause' = "request"
       \/ wp # "off" /\ cause' = "break"
    /\ UNCHANGED <<cache, flags, step, pc, req, tap, ice>>

CoreReturns ==          \* from the one access at system speed
    /\ core = "sys"
    /\ core' = "debug"
    /\ UNCHANGED <<cache, flags, step, pc, req, tap, ice, cause>>

Server ==
    \/ Put \/ Request("request", "await") \/ Await("await", "hold") \/ Hold
    \/ Poll \/ ReadCpuRegs \/ SysSpeedRestart \/ SysSpeedAwait \/ SysSpeedEnd
    \/ Feed \/ Drain \/ RunProgram \/ EnterMonitorMode \/ Talk
    \/ Leave \/ Request("leaveRequest", "leaveAwait")
    \/ Await("leaveAwait", "rearm") \/ Rearm
    \/ PrepareExitDebug \/ ClearAnyBreakPoint \/ SetupBreakpoints
    \/ FinalExitDebug \/ Step \/ Go \/ PollRunning \/ Reset

Next == Server \/ Interrupt \/ Asked \/ Close \/ Restarts \/ CoreStops \/ CoreReturns

(* The server is one loop; the core obeys a request and a unit that        *)
(* matches every instruction, and ends an access at system speed.          *)
Fairness ==
    /\ WF_vars(Server)
    /\ WF_vars((dbgrq \/ wp = "any") /\ CoreStops)
    /\ WF_vars(CoreReturns)

Spec == Init /\ [][Next]_vars /\ Fairness

-----------------------------------------------------------------------------
(* What the server remembers of the TAP is what the device has.  It is not *)
(* for chain 1 within a restart at system speed and after a reset, where   *)
(* chain 2 is needed next.                                                 *)
CacheTrue ==
    scan_mode = "INTEST" /\ (scan_chain = 2 \/ pc \notin {"awaitSys", "put"}) =>
        ir = "INTEST" /\ sel = scan_chain

(* At the prompt the core is stopped, the server knows it, no request is   *)
(* left standing, and unit 0 will stop the core after one instruction.     *)
PromptHeld ==
    pc = "prompt" =>
        core = "debug" /\ 1 \in flags /\ ~dbgrq /\ wp = "any"

(* When the program stops by itself the server corrects the program        *)
(* counter for what stopped it: is_debugrequest tells a breakpoint from a  *)
(* request that an earlier stop, or a job in the workspace, made.          *)
CauseTold ==
    pc = "regs" /\ req \in {"stop", "step"} =>
        step \/ (2 \in flags <=> cause = "request")

IcePlaces == {"put", "request", "await", "hold", "awaitSys", "dcc", "talk",
              "leave", "leaveRequest", "leaveAwait", "rearm", "clear",
              "breaks", "final"}
Feeding == {"regs", "feed", "run", "exit", "step"}

(* Every shift goes through the chain it is meant for, and an instruction  *)
(* is fed only to a core that is stopped.                                  *)
ShiftsReach ==
    [][Server =>
         /\ pc \in IcePlaces => Reached(2)
         /\ pc \in Feeding => Reached(1) /\ core = "debug"]_vars

(* Every loop on the debug status ends: a connection, a restart, an        *)
(* access, a step, a stop of the program and a request to stop it all come *)
(* back to the prompt.                                                     *)
Answered ==
    (pc \notin {"prompt", "off"} /\ req # "continue") ~> pc \in {"prompt", "off"}
=============================================================================
