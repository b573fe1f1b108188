-------------------------- MODULE ScanChainProofs ---------------------------
(***************************************************************************)
(* What is proved of ScanChain, for a device of any identification: while  *)
(* the TAP is reset only with chain 2 not in use, every shift goes where   *)
(* it is meant to go, and the core is held whenever the server takes it to *)
(* be.                                                                     *)
(***************************************************************************)
EXTENDS ScanChain, TLAPS

(* Which request may be where.                                             *)
ReqAt ==
    /\ pc \in {"put", "request", "await", "hold"} =>
          req \in {"start", "restart", "stop", "step", "interrupt"}
    /\ pc = "reset" => req = "restart"
    /\ pc = "poll" => req \in {"start", "restart", "interrupt", "block"}
    /\ pc = "wait" => req \in {"continue", "step"}
    /\ pc = "go" => req \in {"block", "continue", "step", "detach"}
    /\ pc = "final" => req \in {"continue", "detach"}
    /\ pc = "clear" => req \in {"block", "continue", "detach"}
    /\ pc = "exit" => req \in {"continue", "detach"}
    /\ pc = "breaks" => req = "continue"
    /\ pc = "step" => req = "step"
    /\ pc \in {"dcc", "run", "talk", "leave", "leaveRequest", "leaveAwait",
               "rearm"} => req = "block"

(* Chain 2 is not in use when the TAP is reset, nor at system speed.       *)
ChainAway ==
    /\ pc \in {"off", "reset"} => ~(scan_chain = 2 /\ scan_mode = "INTEST")
    /\ pc = "sys" => scan_chain = 1

(* The core is stopped from where the server has seen it stopped to where  *)
(* the server lets it go.                                                  *)
CoreHeld ==
    /\ pc \in {"hold", "poll", "regs", "sys", "back", "prompt", "feed", "dcc",
               "clear", "run", "exit", "breaks", "final", "step", "go",
               "rearm"} => core = "debug"
    /\ core = "sys" => pc = "awaitSys"

(* Where bit 1 of is_debugrequest is set.                                  *)
Believed ==
    /\ pc \in {"regs", "sys", "awaitSys", "back", "prompt", "feed", "dcc",
               "step"} => 1 \in flags
    /\ pc \in {"put", "request", "await", "hold"} /\ req \in {"stop", "step"} =>
          1 \in flags
    /\ pc \in {"go", "wait"} /\ req = "step" => 1 \in flags /\ step
    /\ pc = "wait" /\ req = "continue" => flags = {}

(* Where a debug request stands, and where unit 0 matches everything.      *)
UnitSet ==
    /\ dbgrq => pc \in {"await", "hold", "leaveAwait", "rearm"}
    /\ pc \in {"poll", "regs", "sys", "awaitSys", "back", "prompt", "feed",
               "dcc", "step"} => wp = "any"

(* What stopped the core.                                                  *)
CauseKept ==
    /\ pc = "wait" /\ req = "continue" /\ core # "run" => cause = "break"
    /\ pc \in {"put", "request", "await", "hold", "regs"} /\ req = "stop" =>
          core = "debug" /\ 2 \notin flags /\ cause = "break"
    /\ pc \in {"request", "await"} => req # "stop"
    /\ pc \in {"put", "request", "await", "hold", "regs"} /\ req = "step" => step

IInv ==
    /\ TypeOK /\ CacheTrue /\ ReqAt /\ ChainAway
    /\ CoreHeld /\ Believed /\ UnitSet /\ CauseKept

(* A selection of chain 2 is one that is, a status read is the core's and  *)
(* a write arrives.                                                        *)
LEMMA SelectReaches ==
    ASSUME CacheTrue, Select(2)
    PROVE  scan_chain' = 2 /\ scan_mode' = "INTEST" /\ ir' = "INTEST" /\ sel' = 2
  BY DEF CacheTrue, Select, Selected, cache, tap

LEMMA StatusIsTrue ==
    ASSUME CacheTrue, NEW s \in BOOLEAN, ReadStatus(s)
    PROVE  /\ scan_chain' = 2 /\ scan_mode' = "INTEST" /\ ir' = "INTEST" /\ sel' = 2
           /\ s => core = "debug"
           /\ ~s => core # "debug"
  BY SelectReaches DEF ReadStatus, Seen, Reached

LEMMA WriteArrives ==
    ASSUME CacheTrue, NEW w, NEW q, WriteIce(w, q)
    PROVE  /\ scan_chain' = 2 /\ scan_mode' = "INTEST" /\ ir' = "INTEST" /\ sel' = 2
           /\ wp' = w /\ dbgrq' = q
<1>1. scan_chain' = 2 /\ scan_mode' = "INTEST" /\ ir' = "INTEST" /\ sel' = 2
  BY SelectReaches DEF WriteIce
<1>2. wp' = w
  BY <1>1, Zenon DEF WriteIce, Reached
<1>3. dbgrq' = q
  BY <1>1, Zenon DEF WriteIce, Reached
<1>. QED  BY <1>1, <1>2, <1>3

LEMMA InitHolds == Init => IInv
  BY DEF Init, IInv, TypeOK, CacheTrue, ReqAt, ChainAway, CoreHeld, Believed, UnitSet, CauseKept, Places, None

(* Every step of the server keeps the invariant.                           *)
LEMMA ServerKeeps ==
    ASSUME FlagAssumption, IInv, Server
    PROVE  IInv'
<1>. USE DEF IInv, TypeOK, CacheTrue, ReqAt, ChainAway, CoreHeld, Believed, UnitSet, CauseKept, Places, None, vars, cache, tap, ice, corevs
<1>1. CASE Put
  BY <1>1, StatusIsTrue DEF Put, FindsStopped, To
<1>2. CASE Request("request", "await")
  <2>1. /\ scan_chain' = 2 /\ scan_mode' = "INTEST" /\ ir' = "INTEST" /\ sel' = 2
        /\ wp' = wp /\ dbgrq' = TRUE
    BY <1>2, WriteArrives DEF Request
  <2>2. pc = "request" /\ pc' = "await" /\ UNCHANGED <<flags, step, req, corevs>>
    BY <1>2 DEF Request, Goes, To
  <2>. QED  BY <2>1, <2>2
<1>3. CASE Await("await", "hold")
  <2>. PICK s \in BOOLEAN :
          /\ ReadStatus(s)
          /\ To(IF s THEN "hold" ELSE "await")
          /\ flags' = IF s THEN flags \cup {1, 2} ELSE flags
    BY <1>3 DEF Await
  <2>. pc = "await" /\ UNCHANGED <<step, req, ice, corevs>>
    BY <1>3 DEF Await
  <2>1. CASE s
    <3>1. core = "debug" /\ pc' = "hold" /\ flags' = flags \cup {1, 2}
      BY <2>1, StatusIsTrue DEF To
    <3>. QED  BY <3>1, StatusIsTrue
  <2>2. CASE ~s
    BY <2>2, StatusIsTrue DEF To
  <2>. QED  BY <2>1, <2>2
<1>4. CASE Hold
  BY <1>4, WriteArrives DEF Hold, Goes, To
<1>5. CASE Poll
  <2>. pc = "poll" /\ UNCHANGED <<step, req, core, cause>>
    BY <1>5 DEF Poll
  <2>1. CASE 1 \in flags /\ pc' \in AfterPoll /\ UNCHANGED <<cache, tap, ice, flags>>
    BY <2>1 DEF AfterPoll
  <2>2. CASE 1 \notin flags
    <3>. PICK s \in BOOLEAN :
            /\ ReadStatus(s)
            /\ IF s THEN WriteIce(wp, FALSE) ELSE UNCHANGED ice
            /\ flags' = IF s THEN flags \cup {1} ELSE flags
            /\ IF s THEN pc' \in AfterPoll ELSE To("poll")
      BY <1>5, <2>2 DEF Poll
    <3>1. CASE s
      BY <2>2, <3>1, WriteArrives, StatusIsTrue DEF AfterPoll
    <3>2. CASE ~s
      BY <2>2, <3>2, StatusIsTrue DEF To
    <3>. QED  BY <3>1, <3>2
  <2>. QED  BY <1>5, <2>1, <2>2 DEF Poll
<1>6. CASE ReadCpuRegs
  BY <1>6 DEF ReadCpuRegs, Selected, To
<1>7. CASE SysSpeedRestart
  BY <1>7 DEF SysSpeedRestart, Restart, Released, Goes, To
<1>8. CASE SysSpeedAwait
  BY <1>8, StatusIsTrue DEF SysSpeedAwait, To
<1>9. CASE SysSpeedEnd
  BY <1>9 DEF SysSpeedEnd, Selected, Goes, To
<1>10. CASE Feed
  BY <1>10 DEF Feed, Select, Selected, To
<1>11. CASE Drain
  BY <1>11 DEF Drain, Select, Selected, Goes, To
<1>12. CASE RunProgram
  BY <1>12 DEF RunProgram, Select, Selected, Goes, To
<1>13. CASE EnterMonitorMode
  BY <1>13, WriteArrives DEF EnterMonitorMode
<1>14. CASE Talk
  BY <1>14 DEF Talk, Select, Selected, Goes, To
<1>15. CASE Leave
  BY <1>15, StatusIsTrue DEF Leave, FindsStopped, To
<1>16. CASE Request("leaveRequest", "leaveAwait")
  BY <1>16, WriteArrives DEF Request, Goes, To
<1>17. CASE Await("leaveAwait", "rearm")
  BY <1>17, StatusIsTrue DEF Await, To
<1>18. CASE Rearm
  BY <1>18, WriteArrives DEF Rearm, Goes, To
<1>19. CASE PrepareExitDebug
  BY <1>19 DEF PrepareExitDebug, Select, Selected, Goes, To
<1>20. CASE ClearAnyBreakPoint
  BY <1>20, WriteArrives DEF ClearAnyBreakPoint, Goes, To
<1>21. CASE SetupBreakpoints
  BY <1>21, WriteArrives DEF SetupBreakpoints, Goes, To
<1>22. CASE FinalExitDebug
  BY <1>22, WriteArrives DEF FinalExitDebug, Goes, To
<1>23. CASE Step
  BY <1>23 DEF Step, Select, Selected, Goes, To
<1>24. CASE Go
  BY <1>24 DEF Go, Restart, Released, Goes, To
<1>25. CASE PollRunning
  <2>. pc = "wait" /\ UNCHANGED <<step, core, cause>>
    BY <1>25 DEF PollRunning
  <2>1. CASE 1 \in flags /\ To("put") /\ Stopped /\ UNCHANGED <<cache, tap, ice, flags>>
    BY <2>1 DEF Stopped, To
  <2>2. CASE /\ 1 \notin flags /\ ReadStatus(TRUE) /\ WriteIce(wp, FALSE)
             /\ flags' = flags \cup {1} /\ To("put") /\ Stopped
    <3>1. scan_chain' = 2 /\ scan_mode' = "INTEST" /\ ir' = "INTEST" /\ sel' = 2
      BY <2>2, StatusIsTrue
    <3>2. core = "debug"
      BY <2>2, <3>1, StatusIsTrue
    <3>3. wp' = wp /\ dbgrq' = FALSE
      BY <2>2, <3>1, WriteArrives
    <3>4. req = "continue" /\ flags = {}
      BY <2>2
    <3>5. pc' = "put" /\ req' = "stop" /\ flags' = {1}
      BY <2>2, <3>4 DEF To, Stopped
    <3>6. TypeOK' /\ ReqAt'
      BY <3>1, <3>3, <3>5
    <3>. QED  BY <3>1, <3>2, <3>3, <3>4, <3>5, <3>6
  <2>3. CASE 1 \notin flags /\ ReadStatus(FALSE) /\ UNCHANGED <<pc, req, flags, ice>>
    BY <2>3, StatusIsTrue
  <2>. QED  BY <1>25, <2>1, <2>2, <2>3 DEF PollRunning
<1>26. CASE Reset
  <2>1. /\ pc = "reset" /\ pc' = "put" /\ ir' = "IDCODE" /\ sel' = 0
        /\ UNCHANGED <<cache, flags, step, req, cause>>
        /\ wp' = wp \/ wp' = "off"
        /\ core' = core \/ core' = "run"
    BY <1>26 DEF Reset, Goes, To
  <2>2. dbgrq' = FALSE
    BY <1>26 DEF Reset, Goes
  <2>3. TypeOK'
    <3>1. wp' \in {"off", "any", "set"} /\ core' \in {"run", "sys", "debug"}
      BY <2>1
    <3>. QED  BY <2>1, <2>2, <3>1
  <2>4. CacheTrue' /\ ReqAt' /\ ChainAway'
    BY <2>1
  <2>5. CoreHeld' /\ Believed' /\ UnitSet' /\ CauseKept'
    BY <2>1, <2>2
  <2>. QED  BY <2>3, <2>4, <2>5
<1>. QED  BY <1>1, <1>2, <1>3, <1>4, <1>5, <1>6, <1>7, <1>8, <1>9, <1>10, <1>11, <1>12, <1>13, <1>14, <1>15, <1>16, <1>17, <1>18, <1>19, <1>20, <1>21, <1>22, <1>23, <1>24, <1>25, <1>26 DEF Server

(* So does every other step.                                               *)
LEMMA NextKeeps ==
    ASSUME FlagAssumption, Careful, IInv, [Next]_vars
    PROVE  IInv'
<1>. USE DEF IInv, TypeOK, CacheTrue, ReqAt, ChainAway, CoreHeld, Believed, UnitSet, CauseKept, Places, None, vars, cache, tap, ice, corevs
<1>1. CASE Server
  BY <1>1, ServerKeeps
<1>2. CASE Interrupt
  BY <1>2, StatusIsTrue DEF Interrupt, Goes, To
<1>3. CASE Asked
  <2>1. CASE Asks("access", "feed")
    BY <2>1 DEF Asks, Goes, To
  <2>2. CASE Asks("long", "feed")
    BY <2>2 DEF Asks, Goes, To
  <2>3. CASE Asks("block", "dcc")
    BY <2>3 DEF Asks, Goes, To
  <2>4. CASE Asks("continue", "exit")
    BY <2>4 DEF Asks, Goes, To
  <2>5. CASE Asks("step", "step")
    BY <2>5 DEF Asks, Goes, To
  <2>6. CASE Asks("detach", "exit")
    BY <2>6 DEF Asks, Goes, To
  <2>. QED  BY <1>3, <2>1, <2>2, <2>3, <2>4, <2>5, <2>6 DEF Asked
<1>4. CASE Close
  BY <1>4 DEF Close, Cautious, Goes, To
<1>5. CASE Restarts
  BY <1>5 DEF Restarts, Cautious, To
<1>6. CASE CoreStops
  BY <1>6 DEF CoreStops
<1>7. CASE CoreReturns
  BY <1>7 DEF CoreReturns
<1>8. CASE UNCHANGED vars
  BY <1>8
<1>. QED  BY <1>1, <1>2, <1>3, <1>4, <1>5, <1>6, <1>7, <1>8 DEF Next

(* The specification keeps the invariant.                                  *)
THEOREM ScanInvariance == ASSUME Careful PROVE Spec => []IInv
<1>1. Init => IInv
  BY InitHolds
<1>2. IInv /\ [Next]_vars => IInv'
  BY FlagAssumption, NextKeeps
<1>. QED  BY <1>1, <1>2, PTL DEF Spec

(* Every value stays in its type: no bit but the three of is_debugrequest  *)
(* is ever set, and no chain but 1 and 2 is ever selected.                 *)
THEOREM ScanTypeCorrect == ASSUME Careful PROVE Spec => []TypeOK
<1>1. IInv => TypeOK
  BY DEF IInv
<1>2. Spec => []IInv
  BY ScanInvariance
<1>. QED  BY <1>1, <1>2, PTL

(* Whatever gdb asked for before, at the prompt the core is stopped, is    *)
(* known to be, has no request standing and stops after one instruction.   *)
THEOREM HeldAtPrompt == ASSUME Careful PROVE Spec => []PromptHeld
<1>1. IInv => PromptHeld
  BY DEF IInv, TypeOK, CoreHeld, Believed, UnitSet, PromptHeld
<1>2. Spec => []IInv
  BY ScanInvariance
<1>. QED  BY <1>1, <1>2, PTL

(* The flag that corrects the program counter tells what stopped a program *)
(* that gdb did not ask to stop.                                           *)
THEOREM CauseIsTold == ASSUME Careful PROVE Spec => []CauseTold
<1>1. IInv => CauseTold
  BY DEF IInv, CauseKept, CauseTold
<1>2. Spec => []IInv
  BY ScanInvariance
<1>. QED  BY <1>1, <1>2, PTL

(* Every step of the server shifts through the chain it means.             *)
LEMMA ServerReaches ==
    ASSUME FlagAssumption, IInv, Server
    PROVE  /\ pc \in IcePlaces => Reached(2)
           /\ pc \in Feeding => Reached(1) /\ core = "debug"
<1>. USE DEF IInv, TypeOK, CacheTrue, ChainAway, CoreHeld, Believed, Places, None,
         vars, cache, tap, ice, corevs, IcePlaces, Feeding
<1>1. CASE Put
  BY <1>1, StatusIsTrue DEF Put, FindsStopped, To, Reached
<1>2. CASE Request("request", "await")
  BY <1>2, WriteArrives DEF Request, Goes, To, Reached
<1>3. CASE Await("await", "hold")
  <2>. PICK s \in BOOLEAN :
          /\ ReadStatus(s)
          /\ To(IF s THEN "hold" ELSE "await")
          /\ flags' = IF s THEN flags \cup {1, 2} ELSE flags
    BY <1>3 DEF Await
  <2>. pc = "await" /\ UNCHANGED <<step, req, ice, corevs>>
    BY <1>3 DEF Await
  <2>1. CASE s
    BY <2>1, StatusIsTrue DEF To, Reached
  <2>2. CASE ~s
    BY <2>2, StatusIsTrue DEF To, Reached
  <2>. QED  BY <2>1, <2>2
<1>4. CASE Hold
  BY <1>4, WriteArrives DEF Hold, Goes, To, Reached
<1>5. CASE Poll
  BY <1>5 DEF Poll
<1>6. CASE ReadCpuRegs
  BY <1>6 DEF ReadCpuRegs, Selected, To, Reached
<1>7. CASE SysSpeedRestart
  BY <1>7 DEF SysSpeedRestart, Restart, Released, Goes, To, Reached
<1>8. CASE SysSpeedAwait
  BY <1>8, StatusIsTrue DEF SysSpeedAwait, To, Reached
<1>9. CASE SysSpeedEnd
  BY <1>9 DEF SysSpeedEnd, Selected, Goes, To, Reached
<1>10. CASE Feed
  BY <1>10 DEF Feed, Select, Selected, To, Reached
<1>11. CASE Drain
  BY <1>11 DEF Drain, Select, Selected, Goes, To, Reached
<1>12. CASE RunProgram
  BY <1>12 DEF RunProgram, Select, Selected, Goes, To, Reached
<1>13. CASE EnterMonitorMode
  BY <1>13, WriteArrives DEF EnterMonitorMode, Reached
<1>14. CASE Talk
  BY <1>14 DEF Talk, Select, Selected, Goes, To, Reached
<1>15. CASE Leave
  BY <1>15, StatusIsTrue DEF Leave, FindsStopped, To, Reached
<1>16. CASE Request("leaveRequest", "leaveAwait")
  BY <1>16, WriteArrives DEF Request, Goes, To, Reached
<1>17. CASE Await("leaveAwait", "rearm")
  BY <1>17, StatusIsTrue DEF Await, To, Reached
<1>18. CASE Rearm
  BY <1>18, WriteArrives DEF Rearm, Goes, To, Reached
<1>19. CASE PrepareExitDebug
  BY <1>19 DEF PrepareExitDebug, Select, Selected, Goes, To, Reached
<1>20. CASE ClearAnyBreakPoint
  BY <1>20, WriteArrives DEF ClearAnyBreakPoint, Goes, To, Reached
<1>21. CASE SetupBreakpoints
  BY <1>21, WriteArrives DEF SetupBreakpoints, Goes, To, Reached
<1>22. CASE FinalExitDebug
  BY <1>22, WriteArrives DEF FinalExitDebug, Goes, To, Reached
<1>23. CASE Step
  BY <1>23 DEF Step, Select, Selected, Goes, To, Reached
<1>24. CASE Go
  BY <1>24 DEF Go, Restart, Released, Goes, To, Reached
<1>25. CASE PollRunning
  BY <1>25 DEF PollRunning
<1>26. CASE Reset
  BY <1>26 DEF Reset, Goes
<1>. QED  BY <1>1, <1>2, <1>3, <1>4, <1>5, <1>6, <1>7, <1>8, <1>9, <1>10, <1>11, <1>12, <1>13, <1>14, <1>15, <1>16, <1>17, <1>18, <1>19, <1>20, <1>21, <1>22, <1>23, <1>24, <1>25, <1>26 DEF Server

(* No shift goes astray, and nothing is fed to a running core.             *)
THEOREM NothingAstray == ASSUME Careful PROVE Spec => ShiftsReach
<1>1. IInv /\ [Next]_vars =>
        [Server => /\ pc \in IcePlaces => Reached(2)
                   /\ pc \in Feeding => Reached(1) /\ core = "debug"]_vars
  BY FlagAssumption, ServerReaches
<1>2. Spec => []IInv
  BY ScanInvariance
<1>. QED  BY <1>1, <1>2, PTL DEF Spec, ShiftsReach
=============================================================================
