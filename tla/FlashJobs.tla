------------------------------ MODULE FlashJobs ------------------------------
(***************************************************************************)
(* The background jobs of the server ("callback stuff instead of multi     *)
(* threading"): monitor commands queue a job, and every place where the    *)
(* server waits for gdb runs one step of the job at the head of the queue. *)
(* A job that is not finished queues itself again.  memStat.pending is the *)
(* one status word of all jobs; the fake continue waits on it while it     *)
(* writes the messages of the jobs to gdb's console.                       *)
(***************************************************************************)
EXTENDS FlashRegion, Sequences

CONSTANTS
    Kinds,          \* the kinds of jobs gdb asks for
    MapEntries,     \* entries of the memory map, for the job that prints it
    MayFail,        \* whether the flash and the workspace may fail
    Client          \* what gdb's user does besides starting jobs and
                    \* waiting for them, see Habits

Habits == {"fake",              \* uses the fake continue
           "close",             \* ends the connection and opens another
           "touch",             \* reads and writes flash while a job is pending
           "resume",            \* lets the target run while a job is pending
           "interrupt",         \* types ^C at the prompt
           "interrupt erase",   \* the same, but while no other job is pending
           "interrupt fake"}    \* types ^C during the fake continue

ASSUME JobsAssumption ==
    /\ Kinds \subseteq {"program", "verify", "check", "erase", "print"}
    /\ MapEntries \in Nat \ {0}
    /\ MayFail \in BOOLEAN
    /\ Client \subseteq Habits

VARIABLES
    queue,      \* cmdCallbackConainer
    pending,    \* memMapContainer.memStat.pending
    fakeMode,   \* fake_continue_mode
    console,    \* whether messages for gdb's console are queued
    state,      \* "prompt", "run" (target executes), "fake", "closed"
    talk        \* inside a fake continue: "idle", "reading", "answer"

jobVars == <<queue, pending>>
hostVars == <<fakeMode, state, talk>>
vars == <<flashVars, jobVars, console, hostVars>>

InProcessOf == [program |-> "programming", verify |-> "verifying", check |-> "verifying",
                erase |-> "erasing", print |-> "printing"]

FailureOf == [program |-> "program failed", verify |-> "error", check |-> "error",
              erase |-> "erase failed", print |-> "print failed"]

Results == {"equal", "diff", "programmed", "program failed", "erased", "erase failed"}
Unreported == {"error", "printed", "print failed"}
Running == {"programming", "verifying", "erasing", "printing"}
InProcess == pending \in Running

Job == [kind : {"program", "verify", "check", "erase", "print"},
        from : Sectors, sec : Sectors, last : Sectors,
        cnt : -1 .. SectorSize + MapEntries,
        temp : UNION {[1 .. n -> Image \cup {Torn}] : n \in 0 .. SectorSize}]

FlashTypeOK ==
    /\ RegionTypeOK
    /\ queue \in Seq(Job)
    /\ pending \in {"none"} \cup Running \cup Results \cup Unreported
    /\ fakeMode \in BOOLEAN
    /\ console \in BOOLEAN
    /\ state \in {"prompt", "run", "fake", "closed"}
    /\ talk \in {"idle", "reading", "answer"}

Init ==
    /\ RegionInit
    /\ queue = <<>> /\ pending = "none"
    /\ fakeMode = FALSE /\ console = FALSE
    /\ state = "prompt" /\ talk = "idle"

-----------------------------------------------------------------------------
(* One step of the job at the head of the queue. *)

(* A step queues the job again, or ends it with a status. *)
Again(job)   == queue' = Append(Tail(queue), job) /\ UNCHANGED pending
Done(status) == queue' = Tail(queue) /\ pending' = status

AtSector(job, cnt) == [job EXCEPT !.sec = @ + 1, !.cnt = cnt, !.temp = <<>>]

NextSector(job, cnt, status) ==
    IF job.sec < job.last THEN Again(AtSector(job, cnt)) ELSE Done(status)

(* eraseFlashCB_sector: a sector a step.  Philips chips are locked after   *)
(* the erase, so a failing step may have erased the sector.                *)
MutAfterErase(s) ==     \* the buffer stays valid
    IF ForceInval THEN SECTOR_INVALID ELSE valid[s]

AfterErase(s) ==
    CASE ForceInval -> SECTOR_INVALID
      [] ~ForceInval /\ "data" \in valid[s] -> SECTOR_WRITE_DURTY_ERASED
      [] OTHER -> valid[s]

EraseStep(job) ==
    /\ UNCHANGED <<fbuf, written>>
    /\ \/ /\ flash' = ErasedSector(job.sec)
          /\ valid' = [valid EXCEPT ![job.sec] = AfterErase(job.sec)]
          /\ NextSector(job, 0, "erased")
       \/ /\ MayFail
          /\ flash' \in {flash, ErasedSector(job.sec)}
          /\ Done("erase failed")
          /\ UNCHANGED valid

(* programFlashCB_write_sector on a sector that differs from the flash:    *)
(* first an erase, or only an unlock if the sector is known to be erased,  *)
(* then the units in as many steps as the chip needs.                      *)
Dirty(s) == valid[s] \in {SECTOR_WRITE_DURTY, SECTOR_WRITE_DURTY_ERASED}

MutEraseBeforeProgram(job) ==   \* the sector is unlocked but not erased
    /\ job.cnt < 0 /\ "erased" \notin valid[job.sec]
    /\ Again([job EXCEPT !.cnt = 0])
    /\ UNCHANGED <<flash, valid>>

EraseBeforeProgram(job) ==
    /\ job.cnt < 0 /\ "erased" \notin valid[job.sec]
    /\ \/ flash' = ErasedSector(job.sec) /\ Again([job EXCEPT !.cnt = 0])
       \/ /\ MayFail
          /\ flash' \in {flash, ErasedSector(job.sec)}
          /\ \E status \in {"program failed", "erase failed"} : Done(status)
    /\ UNCHANGED valid

PrepareProgram(job) ==
    /\ job.cnt < 0 /\ "erased" \in valid[job.sec]
    /\ \/ Again([job EXCEPT !.cnt = 0])
       \/ MayFail /\ Done("program failed")
    /\ UNCHANGED <<flash, valid>>

AfterUnits(job, n) ==     \* the flash after n more units of the sector
    Programmed({u \in UnitsOf(job.sec) : u % SectorSize \in job.cnt .. job.cnt + n - 1})

MutSectorDone(s) == valid       \* the flags stay set after the last unit

SectorDone(s) == [valid EXCEPT ![s] = @ \ {"erased", "dirty"}]

MutProgramUnits(job) ==         \* the last unit of a sector is left out
    /\ job.cnt >= 0
    /\ flash' = AfterUnits(job, SectorSize - job.cnt - 1)
    /\ valid' = SectorDone(job.sec)
    /\ NextSector(job, -1, "programmed")

ProgramUnits(job) ==
    /\ job.cnt >= 0
    /\ \/ \E n \in 1 .. SectorSize - job.cnt - 1 :
            /\ flash' = AfterUnits(job, n)
            /\ Again([job EXCEPT !.cnt = @ + n])
            /\ UNCHANGED valid
       \/ /\ flash' = AfterUnits(job, SectorSize - job.cnt)
          /\ valid' = SectorDone(job.sec)
          /\ \/ NextSector(job, -1, "programmed")
             \/ MayFail /\ Done("program failed")   \* the chip cannot be locked again
       \/ /\ MayFail
          /\ \E n \in 0 .. SectorSize - job.cnt : flash' = AfterUnits(job, n)
          /\ Done("program failed")
          /\ UNCHANGED valid

MutProgramStep(job) ==      \* a sector written but not checked counts as done
    /\ UNCHANGED <<fbuf, written>>
    /\ \/ /\ Dirty(job.sec)
          /\ EraseBeforeProgram(job) \/ PrepareProgram(job) \/ ProgramUnits(job)
       \/ /\ ~Dirty(job.sec)
          /\ NextSector(job, -1, "programmed")
          /\ UNCHANGED <<flash, valid>>

ProgramStep(job) ==
    /\ UNCHANGED <<fbuf, written>>
    /\ \/ /\ Dirty(job.sec)
          /\ EraseBeforeProgram(job) \/ PrepareProgram(job) \/ ProgramUnits(job)
       \/ /\ valid[job.sec] = SECTOR_WRITE      \* neither read nor verified
          /\ Done("program failed")
          /\ UNCHANGED <<flash, valid>>
       \/ /\ ~Dirty(job.sec) /\ valid[job.sec] # SECTOR_WRITE
          /\ NextSector(job, -1, "programmed")
          /\ UNCHANGED <<flash, valid>>

(* The verdict looks at every sector up to the last, not at the request's. *)
MutVerdict(states, job) ==      \* only the last sector is looked at
    IF "dirty" \in states[job.last] THEN "diff" ELSE "equal"

Verdict(states, job) ==
    IF \E s \in 0 .. job.last : "dirty" \in states[s] THEN "diff" ELSE "equal"

Judged(job, states) ==
    IF job.sec < job.last THEN Again(AtSector(job, -1)) ELSE Done(Verdict(states, job))

(* verifyFlashCB_read_sector reads a sector page by page into a buffer of  *)
(* the job and compares it when the last page is there.                    *)
PageRead(job) ==
    Append(job.temp, flash[job.sec * SectorSize + Len(job.temp)])

VerifiedState(s, pages) ==
    LET same  == \A u \in UnitsOf(s) : fbuf[u] = pages[(u % SectorSize) + 1]
        blank == \A i \in DOMAIN pages : pages[i] = Erased
    IN  (IF valid[s] = SECTOR_INVALID THEN SECTOR_READ_VALID ELSE Compared(same))
        \cup (IF blank THEN {"erased"} ELSE {})

VerifyStep(job) ==
    LET s     == job.sec
        pages == PageRead(job)
    IN  /\ UNCHANGED <<flash, written>>
        /\ \/ /\ Len(pages) < SectorSize
              /\ Again([job EXCEPT !.temp = pages])
              /\ UNCHANGED <<fbuf, valid>>
           \/ /\ Len(pages) = SectorSize
              /\ fbuf' = [u \in Units |->
                            IF SectorOf(u) = s /\ valid[s] = SECTOR_INVALID
                            THEN pages[(u % SectorSize) + 1] ELSE fbuf[u]]
              /\ valid' = [valid EXCEPT ![s] = VerifiedState(s, pages)]
              /\ Judged(job, valid')

(* checkFlashCB_read_sector compares check values, here taken to tell      *)
(* different sectors apart; it skips sectors that hold no data.            *)
MutCheckStep(job) ==            \* sectors without data are compared too
    /\ UNCHANGED <<flash, fbuf, written>>
    /\ valid' = [valid EXCEPT ![job.sec] = Compared(Equal(job.sec))]
    /\ Judged(job, valid')

CheckStep(job) ==
    /\ UNCHANGED <<flash, fbuf, written>>
    /\ \/ /\ valid' = [valid EXCEPT ![job.sec] =
                         IF @ = SECTOR_INVALID THEN @ ELSE Compared(Equal(job.sec))]
          /\ Judged(job, valid')
       \/ /\ MayFail /\ valid[job.sec] # SECTOR_INVALID
          /\ Done("error")                      \* no usable workspace
          /\ UNCHANGED valid

(* printmemMapCB_info prints an entry a step. *)
PrintStep(job) ==
    /\ IF job.cnt < MapEntries
       THEN Again([job EXCEPT !.cnt = @ + 1]) ELSE Done("printed")
    /\ UNCHANGED flashVars

(* Every callback first makes sure that the target is in debug state. *)
JobStep(job) ==
    \/ /\ state # "run"
       /\ \/ job.kind = "erase"   /\ EraseStep(job)
          \/ job.kind = "program" /\ ProgramStep(job)
          \/ job.kind = "verify"  /\ VerifyStep(job)
          \/ job.kind = "check"   /\ CheckStep(job)
          \/ job.kind = "print"   /\ PrintStep(job)
    \/ /\ state = "run"
       /\ Done(FailureOf[job.kind])
       /\ UNCHANGED flashVars

(* doCallback.  Only under the fake continue are messages queued; an empty *)
(* one writes nothing.                                                     *)
DoCallback ==
    \/ /\ queue = <<>>
       /\ UNCHANGED <<flashVars, jobVars, console>>
    \/ /\ queue # <<>>
       /\ JobStep(Head(queue))
       /\ console' \in (IF fakeMode THEN {console, TRUE} ELSE {console})

-----------------------------------------------------------------------------
(* Requests of gdb at the prompt. *)

(* monitor ProgramFlash, VerifyFlash, CheckFlash, EraseFlash, MemMap: the  *)
(* first step of the job moves both ends on to the sector asked for.       *)
LastOf(s, count) == IF s + count > NumSectors THEN NumSectors - 1 ELSE s + count - 1

NewJob(kind, s, count) ==
    [kind |-> kind, from |-> s, sec |-> s, last |-> LastOf(s, count),
     cnt |-> IF kind \in {"program", "verify"} THEN -1 ELSE 0, temp |-> <<>>]

MutStart(kind, s, count) ==     \* a pending job does not refuse the request
    /\ state = "prompt"
    /\ queue' = Append(queue, NewJob(kind, s, count))
    /\ Len(queue) < 2
    /\ pending' = InProcessOf[kind]
    /\ UNCHANGED <<flashVars, console, hostVars>>

Start(kind, s, count) ==
    /\ state = "prompt"
    /\ ~InProcess
    /\ queue' = Append(queue, NewJob(kind, s, count))
    /\ pending' = InProcessOf[kind]
    /\ UNCHANGED <<flashVars, console, hostVars>>

StartFlash == \E kind \in Kinds \ {"print"}, s \in Sectors :
                \E count \in 1 .. NumSectors - s : Start(kind, s, count)
StartPrint == "print" \in Kinds /\ Start("print", 0, 1)

(* monitor FlashState reports a result once and forgets it. *)
FlashState ==
    /\ state = "prompt"
    /\ pending \in Results
    /\ pending' = "none"
    /\ UNCHANGED <<flashVars, queue, console, hostVars>>

Touch ==
    /\ state = "prompt"
    /\ InProcess => "touch" \in Client
    /\ UNCHANGED <<jobVars, console, hostVars>>

Read(S)     == Touch /\ ReadFlash(S)
Write(S, v) == Touch /\ WriteFlash(S, v)

(* ^C at the prompt removes the callbacks, but only an erase is ended. *)
Interrupting ==
    /\ state = "prompt"
    /\ \/ "interrupt" \in Client
       \/ "interrupt erase" \in Client /\ (InProcess => pending = "erasing")

InterruptPrompt ==
    /\ Interrupting
    /\ queue' = <<>>
    /\ pending' = IF pending = "erasing" THEN "program failed" ELSE pending
    /\ UNCHANGED <<flashVars, console, hostVars>>

SetFakeContinue ==
    /\ state = "prompt" /\ "fake" \in Client
    /\ fakeMode' = ~fakeMode
    /\ UNCHANGED <<flashVars, jobVars, console, state, talk>>

(* continue: with FakeContinue set the target stays in debug state. *)
Continue ==
    /\ state = "prompt"
    /\ InProcess /\ ~fakeMode => "resume" \in Client
    /\ state' = IF fakeMode THEN "fake" ELSE "run"
    /\ UNCHANGED <<flashVars, jobVars, console, fakeMode, talk>>

Stopped ==
    /\ state = "run"
    /\ state' = "prompt"
    /\ UNCHANGED <<flashVars, jobVars, console, fakeMode, talk>>

(* The end of the connection is seen where a request is read; nobody clears *)
(* the queue or the status.                                                *)
Close ==
    /\ "close" \in Client
    /\ state = "prompt" \/ (state = "fake" /\ talk = "reading")
    /\ state' = "closed" /\ talk' = "idle"
    /\ UNCHANGED <<flashVars, jobVars, console, fakeMode>>

Accept ==
    /\ state = "closed"
    /\ state' = "prompt"
    /\ UNCHANGED <<flashVars, jobVars, console, fakeMode, talk>>

(* getpacket, putpacket and the loop over a running target call back while *)
(* there is nothing to do.                                                 *)
WaitCallback ==
    /\ queue # <<>>
    /\ \/ state \in {"prompt", "run"}
       \/ state = "fake" /\ talk \in {"reading", "answer"}
    /\ DoCallback
    /\ UNCHANGED hostVars

-----------------------------------------------------------------------------
(* gdb_handle_fake_continue. *)

(* The messages, packed into one, are offered to gdb by an Fwrite. *)
FakeWrite ==
    /\ state = "fake" /\ talk = "idle" /\ console
    /\ talk' = "reading" /\ console' = FALSE
    /\ UNCHANGED <<flashVars, jobVars, fakeMode, state>>

(* gdb reads the message and then answers the Fwrite. *)
FakeRead ==
    /\ state = "fake" /\ talk = "reading"
    /\ talk' = "answer"
    /\ DoCallback
    /\ UNCHANGED <<fakeMode, state>>

FakeAnswer ==
    /\ state = "fake" /\ talk = "answer"
    /\ talk' = "idle"
    /\ DoCallback
    /\ UNCHANGED <<fakeMode, state>>

(* With nothing to write the loop does not look at the connection. *)
FakePoll ==
    /\ state = "fake" /\ talk = "idle" /\ ~console /\ InProcess
    /\ DoCallback
    /\ UNCHANGED hostVars

MutFakeEnd ==                   \* waits until there is a result
    /\ state = "fake" /\ talk = "idle" /\ ~console /\ pending \in Results
    /\ state' = "prompt"
    /\ UNCHANGED <<flashVars, jobVars, console, fakeMode, talk>>

FakeEnd ==
    /\ state = "fake" /\ talk = "idle" /\ ~console /\ ~InProcess
    /\ state' = "prompt"
    /\ UNCHANGED <<flashVars, jobVars, console, fakeMode, talk>>

(* ^C instead of a read request: every job ends as a failed program. *)
MutInterruptFake ==             \* only an erase is ended
    /\ state = "fake" /\ talk = "reading" /\ "interrupt fake" \in Client
    /\ queue' = <<>>
    /\ pending' = IF pending = "erasing" THEN "program failed" ELSE pending
    /\ state' = "prompt" /\ talk' = "idle"
    /\ UNCHANGED <<flashVars, console, fakeMode>>

InterruptFake ==
    /\ state = "fake" /\ talk = "reading" /\ "interrupt fake" \in Client
    /\ queue' = <<>>
    /\ pending' = IF InProcess THEN "program failed" ELSE pending
    /\ state' = "prompt" /\ talk' = "idle"
    /\ UNCHANGED <<flashVars, console, fakeMode>>

FakeStep == FakeWrite \/ FakeRead \/ FakeAnswer \/ FakePoll \/ FakeEnd

Next ==
    \/ StartFlash \/ StartPrint \/ FlashState
    \/ \E S \in FlashBlocks : Read(S) \/ \E v \in Image : Write(S, v)
    \/ InterruptPrompt \/ SetFakeContinue \/ Continue \/ Stopped \/ Close \/ Accept
    \/ WaitCallback
    \/ FakeStep \/ InterruptFake

Spec == Init /\ [][Next]_vars

(* The server never rests inside the fake continue, and gdb answers the    *)
(* requests of an Fwrite; nothing else that gdb does is fair.              *)
FairSpec == Spec /\ WF_vars(FakeStep)
=============================================================================
