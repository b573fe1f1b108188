# Verification of the JTAG-GDB server

This directory models the one program of the repository that is a system: the
JTAG-GDB server for ARM in `src/cBase/gdb/gdb_server/jtag` (below, file names
without a directory are in there). It sits between gdb, which speaks the remote
serial protocol over TCP or a serial line, and the debug logic of an ARM core,
which it reaches bit by bit over JTAG. The rest of the repository is a collection
of exercises (signal processing, C lessons, UART programs) and a vendored gdb 8.1.

- [The system](#the-system): the inventory
- [The modules](#the-modules): what stands for what
- [The runs](#the-runs): what TLC checks, with which bounds
- [The proofs](#the-proofs): what TLAPS checks
- [Where code and comments disagree](#where-code-and-comments-disagree)
- [What is not modelled](#what-is-not-modelled) and [the plan](#the-plan)

To repeat the work, in this directory: `tlc -config MCSessionLists.cfg MCSession`
and so on for the other configurations, `tlapm X.tla` for each X of
`GdbMemoryProofs`, `SessionProofs`, `FlashJobsProofs`, `FlashDataProofs`,
`WorkspaceProofs`, `ScanChainProofs`, `MemoryMapProofs` and `PacketsProofs`.
`PROJECT.json` lists runs, theorems and the lines of source each definition stands for.

## The system

The server is one thread. Its main loop serves gdb at "the prompt", resumes or
steps the core, polls until the core is in debug state or gdb sends something, and
returns to the prompt. Concurrency comes from three sides: the program on the
target, which executes and stores while the server waits; gdb, which may send ^C
or close the connection at any wait; and background jobs, which take one step in
every wait.

| Component | State | Operations | Hard behaviours | What makes it correct |
|---|---|---|---|---|
| Session loop (`arm_gdbstub.c`: `gdb_main_loop`, `gdb_handle_exception`, `gdb_restart`; `arm_gdbserver.c`) | mode, registers, `symbolMain` | read, write, insert, remove, continue, step, detach, kill, restart, accept | ^C against a breakpoint; what is flushed or forgotten on which path out of the prompt | gdb and the program see one memory; a step executes the program's instruction |
| RAM cache (`arm_memory_read.c`, `arm_memory_write.c`) | `memBuffer`, a write bit per byte, a read bit per page | load, write, write back, invalidate | partly valid pages, staleness after the target ran | the cache cannot be observed |
| Breakpoint lists (`arm_gdbstub_break.c`) | HW list, SW list with saved instructions | insert, remove, set up units, plant, look up | ARM against Thumb granularity; where the saved instruction comes from | two units suffice; inserting and removing is no change to the program |
| ICE-RT units (`jt_arm_iceRT.c`) | the registers of two comparators | any breakpoint, hardware, software, clear | registers keep what the last use left | every listed breakpoint stops the program |
| Background jobs (`arm_gdbstub_callback.c`, fake continue in `arm_gdbstub.c`, `arm_gdbstub_rcmd.c`) | a queue of callbacks, one status word for all of them, queued console output | start, step, report, cancel | a job cancelled between two steps; a wait that only a job can end | one job at a time; every wait ends |
| Flash (`arm_flash_program.c`, `_verify.c`, `_readchk.c`, `_erase.c`, `jt_flash.h`, flash part of the cache) | image buffer, write bitmap, a state word per sector | download, read, erase, program, verify, check | a sequence of requests leaves a flag that is no longer true; failures and ^C in the middle of a sector | what is marked valid, erased or programmed is; nothing is lost |
| Packets (`getDebugChar`, `getpacket`, `putpacket`) | a cache of characters read, the packet that waits for its + | receive, refuse, send, resend | damaged packets, late answers, a + that belongs to an older packet, ^C between packets | each request is dealt with once and gets its own answer |
| Memory map, command sequences (`arm_memory_mmap.c`, `arm_sfa_cmdseq.c`) | maps, entries, active map, workspace entry, sequences with remembered entries | allocate, update, use, drop, bind, run | 32 bit ends of regions; what is remembered of a map that is changed, dropped or replaced | an address is found in the entry it lies in; buffers fit; a sequence touches special function areas only |
| RAM workspace and DCC (`arm_memory_workspace.c`, `arm_dcc_dummy.c`) | workspace mode and state, displaced RAM | use, give back, change the mode | displaced contents against cache and write back; a program loaded inside a write back | contents return before the program runs |
| Core access (`jt_arm.c`, `jt_arm_support.c`) | saved registers | feed an instruction, save, restore, classify | pipeline offsets, classification of stores | registers and memory as the program left them |
| JTAG (`jt_instr.c`, `jt_tap.c`, `jt_direct_io.c`) | TAP state; the scan chain and the instruction selected last | select, shift, reset | a remembered selection after a reset or an unnoted restart; endless polls | every shift reaches the chain it is meant for; every poll ends |

How they meet: every memory packet goes through the cache; a breakpoint insertion
reads the cache and a removal writes it; leaving the prompt writes the cache back,
plants breakpoint instructions through it and programs the units, in this order;
entering the prompt sets unit 0 to stop on any instruction. The callbacks of jobs
run inside `getDebugChar`, `putpacket`, the poll loop and the fake continue, so
between any two characters of a packet, and they share the flash entry's buffer and
sector states with the memory packets. Monitor commands (`qRcmd`) change memory maps,
workspace mode and command sequences at the prompt, between any two memory packets; a
write back may itself borrow RAM for a downloaded program; and everything that
reaches the core does so over a scan chain that one function selects and the next
takes for granted.

## The modules

    RamCache, WritePieces
      └─ GdbMemory ─┬─ DebugSession ── SessionProperties ─┬─ MCSession
                    ├─ Workspace ─┬─ MCWorkspace          └─ SessionProofs
                    │             └─ WorkspaceProofs
                    ├─ MCGdbMemory
                    └─ GdbMemoryProofs ── SessionProofs, WorkspaceProofs
    FlashRegion ── FlashJobs ── FlashProperties ─┬─ MCFlash
                                                 └─ FlashJobsProofs ── FlashDataProofs
    ScanChain ── ScanChainProofs
    MemoryMap ─┬─ MCMemoryMap
               └─ MemoryMapProofs
    Packets ─┬─ MCPackets          (Packets implements Dialogue)
             └─ PacketsProofs
    FlatMemory  (implemented by GdbMemory, DebugSession and Workspace)

**FlatMemory** is the abstract specification that `GdbMemory`, `DebugSession` and
`Workspace` implement: one memory that gdb reads and writes
while the target stands and the target stores to while it runs. It has no cache,
no breakpoints and no modes but running and stopped.

**RamCache** is the cache of one RAM entry: `target`, `buf`, `dirty`, `pages` for
the RAM, `memBuffer`, `writeByteBitmap` and `readPageBitmap`. A cell is a halfword,
the unit in which breakpoint instructions replace code; the bitmap of the code has a
bit per byte, and blocks that split a halfword are left out. `LoadedBuf` is
`gdb_read_mem` (a page is loaded around the cells that wait to be written),
`WrittenBack` is `gdb_writeback_Ram`.

**GdbMemory** is the memory session without breakpoints: packets `m` and `X`,
continue, step, and the target's stores. A block may reach over the end of the
entry: a read then changes nothing, a write has written what fits.

**DebugSession** adds everything the session loop does to breakpoints, units,
program counter and connection. Each handler is one action with all the calls the
handler makes: `Run` for instance is the temporary breakpoint at `main`, the write
back, the planting, the second write back, the unit set-up, the command sequence and
`gdb_invalidate_Ram_Buffer`. `Emulated`, `Halted`, `Interrupted` and `Attached` end
with the top of the main loop, which removes the breakpoint at `main`. The program is
`RunInstr` and `StepInstr`: it fetches from the target's RAM, planted breakpoints
included, stores if the instruction is a store, and goes to any instruction of
`Code`. The units are modelled as registers, because the code writes some of them
and relies on the rest; `Matches` is what the core's comparators do with them.

**FlashRegion** is the flash of the target, the image buffer, `writeByteBitmap` and
the state word of each sector, as the set of its flags (`jt_flash.h:37`).
**FlashJobs** is the queue, the status word and the jobs: `DoCallback` runs one step
of the job at the head of the queue, and appears in each action where the server
waits (`WaitCallback` for `getDebugChar`, `putpacket` and the poll loop;
`FakePoll`, `FakeRead`, `FakeAnswer` for the fake continue). A step of a job is a
step of its callback function: a sector of an erase; the erase, the unlock or some
units of a sector of a programming; a page of a verify; a sector of a check. How many
units a step programs differs with the chip, so any number is allowed.

**WritePieces** is how `gdb_writeback_Ram` cuts a run of modified bytes into byte,
halfword and word accesses: pure functions of the start and the length of the run.
`GdbMemory` writes a run back in one step; its property `RunsWrittenExactly`, and the
theorems `PiecesExactAligned` and `RunsWritten`, are why it may.

**Workspace** extends `GdbMemory` by the RAM the server borrows. A flash job enters
the workspace (`UseWorkspace`), which saves its pages into the buffer and marks them
as written; `gdb_writeback_Ram` becomes `WsWriteBack`, which may load the writing
program into the workspace first (`WriterLoaded`) and returns what was displaced
(`Restored`). A cell is a word here. `ChangeWorkSpaceMode` and `UseMemMap` are the
monitor commands that take the workspace away or begin a new buffer. Whatever words
of the server end up in the workspace, any subset of its cells may hold them.

**ScanChain** is the server below the cache: each function of `jt_arm.c` and
`jt_arm_iceRT.c` that shifts, cut at its polls, with `scan_chain` and `scan_mode`,
which the server remembers, against `ir` and `sel`, which the TAP has. The core moves
between any two steps. The variable `pc` is the place in the server's code, `req`
what it serves: an access, a long one, a block moved by a downloaded program, a step,
a continue, a request to stop, a restart.

**MemoryMap** is what the monitor commands make: memory maps, their entries with the
buffer each was given, the workspace entry, the command sequences and their bindings.
Numbers are 0 for none where the code has -1 or NULL. Addresses wrap at `2 * Half`.
`UseMemMap` here is the part of the command that concerns the maps; the write back
before it is in `Workspace`.

**Packets** is the line between gdb and the server: a packet is one item, so is each
character outside of packets. The server's half is the three functions and their
callers (`at` says which of them waits, `then` where it goes on). Where `putpacket`
waits for a +, each other character makes it send its packet again, so a packet that
comes instead of the + costs as many copies as it has characters (`Resend`), unless
there is a + in it, which ends the wait (`AckedInside`). gdb's half is
`putpkt_binary`, `getpkt_or_notif_sane_1`, `remote_wait_as`, `remote_interrupt_as` and
`remote_fileio_request` of the gdb 8.1 in the repository. gdb sends its packet again
when line and server are quiet (`SendTimeout`), but also when it just had no
+ in time (`LateAck`), though the packet lies unread before a server that is busy with
a callback (`arm_gdbstub.c:222`) or the + is on its way. **Dialogue** is what this
is for: ask, handle, answer, in turn.

The properties are at the end of `GdbMemory`, `Workspace`, `ScanChain`, `MemoryMap`
and `Packets`, in **SessionProperties** and in **FlashProperties**. Operators named `Mut...` stand next to the operator they
mutate: each is the code with a plausible bug, and shows that the property it
belongs to can fail. They are used by no action.

### What gdb is assumed to do

The models do not let gdb do everything a hostile client could. Each restriction is
a constant or a set, named here with its reason.

- `RemovesFirst` (sessions with data): gdb does not read or write the cells of a
  breakpoint while it is inserted. gdb inserts its breakpoints when it resumes and
  removes them when the target has stopped ("breakpoint always-inserted off"). The
  server does not protect a client that does otherwise: a write on an inserted
  software breakpoint is undone by its removal.
- The requests of a run never put an ARM breakpoint over a Thumb breakpoint in the
  same RAM word, and never ask for an ARM breakpoint at an address that is no
  multiple of 4; ARM words are written whole. See
  [below](#where-code-and-comments-disagree) for what happens otherwise.
- `ListensAgain`: after a connection the server exits unless `errno` happens to be 0
  (`arm_gdbserver.c`). The session with data is checked for one connection, the lists
  for two; [below](#where-code-and-comments-disagree) is what a second one meets.
- `Client` (flash): the set of things the user does beside starting jobs and waiting
  for them. Properties that need a quiet user are checked in `flash_program` with
  none of them, the others in `flash_fake` with all but `"interrupt"`, the ^C at
  the prompt during a job that is not an erase.
- `FlashBlocks` of `flash_program` end inside their sector.
- `Careful` of `Workspace`: the workspace is entered only while no page of it is in
  the buffer with a cell that is not marked as written. `workspace_not_restored`
  drops it.
- `Careful` of `ScanChain`: the TAP is reset only while chain 2 is not the one the
  server remembers, as a plain memory access leaves it. A reset over a remembered
  chain 2 is followed by a read of the status without a selection: it reads the
  identification of the device instead, which decides whether the server waits for
  ever or goes on with a core that runs.
- `Careful` of `MemoryMap`: the user changes no entry of the map in use (`map_in_use`
  drops it), gives regions inside the address space that end before its last address
  if they begin in its lower half, and deletes an entry with no length. Otherwise a deleted entry
  still hides another, and a region that ends at 2^32 is never found.
- `Users` (packets): `"careful"` users type no ^C while the fake continue
  lasts and look at the stopped program before they continue it; both kinds are in
  the run, and properties that need the first kind say so.
- `Lines` and `MaxFaults` (packets): the protocol of the server has no numbers on its
  packets, and bears few faults. A `"noisy"` line damages two packets, a `"slow"` one
  makes gdb's patience end twice before an answer has come (`Late`), and its user types
  ^C; a `"busy"` one makes it end once before the + has come (`LateAck`) and has no ^C.
  `Bearable` says so, and this is what more of them do, as TLC finds:
  - After the third damaged or late answer gdb gives the request up ("Ignoring packet
    error, continuing...") and no longer knows which answer belongs to what. With both
    kinds on one line the + of an old answer may end the server's wait for that of a
    damaged one, with the same effect.
  - After the second late + the server may find two copies of a request on its line
    (`remote.c:8759-8790` sends without asking what became of the first): a + that is
    meant for an older packet, or one in the data of a copy, ends its wait, and it deals
    with the last copy as with a new request. So a request is handled twice, and a copied
    `c` resumes the program while gdb lets its user look at it. `InStep` and
    `HaltedForGdb` fail with `MaxFaults` 2 on a busy line.
  - One late + does the same after a ^C that came when the program had stopped
    already, and after a late answer: `putpacket` has then sent one answer too many, and
    gdb says + to it while it waits for the + of its next request. That + ends the
    server's wait after its next answer, so that it is back at the prompt when the second
    copy of the request comes.

## The runs

Passing runs (states are distinct states, times for two workers):

| Run | States | Question | Bounds |
|---|---|---|---|
| `memory` | 32 000 | Does the cache implement `FlatMemory` (`FlatSpec`)? Is nothing held back while the target runs, and each run written exactly? | 4 cells in 2 pages, 2 values; blocks in a page, across pages and over the end |
| `session_lists` | 1.3 million | Do lists, units and the breakpoint at `main` stay consistent in every order of requests? | 2 RAM and 3 flash addresses, one of them as ARM and as Thumb code, 1 restart or reconnection, 1 value |
| `session_memory` | 490 000 | With breakpoints, steps, runs, interrupts and a restart: is memory still flat (`Transparent`), does a step feed the program's instruction (`StepsProgram`), do lists never change the program, is the buffer true at the prompt? | 3 RAM cells in 2 pages, an ARM instruction and a cell of data, 2 values |
| `flash_program` | 830 000 | Are the sector states true, is what is reported as programmed or equal so, is nothing lost, programmed twice or forgotten? | 2 sectors of 2 units, 3 unit contents, chips that do not fail, a quiet user |
| `flash_fake` | 280 000 | Failing chips, lost connections, flash touched during a job, a resumed target, ^C in the fake continue: every status has its job, no download is lost, and the fake continue ends | 2 sectors of 1 unit, 2 contents, 2 map entries |
| `workspace` | 385 000 | Is borrowed RAM given back before the program runs (`ProgramRunsClean`), is what it displaced kept (`DisplacedKept`), is it invisible (`WsFlatSpec`)? | 5 words in 5 pages, 2 of them the workspace, 2 values, one program for flash jobs and one for writing |
| `scan_chain` | 360 | Is the core held at the prompt, is its stop explained, does each shift reach its chain, does every wait end? | none but `Careful`; the identification reads like "stopped" |
| `map` | 300 000 | Are addresses found, do buffers and workspace fit, do sequences stay in the special function areas? | 8 addresses, pages of 2, maps of 2 and 1 entries, 7 lines the user may give, 1 sequence of 2 commands |
| `packets` | 140 000 | Is each request dealt with once and answered, does the program stand still while gdb asks, does only ^C interrupt it, is gdb served? | 5 requests, 1 message; 2 packets damaged or answered late or 1 late +; packets of 5 or 6 characters |

Why these bounds are enough to be interesting. Two units and two lists interact
with at most three breakpoints, so five addresses reach every full, half full and
refused combination, and `main` as a sixth claim on a unit. Cells matter only in
how they relate to a page, to a block and to a breakpoint, so two pages, and blocks
that lie in one, across both and over the end, cover the cases; two values tell old
from new. A job looks at its sector, the sectors before it and the last one: with
two sectors a job has a first and a last, and a request may leave one out; with two
units a sector may be half programmed or half read. The workspace run has a run of
modified words that the writing program may write, one that is too near to the
workspace, and pages of the workspace read and unread. The address space of 8 has a
region on each side of the sign bit, one that ends at the last address, one that is
cut to whole pages and overlapping ones. Five requests are enough for a resent
request, a late answer to it, a stop and a fake continue in one behaviour. No packet
is shorter than five characters (`$`, one letter, `#` and two digits); more
copies of an answer than that are more of the same for gdb, which takes one of them at
most and throws the others away. The theorems leave the lengths open.
`MaxSessions`, `Turns`, `MaxFaults`, `Messages`, `Lengths`, `Rooms`, `Seqs` and `Commands` bound
what would grow; nothing else in the models grows without bound, so all runs are
exhaustive.

The session runs do not check for deadlock, since the server exits after `Kill`
and stays in `detached` after `Detach`; the flash, workspace and
scan chain runs do. `map` stops when every number is given and `packets` when gdb has
made all its requests.

**Fairness.** The session modules state no liveness: whether a program ever stops
is up to the program. `FlashJobs` has weak fairness of `FakeStep`, the steps of the
fake continue. It is justified by the code, a loop that polls without sleeping, and
by gdb, which answers the `Fwrite` request of a stub within its own command loop.
Nothing gdb's user does is fair: the user may close the connection or type ^C, or
never do. `FakeEnds` then says that the fake continue ends.

`ScanChain` has weak fairness of the server, which is one loop without a sleep, and
of the core: it obeys a debug request and a unit that matches every instruction, and
returns from an access at system speed. Nothing makes the program meet a breakpoint
and nothing makes gdb ask. `Answered` then says that every wait on the debug status
ends. `Packets` has weak fairness of the server, of gdb's reading and resending, and
of the end of a job; the user, the line and the program are free. `Served` then says
that gdb gets its answer, and that a ^C stops the program.

Runs that show a disagreement of code and comment: `unit0_misses_break`,
`workspace_not_restored`, `map_in_use`. They are explained below.

## The proofs

TLC answers for the instances above; the theorems hold for every value of the
constants that the assumptions named in the modules allow.

**GdbMemoryProofs** (assumptions: the RAM has a natural number of cells, a page at
least one, stores go to RAM). The invariant is

    Inv == TypeOK /\ BufferTrue /\ (mode = "run" => pages = {}) /\ NothingHeldBack

`BufferTrueAtPrompt` is not inductive: it says nothing of the buffer while the
target executes, and the stop leads from there to the prompt. The strengthening
says why the stop is safe: the only mode in which the program stores has no page
marked as read, so the buffer is true in every mode. `NothingHeldBack` is part of it
because a store under a pending write would be overwritten later. From the invariant follow

- `TypeCorrect`: `Spec => []TypeOK`,
- `BufferNeverStale`: `Spec => []BufferTrueAtPrompt`,
- `NeverHeldBack`: `Spec => []NothingHeldBack`,
- `ImplementsFlatMemory`: `Spec => FlatSpec`, the refinement. Initial states map to
  initial states; a load changes no cell of `WrittenBack` (lemma `LoadedIsSeen`), and
  each other action is one step of `FlatMemory` under the map `mem <- WrittenBack`,
- `PiecesExactAligned`, about the functions of `WritePieces` alone: each of the five
  pieces of a run is aligned to its own size and begins where the one before it ends,
  and the last one ends where the run ends. The lemmas are about the remainders modulo
  2 and 4. `RunsWritten`: `Spec => []RunsWrittenExactly` says so of the runs of cells
  that wait to be written back, for every RAM.

**SessionProofs** (beside these: `RequestsAssumption`, gdb asks for breakpoints of 2
or 4 bytes at natural addresses, and a breakpoint whose first cell is in RAM lies in
RAM, which holds whole words). The first invariant is

    ListsInv == CacheTypeOK /\ ListTypes /\ InstructionsSaved /\ MainType /\ UnitBudget

`UnitBudget` bounds the lengths of the lists, so it needs them to be sequences
(`ListTypes`); a removal writes the saved instruction to the buffer, so that
`CacheTypeOK` needs each to be whole and in RAM (`InstructionsSaved`), and it was
taken from the cache when it was saved. `MainType` says that the breakpoint at `main`
is a request like another. On it rest

- `TwoUnitsSuffice`: `SessionSpec => []UnitBudget`,
- `EveryBreakpointArmed`: `SessionSpec => []UnitsArmed`. Only `Run` leads from the
  prompt to the running program (lemma `RunningStep`), and lists within the budget are
  set up completely (lemma `SetupArms`); a type for the unit registers is carried
  along, because `jtag_arm_PutSWBreakPoint0` and `1` keep part of what they hold. That
  the unit of the software breakpoints is armed does not say that it matches: see
  `unit0_misses_break`.
- `NoHardwareBreakMissed`: `SessionSpec => NoBreakMissed`, since the program goes on
  only where no unit matches (`RunsOn`) and an armed hardware breakpoint does
  (`ArmedStops`).
- `BufferTrueInSession`: `SessionSpec => []BufferTrueAtPrompt` if `~ListensAgain`. The
  strengthening `BufferInv` adds that no page is in the buffer while the program runs,
  during `monitor Restart`, and before a single step of a store. It does not hold between
  two connections.
- `AddressesListedOnce` and `ListedCanBeRemoved`: `DistinctEntries` and
  `ListedIsRemovable`, if `ArmRequestsAligned`: gdb asks for an ARM breakpoint at a
  multiple of 4. Entries have the address they were asked for, so that an address
  matches an entry only if it is the entry's (`OnceInv`, lemma `NewAddress`). Without
  the assumption both fail, by the rounding described below.
- `BreaksInPlace`: `SessionSpec => []BreaksPlanted` if `StoresKeepOff`, for any client
  and any number of connections. The budget matters here: `gdbWriteSoftwareBreakToRAM`
  plants nothing while two hardware breakpoints are listed.
- `SessionIsTransparent`, `ListsKeepProgram` and `StepsExecuteProgram`: the refinement
  `Transparent` and the properties `BreakpointsKeepProgram` and `StepsProgram`. They
  assume `RemovesFirst`, `~ListensAgain`, `ArmRequestsAligned` and `CodeLayout`: gdb asks
  for breakpoints on instructions of the program, which lie in one page, do not overlap,
  are written as a whole and are not stored to. The run `session_memory` is such a
  session. The invariant `ProgramInv` joins those above and says that each software
  breakpoint is one of the requests, and that of the cells of an instruction all wait to
  be written back or none (`DirtyWhole`). That is what `InsertBreakpoint` relies on when
  it takes the old instruction from the buffer or from the target (lemma
  `CapturedIsSeen`), and without it half an ARM instruction is lost, as described below.
  `Behind` is the memory behind any list; listing an instruction as it is
  (`BehindAppend`) and putting it back (`BehindRemove`) change nothing there, and a
  lookup in list, buffer or target finds the same instruction (`LookupIsSeen`).
- `SessionTypes`: `SessionSpec => []SessionTypeOK`.

**FlashJobsProofs** (assumption: the kinds of jobs are the five of the code). The
invariant says that the queue is empty or holds one job for which the status word
stands, and that a status in process has its job unless `"interrupt" \in Client`.
Of the queued job its fields and its kind must be known: a job queues itself again
with some fields changed, and `OneJob` alone does not say that the kind is among
those the status can stand for, which is what refuses the next request.

- `QueueInvariance`: the invariant itself,
- `AtMostOneJob`: `Spec => []OneJob`, for every flash, every client, with failures,
  reconnections and ^C,
- `PendingIsServed`: `Spec => []PendingHasJob` for clients that do not type ^C at the
  prompt during a job that is not an erase. With such a ^C it fails.

**FlashDataProofs** carries this on to the contents of flash and buffer:

- `FlashTypes`: `Spec => []FlashTypeOK`, and `DownloadsStay`: `Spec => DownloadKept`, for
  every client, block and failure.
- `MarkedReadIsTrue`, `MarkedErasedIsTrue`, `NothingIsTorn`, `ProgramReportsTruth` and
  `VerifyReportsTruth`, if `Quiet`: chips do not fail, and during a job gdb does no more
  than begin the fake continue or close the connection. Without it they fail (a ^C in the middle of
  a sector, gdb touching flash between two steps of a programming). The invariant
  (theorem `DataInvariance`) says that the flags of every sector are true of flash
  and buffer except for the sector a programming is in the middle of, and adds what the
  queued job has done so far (`JobTrue`): the sectors before the current one are
  programmed or compared, in it the units below the count are programmed and those above
  still erased, and the page a verify has read is that of the flash. None of the five
  properties is inductive without the others: a programming that skips the erase
  relies on the flag of the sector, which is true because of what earlier jobs did.
- `ForeignSurvives`: `Spec => NoForeignLoss` for every client and failure, if
  `InnerEnds`: no block marks a sector it does not touch. A block that ends with its
  sector does, see below.

**WorkspaceProofs** (`SegAssumption`: the workspace is whole pages at the top of the
RAM; `Careful`). The invariant is that of `GdbMemoryProofs` with

    buf \in [Ram -> Values], \A a \in Ram : target[a] = Brk => a \in dirty,
    Loaded => Seg \subseteq dirty

where `Loaded` says that a program of the server is in the workspace. `DisplacedKept`
alone is not inductive: with a program loaded already nothing is saved again when the
next one comes, and its words may reach other cells of the workspace. So all of the
workspace must be marked as long as one is loaded, which is where `Careful` is needed
(lemma `EnterAllDirty`). The central lemma is `ReturnedIsSeen`: whatever the
server put there, a write back leaves the target as gdb saw it. From it follow
`RunsClean`, `KeepsDisplaced` and the refinement `WorkspaceTransparent`.

**ScanChainProofs** (`Careful`). The invariant is `CacheTrue`, what the server
remembers is what the TAP has, except for the two places named in it, with a type of
`req` at each place and what is known of the core, of `is_debugrequest` and of unit 0
there (`CoreHeld`, `Believed`, `UnitSet` and the like). With it a read of the status
is true (lemma `StatusIsTrue`) and a write of a unit arrives (`WriteArrives`), so that
`HeldAtPrompt`, `CauseIsTold` and `NothingAstray` need no more than a look at each
step. `Answered` stays with TLC.

**MemoryMapProofs** (`SizeAssumption`, `UserAssumption`, `Careful`). The invariant
says of every map that its entries lie in the address space and do not overlap, of
every entry whether it has a buffer and which, of the workspace that it is an entry
of the map in use with the length it needs, and of every remembered entry that it
is the one the address lies in. The lemmas about 32 bits say that `Overlaps` and
`Reaches` mean what they look like for such regions. From it follow `LookupCorrect`,
`BuffersAlwaysFit`, `WorkspaceAlwaysFits` and `SequencesStayInSfa`, for every number
of maps, entries and commands.

**PacketsProofs** (`PacketsAssumption`, which says no more than the types of the
constants). The invariant is `IInv`: a conjunction `PInv` holds until a third packet is
damaged or answered late, and on a busy line until the first late +; there another one,
`BInv`, holds until the second. The parts of `PInv` are

- what may be on the two lines (`OnTheLines`): behind gdb's packet come only the + for
  older ones, there is at most one copy of it or one sign for it on the way, and none
  once gdb has seen its +;
- where server and gdb are for that: when gdb has none of its own (`Turn`), before the
  server has the request (`Unseen`), when it has been asked (`Asked`) and when it runs
  the program (`Running`). Each of the last two says which answers gdb may still take:
  `Fresh` leaves out the frames that gdb will throw away on its way to the +;
- why nobody gives up (`Owed`, `Answerable`, `Patience`): every try of gdb, and
  everything on the lines that will cost it one, is paid for by a fault. With two of
  them gdb never runs out of tries;
- what is known before the first fault of a careful user (`Faultless`, `OneReply`,
  `Sole`, `Alert`): one answer at most is on the line, a `c` comes alone behind +, and
  while the program runs only a ^C can be on its way to the server.

`BInv` shares `Turn`, `Unseen`, `Answering` (of `Asked`) and `Running` with it. Two
copies of gdb's packet may be on the line, and `Lively` tells the one the server will
deal with from the one that its next `putpacket` eats: the latter stands first in a line
that a server in `putpacket`, or on its way there, looks at. If the server has read none
of them, they are the end of the line, behind nothing but +, so that the second is first
when the first has been taken. That there is never a third, and never one
more answer than gdb will take or throw away, is because server and gdb speak in turn
until the + is late (`Lockstep`).

None of the properties is inductive: that the server deals with a request once
depends on which copies of it may still arrive, and that on how often gdb may send it,
and this on the faults. From `IInv` follow, with `Bearable(line)` for what was just said
(2, and 1 for a busy line),

- `PacketTypes` and `Halted`: `Spec => [](faults <= Bearable(line) => HaltedForGdb)` for
  every `MaxFaults`, and with `MaxFaults[kind] <= Bearable(kind)` the corollary
  `HaltedWithinFaults`. The bound is sharp: with one fault more TLC finds that
  `HaltedForGdb` fails, on a busy line by the copied `c`, on the others since gdb gives
  up after three bad answers to its read of a message, the server goes back to the fake
  continue, and gdb asks its next request;
- `Interrupts`: `Spec => OnlyInterrupts`, for any number of faults;
- `PacketsImplementDialogue`: `Spec => InStep` with `MaxFaults[kind] <= Bearable(kind)`.
  Under the map `answered <- took` gdb's `AskSomething` and `Resume` are `Ask`, the
  server's `Work` and `Continue` are `Handle`, gdb's `TakeAnswer` and `Stopped` are
  `Answer`, and everything else stutters: refusing, sending again, the fake continue, ^C
  and the faults. `DialogueWhileBearable` says the same of each step up to the last
  bearable fault, for every `MaxFaults`.

**Only model-checked.** The liveness properties `FakeEnds`, `Answered` and `Served`, which
rest on fairness. Every other property of a passing run is also proved.

## Where code and comments disagree

With a run that shows it:

- `unit0_misses_break`: `jtag_arm_PutSWBreakPoint0` (`jt_arm_iceRT.c:453`) means to
  set the address mask of unit 0 ("Addr mask=ignore") and writes the address
  register. The mask keeps its last value; with the one of a hardware breakpoint
  (all bits but bit 0) or of `PutAnyBreakPoint` (bit 0 only) the unit matches no
  instruction, and the program runs into the planted breakpoint. It matters
  whenever there is no hardware breakpoint. A memory access through the workspace
  sets the mask to ignore everything and hides it.
- `workspace_not_restored`: `useWorkspace` saves and marks only those pages of the
  workspace that were not read before (`arm_memory_workspace.c:341`), though the
  comment at line 358 means all of them. If gdb has read the top of the RAM, the
  program goes on with a program of the server in it.
- `map_in_use`: `updateMemMap` wants to refuse changes of the map in use and compares
  its number with that of the entry (`arm_memory_mmap.c:231`).

Met while modelling, and kept out of the passing runs by a restriction or left
without a property:

- Detaching does not write the cache back (`arm_gdbstub.c:833`), so that a
  breakpoint just removed is still in the RAM of the target that is set free.
- A new connection resets the target and lets it run but keeps the pages read in the
  last one (`gdb_restart`). `monitor Restart` forgets them.
- ^C in the fake continue stops a programming between two units; the sector is half
  programmed and still marked as erased (`arm_flash_program.c:786`), and the next
  ProgramFlash programs over it without an erase.
- A download that ends with its sector marks the next sector as written
  (`arm_memory_write.c:194`). After VerifyFlash it counts as different and
  ProgramFlash erases it.
- ^C at the prompt drops the callbacks but ends only the status of an erase
  (`arm_gdbstub.c:816`); after it every job is refused and a fake continue never ends.
- A ^C that comes while `putpacket` waits for a + is taken for a request to send
  again (`arm_gdbstub.c:425`). In the fake continue it is fatal: gdb answers the
  doubled `Fwrite` with "interrupted", the server answers that with an empty packet
  (`:723`), and both wait. The packet sent after a ^C at line 727 is against the
  comment at line 693.
- `putpacket` takes any + for that of its packet, and the server any request for a new
  one. If gdb sends a request a second and a third time, since a callback that takes
  seconds keeps the server from reading the first (`arm_gdbstub.c:222`), the server may
  deal with it twice (see [above](#what-gdb-is-assumed-to-do)).
- A + left over from a packet that was sent twice interrupts the next run of the
  program, since the poll at `arm_gdbstub.c:1507` does not look at what came.
- `monitor UseMemMap` with a number that does not exist gives up the map in use
  before it fails (`arm_gdbstub_rcmd.c:1026`).
- A flash job of the same kind after a restart finds the state of the workspace
  unchanged and does not load its program again (`arm_memory_workspace.c:298`).
- Workspace mode 2 never finds a RAM: its loop asks for a pointer that is NULL at
  first (`arm_memory_workspace.c:170`).
- An interrupt by gdb that meets a breakpoint corrects the program counter for the
  wrong cause (`jt_arm.c:162`): `CauseTold` is about stops of the program itself.

- Of an ARM word of which gdb wrote one half only, the instruction saved by a
  breakpoint is read from the target and the half written is lost
  (`arm_gdbstub_break.c:281`).
- An ARM breakpoint over a word whose upper half already has a Thumb breakpoint is
  accepted (`arm_gdbstub_break.c:86` compares with the other entry's mask), and what
  is restored depends on the order of removal.
- An ARM breakpoint asked for at an address that is no multiple of 4 is stored
  rounded and cannot be removed (`:220` against `:334`).
- A failed erase of a Philips chip may have erased the sector, which stays marked as
  read (`MayFail` in `EraseStep`).
- gdb touching flash between two steps of a programming can make the report
  "programmed" wrong for a sector that was already done.
- Packet `M` answers E01 whatever it was asked (`arm_gdbstub.c:925` wants NULL from
  `hex2mem`, which returns the end of what it converted); gdb uses `X` instead, the
  request the models have.
- A breakpoint that cannot be inserted is answered with E03; the branch behind it
  (`arm_gdbstub.c:1119`, "we must tell gdb OK even if this is wrong") is never taken.
- A ^C that stops the running program skips `arm_sfa_StopPeriphery`
  (`arm_gdbstub.c:1507`), against `arm_sfa_cmdseq.c:310`; the model has it.

## What is not modelled

- Registers other than the program counter, and queries that only print.
- The characters inside a packet (escapes, sequence numbers, packets that are too
  long), and lost characters; a damaged packet has a wrong checksum. When a + in the data
  of a packet has ended the wait of `putpacket`, the next `getpacket` skips the rest of
  it; that it takes a 03 or 04 in the rest for a ^C or an end is not in the model.
- The words that go over the debug channel, and a workspace of its own in the memory
  map, which displaces nothing.
- IO and ROM regions, which are not cached or not written. `DebugSession` and
  `FlashJobs` have one RAM and one flash entry; `MemoryMap` has several, without
  their contents. A job whose memory map is dropped (`arm_gdbstub_rcmd.c:1033`) needs
  both and ends the server.
- The choice of chip algorithm. Chips differ in units per step and places to fail,
  and both are free in the model. Chip drivers, chip tables and the code downloaded
  to the target are command cycles of hardware the repository does not describe.
- Encoding of instructions, registers through the pipeline, the TAP and the bits.
- Allocation, and messages as text. Several queued messages are one flag, since they
  are sent in one `Fwrite`.
- gdb beyond its packet functions. The copy of gdb 8.1 in the repository (bfd,
  opcodes, sim and gdb, thousands of files) is another project's program, and nearly
  all of the repository's lines.
- The exercises under `dsp`, `image_process`, `advance`, `cBase`, `ios`, which have no
  state beyond a loop or are numerical. `ios/cbsys_example` (a list of callbacks
  changed during its dispatch) and `dsp/echo` (a ring buffer) are candidates for
  small modules.

## The plan

Done: the memory core and the session with breakpoints, both with refinement proofs;
flash and jobs with the theorems on queue and data; the write back in pieces; the workspace
with its refinement; the scan chains; the memory maps and command sequences; the packets,
which implement the dialogue while no more of them fail than the protocol bears. Next, in
order:

1. *Jobs and maps*: `FlashJobs` over the entries of `MemoryMap`, for `NoMemMap` with a
   queued job.
2. *Small programs*: the callback list of cbsys, the ring buffer of echo.
