----------------------------- MODULE MemoryMap ------------------------------
(***************************************************************************)
(* The memory maps of the target (arm_memory_mmap.c) and the command       *)
(* sequences that start and stop its periphery (arm_sfa_cmdseq.c), as the  *)
(* monitor commands build and use them.                                    *)
(*                                                                         *)
(* Maps, entries and sequences are counted from 1 here, and 0 stands for   *)
(* none (-1 or NULL in the code).  A request with a number that does not   *)
(* exist is an error of the code that changes nothing, and no step here.   *)
(***************************************************************************)
EXTENDS Integers, Sequences

CONSTANTS
    Half,       \* 2^31: addresses are 0 .. 2 * Half - 1
    Page,       \* RAM_PAGE_SIZE
    SegSize,    \* WORKSPACE_SEGMENT_SIZE
    Lines,      \* the entries the user gives: <<type, base, length>>
    Aimed,      \* the addresses of the commands the user gives
    Modes,      \* the workspace modes the user asks for
    Rooms,      \* the largest number of entries of each map
    Seqs, Commands,     \* the largest numbers of sequences, and of commands
    Hooks,      \* what a sequence can be bound to
    Careful     \* the user changes no entry of the map in use, gives regions
                \* that lie in the address space, and deletes an entry by
                \* giving it no length

M    == 2 * Half
Addr == 0 .. M - 1
None == 0

Buffered == {"FLASH", "ROM", "RAM", "UNREAL"}   \* FLASH: either of the two
Types    == Buffered \cup {"UNUSED", "SFA", "IO", "WORKSPACE", "CACHE"}

ASSUME SizeAssumption ==
    /\ Half \in Nat \ {0} /\ Page \in Nat \ {0} /\ SegSize \in Nat \ {0}
ASSUME UserAssumption ==
    /\ Lines \subseteq Types \X Addr \X Addr
    /\ Aimed \subseteq Addr /\ Modes \subseteq {0, 1, 2}
    /\ Careful \in BOOLEAN
ASSUME BoundAssumption ==
    /\ Rooms \in Seq(Nat) /\ Seqs \in Nat /\ Commands \in Nat

VARIABLES
    maps,       \* memMapContainer: the maps, each a sequence of entries
    active,     \* activeNumber and activeMap
    work,       \* memMapContainer.workspace: an entry of the active map
    wsMode,     \* workspace_mode
    seqs,       \* cmdSequenceContainer: sequences of commands
    bound,      \* the sequence bound to each hook
    io          \* the commands that reached the target in the last step

mapvars == <<maps, active, work, wsMode>>
seqvars == <<seqs, bound, io>>
vars    == <<mapvars, seqvars>>

NoBuf == <<"UNUSED", 0>>

(* made: the type and length the buffer of an entry was made for; sectors: *)
(* has it a list of sectors?                                               *)
Entry == [type : Types, base : Addr, len : Addr,
          made : Types \X Addr, sectors : BOOLEAN]

(* home, at: the map and the entry found for the address at its last use;  *)
(* set: has the user given the command?                                    *)
Command == [addr : Addr, set : BOOLEAN, home : Nat, at : Nat]

Active == IF active = None THEN <<>> ELSE maps[active]

MapTypeOK ==
    /\ maps \in Seq(Seq(Entry))
    /\ active \in 0 .. Len(maps)
    /\ work \in 0 .. Len(Active)
    /\ wsMode \in {-2, -1, 0, 1, 2}
    /\ seqs \in Seq(Seq(Command))
    /\ bound \in [Hooks -> Nat]
    /\ io \subseteq Nat

Init ==
    /\ maps = <<>> /\ active = None /\ work = None /\ wsMode = 0
    /\ seqs = <<>> /\ bound = [h \in Hooks |-> None] /\ io = {}

-----------------------------------------------------------------------------
(* The numbers are uint32_t. *)
Wrap(x) == IF x < 0 THEN x + M ELSE IF x >= M THEN x - M ELSE x

Reaches(e, a) ==
    IF e.base >= Half
    THEN Wrap(a - Half) < Wrap(e.base - Half + e.len)
    ELSE a < Wrap(e.base + e.len)

First(S) ==
    IF S = {} THEN None ELSE CHOOSE i \in S : \A j \in S : i <= j

(* findMemMapOfAddr: the first entry in the list, of any type. *)
Hits(a) == {i \in DOMAIN Active : a >= Active[i].base /\ Reaches(Active[i], a)}
Find(a) == First(Hits(a))

MutOverlaps(e, base, len) ==    \* the last addresses are not compared
    IF e.base <= base THEN Wrap(e.base + (e.len - 1)) > base
    ELSE Wrap(base + (len - 1)) > e.base

Overlaps(e, base, len) ==
    IF e.base <= base THEN Wrap(e.base + (e.len - 1)) >= base
    ELSE Wrap(base + (len - 1)) >= e.base

-----------------------------------------------------------------------------
(* MemMap.MaxNum and MemMap.MaxEntrys: the lists only grow. *)
Unused == [type |-> "UNUSED", base |-> 0, len |-> 0,
           made |-> NoBuf, sectors |-> FALSE]

AllocMemMaps(n) ==
    /\ n > Len(maps)
    /\ maps' = maps \o [i \in 1 .. n - Len(maps) |-> <<>>]
    /\ io' = {} /\ UNCHANGED <<active, work, wsMode, seqs, bound>>

AllocateMemMapEntrys(m, n) ==
    /\ m \in DOMAIN maps /\ n > Len(maps[m])
    /\ maps' = [maps EXCEPT ![m] =
                    @ \o [i \in 1 .. n - Len(@) |-> Unused]]
    /\ io' = {} /\ UNCHANGED <<active, work, wsMode, seqs, bound>>

(* Outside the region another entry has, and inside the address space.     *)
Fits(base, len) ==
    /\ base + len <= M
    /\ base < Half => base + len < M

(* MemMap[m][e] = type, base, length.  The number of the ENTRY is compared *)
(* with that of the map in use.                                            *)
Changed(old, type, base, len) ==
    [old EXCEPT !.type = type, !.base = base, !.len = len,
                !.sectors = @ /\ old.type # "FLASH"]

UpdateMemMap(m, e, type, base, len) ==
    /\ m \in DOMAIN maps /\ e \in DOMAIN maps[m]
    /\ e # active
    /\ type # "UNUSED" =>
        \A i \in DOMAIN maps[m] \ {e} :
            maps[m][i].type # "UNUSED" => ~Overlaps(maps[m][i], base, len)
    /\ Careful => /\ m # active
                  /\ Fits(base, len)
                  /\ type = "UNUSED" => len = 0
    /\ maps' = [maps EXCEPT ![m][e] = Changed(@, type, base, len)]
    /\ io' = {} /\ UNCHANGED <<active, work, wsMode, seqs, bound>>

-----------------------------------------------------------------------------
(* changeWorkSpaceMode on the map es, from the mode old to mode, with w    *)
(* for the workspace; mode 2 searches with a pointer that is NULL from the *)
(* start and finds nothing.  Its results: the workspace, one in a set of   *)
(* one, and the mode.                                                      *)
MutTops(es) == {i \in DOMAIN es : es[i].type = "RAM"}   \* of any length
Tops(es) == {i \in DOMAIN es : es[i].type = "RAM" /\ es[i].len >= SegSize}

(* The highest, of several with one base the first in the list. *)
Highest(es) ==
    {i \in Tops(es) :
        \A j \in Tops(es) : \/ es[j].base < es[i].base
                            \/ es[j].base = es[i].base /\ i <= j}

OfRam(es, w) == w # None /\ es[w].type = "RAM"
Alone(es, w) == w # None /\ es[w].type = "WORKSPACE"

Works(es, w, mode) ==
    IF mode = 0 /\ OfRam(es, w) THEN {None}
    ELSE IF mode = 1 /\ (w = None \/ OfRam(es, w)) /\ Tops(es) # {}
    THEN Highest(es) ELSE {w}

ModeKept(es, w, old, mode) ==
    IF mode = 0 \/ (mode \in {1, 2} /\ (w = None \/ OfRam(es, w))) \/ Alone(es, w)
    THEN mode ELSE old

(* monitor modeWorkspace *)
ChangeWorkSpaceMode(mode, pending) ==
    /\ mode # wsMode
    /\ IF Len(Active) = 0 THEN wsMode' = mode /\ UNCHANGED work
       ELSE IF pending THEN wsMode' = -2 /\ UNCHANGED work
       ELSE /\ work' \in Works(Active, work, mode)
            /\ wsMode' = ModeKept(Active, work, wsMode, mode)
    /\ io' = {} /\ UNCHANGED <<maps, active, seqs, bound>>

-----------------------------------------------------------------------------
(* deactivateMemMap and activateMemMap. *)
Released(e) ==
    [e EXCEPT !.made = NoBuf, !.sectors = @ /\ e.type # "FLASH"]

ReleasedMaps ==
    IF active = None THEN maps
    ELSE [maps EXCEPT ![active] = [i \in DOMAIN @ |-> Released(@[i])]]

(* A RAM or ROM entry is cut down to whole pages, and left without buffer  *)
(* if nothing remains.                                                     *)
Cut(e) ==
    IF e.type \in {"RAM", "ROM"} THEN (e.len \div Page) * Page ELSE e.len

Mapped(e) == e.type \in Buffered /\ (Cut(e) # 0 \/ e.len = 0)

MutMade(e) ==               \* the length before it was cut
    IF Mapped(e) THEN <<e.type, e.len>> ELSE NoBuf

Made(e) == IF Mapped(e) THEN <<e.type, Cut(e)>> ELSE NoBuf

Activated(e, found) ==
    [e EXCEPT !.len = Cut(e), !.made = Made(e),
              !.sectors = @ \/ (e.type = "FLASH" /\ found)]

Alones(es) ==
    {i \in DOMAIN es : es[i].type = "WORKSPACE" /\ es[i].len >= SegSize}

Blank(c)  == [c EXCEPT !.home = None, !.at = None]
Forgotten ==
    [s \in DOMAIN seqs |-> [i \in DOMAIN seqs[s] |-> Blank(seqs[s][i])]]

(* NoMemMap *)
NoMemMap ==
    /\ active # None
    /\ maps' = ReleasedMaps /\ active' = None /\ work' = None
    /\ seqs' = Forgotten
    /\ io' = {} /\ UNCHANGED <<wsMode, bound>>

NewEntries(m, found) ==
    [i \in DOMAIN ReleasedMaps[m] |->
        Activated(ReleasedMaps[m][i], i \in found)]

(* The workspace is the first entry that was given for it, if there is one. *)
Firsts(es) ==
    IF Alones(es) = {} THEN {None}
    ELSE {i \in Alones(es) : \A j \in Alones(es) : i <= j}

(* UseMemMap[m]: the old map is given up even if there is no map m.  found *)
(* says which flash chips answer.  An UNREAL entry without length cannot   *)
(* be mapped into memory, and the server exits.  (The write back before it *)
(* is UseMemMap of Workspace.)                                             *)
UseMemMap(m, found, pending) ==
    /\ m \in DOMAIN maps /\ Len(maps[m]) > 0
    /\ \A i \in DOMAIN maps[m] :
            maps[m][i].type = "UNREAL" => maps[m][i].len # 0
    /\ maps' = [ReleasedMaps EXCEPT ![m] = NewEntries(m, found)]
    /\ active' = m
    /\ \E w \in Firsts(maps'[m]) :
          IF wsMode = -1 THEN work' = w /\ wsMode' = -1
          ELSE IF pending THEN work' = w /\ wsMode' = -2
          ELSE /\ work' \in Works(maps'[m], w, wsMode)
               /\ wsMode' = ModeKept(maps'[m], w, -1, wsMode)
    /\ seqs' = Forgotten
    /\ io' = {} /\ UNCHANGED bound

UseMissingMap(m) == (m \in DOMAIN maps => Len(maps[m]) = 0) /\ NoMemMap

-----------------------------------------------------------------------------
(* Command sequences.                                                      *)
AllocCmdSeqences(n) ==
    /\ n > Len(seqs)
    /\ seqs' = seqs \o [i \in 1 .. n - Len(seqs) |-> <<>>]
    /\ io' = {} /\ UNCHANGED <<mapvars, bound>>

(* Of several new commands the last one is left with the number of the     *)
(* first map for its home.                                                 *)
NewCommand(i, n) ==
    [addr |-> 0, set |-> FALSE,
     home |-> IF i = n /\ n > 1 THEN 1 ELSE None, at |-> None]

AllocCmdSequenceEntrys(s, n) ==
    /\ s \in DOMAIN seqs /\ n > Len(seqs[s])
    /\ seqs' = [seqs EXCEPT ![s] =
                    @ \o [i \in 1 .. n - Len(@) |-> NewCommand(i, n - Len(@))]]
    /\ io' = {} /\ UNCHANGED <<mapvars, bound>>

MutUpdateCmdSequence(s, i, addr) ==     \* the entry found before is kept
    /\ s \in DOMAIN seqs /\ i \in DOMAIN seqs[s]
    /\ seqs' = [seqs EXCEPT ![s][i].addr = addr, ![s][i].set = TRUE]
    /\ io' = {} /\ UNCHANGED <<mapvars, bound>>

UpdateCmdSequence(s, i, addr) ==
    /\ s \in DOMAIN seqs /\ i \in DOMAIN seqs[s]
    /\ seqs' = [seqs EXCEPT ![s][i] =
                    [addr |-> addr, set |-> TRUE, home |-> None, at |-> None]]
    /\ io' = {} /\ UNCHANGED <<mapvars, bound>>

(* CmdSequence.Bind[s] takes every number. *)
Bind(h, s) ==
    /\ bound' = [bound EXCEPT ![h] = s]
    /\ io' = {} /\ UNCHANGED <<mapvars, seqs>>

(* The entry for a command: the one remembered, if it is of this map. *)
EntryOf(c) == IF c.home = active /\ c.at # None THEN c.at ELSE Find(c.addr)

Remembered(c) ==
    IF EntryOf(c) = None THEN c
    ELSE [c EXCEPT !.home = active, !.at = EntryOf(c)]

(* doCmdSequence, from monitor Cmd or through a hook: a command reaches    *)
(* the target only inside an SFA entry; one that was never given has no    *)
(* size the server knows.                                                  *)
DoCmdSequence(s) ==
    /\ active # None
    /\ s \in DOMAIN seqs /\ Len(seqs[s]) > 0
    /\ io' = {i \in DOMAIN seqs[s] :
                /\ seqs[s][i].set
                /\ EntryOf(seqs[s][i]) # None
                /\ Active[EntryOf(seqs[s][i])].type = "SFA"}
    /\ seqs' = [seqs EXCEPT ![s] = [i \in DOMAIN @ |-> Remembered(@[i])]]
    /\ UNCHANGED <<mapvars, bound>>

(* arm_sfa_StartPeriphery, arm_sfa_StopPeriphery, arm_sfa_ResetCPU *)
RunHook(h) == DoCmdSequence(bound[h])

-----------------------------------------------------------------------------
Maps    == DOMAIN Rooms
Entries == UNION {1 .. Rooms[m] : m \in Maps}

Next ==
    \/ \E n \in Maps : AllocMemMaps(n)
    \/ \E m \in Maps : \E n \in 1 .. Rooms[m] : AllocateMemMapEntrys(m, n)
    \/ \E m \in Maps, e \in Entries, l \in Lines :
            UpdateMemMap(m, e, l[1], l[2], l[3])
    \/ \E mode \in Modes, pending \in BOOLEAN : ChangeWorkSpaceMode(mode, pending)
    \/ NoMemMap
    \/ \E m \in Maps, found \in SUBSET Entries, pending \in BOOLEAN :
            UseMemMap(m, found, pending)
    \/ \E m \in Maps : UseMissingMap(m)
    \/ \E n \in 1 .. Seqs : AllocCmdSeqences(n)
    \/ \E s \in 1 .. Seqs, n \in 1 .. Commands : AllocCmdSequenceEntrys(s, n)
    \/ \E s \in 1 .. Seqs, i \in 1 .. Commands, a \in Aimed :
            UpdateCmdSequence(s, i, a)
    \/ \E h \in Hooks, s \in 1 .. Seqs : Bind(h, s)
    \/ \E s \in 1 .. Seqs : DoCmdSequence(s)
    \/ \E h \in Hooks : RunHook(h)

Spec == Init /\ [][Next]_vars

-----------------------------------------------------------------------------
Extent(e) == e.base .. e.base + e.len - 1

(* An address is looked up as the entry of the map in use it lies in, and  *)
(* as none if it lies in none: entries do not overlap, and neither the     *)
(* arithmetic of 32 bits nor a deleted entry hides one.                    *)
LookupFinds ==
    \A a \in Addr, i \in DOMAIN Active :
        Active[i].type # "UNUSED" => (a \in Extent(Active[i]) <=> Find(a) = i)

(* Exactly the entries of the map in use that keep data have a buffer, one *)
(* made for their type and length, and no other has a list of sectors;     *)
(* what is remembered about an entry is about one of the map in use.       *)
Owned(e, inUse) ==
    /\ e.made # NoBuf => inUse /\ e.made = <<e.type, e.len>>
    /\ e.sectors => inUse /\ e.type = "FLASH"
    /\ inUse /\ e.type \in {"FLASH", "UNREAL"} => e.made # NoBuf

BuffersFit ==
    \A m \in DOMAIN maps : \A i \in DOMAIN maps[m] :
        Owned(maps[m][i], m = active)

(* The workspace is an entry of the map in use that is long enough for it, *)
(* and in RAM only if it was asked for there.                              *)
Usable(es, w) ==
    w # None => /\ w \in DOMAIN es /\ es[w].type \in {"WORKSPACE", "RAM"}
                /\ es[w].len >= SegSize

WorkspaceFits == Usable(Active, work)

(* A sequence carries out exactly its commands that lie in the special     *)
(* function areas of the map in use, whatever it remembers of other maps   *)
(* and of its earlier addresses.                                           *)
RunsInSfa ==
    [][\A s \in DOMAIN seqs :
        DoCmdSequence(s) =>
            io' = {i \in DOMAIN seqs[s] :
                    /\ seqs[s][i].set
                    /\ \E e \in DOMAIN Active :
                        /\ Active[e].type = "SFA"
                        /\ seqs[s][i].addr \in Extent(Active[e])}]_vars

(* "can't update Memory Map while it is in use" (arm_memory_mmap.c:233):   *)
(* a request for an entry of the map in use changes nothing.               *)
InUseKept ==
    [][\A m \in Maps, e \in Entries, l \in Lines :
        UpdateMemMap(m, e, l[1], l[2], l[3]) => m # active]_vars
=============================================================================
