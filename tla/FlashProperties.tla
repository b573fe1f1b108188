--------------------------- MODULE FlashProperties ---------------------------
(***************************************************************************)
(* What the flash jobs must keep right.                                    *)
(***************************************************************************)
EXTENDS FlashJobs

(* There is one status word for all jobs: at most one job is queued, and   *)
(* the status says that this job is in process.                            *)
OneJob ==
    /\ Len(queue) <= 1
    /\ queue # <<>> => pending = InProcessOf[Head(queue).kind]

(* A job in process has a callback that will end it: what monitor commands *)
(* and the fake continue wait for is still to come.                        *)
PendingHasJob == InProcess => queue # <<>>

(* jt_flash.h: a sector marked as read holds the same data in the buffer   *)
(* and in the flash; gdb_read_mem answers from the buffer alone.           *)
ReadValidTrue ==
    \A s \in Sectors :
        valid[s] \in {SECTOR_READ_VALID, SECTOR_READ_ERASED_VALID} => Equal(s)

(* jt_flash.h: a dirty sector that is marked as erased is erased in the    *)
(* flash, so that ProgramFlash may leave out the erase; while it is being  *)
(* programmed the unit the job stands at and those behind it still are.    *)
MarkedErasedIsErased ==
    \A s \in Sectors : valid[s] = SECTOR_WRITE_DURTY_ERASED =>
        \A u \in UnitsOf(s) :
            \/ flash[u] = Erased
            \/ \E i \in DOMAIN queue :
                 /\ queue[i].kind = "program" /\ queue[i].sec = s
                 /\ u % SectorSize < queue[i].cnt

(* No unit is programmed on top of other data. *)
NothingTorn == \A u \in Units : flash[u] # Torn

(* "[1] succeed" of FlashState after ProgramFlash: each sector of the      *)
(* request that the buffer has data for holds that data.                   *)
ProgrammedIsBuffer ==
    [][pending = "programming" /\ pending' = "programmed" =>
         \A s \in Head(queue).from .. Head(queue).last :
             valid'[s] # SECTOR_INVALID => Equal(s)']_vars

(* "[1] equal" after VerifyFlash or CheckFlash: each sector of the request *)
(* that the buffer has data for is equal to the flash.                     *)
VerifiedIsEqual ==
    [][pending = "verifying" /\ pending' = "equal" =>
         \A s \in Head(queue).from .. Head(queue).last :
             valid'[s] # SECTOR_INVALID => Equal(s)']_vars

(* ProgramFlash loses nothing of a sector gdb never wrote to: what it      *)
(* erases there is in the buffer, to be programmed again.                  *)
NoForeignLoss ==
    [][\A u \in Units :
         /\ queue # <<>> /\ Head(queue).kind = "program"
         /\ flash[u] # Erased /\ flash'[u] = Erased
         /\ written \cap UnitsOf(SectorOf(u)) = {}
         => fbuf[u] = flash[u]]_vars

(* What gdb downloaded stays in the buffer until gdb overwrites it or the  *)
(* sector is declared invalid: no read, verify, job or ^C loses it.        *)
DownloadKept ==
    [][\A u \in written :
         /\ valid[SectorOf(u)] # SECTOR_INVALID
         /\ fbuf'[u] # fbuf[u]
         => \E S \in FlashBlocks : u \in S /\ \E v \in Image : Write(S, v)]_vars

(* The fake continue comes back to the prompt: while it lasts the server   *)
(* reads nothing but the answers to its own requests.                      *)
FakeEnds == state = "fake" ~> state # "fake"
=============================================================================
