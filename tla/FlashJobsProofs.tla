--------------------------- MODULE FlashJobsProofs ---------------------------
(***************************************************************************)
(* The queue of jobs and the status word, for every flash, every client    *)
(* and with failures: at most one job is queued and the status says so;    *)
(* and unless ^C is typed at the prompt a status in process has its job.   *)
(***************************************************************************)
EXTENDS FlashProperties, TLAPS

AllKinds == {"program", "verify", "check", "erase", "print"}
Fields   == {"kind", "from", "sec", "last", "cnt", "temp"}

IsJob(job) == DOMAIN job = Fields /\ job.kind \in AllKinds

(* The queue is empty, or holds one job that the status stands for.        *)
(* OneJob is not inductive as it stands: of a job that queues itself again *)
(* it must be known that it keeps its kind, and that the kind is one that  *)
(* the status can stand for.                                               *)
QueueOK ==
    \/ queue = <<>>
    \/ /\ queue = <<Head(queue)>>
       /\ IsJob(Head(queue))
       /\ pending = InProcessOf[Head(queue).kind]

(* The other direction, which ^C at the prompt breaks. *)
Served == "interrupt" \notin Client => PendingHasJob

QueueInv == QueueOK /\ Served

-----------------------------------------------------------------------------
(* The statuses a job ends with are not in process. *)
Ended == {"none"} \cup Results \cup Unreported

LEMMA StatusKinds ==
    /\ \A k \in AllKinds : InProcessOf[k] \in Running
    /\ \A k \in AllKinds : FailureOf[k] \in Ended
    /\ Ended \cap Running = {}
BY DEF AllKinds, InProcessOf, FailureOf, Running, Ended, Results, Unreported

LEMMA OneElement ==
    ASSUME NEW job, NEW next
    PROVE  /\ Head(<<job>>) = job
           /\ Tail(<<job>>) = <<>>
           /\ Append(Tail(<<job>>), next) = <<next>>
           /\ Append(<<>>, next) = <<next>>
           /\ <<job>> # <<>>
           /\ Len(<<job>>) = 1
OBVIOUS

(* A job that is queued again keeps its kind. *)
LEMMA AgainKeeps ==
    ASSUME NEW job, queue = <<job>>, pending = InProcessOf[job.kind],
           NEW next, IsJob(next), next.kind = job.kind, Again(next)
    PROVE  QueueInv'
PROOF
  <1>1. queue' = <<next>> /\ pending' = pending
    BY OneElement DEF Again
  <1>2. queue' # <<>> /\ Head(queue') = next
    BY <1>1, OneElement
  <1> QED
    BY <1>1, <1>2 DEF QueueInv, QueueOK, Served, PendingHasJob, IsJob

(* A job that ends leaves an empty queue and a status that is no waiting. *)
LEMMA DoneEnds ==
    ASSUME NEW job, queue = <<job>>, NEW status \in Ended, Done(status)
    PROVE  QueueInv'
PROOF
  <1>1. queue' = <<>> /\ pending' = status
    BY OneElement DEF Done
  <1> QED
    BY <1>1, StatusKinds DEF QueueInv, QueueOK, Served, PendingHasJob, InProcess

(* The changes a step makes to its job. *)
LEMMA CountKept ==
    ASSUME NEW job, IsJob(job), NEW n
    PROVE  IsJob([job EXCEPT !.cnt = n]) /\ [job EXCEPT !.cnt = n].kind = job.kind
BY DEF IsJob, Fields

LEMMA PagesKept ==
    ASSUME NEW job, IsJob(job), NEW pages
    PROVE  IsJob([job EXCEPT !.temp = pages]) /\ [job EXCEPT !.temp = pages].kind = job.kind
BY DEF IsJob, Fields

LEMMA AtSectorKept ==
    ASSUME NEW job, IsJob(job), NEW n
    PROVE  IsJob(AtSector(job, n)) /\ AtSector(job, n).kind = job.kind
PROOF
  <1> DEFINE moved   == [job EXCEPT !.sec = job.sec + 1]
             counted == [moved EXCEPT !.cnt = n]
  <1>1. IsJob(moved) /\ moved.kind = job.kind
    BY DEF IsJob, Fields
  <1>2. IsJob(counted) /\ counted.kind = moved.kind
    BY <1>1, CountKept
  <1>3. IsJob([counted EXCEPT !.temp = <<>>]) /\ [counted EXCEPT !.temp = <<>>].kind = counted.kind
    <2> HIDE DEF counted
    <2> QED
      BY <1>2, PagesKept
  <1>4. AtSector(job, n) = [counted EXCEPT !.temp = <<>>]
    BY DEF AtSector
  <1> QED
    BY <1>1, <1>2, <1>3, <1>4

LEMMA NextSectorKeeps ==
    ASSUME NEW job, queue = <<job>>, IsJob(job), pending = InProcessOf[job.kind],
           NEW n, NEW status \in Ended, NextSector(job, n, status)
    PROVE  QueueInv'
PROOF
  <1>1. CASE Again(AtSector(job, n))
    BY <1>1, AtSectorKept, AgainKeeps
  <1>2. CASE Done(status)
    BY <1>2, DoneEnds
  <1> QED
    BY <1>1, <1>2 DEF NextSector

(* One step of any job keeps the queue right. *)
LEMMA JobStepKeeps ==
    ASSUME NEW job, queue = <<job>>, IsJob(job), pending = InProcessOf[job.kind],
           JobStep(job)
    PROVE  QueueInv'
PROOF
  <1> DEFINE Statuses == {"erased", "erase failed", "programmed", "program failed",
                          "equal", "diff", "error", "printed"}
  <1>1. \A status \in Statuses : Done(status) => QueueInv'
    <2>1. Statuses \subseteq Ended
      BY DEF Ended, Results, Unreported
    <2> QED
      BY <2>1, DoneEnds
  <1>2. ASSUME NEW status \in Statuses, NEW n, NextSector(job, n, status) PROVE QueueInv'
    <2>1. status \in Ended
      BY DEF Ended, Results, Unreported
    <2> QED
      BY <1>2, <2>1, NextSectorKeeps
  <1>3. \A n : Again([job EXCEPT !.cnt = n]) => QueueInv'
    BY CountKept, AgainKeeps
  <1>4. \A pages : Again([job EXCEPT !.temp = pages]) => QueueInv'
    BY PagesKept, AgainKeeps
  <1>5. \A states : Judged(job, states) => QueueInv'
    <2>1. \A states : Verdict(states, job) \in Statuses
      BY DEF Verdict
    <2> QED
      BY <2>1, <1>1, AtSectorKept, AgainKeeps DEF Judged
  <1> HIDE DEF Statuses
  <1>6. ASSUME EraseStep(job) PROVE QueueInv'
    BY <1>6, <1>1, <1>2 DEF EraseStep, Statuses
  <1>7. ASSUME ProgramStep(job) PROVE QueueInv'
    <2>1. ASSUME EraseBeforeProgram(job) PROVE QueueInv'
      BY <2>1, <1>1, <1>3 DEF EraseBeforeProgram, Statuses
    <2>2. ASSUME PrepareProgram(job) PROVE QueueInv'
      BY <2>2, <1>1, <1>3 DEF PrepareProgram, Statuses
    <2>3. ASSUME ProgramUnits(job) PROVE QueueInv'
      <3>1. ASSUME NEW n, Again([job EXCEPT !.cnt = @ + n]) PROVE QueueInv'
        BY <3>1, <1>3
      <3> QED
        BY <2>3, <3>1, <1>1, <1>2 DEF ProgramUnits, Statuses
    <2> QED
      BY <1>7, <2>1, <2>2, <2>3, <1>1, <1>2 DEF ProgramStep, Statuses
  <1>8. ASSUME VerifyStep(job) PROVE QueueInv'
    BY <1>8, <1>4, <1>5 DEF VerifyStep
  <1>9. ASSUME CheckStep(job) PROVE QueueInv'
    BY <1>9, <1>1, <1>5 DEF CheckStep, Statuses
  <1>10. ASSUME PrintStep(job) PROVE QueueInv'
    BY <1>10, <1>1, <1>3 DEF PrintStep, Statuses
  <1>11. ASSUME Done(FailureOf[job.kind]) PROVE QueueInv'
    BY <1>11, StatusKinds, DoneEnds DEF IsJob
  <1> QED
    BY <1>6, <1>7, <1>8, <1>9, <1>10, <1>11 DEF JobStep
-----------------------------------------------------------------------------
(* Most requests of gdb leave the jobs alone. *)
LEMMA QueueSame ==
    ASSUME QueueInv, UNCHANGED jobVars
    PROVE  QueueInv'
BY DEF QueueInv, QueueOK, Served, PendingHasJob, InProcess, jobVars

(* A round of callbacks runs a step of the queued job, or does nothing. *)
LEMMA DoCallbackKeeps ==
    ASSUME QueueInv, DoCallback
    PROVE  QueueInv'
PROOF
  <1>1. CASE queue = <<>>
    BY <1>1, QueueSame DEF DoCallback, jobVars
  <1>2. CASE queue # <<>>
    <2>1. /\ queue = <<Head(queue)>> /\ IsJob(Head(queue))
          /\ pending = InProcessOf[Head(queue).kind]
      BY <1>2 DEF QueueInv, QueueOK
    <2>2. JobStep(Head(queue))
      BY <1>2 DEF DoCallback
    <2> QED
      BY <2>1, <2>2, JobStepKeeps
  <1> QED
    BY <1>1, <1>2

(* A request is refused while a job is in process, so the queue is empty   *)
(* when a job is put in.                                                   *)
LEMMA StartKeeps ==
    ASSUME QueueInv, NEW kind \in AllKinds, NEW s, NEW count, Start(kind, s, count)
    PROVE  QueueInv'
PROOF
  <1> DEFINE job == NewJob(kind, s, count)
  <1>1. queue = <<>>
    BY StatusKinds DEF QueueInv, QueueOK, IsJob, Start, InProcess
  <1>2. IsJob(job) /\ job.kind = kind
    BY DEF NewJob, IsJob, Fields
  <1> HIDE DEF job
  <1>3. queue' = <<job>> /\ pending' = InProcessOf[kind]
    BY <1>1, OneElement DEF Start, job
  <1>4. queue' # <<>> /\ Head(queue') = job
    BY <1>3, OneElement
  <1> QED
    BY <1>2, <1>3, <1>4 DEF QueueInv, QueueOK, Served, PendingHasJob

(* ^C at the prompt empties the queue; that it leaves a status in process  *)
(* is what "interrupt" stands for.                                         *)
LEMMA InterruptPromptKeeps ==
    ASSUME QueueInv, InterruptPrompt
    PROVE  QueueInv'
PROOF
  <1>1. queue' = <<>>
    BY DEF InterruptPrompt
  <1>2. ASSUME "interrupt" \notin Client PROVE ~InProcess'
    BY <1>2 DEF InterruptPrompt, Interrupting, InProcess, Running
  <1> QED
    BY <1>1, <1>2 DEF QueueInv, QueueOK, Served, PendingHasJob

(* ^C in a fake continue ends the job and its status. *)
LEMMA InterruptFakeKeeps ==
    ASSUME QueueInv, InterruptFake
    PROVE  QueueInv'
PROOF
  <1>1. queue' = <<>> /\ ~InProcess'
    BY DEF InterruptFake, InProcess, Running
  <1> QED
    BY <1>1 DEF QueueInv, QueueOK, Served, PendingHasJob

(* FlashState forgets a result, which no job in process stands for. *)
LEMMA FlashStateKeeps ==
    ASSUME QueueInv, FlashState
    PROVE  QueueInv'
PROOF
  <1>1. pending \notin Running
    BY StatusKinds DEF FlashState, Ended
  <1>2. queue = <<>>
    BY <1>1, StatusKinds DEF QueueInv, QueueOK, IsJob
  <1>3. queue' = <<>> /\ ~InProcess'
    BY <1>2 DEF FlashState, InProcess, Running
  <1> QED
    BY <1>3 DEF QueueInv, QueueOK, Served, PendingHasJob

LEMMA QueueInvInit == Init => QueueInv
BY DEF Init, QueueInv, QueueOK, Served, PendingHasJob, InProcess, Running

LEMMA QueueInvStep ==
    ASSUME QueueInv, [Next]_vars
    PROVE  QueueInv'
PROOF
  <1>1. CASE StartFlash
    <2>1. PICK kind \in Kinds \ {"print"}, s \in Sectors :
             \E count \in 1 .. NumSectors - s : Start(kind, s, count)
      BY <1>1 DEF StartFlash
    <2>2. kind \in AllKinds
      BY JobsAssumption DEF AllKinds
    <2> QED
      BY <2>1, <2>2, StartKeeps
  <1>2. CASE StartPrint
    BY <1>2, StartKeeps DEF StartPrint, AllKinds
  <1>3. CASE FlashState
    BY <1>3, FlashStateKeeps
  <1>4. CASE \E S \in FlashBlocks : Read(S) \/ \E v \in Image : Write(S, v)
    BY <1>4, QueueSame DEF Read, Write, Touch
  <1>5. CASE InterruptPrompt
    BY <1>5, InterruptPromptKeeps
  <1>6. CASE SetFakeContinue \/ Continue \/ Stopped \/ Close \/ Accept
    BY <1>6, QueueSame DEF SetFakeContinue, Continue, Stopped, Close, Accept
  <1>7. CASE WaitCallback
    BY <1>7, DoCallbackKeeps DEF WaitCallback
  <1>8. CASE FakeStep
    <2>1. CASE FakeWrite \/ FakeEnd
      BY <2>1, QueueSame DEF FakeWrite, FakeEnd
    <2>2. CASE FakeRead \/ FakeAnswer \/ FakePoll
      BY <2>2, DoCallbackKeeps DEF FakeRead, FakeAnswer, FakePoll
    <2> QED
      BY <1>8, <2>1, <2>2 DEF FakeStep
  <1>9. CASE InterruptFake
    BY <1>9, InterruptFakeKeeps
  <1>10. CASE UNCHANGED vars
    BY <1>10, QueueSame DEF vars
  <1> QED
    BY <1>1, <1>2, <1>3, <1>4, <1>5, <1>6, <1>7, <1>8, <1>9, <1>10 DEF Next

-----------------------------------------------------------------------------
(* For every flash and every client the queue holds at most one job, and   *)
(* the status stands for it.                                               *)
THEOREM QueueInvariance == Spec => []QueueInv
PROOF
  <1>1. QueueInv /\ [Next]_vars => QueueInv'
    BY QueueInvStep
  <1> QED
    BY QueueInvInit, <1>1, PTL DEF Spec

(* cmdCallbackConainer is never asked to hold a second job: the requests   *)
(* of monitor.c and the callbacks of the fake continue cannot put one      *)
(* behind another, whatever gdb does, fails or disconnects in between.     *)
THEOREM AtMostOneJob == Spec => []OneJob
PROOF
  <1>1. QueueInv => OneJob
    <2>1. ASSUME QueueInv, queue # <<>> PROVE OneJob
      <3>1. queue = <<Head(queue)>> /\ pending = InProcessOf[Head(queue).kind]
        BY <2>1 DEF QueueInv, QueueOK
      <3>2. Len(queue) = 1
        BY <3>1, OneElement
      <3> QED
        BY <3>1, <3>2 DEF OneJob
    <2>2. ASSUME queue = <<>> PROVE OneJob
      BY <2>2 DEF OneJob
    <2> QED
      BY <2>1, <2>2
  <1> QED
    BY <1>1, QueueInvariance, PTL

(* Without a ^C at the prompt what FlashState calls in process has a job   *)
(* in the queue, so a later request is not refused for good and the fake   *)
(* continue does not wait for nothing.  A ^C typed while an erase is the   *)
(* job in process is harmless, and so is one in the fake continue.         *)
THEOREM PendingIsServed ==
    ASSUME "interrupt" \notin Client
    PROVE  Spec => []PendingHasJob
PROOF
  <1>1. QueueInv => PendingHasJob
    BY DEF QueueInv, Served
  <1> QED
    BY <1>1, QueueInvariance, PTL
=============================================================================
