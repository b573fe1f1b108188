--------------------------- MODULE FlashDataProofs ---------------------------
(***************************************************************************)
(* The data of the flash entry: what the sector states promise about the   *)
(* flash and the buffer, and what a report of a job says, for every size   *)
(* of the flash.                                                           *)
(***************************************************************************)
EXTENDS FlashJobsProofs

-----------------------------------------------------------------------------
(* Units and sectors. *)

LEMMA Quotient ==
    ASSUME NEW n \in Nat \ {0}, NEW u \in Nat
    PROVE  /\ u \div n \in Nat
           /\ u % n \in 0 .. n - 1
           /\ u = n * (u \div n) + (u % n)
OBVIOUS

LEMMA Multiples ==
    ASSUME NEW n \in Nat, NEW s \in Int, NEW t \in Int, s < t
    PROVE  n * s <= n * t - n
OBVIOUS

LEMMA QuotientUnique ==
    ASSUME NEW n \in Nat \ {0}, NEW s \in Int, NEW t \in Int,
           NEW i \in 0 .. n - 1, NEW j \in 0 .. n - 1, n * s + i = n * t + j
    PROVE  s = t /\ i = j
PROOF
  <1>1. ~(s < t)
    BY Multiples
  <1>2. ~(t < s)
    BY Multiples
  <1> QED
    BY <1>1, <1>2

(* Every unit has a place in one sector. *)
LEMMA UnitPlace ==
    ASSUME NEW u \in Units
    PROVE  /\ SectorOf(u) \in Sectors
           /\ u % SectorSize \in 0 .. SectorSize - 1
           /\ u \in Int
           /\ u = SectorSize * SectorOf(u) + (u % SectorSize)
           /\ u \in UnitsOf(SectorOf(u))
PROOF
  <1> USE FlashAssumption
  <1>1. u \in Nat /\ u < SectorSize * NumSectors
    BY DEF Units
  <1>2. /\ SectorOf(u) \in Nat
        /\ u % SectorSize \in 0 .. SectorSize - 1
        /\ u = SectorSize * SectorOf(u) + (u % SectorSize)
    BY <1>1, Quotient DEF SectorOf
  <1>3. SectorOf(u) < NumSectors
    <2>1. ~(NumSectors < SectorOf(u))
      BY <1>1, <1>2, Multiples
    <2>2. SectorOf(u) # NumSectors
      BY <1>1, <1>2
    <2> QED
      BY <1>2, <2>1, <2>2
  <1> QED
    BY <1>1, <1>2, <1>3 DEF Sectors, UnitsOf

(* Every place of a sector is a unit. *)
LEMMA PlaceUnit ==
    ASSUME NEW s \in Sectors, NEW i \in 0 .. SectorSize - 1
    PROVE  /\ s * SectorSize + i \in Units
           /\ SectorOf(s * SectorSize + i) = s
           /\ (s * SectorSize + i) % SectorSize = i
PROOF
  <1> USE FlashAssumption
  <1> DEFINE u == s * SectorSize + i
  <1>1. u = SectorSize * s + i /\ u \in Nat /\ s \in Nat /\ s < NumSectors
    BY DEF Sectors
  <1>2. SectorSize * s <= SectorSize * NumSectors - SectorSize
    BY <1>1, Multiples
  <1>3. u \in Units
    BY <1>1, <1>2 DEF Units
  <1>4. u = SectorSize * SectorOf(u) + (u % SectorSize) /\ u % SectorSize \in 0 .. SectorSize - 1
        /\ SectorOf(u) \in Int
    BY <1>3, UnitPlace DEF Sectors
  <1> HIDE DEF u
  <1>5. SectorOf(u) = s /\ u % SectorSize = i
    BY <1>1, <1>4, QuotientUnique
  <1> QED
    BY <1>3, <1>5 DEF u

-----------------------------------------------------------------------------
(* The flags of a sector. *)

LEMMA StatesDiffer ==
    /\ SECTOR_INVALID # SECTOR_READ_VALID
    /\ SECTOR_INVALID # SECTOR_READ_ERASED_VALID
    /\ SECTOR_INVALID # SECTOR_WRITE
    /\ SECTOR_INVALID # SECTOR_WRITE_DURTY
    /\ SECTOR_INVALID # SECTOR_WRITE_DURTY_ERASED
    /\ SECTOR_READ_VALID # SECTOR_READ_ERASED_VALID
    /\ SECTOR_READ_VALID # SECTOR_WRITE
    /\ SECTOR_READ_VALID # SECTOR_WRITE_DURTY
    /\ SECTOR_READ_VALID # SECTOR_WRITE_DURTY_ERASED
    /\ SECTOR_READ_ERASED_VALID # SECTOR_WRITE
    /\ SECTOR_READ_ERASED_VALID # SECTOR_WRITE_DURTY
    /\ SECTOR_READ_ERASED_VALID # SECTOR_WRITE_DURTY_ERASED
    /\ SECTOR_WRITE # SECTOR_WRITE_DURTY
    /\ SECTOR_WRITE # SECTOR_WRITE_DURTY_ERASED
    /\ SECTOR_WRITE_DURTY # SECTOR_WRITE_DURTY_ERASED
BY DEF SECTOR_INVALID, SECTOR_READ_VALID, SECTOR_READ_ERASED_VALID, SECTOR_WRITE,
       SECTOR_WRITE_DURTY, SECTOR_WRITE_DURTY_ERASED

(* Which states have a flag. *)
LEMMA FlagStates ==
    ASSUME NEW v \in SectorState
    PROVE  /\ "dirty" \in v <=> v \in {SECTOR_WRITE_DURTY, SECTOR_WRITE_DURTY_ERASED}
           /\ "erased" \in v <=> v \in {SECTOR_READ_ERASED_VALID, SECTOR_WRITE_DURTY_ERASED}
           /\ "data" \in v <=> v # SECTOR_INVALID
BY DEF SectorState, SECTOR_INVALID, SECTOR_READ_VALID, SECTOR_READ_ERASED_VALID,
       SECTOR_WRITE, SECTOR_WRITE_DURTY, SECTOR_WRITE_DURTY_ERASED

(* The flags cleared when a sector was programmed. *)
LEMMA ClearedFlags ==
    /\ SECTOR_INVALID \ {"erased", "dirty"} = SECTOR_INVALID
    /\ SECTOR_READ_VALID \ {"erased", "dirty"} = SECTOR_READ_VALID
    /\ SECTOR_READ_ERASED_VALID \ {"erased", "dirty"} = SECTOR_READ_VALID
    /\ SECTOR_WRITE \ {"erased", "dirty"} = SECTOR_WRITE
    /\ SECTOR_WRITE_DURTY \ {"erased", "dirty"} = SECTOR_WRITE
    /\ SECTOR_WRITE_DURTY_ERASED \ {"erased", "dirty"} = SECTOR_WRITE
BY DEF SECTOR_INVALID, SECTOR_READ_VALID, SECTOR_READ_ERASED_VALID, SECTOR_WRITE,
       SECTOR_WRITE_DURTY, SECTOR_WRITE_DURTY_ERASED

(* The flag that a verify adds for a blank sector. *)
LEMMA AddedFlag ==
    /\ SECTOR_READ_VALID \cup {"erased"} = SECTOR_READ_ERASED_VALID
    /\ SECTOR_WRITE_DURTY \cup {"erased"} = SECTOR_WRITE_DURTY_ERASED
    /\ SECTOR_READ_VALID \cup {} = SECTOR_READ_VALID
    /\ SECTOR_WRITE_DURTY \cup {} = SECTOR_WRITE_DURTY
BY DEF SECTOR_READ_VALID, SECTOR_READ_ERASED_VALID,
       SECTOR_WRITE_DURTY, SECTOR_WRITE_DURTY_ERASED

LEMMA StatesAre ==
    /\ SECTOR_INVALID \in SectorState /\ SECTOR_READ_VALID \in SectorState
    /\ SECTOR_READ_ERASED_VALID \in SectorState /\ SECTOR_WRITE \in SectorState
    /\ SECTOR_WRITE_DURTY \in SectorState /\ SECTOR_WRITE_DURTY_ERASED \in SectorState
BY DEF SectorState

LEMMA ClearedState ==
    ASSUME NEW v \in SectorState
    PROVE  v \ {"erased", "dirty"} \in SectorState
BY ClearedFlags DEF SectorState

LEMMA VerifiedStates ==
    ASSUME NEW s, NEW pages
    PROVE  VerifiedState(s, pages) \in SectorState
BY AddedFlag, StatesAre DEF VerifiedState, Compared

-----------------------------------------------------------------------------
(* The fields of a job. *)

Pages == UNION {[1 .. n -> Image \cup {Torn}] : n \in 0 .. SectorSize}

LEMMA PagesAre ==
    ASSUME NEW t \in Pages
    PROVE  /\ t \in Seq(Image \cup {Torn})
           /\ Len(t) \in 0 .. SectorSize
BY FlashAssumption DEF Pages

LEMMA AppendOne ==
    ASSUME NEW S, NEW t \in Seq(S), NEW v \in S
    PROVE  /\ Append(t, v) \in [1 .. Len(t) + 1 -> S]
           /\ Len(Append(t, v)) = Len(t) + 1
           /\ \A i \in 1 .. Len(t) : Append(t, v)[i] = t[i]
           /\ Append(t, v)[Len(t) + 1] = v
PROOF
  <1>1. Append(t, v) \in Seq(S) /\ Len(Append(t, v)) = Len(t) + 1
    OBVIOUS
  <1>2. \A a \in Seq(S) : a \in [1 .. Len(a) -> S]
    OBVIOUS
  <1>3. Append(t, v) \in [1 .. Len(t) + 1 -> S]
    BY <1>1, <1>2
  <1> QED
    BY <1>1, <1>3

LEMMA PagesGrow ==
    ASSUME NEW t \in Pages, NEW v \in Image \cup {Torn}, Len(t) < SectorSize
    PROVE  /\ Append(t, v) \in Pages
           /\ Len(Append(t, v)) = Len(t) + 1
           /\ \A i \in 1 .. Len(t) : Append(t, v)[i] = t[i]
           /\ Append(t, v)[Len(t) + 1] = v
PROOF
  <1>1. t \in Seq(Image \cup {Torn}) /\ Len(t) \in 0 .. SectorSize
    BY PagesAre
  <1>2. /\ Append(t, v) \in [1 .. Len(t) + 1 -> Image \cup {Torn}]
        /\ Len(Append(t, v)) = Len(t) + 1
        /\ \A i \in 1 .. Len(t) : Append(t, v)[i] = t[i]
        /\ Append(t, v)[Len(t) + 1] = v
    BY <1>1, AppendOne
  <1>3. Len(t) + 1 \in 0 .. SectorSize
    BY <1>1, FlashAssumption
  <1>4. Append(t, v) \in Pages
    <2> DEFINE n == Len(t) + 1
    <2>1. Append(t, v) \in [1 .. n -> Image \cup {Torn}] /\ n \in 0 .. SectorSize
      BY <1>2, <1>3
    <2> HIDE DEF n
    <2> QED
      BY <2>1 DEF Pages
  <1> QED
    BY <1>2, <1>4

LEMMA NoPages == <<>> \in Pages /\ Len(<<>>) = 0
PROOF
  <1>1. <<>> \in [1 .. 0 -> Image \cup {Torn}]
    OBVIOUS
  <1>2. 0 \in 0 .. SectorSize
    BY FlashAssumption
  <1> QED
    BY <1>1, <1>2 DEF Pages

Counts == -1 .. SectorSize + MapEntries

LEMMA JobFields ==
    ASSUME NEW job \in Job
    PROVE  /\ job.kind \in AllKinds /\ job.from \in Sectors /\ job.sec \in Sectors
           /\ job.last \in Sectors /\ job.cnt \in Counts /\ job.temp \in Pages
           /\ IsJob(job)
BY DEF Job, AllKinds, Counts, Pages, IsJob, Fields

SameRequest(next, job) ==
    next.kind = job.kind /\ next.from = job.from /\ next.last = job.last

LEMMA JobCounted ==
    ASSUME NEW job \in Job, NEW n \in Counts
    PROVE  LET next == [job EXCEPT !.cnt = n]
           IN  /\ next \in Job /\ SameRequest(next, job)
               /\ next.sec = job.sec /\ next.cnt = n /\ next.temp = job.temp
BY DEF Job, Counts, SameRequest

LEMMA JobPaged ==
    ASSUME NEW job \in Job, NEW t \in Pages
    PROVE  LET next == [job EXCEPT !.temp = t]
           IN  /\ next \in Job /\ SameRequest(next, job)
               /\ next.sec = job.sec /\ next.cnt = job.cnt /\ next.temp = t
BY DEF Job, Pages, SameRequest

LEMMA JobMoved ==
    ASSUME NEW job \in Job, job.sec < job.last, NEW n \in Counts
    PROVE  LET next == AtSector(job, n)
           IN  /\ next \in Job /\ SameRequest(next, job)
               /\ next.sec = job.sec + 1 /\ next.cnt = n /\ next.temp = <<>>
PROOF
  <1>1. job.sec + 1 \in Sectors
    BY FlashAssumption DEF Sectors, Job
  <1> DEFINE moved   == [job EXCEPT !.sec = @ + 1]
             counted == [moved EXCEPT !.cnt = n]
  <1>2. /\ moved \in Job /\ SameRequest(moved, job)
        /\ moved.sec = job.sec + 1
    BY <1>1 DEF Job, SameRequest
  <1>3. /\ counted \in Job /\ SameRequest(counted, moved)
        /\ counted.sec = moved.sec /\ counted.cnt = n
    <2> HIDE DEF moved
    <2> QED
      BY <1>2, JobCounted
  <1>4. AtSector(job, n) = [counted EXCEPT !.temp = <<>>]
    BY DEF AtSector
  <1> HIDE DEF counted
  <1>5. /\ [counted EXCEPT !.temp = <<>>] \in Job
        /\ SameRequest([counted EXCEPT !.temp = <<>>], counted)
        /\ [counted EXCEPT !.temp = <<>>].sec = counted.sec
        /\ [counted EXCEPT !.temp = <<>>].cnt = counted.cnt
        /\ [counted EXCEPT !.temp = <<>>].temp = <<>>
    BY <1>3, NoPages, JobPaged
  <1> QED
    BY <1>2, <1>3, <1>4, <1>5 DEF SameRequest

LEMMA JobQueued ==
    ASSUME NEW kind \in AllKinds, NEW s \in Sectors, NEW count \in 1 .. NumSectors - s
    PROVE  LET job == NewJob(kind, s, count)
           IN  /\ job \in Job /\ job.kind = kind /\ job.from = s /\ job.sec = s
               /\ job.last = LastOf(s, count) /\ s <= job.last
               /\ job.temp = <<>> /\ (kind \in {"program", "verify"} => job.cnt = -1)
PROOF
  <1>1. LastOf(s, count) \in Sectors /\ s <= LastOf(s, count)
    BY FlashAssumption DEF LastOf, Sectors
  <1>2. {-1, 0} \subseteq Counts
    BY FlashAssumption, JobsAssumption DEF Counts
  <1> QED
    BY <1>1, <1>2, NoPages DEF NewJob, Job, AllKinds, Pages, Counts

-----------------------------------------------------------------------------
(* Every variable keeps its type. *)

Statuses == Ended \cup Running

JobsTypeOK == queue \in Seq(Job) /\ pending \in Statuses

LEMMA JobsTyped == FlashTypeOK <=> /\ RegionTypeOK /\ JobsTypeOK
                                   /\ fakeMode \in BOOLEAN /\ console \in BOOLEAN
                                   /\ state \in {"prompt", "run", "fake", "closed"}
                                   /\ talk \in {"idle", "reading", "answer"}
BY DEF FlashTypeOK, JobsTypeOK, Statuses, Ended

LEMMA AgainTyped ==
    ASSUME NEW job, queue = <<job>>, JobsTypeOK, NEW next \in Job, Again(next)
    PROVE  JobsTypeOK'
PROOF
  <1>1. queue' = <<next>> /\ pending' = pending
    BY OneElement DEF Again
  <1>2. <<next>> \in Seq(Job)
    OBVIOUS
  <1> QED
    BY <1>1, <1>2 DEF JobsTypeOK

LEMMA DoneTyped ==
    ASSUME NEW job, queue = <<job>>, NEW status \in Ended, Done(status)
    PROVE  JobsTypeOK'
PROOF
  <1>1. queue' = <<>> /\ pending' = status
    BY OneElement DEF Done
  <1>2. <<>> \in Seq(Job)
    OBVIOUS
  <1> QED
    BY <1>1, <1>2 DEF JobsTypeOK, Statuses

LEMMA StepCounts == {-1, 0} \subseteq Counts /\ Counts \subseteq Int
BY FlashAssumption, JobsAssumption DEF Counts

(* The flash after an erase, and after some units were programmed. *)
LEMMA ErasedTyped ==
    ASSUME RegionTypeOK, NEW s
    PROVE  ErasedSector(s) \in [Units -> Image \cup {Torn}]
BY DEF ErasedSector, RegionTypeOK, Image

LEMMA ProgrammedTyped ==
    ASSUME RegionTypeOK, NEW U
    PROVE  Programmed(U) \in [Units -> Image \cup {Torn}]
PROOF
  <1>1. ASSUME NEW u \in Units
        PROVE  (IF u \notin U \/ fbuf[u] \in {Erased, flash[u]} THEN flash[u]
                ELSE IF flash[u] = Erased THEN fbuf[u] ELSE Torn) \in Image \cup {Torn}
    BY DEF RegionTypeOK
  <1> QED
    BY <1>1 DEF Programmed

LEMMA NextSectorTyped ==
    ASSUME NEW job \in Job, queue = <<job>>, JobsTypeOK,
           NEW n \in Counts, NEW status \in Ended, NextSector(job, n, status)
    PROVE  JobsTypeOK'
PROOF
  <1>1. CASE job.sec < job.last /\ Again(AtSector(job, n))
    BY <1>1, JobMoved, AgainTyped
  <1>2. CASE Done(status)
    BY <1>2, DoneTyped
  <1> QED
    BY <1>1, <1>2 DEF NextSector

LEMMA JudgedTyped ==
    ASSUME NEW job \in Job, queue = <<job>>, JobsTypeOK, NEW states, Judged(job, states)
    PROVE  JobsTypeOK'
PROOF
  <1>1. CASE job.sec < job.last /\ Again(AtSector(job, -1))
    BY <1>1, StepCounts, JobMoved, AgainTyped
  <1>2. CASE Done(Verdict(states, job))
    <2>1. Verdict(states, job) \in Ended
      BY DEF Verdict, Ended, Results
    <2> QED
      BY <1>2, <2>1, DoneTyped
  <1> QED
    BY <1>1, <1>2 DEF Judged

LEMMA EraseTyped ==
    ASSUME FlashTypeOK, NEW job \in Job, queue = <<job>>, EraseStep(job)
    PROVE  RegionTypeOK' /\ JobsTypeOK'
PROOF
  <1>1. RegionTypeOK /\ JobsTypeOK
    BY JobsTyped
  <1>2. flash' \in [Units -> Image \cup {Torn}]
    BY <1>1, ErasedTyped DEF EraseStep, RegionTypeOK
  <1>3. AfterErase(job.sec) \in SectorState
    BY <1>1, StatesAre, JobFields DEF AfterErase, RegionTypeOK
  <1>4. RegionTypeOK'
    BY <1>1, <1>2, <1>3 DEF EraseStep, RegionTypeOK
  <1>5. {"erased", "erase failed"} \subseteq Ended
    BY DEF Ended, Results
  <1>6. JobsTypeOK'
    BY <1>1, <1>5, StepCounts, NextSectorTyped, DoneTyped DEF EraseStep
  <1> QED
    BY <1>4, <1>6

LEMMA ProgramTyped ==
    ASSUME FlashTypeOK, NEW job \in Job, queue = <<job>>, ProgramStep(job)
    PROVE  RegionTypeOK' /\ JobsTypeOK'
PROOF
  <1>1. RegionTypeOK /\ JobsTypeOK /\ UNCHANGED <<fbuf, written>>
    BY JobsTyped DEF ProgramStep
  <1>2. {"programmed", "program failed", "erase failed"} \subseteq Ended
    BY DEF Ended, Results
  <1>3. job.cnt \in Counts
    BY JobFields
  <1>4. ASSUME EraseBeforeProgram(job) PROVE RegionTypeOK' /\ JobsTypeOK'
    <2>1. flash' \in [Units -> Image \cup {Torn}] /\ UNCHANGED valid
      BY <1>1, <1>4, ErasedTyped DEF EraseBeforeProgram, RegionTypeOK
    <2>2. RegionTypeOK'
      BY <1>1, <2>1 DEF RegionTypeOK
    <2>3. CASE Again([job EXCEPT !.cnt = 0])
      BY <2>3, <2>2, <1>1, StepCounts, JobCounted, AgainTyped
    <2>4. CASE \E status \in {"program failed", "erase failed"} : Done(status)
      BY <2>4, <2>2, <1>2, DoneTyped
    <2> QED
      BY <1>4, <2>3, <2>4 DEF EraseBeforeProgram
  <1>5. ASSUME PrepareProgram(job) PROVE RegionTypeOK' /\ JobsTypeOK'
    <2>1. RegionTypeOK'
      BY <1>1, <1>5 DEF PrepareProgram, RegionTypeOK
    <2>2. CASE Again([job EXCEPT !.cnt = 0])
      BY <2>2, <2>1, <1>1, StepCounts, JobCounted, AgainTyped
    <2>3. CASE Done("program failed")
      BY <2>3, <2>1, <1>2, DoneTyped
    <2> QED
      BY <1>5, <2>2, <2>3 DEF PrepareProgram
  <1>6. ASSUME ProgramUnits(job) PROVE RegionTypeOK' /\ JobsTypeOK'
    <2>1. flash' \in [Units -> Image \cup {Torn}]
      BY <1>1, <1>6, ProgrammedTyped DEF ProgramUnits, AfterUnits
    <2>2. SectorDone(job.sec) \in [Sectors -> SectorState]
      BY <1>1, JobFields, ClearedState DEF SectorDone, RegionTypeOK
    <2>3. valid' \in [Sectors -> SectorState]
      BY <1>1, <1>6, <2>2 DEF ProgramUnits, RegionTypeOK
    <2>4. RegionTypeOK'
      BY <1>1, <2>1, <2>3 DEF RegionTypeOK
    <2>5. ASSUME NEW n \in 1 .. SectorSize - job.cnt - 1, Again([job EXCEPT !.cnt = @ + n])
          PROVE  JobsTypeOK'
      <3>1. job.cnt >= 0
        BY <1>6 DEF ProgramUnits
      <3>2. job.cnt + n \in Counts
        BY <1>3, <3>1, FlashAssumption, JobsAssumption DEF Counts
      <3> QED
        BY <1>1, <2>5, <3>2, JobCounted, AgainTyped
    <2>6. CASE NextSector(job, -1, "programmed")
      BY <2>6, <2>4, <1>1, <1>2, StepCounts, NextSectorTyped
    <2>7. CASE Done("program failed")
      BY <2>7, <2>4, <1>2, DoneTyped
    <2> QED
      BY <1>6, <2>4, <2>5, <2>6, <2>7 DEF ProgramUnits
  <1>7. ASSUME UNCHANGED <<flash, valid>>, Done("program failed")
        PROVE  RegionTypeOK' /\ JobsTypeOK'
    BY <1>1, <1>2, <1>7, DoneTyped DEF RegionTypeOK
  <1>8. ASSUME UNCHANGED <<flash, valid>>, NextSector(job, -1, "programmed")
        PROVE  RegionTypeOK' /\ JobsTypeOK'
    BY <1>1, <1>2, <1>8, StepCounts, NextSectorTyped DEF RegionTypeOK
  <1> QED
    BY <1>4, <1>5, <1>6, <1>7, <1>8 DEF ProgramStep

LEMMA PageIsFlash ==
    ASSUME RegionTypeOK, NEW job \in Job, Len(job.temp) < SectorSize
    PROVE  flash[job.sec * SectorSize + Len(job.temp)] \in Image \cup {Torn}
PROOF
  <1>1. job.sec \in Sectors /\ Len(job.temp) \in 0 .. SectorSize - 1
    BY JobFields, PagesAre, FlashAssumption
  <1>2. job.sec * SectorSize + Len(job.temp) \in Units
    BY <1>1, PlaceUnit
  <1> QED
    BY <1>2 DEF RegionTypeOK

LEMMA PagesRead ==
    ASSUME RegionTypeOK, NEW job \in Job, Len(PageRead(job)) <= SectorSize
    PROVE  /\ PageRead(job) \in Pages
           /\ Len(PageRead(job)) = Len(job.temp) + 1
           /\ \A i \in 1 .. Len(job.temp) : PageRead(job)[i] = job.temp[i]
           /\ PageRead(job)[Len(job.temp) + 1] = flash[job.sec * SectorSize + Len(job.temp)]
           /\ \A i \in 1 .. Len(PageRead(job)) : PageRead(job)[i] \in Image \cup {Torn}
PROOF
  <1>1. job.temp \in Pages /\ job.temp \in Seq(Image \cup {Torn}) /\ Len(job.temp) \in 0 .. SectorSize
    BY JobFields, PagesAre
  <1>2. Len(job.temp) < SectorSize
    BY <1>1, FlashAssumption DEF PageRead
  <1>3. flash[job.sec * SectorSize + Len(job.temp)] \in Image \cup {Torn}
    BY <1>2, PageIsFlash
  <1>4. /\ PageRead(job) \in Pages
        /\ Len(PageRead(job)) = Len(job.temp) + 1
        /\ \A i \in 1 .. Len(job.temp) : PageRead(job)[i] = job.temp[i]
        /\ PageRead(job)[Len(job.temp) + 1] = flash[job.sec * SectorSize + Len(job.temp)]
    BY <1>1, <1>2, <1>3, PagesGrow DEF PageRead
  <1>5. PageRead(job) \in Seq(Image \cup {Torn})
    BY <1>4, PagesAre
  <1> QED
    BY <1>4, <1>5

LEMMA VerifyTyped ==
    ASSUME FlashTypeOK, NEW job \in Job, queue = <<job>>, VerifyStep(job)
    PROVE  RegionTypeOK' /\ JobsTypeOK'
PROOF
  <1>1. RegionTypeOK /\ JobsTypeOK /\ UNCHANGED <<flash, written>>
    BY JobsTyped DEF VerifyStep
  <1> DEFINE pages == PageRead(job)
  <1>2. CASE /\ Len(pages) < SectorSize
             /\ Again([job EXCEPT !.temp = pages])
             /\ UNCHANGED <<fbuf, valid>>
    <2>1. pages \in Pages
      BY <1>1, <1>2, PagesRead, FlashAssumption, PagesAre
    <2>2. JobsTypeOK'
      BY <1>1, <1>2, <2>1, JobPaged, AgainTyped
    <2> QED
      BY <1>1, <1>2, <2>2 DEF RegionTypeOK
  <1>3. CASE /\ Len(pages) = SectorSize
             /\ fbuf' = [u \in Units |->
                            IF SectorOf(u) = job.sec /\ valid[job.sec] = SECTOR_INVALID
                            THEN pages[(u % SectorSize) + 1] ELSE fbuf[u]]
             /\ valid' = [valid EXCEPT ![job.sec] = VerifiedState(job.sec, pages)]
             /\ Judged(job, valid')
    <2>1. \A u \in Units : pages[(u % SectorSize) + 1] \in Image \cup {Torn}
      <3>1. \A i \in 1 .. SectorSize : pages[i] \in Image \cup {Torn}
        <4>1. Len(PageRead(job)) = SectorSize /\ Len(PageRead(job)) <= SectorSize
          BY <1>3, FlashAssumption
        <4>2. \A i \in 1 .. Len(PageRead(job)) : PageRead(job)[i] \in Image \cup {Torn}
          BY <1>1, <4>1, PagesRead
        <4> QED
          BY <4>1, <4>2
      <3>2. \A u \in Units : (u % SectorSize) + 1 \in 1 .. SectorSize
        BY UnitPlace, FlashAssumption
      <3> HIDE DEF pages
      <3> QED
        BY <3>1, <3>2
    <2>2. VerifiedState(job.sec, pages) \in SectorState
      BY VerifiedStates
    <2> HIDE DEF pages
    <2>3. fbuf' \in [Units -> Image \cup {Torn}]
      BY <1>1, <1>3, <2>1 DEF RegionTypeOK
    <2>4. valid' \in [Sectors -> SectorState]
      BY <1>1, <1>3, <2>2 DEF RegionTypeOK
    <2>5. RegionTypeOK'
      BY <1>1, <2>3, <2>4 DEF RegionTypeOK
    <2> QED
      BY <1>1, <1>3, <2>5, JudgedTyped
  <1> QED
    BY <1>2, <1>3 DEF VerifyStep

LEMMA CheckTyped ==
    ASSUME FlashTypeOK, NEW job \in Job, queue = <<job>>, CheckStep(job)
    PROVE  RegionTypeOK' /\ JobsTypeOK'
PROOF
  <1>1. RegionTypeOK /\ JobsTypeOK /\ UNCHANGED <<flash, fbuf, written>>
    BY JobsTyped DEF CheckStep
  <1>2. \A same : Compared(same) \in SectorState
    BY StatesAre DEF Compared
  <1>3. RegionTypeOK'
    BY <1>1, <1>2 DEF CheckStep, RegionTypeOK
  <1>4. "error" \in Ended
    BY DEF Ended, Unreported
  <1> QED
    BY <1>1, <1>3, <1>4, JudgedTyped, DoneTyped DEF CheckStep

LEMMA PrintTyped ==
    ASSUME FlashTypeOK, NEW job \in Job, queue = <<job>>, PrintStep(job)
    PROVE  RegionTypeOK' /\ JobsTypeOK'
PROOF
  <1>1. RegionTypeOK /\ JobsTypeOK
    BY JobsTyped
  <1>2. RegionTypeOK'
    BY <1>1 DEF PrintStep, RegionTypeOK, flashVars
  <1>3. CASE job.cnt < MapEntries /\ Again([job EXCEPT !.cnt = @ + 1])
    <2>1. job.cnt + 1 \in Counts
      BY <1>3, JobFields, FlashAssumption, JobsAssumption DEF Counts
    <2> QED
      BY <1>1, <1>2, <1>3, <2>1, JobCounted, AgainTyped
  <1>4. CASE Done("printed")
    <2>1. "printed" \in Ended
      BY DEF Ended, Unreported
    <2> QED
      BY <1>2, <1>4, <2>1, DoneTyped
  <1> QED
    BY <1>3, <1>4 DEF PrintStep

LEMMA JobStepTyped ==
    ASSUME FlashTypeOK, NEW job \in Job, queue = <<job>>, JobStep(job)
    PROVE  RegionTypeOK' /\ JobsTypeOK'
PROOF
  <1>1. CASE state # "run"
    BY <1>1, EraseTyped, ProgramTyped, VerifyTyped, CheckTyped, PrintTyped DEF JobStep
  <1>2. CASE Done(FailureOf[job.kind]) /\ UNCHANGED flashVars
    <2>1. FailureOf[job.kind] \in Ended
      BY JobFields, StatusKinds
    <2>2. JobsTypeOK'
      BY <1>2, <2>1, DoneTyped
    <2> QED
      BY <1>2, <2>2, JobsTyped DEF RegionTypeOK, flashVars
  <1> QED
    BY <1>1, <1>2 DEF JobStep

LEMMA CallbackTyped ==
    ASSUME QueueInv, FlashTypeOK, DoCallback
    PROVE  RegionTypeOK' /\ JobsTypeOK' /\ console' \in BOOLEAN
PROOF
  <1>1. CASE queue = <<>>
    BY <1>1, JobsTyped DEF DoCallback, RegionTypeOK, JobsTypeOK, flashVars, jobVars, FlashTypeOK
  <1>2. CASE queue # <<>>
    <2>1. queue = <<Head(queue)>> /\ Head(queue) \in Job
      BY <1>2, JobsTyped DEF QueueInv, QueueOK, JobsTypeOK
    <2>2. JobStep(Head(queue)) /\ console' \in BOOLEAN
      BY <1>2 DEF DoCallback, FlashTypeOK
    <2> QED
      BY <2>1, <2>2, JobStepTyped
  <1> QED
    BY <1>1, <1>2

LEMMA StartTyped ==
    ASSUME QueueInv, FlashTypeOK, NEW kind \in AllKinds, NEW s \in Sectors,
           NEW count \in 1 .. NumSectors - s, Start(kind, s, count)
    PROVE  FlashTypeOK'
PROOF
  <1>1. queue = <<>>
    BY StatusKinds DEF QueueInv, QueueOK, IsJob, Start, InProcess
  <1>2. NewJob(kind, s, count) \in Job
    BY JobQueued
  <1>3. queue' = <<NewJob(kind, s, count)>>
    BY <1>1, OneElement DEF Start
  <1>4. queue' \in Seq(Job)
    <2> \A job \in Job : <<job>> \in Seq(Job)
      OBVIOUS
    <2> QED
      BY <1>2, <1>3
  <1>5. pending' \in Statuses
    BY StatusKinds DEF Start, Statuses
  <1> QED
    BY <1>4, <1>5 DEF FlashTypeOK, JobsTypeOK, Start, RegionTypeOK, flashVars, hostVars,
                      Statuses, Ended

LEMMA WriteTyped ==
    ASSUME RegionTypeOK, NEW S \in FlashBlocks, NEW v \in Image, WriteFlash(S, v)
    PROVE  RegionTypeOK'
PROOF
  <1>1. fbuf' \in [Units -> Image \cup {Torn}]
    BY DEF WriteFlash, RegionTypeOK, Image
  <1>2. valid' \in [Sectors -> SectorState]
    BY StatesAre DEF WriteFlash, RegionTypeOK
  <1>3. written' \subseteq Units /\ UNCHANGED flash
    BY BlocksAssumption DEF WriteFlash, RegionTypeOK
  <1> QED
    BY <1>1, <1>2, <1>3 DEF RegionTypeOK

LEMMA ReadTyped ==
    ASSUME RegionTypeOK, NEW S, ReadFlash(S)
    PROVE  RegionTypeOK'
PROOF
  <1>1. \A u \in Units : Merged(u) \in Image \cup {Torn}
    BY DEF Merged, RegionTypeOK
  <1>2. \A s \in Sectors : ReadState(s) \in SectorState
    BY StatesAre DEF ReadState, RegionTypeOK
  <1>3. fbuf' \in [Units -> Image \cup {Torn}]
    BY <1>1 DEF ReadFlash, RegionTypeOK
  <1>4. valid' \in [Sectors -> SectorState]
    BY <1>2 DEF ReadFlash, RegionTypeOK
  <1> QED
    BY <1>3, <1>4 DEF ReadFlash, RegionTypeOK

LEMMA TypeInit == Init => FlashTypeOK
PROOF
  <1> SUFFICES ASSUME Init PROVE FlashTypeOK
    OBVIOUS
  <1>1. RegionTypeOK
    BY StatesAre DEF Init, RegionInit, RegionTypeOK, Image
  <1>2. <<>> \in Seq(Job)
    OBVIOUS
  <1> QED
    BY <1>1, <1>2 DEF Init, FlashTypeOK

LEMMA TypeStep ==
    ASSUME QueueInv, FlashTypeOK, [Next]_vars
    PROVE  FlashTypeOK'
PROOF
  <1>1. CASE StartFlash
    <2>1. PICK kind \in Kinds \ {"print"}, s \in Sectors :
             \E count \in 1 .. NumSectors - s : Start(kind, s, count)
      BY <1>1 DEF StartFlash
    <2>2. kind \in AllKinds
      BY JobsAssumption DEF AllKinds
    <2> QED
      BY <2>1, <2>2, StartTyped
  <1>2. CASE StartPrint
    <2>1. 0 \in Sectors /\ 1 \in 1 .. NumSectors - 0
      BY FlashAssumption DEF Sectors
    <2> QED
      BY <1>2, <2>1, StartTyped DEF StartPrint, AllKinds
  <1>3. CASE FlashState
    BY <1>3 DEF FlashState, FlashTypeOK, RegionTypeOK, flashVars, hostVars
  <1>4. ASSUME NEW S \in FlashBlocks, Read(S) PROVE FlashTypeOK'
    <2>1. RegionTypeOK'
      BY <1>4, ReadTyped DEF Read, FlashTypeOK
    <2> QED
      BY <1>4, <2>1 DEF Read, Touch, FlashTypeOK, jobVars, hostVars
  <1>5. ASSUME NEW S \in FlashBlocks, NEW v \in Image, Write(S, v) PROVE FlashTypeOK'
    <2>1. RegionTypeOK'
      BY <1>5, WriteTyped DEF Write, FlashTypeOK
    <2> QED
      BY <1>5, <2>1 DEF Write, Touch, FlashTypeOK, jobVars, hostVars
  <1>6. CASE InterruptPrompt \/ InterruptFake
    <2>1. <<>> \in Seq(Job)
      OBVIOUS
    <2>2. queue' \in Seq(Job)
      BY <1>6, <2>1 DEF InterruptPrompt, InterruptFake
    <2>3. pending' \in Statuses
      BY <1>6, JobsTyped DEF InterruptPrompt, InterruptFake, JobsTypeOK, Statuses, Ended, Results
    <2>4. RegionTypeOK'
      BY <1>6 DEF InterruptPrompt, InterruptFake, FlashTypeOK, RegionTypeOK, flashVars
    <2> QED
      BY <1>6, <2>2, <2>3, <2>4 DEF InterruptPrompt, InterruptFake, FlashTypeOK, hostVars,
                                    Statuses, Ended
  <1>7. CASE FakeWrite \/ FakeEnd
    BY <1>7 DEF FakeWrite, FakeEnd, FlashTypeOK, RegionTypeOK, flashVars, jobVars
  <1>8. CASE SetFakeContinue \/ Continue \/ Stopped \/ Close \/ Accept
    BY <1>8 DEF SetFakeContinue, Continue, Stopped, Close, Accept, FlashTypeOK,
                RegionTypeOK, flashVars, jobVars
  <1>9. CASE WaitCallback
    BY <1>9, CallbackTyped, JobsTyped DEF WaitCallback, hostVars, FlashTypeOK, JobsTypeOK,
                                          Statuses, Ended
  <1>10. CASE FakeRead \/ FakeAnswer \/ FakePoll
    <2>1. RegionTypeOK' /\ JobsTypeOK' /\ console' \in BOOLEAN
      BY <1>10, CallbackTyped DEF FakeRead, FakeAnswer, FakePoll
    <2> QED
      BY <1>10, <2>1 DEF FakeRead, FakeAnswer, FakePoll, hostVars, FlashTypeOK, JobsTypeOK,
                         Statuses, Ended
  <1>11. CASE UNCHANGED vars
    BY <1>11 DEF vars, FlashTypeOK, RegionTypeOK, flashVars, jobVars, hostVars
  <1> QED
    BY <1>1, <1>2, <1>3, <1>4, <1>5, <1>6, <1>7, <1>8, <1>9, <1>10, <1>11
       DEF Next, FakeStep

(* The variables keep their types: a job never leaves the sectors of the   *)
(* flash, its page buffer never grows beyond a sector, and a sector state  *)
(* is one of the six of jt_flash.h.                                        *)
THEOREM FlashTypes == Spec => []FlashTypeOK
PROOF
  <1>1. QueueInv /\ FlashTypeOK /\ [Next]_vars => FlashTypeOK'
    BY TypeStep
  <1> QED
    BY TypeInit, QueueInvariance, <1>1, PTL DEF Spec

-----------------------------------------------------------------------------
(* What gdb downloaded *)

LEMMA DownloadStep ==
    ASSUME QueueInv, FlashTypeOK, [Next]_vars,
           NEW u \in written, valid[SectorOf(u)] # SECTOR_INVALID, fbuf'[u] # fbuf[u]
    PROVE  \E S \in FlashBlocks : u \in S /\ \E v \in Image : Write(S, v)
PROOF
  <1>1. u \in Units /\ RegionTypeOK /\ fbuf = [x \in Units |-> fbuf[x]]
    BY DEF FlashTypeOK, RegionTypeOK
  <1>2. ASSUME NEW job, JobStep(job) PROVE fbuf'[u] = fbuf[u]
    <2>1. CASE VerifyStep(job)
      BY <1>1, <2>1 DEF VerifyStep
    <2>2. CASE UNCHANGED fbuf
      BY <2>2
    <2> QED
      BY <1>2, <2>1, <2>2 DEF JobStep, EraseStep, ProgramStep, CheckStep, PrintStep, flashVars
  <1>3. ~DoCallback
    BY <1>2 DEF DoCallback, flashVars
  <1>4. ASSUME NEW S, Read(S) PROVE FALSE
    BY <1>1, <1>4 DEF Read, ReadFlash, Merged
  <1>5. ASSUME NEW S \in FlashBlocks, NEW v \in Image, Write(S, v) PROVE u \in S
    BY <1>1, <1>5 DEF Write, WriteFlash
  <1>6. \E S \in FlashBlocks : \E v \in Image : Write(S, v)
    BY <1>3, <1>4 DEF Next, vars, flashVars, StartFlash, StartPrint, Start, FlashState,
                      InterruptPrompt, SetFakeContinue, Continue, Stopped, Close, Accept,
                      WaitCallback, FakeStep, FakeWrite, FakeRead, FakeAnswer, FakePoll,
                      FakeEnd, InterruptFake
  <1> QED
    BY <1>5, <1>6

(* A download is never lost behind gdb's back, whatever fails, whoever     *)
(* interrupts and however blocks and sectors lie: no read, no merge with   *)
(* the flash and no job changes a unit gdb wrote while its sector is valid. *)
THEOREM DownloadsStay == Spec => DownloadKept
PROOF
  <1>1. QueueInv /\ FlashTypeOK /\ [Next]_vars
        => [\A u \in written :
              /\ valid[SectorOf(u)] # SECTOR_INVALID
              /\ fbuf'[u] # fbuf[u]
              => \E S \in FlashBlocks : u \in S /\ \E v \in Image : Write(S, v)]_vars
    BY DownloadStep
  <1> QED
    BY QueueInvariance, FlashTypes, <1>1, PTL DEF Spec, DownloadKept

-----------------------------------------------------------------------------
(* What the jobs promise, with a chip that does not fail and a user who    *)
(* waits for them, in the prompt or in a fake continue.                    *)

Quiet == Client \subseteq {"fake", "close"} /\ ~MayFail

(* The sector a programming is in the middle of. *)
Begun(job) == IF job.kind = "program" /\ job.cnt >= 0 THEN {job.sec} ELSE {}

(* The flags of each sector are true of the flash f and the buffer b.      *)
RegionTrue(f, b, v, begun) ==
    /\ f \in [Units -> Image] /\ b \in [Units -> Image]
    /\ \A s \in Sectors :
         /\ v[s] \in {SECTOR_READ_VALID, SECTOR_READ_ERASED_VALID}
            => \A u \in UnitsOf(s) : b[u] = f[u]
         /\ v[s] = SECTOR_WRITE_DURTY_ERASED /\ s \notin begun
            => \A u \in UnitsOf(s) : f[u] = Erased

(* What a job has done so far. *)
SectorsProgrammed(job, f, b, v) ==
    \A s \in job.from .. job.sec - 1 :
        v[s] = SECTOR_INVALID \/ \A u \in UnitsOf(s) : b[u] = f[u]

UnitsProgrammed(job, f, b, v) ==
    job.cnt >= 0 =>
        /\ job.cnt < SectorSize
        /\ v[job.sec] \in {SECTOR_WRITE_DURTY, SECTOR_WRITE_DURTY_ERASED}
        /\ \A u \in UnitsOf(job.sec) :
             f[u] = IF u % SectorSize < job.cnt THEN b[u] ELSE Erased

SectorsCompared(job, v) ==
    \A s \in job.from .. job.sec - 1 : v[s] # SECTOR_WRITE

PagesTrue(job, f) ==
    /\ Len(job.temp) < SectorSize
    /\ \A i \in 1 .. Len(job.temp) : job.temp[i] = f[job.sec * SectorSize + (i - 1)]

JobTrue(job, f, b, v) ==
    /\ job.from <= job.sec /\ job.sec <= job.last
    /\ job.kind = "program" =>
         SectorsProgrammed(job, f, b, v) /\ UnitsProgrammed(job, f, b, v)
    /\ job.kind \in {"verify", "check"} => SectorsCompared(job, v)
    /\ job.kind = "verify" => PagesTrue(job, f)

DataInv ==
    /\ RegionTrue(flash, fbuf, valid, IF queue = <<>> THEN {} ELSE Begun(Head(queue)))
    /\ queue # <<>> => JobTrue(Head(queue), flash, fbuf, valid)
    /\ state = "run" => ~InProcess

(* What the result of a job says of the sectors it was asked for. *)
Reported(job) ==
    pending' \in {"programmed", "equal"} =>
        \A s \in job.from .. job.last :
            valid'[s] = SECTOR_INVALID \/ \A u \in UnitsOf(s) : fbuf'[u] = flash'[u]

(* How a step of a job leaves the queue and the flash. *)
StepTrue(job) ==
    \/ /\ queue' = <<>>
       /\ RegionTrue(flash', fbuf', valid', {})
       /\ Reported(job)
    \/ \E next \in Job :
         /\ queue' = <<next>> /\ pending' = pending
         /\ RegionTrue(flash', fbuf', valid', Begun(next))
         /\ JobTrue(next, flash', fbuf', valid')

Standing(job) ==
    /\ FlashTypeOK
    /\ queue = <<job>>
    /\ RegionTrue(flash, fbuf, valid, Begun(job))
    /\ JobTrue(job, flash, fbuf, valid)

LEMMA StandingFacts ==
    ASSUME NEW job \in Job, Standing(job)
    PROVE  /\ RegionTypeOK /\ queue = <<job>>
           /\ job.sec \in Sectors /\ job.from \in Sectors /\ job.last \in Sectors
           /\ job.from <= job.sec /\ job.sec <= job.last
           /\ \A s \in job.from .. job.last : s \in Sectors
PROOF
  <1>1. job.sec \in Sectors /\ job.from \in Sectors /\ job.last \in Sectors
    BY JobFields
  <1> QED
    BY <1>1, FlashAssumption DEF Standing, JobTrue, FlashTypeOK, Sectors

(* A job that ends early leaves its sectors to gdb. *)
LEMMA DoneTrue ==
    ASSUME NEW job, queue = <<job>>, NEW status, Done(status),
           status \notin {"programmed", "equal"},
           RegionTrue(flash', fbuf', valid', {})
    PROVE  StepTrue(job)
BY OneElement DEF Done, StepTrue, Reported

LEMMA AgainTrue ==
    ASSUME NEW job, queue = <<job>>, NEW next \in Job, Again(next),
           RegionTrue(flash', fbuf', valid', Begun(next)),
           JobTrue(next, flash', fbuf', valid')
    PROVE  StepTrue(job)
BY OneElement DEF Again, StepTrue

LEMMA UpToSector ==
    ASSUME NEW job \in Job
    PROVE  \A s \in job.from .. job.sec : s = job.sec \/ s \in job.from .. job.sec - 1
PROOF
  <1>1. job.from \in Int /\ job.sec \in Int
    BY JobFields, FlashAssumption DEF Sectors
  <1> QED
    BY <1>1

(* A sector is done: the job goes on to the next one, or ends. *)
LEMMA SectorEnds ==
    ASSUME NEW job \in Job, Standing(job), RegionTypeOK',
           NEW n \in {-1, 0}, job.kind = "program" => n = -1,
           RegionTrue(flash', fbuf', valid', {}),
           job.kind = "program" =>
               \A s \in job.from .. job.sec :
                   valid'[s] = SECTOR_INVALID \/ \A u \in UnitsOf(s) : fbuf'[u] = flash'[u],
           job.kind \in {"verify", "check"} =>
               \A s \in job.from .. job.sec : valid'[s] # SECTOR_WRITE,
           NEW status, status = "programmed" => job.kind = "program",
           status = "equal" => /\ job.kind \in {"verify", "check"}
                               /\ \A s \in 0 .. job.last : "dirty" \notin valid'[s],
           IF job.sec < job.last THEN Again(AtSector(job, n)) ELSE Done(status)
    PROVE  StepTrue(job)
PROOF
  <1>1. CASE job.sec < job.last /\ Again(AtSector(job, n))
    <2> DEFINE next == AtSector(job, n)
    <2>1. /\ next \in Job /\ SameRequest(next, job)
          /\ next.sec = job.sec + 1 /\ next.cnt = n /\ next.temp = <<>>
      BY <1>1, StepCounts, JobMoved
    <2>2. Again(next)
      BY <1>1
    <2> HIDE DEF next
    <2>3. job.from \in Int /\ job.sec \in Int /\ job.last \in Int
      BY JobFields, FlashAssumption DEF Sectors
    <2>4. next.from .. next.sec - 1 = job.from .. job.sec
      BY <2>1, <2>3 DEF SameRequest
    <2>5. Begun(next) = {}
      BY <2>1 DEF Begun, SameRequest
    <2>6. next.kind = "program" =>
             /\ SectorsProgrammed(next, flash', fbuf', valid')
             /\ UnitsProgrammed(next, flash', fbuf', valid')
      <3>1. next.kind = job.kind
        BY <2>1 DEF SameRequest
      <3>2. job.kind = "program" => ~(next.cnt >= 0)
        BY <2>1
      <3>3. job.kind = "program" => SectorsProgrammed(next, flash', fbuf', valid')
        BY <2>4 DEF SectorsProgrammed
      <3> QED
        BY <3>1, <3>2, <3>3 DEF UnitsProgrammed
    <2>7. next.kind \in {"verify", "check"} => SectorsCompared(next, valid')
      BY <2>1, <2>4 DEF SameRequest, SectorsCompared
    <2>8. PagesTrue(next, flash')
      BY <2>1, NoPages, FlashAssumption DEF PagesTrue
    <2>9. next.from <= next.sec /\ next.sec <= next.last
      BY <1>1, <2>1, <2>3, StandingFacts DEF SameRequest
    <2>10. JobTrue(next, flash', fbuf', valid')
      BY <2>6, <2>7, <2>8, <2>9 DEF JobTrue
    <2> QED
      BY <2>1, <2>2, <2>5, <2>10, AgainTrue DEF Standing
  <1>2. CASE ~(job.sec < job.last) /\ Done(status)
    <2>1. queue' = <<>> /\ pending' = status
      BY <1>2, OneElement DEF Done, Standing
    <2>2. job.last = job.sec
      BY <1>2, StandingFacts, FlashAssumption DEF Sectors
    <2>3. ASSUME NEW s \in job.from .. job.last, status = "equal"
          PROVE  valid'[s] = SECTOR_INVALID \/ \A u \in UnitsOf(s) : fbuf'[u] = flash'[u]
      <3>1. s \in Sectors /\ s \in 0 .. job.last
        BY StandingFacts, FlashAssumption DEF Sectors
      <3>2. valid'[s] \in SectorState /\ "dirty" \notin valid'[s] /\ valid'[s] # SECTOR_WRITE
        BY <2>2, <2>3, <3>1 DEF RegionTypeOK
      <3>3. valid'[s] \in {SECTOR_INVALID, SECTOR_READ_VALID, SECTOR_READ_ERASED_VALID}
        BY <3>2, FlagStates DEF SectorState
      <3> QED
        BY <3>1, <3>3 DEF RegionTrue
    <2>4. Reported(job)
      BY <2>1, <2>2, <2>3 DEF Reported
    <2> QED
      BY <2>1, <2>4 DEF StepTrue
  <1> QED
    BY <1>1, <1>2

(* What a step does to the cells of one sector only. *)
LEMMA OtherSectors ==
    ASSUME NEW job \in Job, Standing(job), NEW X, NEW f, NEW b, NEW v,
           f \in [Units -> Image], b \in [Units -> Image],
           \A u \in Units : SectorOf(u) # job.sec => f[u] = flash[u] /\ b[u] = fbuf[u],
           \A s \in Sectors : s # job.sec => v[s] = valid[s],
           v[job.sec] \in {SECTOR_READ_VALID, SECTOR_READ_ERASED_VALID}
               => \A u \in UnitsOf(job.sec) : b[u] = f[u],
           v[job.sec] = SECTOR_WRITE_DURTY_ERASED /\ job.sec \notin X
               => \A u \in UnitsOf(job.sec) : f[u] = Erased
    PROVE  RegionTrue(f, b, v, X)
PROOF
  <1>1. \A s \in Sectors : s # job.sec => s \notin Begun(job)
    BY DEF Begun
  <1>2. \A s \in Sectors : \A u \in UnitsOf(s) :
            s # job.sec => f[u] = flash[u] /\ b[u] = fbuf[u]
    BY DEF UnitsOf
  <1>3. ASSUME NEW s \in Sectors, s # job.sec
        PROVE  /\ v[s] \in {SECTOR_READ_VALID, SECTOR_READ_ERASED_VALID}
                  => \A u \in UnitsOf(s) : b[u] = f[u]
               /\ v[s] = SECTOR_WRITE_DURTY_ERASED
                  => \A u \in UnitsOf(s) : f[u] = Erased
    BY <1>1, <1>2, <1>3 DEF Standing, RegionTrue
  <1> QED
    BY <1>3 DEF RegionTrue

LEMMA EraseTrue ==
    ASSUME NEW job \in Job, Standing(job), RegionTypeOK', ~MayFail,
           job.kind = "erase", EraseStep(job)
    PROVE  StepTrue(job)
PROOF
  <1>1. /\ flash' = ErasedSector(job.sec) /\ fbuf' = fbuf
        /\ valid' = [valid EXCEPT ![job.sec] = AfterErase(job.sec)]
        /\ NextSector(job, 0, "erased")
    BY DEF EraseStep
  <1>2. /\ flash \in [Units -> Image] /\ fbuf \in [Units -> Image]
        /\ valid \in [Sectors -> SectorState] /\ job.sec \in Sectors
    BY StandingFacts DEF Standing, RegionTrue, RegionTypeOK
  <1>3. /\ flash' \in [Units -> Image]
        /\ \A u \in Units : flash'[u] = IF SectorOf(u) = job.sec THEN Erased ELSE flash[u]
    BY <1>1, <1>2 DEF ErasedSector, Image
  <1>4. valid'[job.sec] \notin {SECTOR_READ_VALID, SECTOR_READ_ERASED_VALID}
    BY <1>1, <1>2, FlagStates, StatesDiffer DEF AfterErase
  <1>5. \A u \in UnitsOf(job.sec) : flash'[u] = Erased
    BY <1>3 DEF UnitsOf
  <1>6. RegionTrue(flash', fbuf', valid', {})
    <2>1. \A s \in Sectors : s # job.sec => valid'[s] = valid[s]
      BY <1>1, <1>2
    <2> QED
      BY <1>1, <1>2, <1>3, <1>4, <1>5, <2>1, OtherSectors
  <1>7. IF job.sec < job.last THEN Again(AtSector(job, 0)) ELSE Done("erased")
    BY <1>1 DEF NextSector
  <1> QED
    BY <1>6, <1>7, SectorEnds

(* What n more units of the sector leave in the flash. *)
LEMMA UnitsWritten ==
    ASSUME NEW job \in Job, Standing(job), job.kind = "program", job.cnt >= 0,
           NEW n \in Nat
    PROVE  /\ AfterUnits(job, n) \in [Units -> Image]
           /\ \A u \in UnitsOf(job.sec) : AfterUnits(job, n)[u] =
                IF u % SectorSize < job.cnt + n THEN fbuf[u] ELSE Erased
           /\ \A u \in Units : SectorOf(u) # job.sec => AfterUnits(job, n)[u] = flash[u]
PROOF
  <1> DEFINE U == {u \in UnitsOf(job.sec) : u % SectorSize \in job.cnt .. job.cnt + n - 1}
  <1>1. AfterUnits(job, n) = Programmed(U)
    BY DEF AfterUnits
  <1>2. /\ flash \in [Units -> Image] /\ fbuf \in [Units -> Image]
        /\ \A u \in UnitsOf(job.sec) :
             flash[u] = IF u % SectorSize < job.cnt THEN fbuf[u] ELSE Erased
    BY DEF Standing, RegionTrue, JobTrue, UnitsProgrammed
  <1>3. job.cnt \in Int
    BY JobFields, StepCounts
  <1>4. \A u \in Units : u % SectorSize \in Int
    BY UnitPlace
  <1>5. \A u \in Units : u \in UnitsOf(job.sec) <=> SectorOf(u) = job.sec
    BY DEF UnitsOf
  <1>6. \A u \in Units : u \in U <=>
            u \in UnitsOf(job.sec) /\ job.cnt <= u % SectorSize /\ u % SectorSize < job.cnt + n
    BY <1>3, <1>4
  <1> HIDE DEF U
  <1>7. \A u \in Units : Programmed(U)[u] =
            IF u \notin U \/ fbuf[u] \in {Erased, flash[u]} THEN flash[u]
            ELSE IF flash[u] = Erased THEN fbuf[u] ELSE Torn
    BY DEF Programmed
  <1>8. ASSUME NEW u \in UnitsOf(job.sec)
        PROVE  Programmed(U)[u] = IF u % SectorSize < job.cnt + n THEN fbuf[u] ELSE Erased
    <2>1. u \in Units /\ u % SectorSize \in Int
      BY <1>4 DEF UnitsOf
    <2>2. CASE u % SectorSize < job.cnt
      BY <2>1, <2>2, <1>2, <1>3, <1>6, <1>7
    <2>3. CASE job.cnt <= u % SectorSize /\ u % SectorSize < job.cnt + n
      <3>1. u \in U /\ flash[u] = Erased
        BY <2>1, <2>3, <1>2, <1>3, <1>6
      <3> QED
        BY <2>1, <2>3, <3>1, <1>7
    <2>4. CASE ~(u % SectorSize < job.cnt + n)
      <3>1. u \notin U /\ flash[u] = Erased
        BY <2>1, <2>4, <1>2, <1>3, <1>6
      <3> QED
        BY <2>1, <2>4, <3>1, <1>7
    <2> QED
      BY <2>1, <2>2, <2>3, <2>4, <1>3
  <1>9. \A u \in Units : SectorOf(u) # job.sec => Programmed(U)[u] = flash[u]
    BY <1>5, <1>6, <1>7
  <1>10. \A u \in Units : Programmed(U)[u] \in Image
    BY <1>2, <1>5, <1>8, <1>9 DEF Image
  <1>11. Programmed(U) \in [Units -> Image]
    BY <1>10 DEF Programmed
  <1> QED
    BY <1>1, <1>8, <1>9, <1>11

(* The sectors before the one a job stands at. *)
LEMMA EarlierSectors ==
    ASSUME NEW job \in Job, Standing(job), job.kind = "program",
           NEW f, NEW b, NEW v,
           \A u \in Units : SectorOf(u) # job.sec => f[u] = flash[u] /\ b[u] = fbuf[u],
           \A s \in Sectors : s # job.sec => v[s] = valid[s]
    PROVE  \A s \in job.from .. job.sec - 1 :
               v[s] = SECTOR_INVALID \/ \A u \in UnitsOf(s) : b[u] = f[u]
PROOF
  <1>1. SUFFICES ASSUME NEW s \in job.from .. job.sec - 1
        PROVE  v[s] = SECTOR_INVALID \/ \A u \in UnitsOf(s) : b[u] = f[u]
    OBVIOUS
  <1>2. s \in Sectors /\ s # job.sec
    BY StandingFacts, FlashAssumption DEF Sectors
  <1>3. valid[s] = SECTOR_INVALID \/ \A u \in UnitsOf(s) : fbuf[u] = flash[u]
    BY DEF Standing, JobTrue, SectorsProgrammed
  <1>4. \A u \in UnitsOf(s) : f[u] = flash[u] /\ b[u] = fbuf[u]
    BY <1>2 DEF UnitsOf
  <1> QED
    BY <1>2, <1>3, <1>4

(* The job stays at its sector, with its count set to n. *)
LEMMA SectorGoesOn ==
    ASSUME NEW job \in Job, Standing(job), job.kind = "program",
           NEW n \in Counts, Again([job EXCEPT !.cnt = n]), n >= 0, n < SectorSize,
           flash' \in [Units -> Image], UNCHANGED <<fbuf, valid>>,
           valid[job.sec] \in {SECTOR_WRITE_DURTY, SECTOR_WRITE_DURTY_ERASED},
           \A u \in UnitsOf(job.sec) :
               flash'[u] = IF u % SectorSize < n THEN fbuf[u] ELSE Erased,
           \A u \in Units : SectorOf(u) # job.sec => flash'[u] = flash[u]
    PROVE  StepTrue(job)
PROOF
  <1> DEFINE next == [job EXCEPT !.cnt = n]
  <1>1. /\ next \in Job /\ SameRequest(next, job)
        /\ next.sec = job.sec /\ next.cnt = n
    BY JobCounted
  <1>2. Again(next)
    OBVIOUS
  <1> HIDE DEF next
  <1>3. Begun(next) = {job.sec}
    BY <1>1 DEF Begun, SameRequest
  <1>4. fbuf \in [Units -> Image] /\ fbuf' = fbuf /\ valid' = valid
    BY DEF Standing, RegionTrue
  <1>5. RegionTrue(flash', fbuf', valid', Begun(next))
    BY <1>3, <1>4, StatesDiffer, OtherSectors
  <1>6. UnitsProgrammed(next, flash', fbuf', valid')
    BY <1>1, <1>4 DEF UnitsProgrammed
  <1>7. SectorsProgrammed(next, flash', fbuf', valid')
    <2>1. \A s \in job.from .. job.sec - 1 :
              valid'[s] = SECTOR_INVALID \/ \A u \in UnitsOf(s) : fbuf'[u] = flash'[u]
      BY <1>4, EarlierSectors
    <2> QED
      BY <1>1, <2>1 DEF SectorsProgrammed, SameRequest
  <1>8. JobTrue(next, flash', fbuf', valid')
    BY <1>1, <1>6, <1>7 DEF JobTrue, SameRequest, Standing
  <1> QED
    BY <1>1, <1>2, <1>5, <1>8, AgainTrue DEF Standing

LEMMA PrepareTrue ==
    ASSUME NEW job \in Job, Standing(job), ~MayFail, job.kind = "program",
           UNCHANGED <<fbuf, written>>, Dirty(job.sec),
           EraseBeforeProgram(job) \/ PrepareProgram(job)
    PROVE  StepTrue(job)
PROOF
  <1>1. /\ flash \in [Units -> Image] /\ fbuf' = fbuf /\ valid' = valid
        /\ valid[job.sec] \in SectorState
        /\ job.sec \in Sectors
    BY StandingFacts DEF Standing, RegionTrue, RegionTypeOK, EraseBeforeProgram, PrepareProgram
  <1>2. 0 \in Counts /\ 0 < SectorSize
    BY StepCounts, FlashAssumption
  <1>3. Again([job EXCEPT !.cnt = 0])
    BY DEF EraseBeforeProgram, PrepareProgram
  <1>4. valid[job.sec] \in {SECTOR_WRITE_DURTY, SECTOR_WRITE_DURTY_ERASED}
    BY DEF Dirty
  <1>5. \A u \in UnitsOf(job.sec) : u \in Units /\ SectorOf(u) = job.sec /\ ~(u % SectorSize < 0)
    BY UnitPlace, FlashAssumption DEF UnitsOf
  <1>6. CASE flash' = ErasedSector(job.sec)
    <2>1. /\ flash' \in [Units -> Image]
          /\ \A u \in Units : flash'[u] = IF SectorOf(u) = job.sec THEN Erased ELSE flash[u]
      BY <1>1, <1>6 DEF ErasedSector, Image
    <2>2. \A u \in UnitsOf(job.sec) :
              flash'[u] = IF u % SectorSize < 0 THEN fbuf[u] ELSE Erased
      BY <1>5, <2>1
    <2> QED
      BY <1>2, <1>1, <1>3, <1>4, <2>1, <2>2, SectorGoesOn
  <1>7. CASE PrepareProgram(job)
    <2>1. valid[job.sec] = SECTOR_WRITE_DURTY_ERASED
      <3>1. "erased" \in valid[job.sec]
        BY <1>7 DEF PrepareProgram
      <3> QED
        BY <1>1, <1>4, <3>1, FlagStates, StatesDiffer
    <2>2. flash' = flash /\ job.sec \notin Begun(job)
      <3>1. job.cnt \in Int
        BY JobFields, StepCounts
      <3>2. flash' = flash /\ job.cnt < 0
        BY <1>7 DEF PrepareProgram
      <3> QED
        BY <3>1, <3>2 DEF Begun
    <2>3. \A u \in UnitsOf(job.sec) : flash[u] = Erased
      BY <1>1, <2>1, <2>2 DEF Standing, RegionTrue
    <2>4. \A u \in UnitsOf(job.sec) :
              flash'[u] = IF u % SectorSize < 0 THEN fbuf[u] ELSE Erased
      BY <1>5, <2>2, <2>3
    <2> QED
      BY <1>2, <1>1, <1>3, <1>4, <2>2, <2>4, SectorGoesOn
  <1> QED
    BY <1>6, <1>7 DEF EraseBeforeProgram

(* After the last unit the sector equals its buffer. *)
LEMMA UnitsTrue ==
    ASSUME NEW job \in Job, Standing(job), RegionTypeOK', ~MayFail, job.kind = "program",
           UNCHANGED <<fbuf, written>>, Dirty(job.sec), ProgramUnits(job)
    PROVE  StepTrue(job)
PROOF
  <1>1. /\ fbuf \in [Units -> Image] /\ fbuf' = fbuf /\ job.cnt >= 0
        /\ valid \in [Sectors -> SectorState] /\ job.sec \in Sectors
        /\ job.cnt \in Counts /\ job.cnt \in Int
    BY StandingFacts, JobFields, StepCounts
       DEF Standing, RegionTrue, RegionTypeOK, ProgramUnits
  <1>2. valid[job.sec] \in {SECTOR_WRITE_DURTY, SECTOR_WRITE_DURTY_ERASED}
    BY DEF Dirty
  <1>3. ASSUME NEW n \in 1 .. SectorSize - job.cnt - 1,
               flash' = AfterUnits(job, n), Again([job EXCEPT !.cnt = @ + n]), UNCHANGED valid
        PROVE  StepTrue(job)
    <2>1. /\ n \in Nat /\ job.cnt + n >= 0 /\ job.cnt + n \in Counts
          /\ job.cnt + n < SectorSize
      BY <1>1, FlashAssumption, JobsAssumption DEF Counts
    <2>2. /\ flash' \in [Units -> Image]
          /\ \A u \in UnitsOf(job.sec) : flash'[u] =
                IF u % SectorSize < job.cnt + n THEN fbuf[u] ELSE Erased
          /\ \A u \in Units : SectorOf(u) # job.sec => flash'[u] = flash[u]
      BY <1>1, <1>3, <2>1, UnitsWritten
    <2>3. Again([job EXCEPT !.cnt = job.cnt + n])
      BY <1>3
    <2> QED
      BY <1>1, <1>2, <1>3, <2>1, <2>2, <2>3, SectorGoesOn
  <1>4. ASSUME flash' = AfterUnits(job, SectorSize - job.cnt),
               valid' = SectorDone(job.sec), NextSector(job, -1, "programmed")
        PROVE  StepTrue(job)
    <2>1. SectorSize - job.cnt \in Nat
      BY <1>1, FlashAssumption DEF Standing, JobTrue, UnitsProgrammed
    <2>2. /\ flash' \in [Units -> Image]
          /\ \A u \in UnitsOf(job.sec) : flash'[u] =
                IF u % SectorSize < job.cnt + (SectorSize - job.cnt) THEN fbuf[u] ELSE Erased
          /\ \A u \in Units : SectorOf(u) # job.sec => flash'[u] = flash[u]
      BY <1>1, <1>4, <2>1, UnitsWritten
    <2>3. \A u \in UnitsOf(job.sec) :
              u % SectorSize < job.cnt + (SectorSize - job.cnt)
      <3>1. job.cnt + (SectorSize - job.cnt) = SectorSize
        BY <1>1, FlashAssumption
      <3>2. \A u \in UnitsOf(job.sec) : u % SectorSize < SectorSize
        BY UnitPlace, FlashAssumption DEF UnitsOf
      <3> QED
        BY <3>1, <3>2
    <2>4. \A u \in UnitsOf(job.sec) : fbuf'[u] = flash'[u]
      BY <1>1, <2>2, <2>3
    <2>5. /\ valid'[job.sec] = SECTOR_WRITE
          /\ \A s \in Sectors : s # job.sec => valid'[s] = valid[s]
      BY <1>1, <1>2, <1>4, ClearedFlags DEF SectorDone
    <2>6. RegionTrue(flash', fbuf', valid', {})
      BY <1>1, <2>2, <2>4, <2>5, StatesDiffer, OtherSectors
    <2>7. \A s \in job.from .. job.sec - 1 :
              valid'[s] = SECTOR_INVALID \/ \A u \in UnitsOf(s) : fbuf'[u] = flash'[u]
      BY <1>1, <2>2, <2>5, EarlierSectors
    <2>8. \A s \in job.from .. job.sec :
              valid'[s] = SECTOR_INVALID \/ \A u \in UnitsOf(s) : fbuf'[u] = flash'[u]
      BY <2>4, <2>7, UpToSector
    <2>9. IF job.sec < job.last THEN Again(AtSector(job, -1)) ELSE Done("programmed")
      BY <1>4 DEF NextSector
    <2> QED
      BY <2>6, <2>8, <2>9, SectorEnds
  <1> QED
    BY <1>3, <1>4 DEF ProgramUnits

LEMMA ProgramTrue ==
    ASSUME NEW job \in Job, Standing(job), RegionTypeOK', ~MayFail,
           job.kind = "program", ProgramStep(job)
    PROVE  StepTrue(job)
PROOF
  <1>1. UNCHANGED <<fbuf, written>>
    BY DEF ProgramStep
  <1>2. CASE Dirty(job.sec)
    <2>1. EraseBeforeProgram(job) \/ PrepareProgram(job) \/ ProgramUnits(job)
      BY <1>2, StatesDiffer DEF ProgramStep, Dirty
    <2> QED
      BY <1>1, <1>2, <2>1, PrepareTrue, UnitsTrue
  <1>3. CASE ~Dirty(job.sec)
    <2>1. UNCHANGED <<flash, fbuf, valid>>
      BY <1>1, <1>3 DEF ProgramStep
    <2>2. Begun(job) = {}
      BY <1>3 DEF Begun, Standing, JobTrue, UnitsProgrammed, Dirty
    <2>3. RegionTrue(flash', fbuf', valid', {})
      BY <2>1, <2>2 DEF Standing
    <2>4. CASE Done("program failed")
      BY <2>3, <2>4, DoneTrue DEF Standing
    <2>5. CASE valid[job.sec] # SECTOR_WRITE /\ NextSector(job, -1, "programmed")
      <3>1. job.sec \in Sectors /\ valid[job.sec] \in SectorState
        BY StandingFacts DEF RegionTypeOK
      <3>2. valid[job.sec] \in {SECTOR_INVALID, SECTOR_READ_VALID, SECTOR_READ_ERASED_VALID}
        BY <1>3, <2>5, <3>1 DEF SectorState, Dirty
      <3>3. valid[job.sec] = SECTOR_INVALID \/ \A u \in UnitsOf(job.sec) : fbuf[u] = flash[u]
        BY <3>1, <3>2 DEF Standing, RegionTrue
      <3>4. \A s \in job.from .. job.sec :
                valid'[s] = SECTOR_INVALID \/ \A u \in UnitsOf(s) : fbuf'[u] = flash'[u]
        BY <2>1, <3>3, UpToSector DEF Standing, JobTrue, SectorsProgrammed
      <3>5. IF job.sec < job.last THEN Again(AtSector(job, -1)) ELSE Done("programmed")
        BY <2>5 DEF NextSector
      <3> QED
        BY <2>3, <3>4, <3>5, SectorEnds
    <2> QED
      BY <1>3, <2>4, <2>5 DEF ProgramStep
  <1> QED
    BY <1>2, <1>3

(* The comparison of a sector leaves true flags; the sectors compared      *)
(* before keep theirs.                                                     *)
LEMMA JudgedTrue ==
    ASSUME NEW job \in Job, Standing(job), RegionTypeOK',
           job.kind \in {"verify", "check"},
           RegionTrue(flash', fbuf', valid', {}),
           \A s \in Sectors : s # job.sec => valid'[s] = valid[s],
           valid'[job.sec] # SECTOR_WRITE,
           Judged(job, valid')
    PROVE  StepTrue(job)
PROOF
  <1>1. ASSUME NEW s \in job.from .. job.sec PROVE valid'[s] # SECTOR_WRITE
    <2>1. CASE s = job.sec
      BY <2>1
    <2>2. CASE s \in job.from .. job.sec - 1
      <3>1. s \in Sectors /\ s # job.sec
        BY <2>2, StandingFacts, FlashAssumption DEF Sectors
      <3>2. valid[s] # SECTOR_WRITE
        BY <2>2 DEF Standing, JobTrue, SectorsCompared
      <3> QED
        BY <3>1, <3>2
    <2> QED
      BY <2>1, <2>2, UpToSector
  <1>2. IF job.sec < job.last THEN Again(AtSector(job, -1)) ELSE Done(Verdict(valid', job))
    BY DEF Judged
  <1>3. /\ Verdict(valid', job) # "programmed"
        /\ Verdict(valid', job) = "equal" => \A s \in 0 .. job.last : "dirty" \notin valid'[s]
    BY DEF Verdict
  <1> DEFINE status == Verdict(valid', job)
  <1> HIDE DEF status
  <1> QED
    BY <1>1, <1>2, <1>3, SectorEnds

LEMMA CheckTrue ==
    ASSUME NEW job \in Job, Standing(job), RegionTypeOK', ~MayFail,
           job.kind = "check", CheckStep(job)
    PROVE  StepTrue(job)
PROOF
  <1>1. /\ UNCHANGED <<flash, fbuf>> /\ Judged(job, valid')
        /\ valid' = [valid EXCEPT ![job.sec] =
                        IF @ = SECTOR_INVALID THEN @ ELSE Compared(Equal(job.sec))]
    BY DEF CheckStep
  <1>2. /\ flash \in [Units -> Image] /\ fbuf \in [Units -> Image]
        /\ valid \in [Sectors -> SectorState] /\ job.sec \in Sectors
    BY StandingFacts DEF Standing, RegionTrue, RegionTypeOK
  <1>3. \A s \in Sectors : s # job.sec => valid'[s] = valid[s]
    BY <1>1, <1>2
  <1>4. /\ valid'[job.sec] \in {SECTOR_INVALID, SECTOR_READ_VALID, SECTOR_WRITE_DURTY}
        /\ valid'[job.sec] = SECTOR_READ_VALID => Equal(job.sec)
    BY <1>1, <1>2, StatesDiffer DEF Compared
  <1>5. /\ valid'[job.sec] \notin {SECTOR_WRITE, SECTOR_READ_ERASED_VALID,
                                   SECTOR_WRITE_DURTY_ERASED}
        /\ valid'[job.sec] = SECTOR_READ_VALID =>
              \A u \in UnitsOf(job.sec) : fbuf'[u] = flash'[u]
    BY <1>1, <1>4, StatesDiffer DEF Equal
  <1>6. RegionTrue(flash', fbuf', valid', {})
    BY <1>1, <1>2, <1>3, <1>5, OtherSectors
  <1> QED
    BY <1>1, <1>3, <1>5, <1>6, JudgedTrue

(* The pages read so far are those of the flash. *)
LEMMA PagesStayTrue ==
    ASSUME NEW job \in Job, RegionTypeOK, PagesTrue(job, flash),
           Len(PageRead(job)) <= SectorSize
    PROVE  \A i \in 1 .. Len(PageRead(job)) :
               PageRead(job)[i] = flash[job.sec * SectorSize + (i - 1)]
PROOF
  <1>1. Len(job.temp) \in Nat
    BY JobFields, PagesAre, FlashAssumption
  <1>2. /\ Len(PageRead(job)) = Len(job.temp) + 1
        /\ \A i \in 1 .. Len(job.temp) : PageRead(job)[i] = job.temp[i]
        /\ PageRead(job)[Len(job.temp) + 1] = flash[job.sec * SectorSize + Len(job.temp)]
    BY PagesRead
  <1>3. ASSUME NEW i \in 1 .. Len(PageRead(job))
        PROVE  PageRead(job)[i] = flash[job.sec * SectorSize + (i - 1)]
    <2>1. CASE i \in 1 .. Len(job.temp)
      BY <1>2, <2>1 DEF PagesTrue
    <2>2. CASE i = Len(job.temp) + 1
      <3>1. i - 1 = Len(job.temp)
        BY <1>1, <2>2
      <3> QED
        BY <1>2, <2>2, <3>1
    <2> QED
      BY <1>1, <1>2, <2>1, <2>2
  <1> QED
    BY <1>3

(* With the last page the buffer of the job is the sector. *)
LEMMA PagesAreSector ==
    ASSUME NEW job \in Job, RegionTypeOK, PagesTrue(job, flash),
           Len(PageRead(job)) = SectorSize
    PROVE  /\ \A u \in UnitsOf(job.sec) : PageRead(job)[(u % SectorSize) + 1] = flash[u]
           /\ (\A i \in DOMAIN PageRead(job) : PageRead(job)[i] = Erased) =>
                  \A u \in UnitsOf(job.sec) : flash[u] = Erased
PROOF
  <1>1. ASSUME NEW u \in UnitsOf(job.sec)
        PROVE  /\ (u % SectorSize) + 1 \in 1 .. SectorSize
               /\ job.sec * SectorSize + (((u % SectorSize) + 1) - 1) = u
    <2>1. u \in Units /\ SectorOf(u) = job.sec
      BY DEF UnitsOf
    <2>2. /\ u = SectorSize * job.sec + (u % SectorSize)
          /\ u % SectorSize \in 0 .. SectorSize - 1
      BY <2>1, UnitPlace
    <2>3. job.sec \in Int /\ SectorSize \in Nat
      BY JobFields, FlashAssumption DEF Sectors
    <2>4. PICK r \in 0 .. SectorSize - 1 : r = u % SectorSize
      BY <2>2
    <2>5. r + 1 \in 1 .. SectorSize /\ (r + 1) - 1 = r
      BY <2>3
    <2>6. job.sec * SectorSize + r = u
      BY <2>2, <2>3, <2>4
    <2> QED
      BY <2>4, <2>5, <2>6
  <1>2. \A i \in 1 .. SectorSize :
            PageRead(job)[i] = flash[job.sec * SectorSize + (i - 1)]
    <2>1. Len(PageRead(job)) <= SectorSize
      BY FlashAssumption
    <2> QED
      BY <2>1, PagesStayTrue
  <1>3. \A u \in UnitsOf(job.sec) : PageRead(job)[(u % SectorSize) + 1] = flash[u]
    BY <1>1, <1>2
  <1>4. DOMAIN PageRead(job) = 1 .. SectorSize
    <2>1. PageRead(job) \in Pages
      BY PagesRead, FlashAssumption
    <2> QED
      BY <2>1, PagesAre
  <1> QED
    BY <1>1, <1>3, <1>4

LEMMA VerifyTrue ==
    ASSUME NEW job \in Job, Standing(job), RegionTypeOK',
           job.kind = "verify", VerifyStep(job)
    PROVE  StepTrue(job)
PROOF
  <1> DEFINE pages == PageRead(job)
  <1>1. /\ flash \in [Units -> Image] /\ fbuf \in [Units -> Image] /\ flash' = flash
        /\ valid \in [Sectors -> SectorState] /\ job.sec \in Sectors
        /\ PagesTrue(job, flash) /\ RegionTypeOK
    BY StandingFacts DEF Standing, RegionTrue, RegionTypeOK, JobTrue, VerifyStep
  <1>2. CASE /\ Len(pages) < SectorSize
             /\ Again([job EXCEPT !.temp = pages])
             /\ UNCHANGED <<fbuf, valid>>
    <2>1. Len(pages) <= SectorSize /\ pages \in Pages
      BY <1>1, <1>2, PagesRead, PagesAre, FlashAssumption
    <2>2. PICK t \in Pages : t = pages
      BY <2>1
    <2>3. \A i \in 1 .. Len(t) : t[i] = flash[job.sec * SectorSize + (i - 1)]
      BY <1>1, <2>1, <2>2, PagesStayTrue
    <2>4. Len(t) < SectorSize /\ Again([job EXCEPT !.temp = t])
      BY <1>2, <2>2
    <2> HIDE DEF pages
    <2> DEFINE next == [job EXCEPT !.temp = t]
    <2>5. /\ next \in Job /\ SameRequest(next, job)
          /\ next.sec = job.sec /\ next.temp = t
      BY JobPaged
    <2>6. Again(next)
      BY <2>4
    <2> HIDE DEF next
    <2>7. Begun(job) = {} /\ Begun(next) = {}
      BY <2>5 DEF Begun, SameRequest
    <2>8. RegionTrue(flash', fbuf', valid', Begun(next))
      BY <1>1, <1>2, <2>7 DEF Standing
    <2>9. PagesTrue(next, flash')
      BY <1>1, <2>3, <2>4, <2>5 DEF PagesTrue
    <2>10. SectorsCompared(next, valid')
      BY <1>2, <2>5 DEF Standing, JobTrue, SectorsCompared, SameRequest
    <2>11. JobTrue(next, flash', fbuf', valid')
      BY <2>5, <2>9, <2>10 DEF JobTrue, SameRequest, Standing
    <2> QED
      BY <2>5, <2>6, <2>8, <2>11, AgainTrue DEF Standing
  <1>3. CASE /\ Len(pages) = SectorSize
             /\ fbuf' = [u \in Units |->
                            IF SectorOf(u) = job.sec /\ valid[job.sec] = SECTOR_INVALID
                            THEN pages[(u % SectorSize) + 1] ELSE fbuf[u]]
             /\ valid' = [valid EXCEPT ![job.sec] = VerifiedState(job.sec, pages)]
             /\ Judged(job, valid')
    <2>1. /\ \A u \in UnitsOf(job.sec) : pages[(u % SectorSize) + 1] = flash[u]
          /\ (\A i \in DOMAIN pages : pages[i] = Erased) =>
                  \A u \in UnitsOf(job.sec) : flash[u] = Erased
      BY <1>1, <1>3, PagesAreSector
    <2> HIDE DEF pages
    <2>2. \A u \in Units : fbuf'[u] =
              IF SectorOf(u) = job.sec /\ valid[job.sec] = SECTOR_INVALID
              THEN flash[u] ELSE fbuf[u]
      BY <1>3, <2>1 DEF UnitsOf
    <2>3. fbuf' \in [Units -> Image]
      BY <1>1, <1>3, <2>2
    <2>4. /\ valid'[job.sec] = VerifiedState(job.sec, pages)
          /\ \A s \in Sectors : s # job.sec => valid'[s] = valid[s]
      BY <1>1, <1>3
    <2>5. /\ valid'[job.sec] \in {SECTOR_READ_VALID, SECTOR_READ_ERASED_VALID,
                                  SECTOR_WRITE_DURTY, SECTOR_WRITE_DURTY_ERASED}
          /\ valid'[job.sec] \in {SECTOR_READ_VALID, SECTOR_READ_ERASED_VALID} =>
                \/ valid[job.sec] = SECTOR_INVALID
                \/ \A u \in UnitsOf(job.sec) : fbuf[u] = pages[(u % SectorSize) + 1]
          /\ valid'[job.sec] = SECTOR_WRITE_DURTY_ERASED =>
                \A i \in DOMAIN pages : pages[i] = Erased
      BY <2>4, AddedFlag, StatesDiffer DEF VerifiedState, Compared
    <2>6. valid'[job.sec] \in {SECTOR_READ_VALID, SECTOR_READ_ERASED_VALID} =>
              \A u \in UnitsOf(job.sec) : fbuf'[u] = flash'[u]
      <3>1. \A u \in UnitsOf(job.sec) : fbuf'[u] =
                IF valid[job.sec] = SECTOR_INVALID THEN flash[u] ELSE fbuf[u]
        BY <2>2 DEF UnitsOf
      <3> QED
        BY <1>1, <2>1, <2>5, <3>1
    <2>7. valid'[job.sec] = SECTOR_WRITE_DURTY_ERASED =>
              \A u \in UnitsOf(job.sec) : flash'[u] = Erased
      BY <1>1, <2>1, <2>5
    <2>8. valid'[job.sec] # SECTOR_WRITE
      BY <2>5, StatesDiffer
    <2>9. RegionTrue(flash', fbuf', valid', {})
      BY <1>1, <2>2, <2>3, <2>4, <2>6, <2>7, OtherSectors
    <2> QED
      BY <1>3, <2>4, <2>8, <2>9, JudgedTrue
  <1> QED
    BY <1>2, <1>3 DEF VerifyStep

LEMMA PrintTrue ==
    ASSUME NEW job \in Job, Standing(job), job.kind = "print", PrintStep(job)
    PROVE  StepTrue(job)
PROOF
  <1>1. UNCHANGED <<flash, fbuf, valid>> /\ Begun(job) = {}
    BY DEF PrintStep, flashVars, Begun
  <1>2. CASE job.cnt < MapEntries /\ Again([job EXCEPT !.cnt = @ + 1])
    <2> DEFINE next == [job EXCEPT !.cnt = job.cnt + 1]
    <2>1. job.cnt + 1 \in Counts
      BY <1>2, JobFields, FlashAssumption, JobsAssumption DEF Counts
    <2>2. next \in Job /\ SameRequest(next, job) /\ next.sec = job.sec
      BY <2>1, JobCounted
    <2>3. Again(next)
      BY <1>2
    <2> HIDE DEF next
    <2>4. Begun(next) = {}
      BY <2>2 DEF Begun, SameRequest
    <2>5. JobTrue(next, flash', fbuf', valid')
      BY <2>2 DEF JobTrue, SameRequest, Standing
    <2> QED
      BY <1>1, <2>2, <2>3, <2>4, <2>5, AgainTrue DEF Standing
  <1>3. CASE Done("printed")
    BY <1>1, <1>3, DoneTrue DEF Standing
  <1> QED
    BY <1>2, <1>3 DEF PrintStep

LEMMA JobStepTrue ==
    ASSUME NEW job \in Job, Standing(job), ~MayFail, state # "run", JobStep(job)
    PROVE  StepTrue(job)
PROOF
  <1>1. RegionTypeOK'
    BY JobStepTyped DEF Standing
  <1> QED
    BY <1>1, EraseTrue, ProgramTrue, VerifyTrue, CheckTrue, PrintTrue DEF JobStep

-----------------------------------------------------------------------------
(* What gdb does between the jobs *)

LEMMA ReadTrue ==
    ASSUME RegionTypeOK, RegionTrue(flash, fbuf, valid, {}), NEW S, ReadFlash(S)
    PROVE  RegionTrue(flash', fbuf', valid', {})
PROOF
  <1>1. /\ flash \in [Units -> Image] /\ fbuf \in [Units -> Image] /\ flash' = flash
        /\ valid \in [Sectors -> SectorState]
    BY DEF RegionTrue, RegionTypeOK, ReadFlash
  <1>2. \A u \in Units : Merged(u) \in Image
    BY <1>1 DEF Merged
  <1>3. fbuf' \in [Units -> Image]
    BY <1>1, <1>2 DEF ReadFlash
  <1>4. ASSUME NEW s \in Sectors
        PROVE  /\ valid'[s] \in {SECTOR_READ_VALID, SECTOR_READ_ERASED_VALID}
                  => \A u \in UnitsOf(s) : fbuf'[u] = flash'[u]
               /\ valid'[s] = SECTOR_WRITE_DURTY_ERASED
                  => \A u \in UnitsOf(s) : flash'[u] = Erased
    <2>1. /\ valid'[s] = IF s \in Touched(S) THEN ReadState(s) ELSE valid[s]
          /\ \A u \in UnitsOf(s) : fbuf'[u] = IF s \in Touched(S) THEN Merged(u) ELSE fbuf[u]
      BY DEF ReadFlash, UnitsOf
    <2>2. CASE s \in Touched(S) /\ valid[s] = SECTOR_INVALID
      <3>1. \A u \in UnitsOf(s) : Merged(u) = flash[u]
        BY <2>2 DEF Merged, UnitsOf
      <3>2. ReadState(s) # SECTOR_WRITE_DURTY_ERASED
        BY <2>2, StatesDiffer DEF ReadState
      <3> QED
        BY <1>1, <2>1, <2>2, <3>1, <3>2
    <2>3. CASE s \in Touched(S) /\ valid[s] = SECTOR_WRITE
      <3>1. ReadState(s) = SECTOR_WRITE_DURTY
        BY <2>3, StatesDiffer DEF ReadState
      <3> QED
        BY <2>1, <2>3, <3>1, StatesDiffer
    <2>4. CASE s \notin Touched(S) \/ valid[s] \notin {SECTOR_INVALID, SECTOR_WRITE}
      <3>1. valid'[s] = valid[s]
        BY <2>1, <2>4 DEF ReadState
      <3>2. \A u \in UnitsOf(s) : fbuf'[u] = fbuf[u]
        BY <2>1, <2>4 DEF Merged, UnitsOf
      <3> QED
        BY <1>1, <3>1, <3>2 DEF RegionTrue
    <2> QED
      BY <2>2, <2>3, <2>4
  <1> QED
    BY <1>1, <1>3, <1>4 DEF RegionTrue

(* A block marks at least the sectors it lies in. *)
LEMMA BlockMarks ==
    ASSUME NEW S, S \subseteq Units, NEW u \in S
    PROVE  SectorOf(u) \in Marked(S)
PROOF
  <1>1. /\ u \in Nat /\ u + 1 \in Nat /\ SectorOf(u) \in Sectors /\ SectorSize \in Nat \ {0}
    BY UnitPlace, FlashAssumption DEF Units
  <1> DEFINE p == u \div SectorSize
             q == (u + 1) \div SectorSize
  <1>2. /\ p \in Nat /\ u % SectorSize \in 0 .. SectorSize - 1
        /\ u = SectorSize * p + (u % SectorSize)
    BY <1>1, Quotient
  <1>3. /\ q \in Nat /\ (u + 1) % SectorSize \in 0 .. SectorSize - 1
        /\ u + 1 = SectorSize * q + ((u + 1) % SectorSize)
    BY <1>1, Quotient
  <1>4. ~(q < p)
    <2> HIDE DEF p, q
    <2>1. ASSUME q < p PROVE FALSE
      <3>1. SectorSize * q <= SectorSize * p - SectorSize
        BY <1>1, <1>2, <1>3, <2>1, Multiples
      <3>2. PICK r \in 0 .. SectorSize - 1 : u = SectorSize * p + r
        BY <1>2
      <3>3. PICK t \in 0 .. SectorSize - 1 : u + 1 = SectorSize * q + t
        BY <1>3
      <3> QED
        BY <1>1, <1>2, <1>3, <3>1, <3>2, <3>3
    <2> QED
      BY <2>1
  <1>5. SectorOf(u) = p /\ SectorOf(u + 1) = q
    BY DEF SectorOf
  <1>6. SectorOf(u) <= SectorOf(u) /\ SectorOf(u) <= SectorOf(u + 1)
    <2> HIDE DEF p, q
    <2> QED
      BY <1>2, <1>3, <1>4, <1>5
  <1> QED
    BY <1>1, <1>6 DEF Marked

LEMMA WriteTrue ==
    ASSUME RegionTypeOK, RegionTrue(flash, fbuf, valid, {}),
           NEW S \in FlashBlocks, NEW v \in Image, WriteFlash(S, v)
    PROVE  RegionTrue(flash', fbuf', valid', {})
PROOF
  <1>1. /\ flash \in [Units -> Image] /\ fbuf \in [Units -> Image] /\ flash' = flash
        /\ valid \in [Sectors -> SectorState]
    BY DEF RegionTrue, RegionTypeOK, WriteFlash
  <1>2. fbuf' \in [Units -> Image]
    BY <1>1 DEF WriteFlash, Image
  <1>3. ASSUME NEW s \in Sectors
        PROVE  /\ valid'[s] \in {SECTOR_READ_VALID, SECTOR_READ_ERASED_VALID}
                  => \A u \in UnitsOf(s) : fbuf'[u] = flash'[u]
               /\ valid'[s] = SECTOR_WRITE_DURTY_ERASED
                  => \A u \in UnitsOf(s) : flash'[u] = Erased
    <2>1. CASE s \in Marked(S)
      BY <2>1, StatesDiffer DEF WriteFlash
    <2>2. CASE s \notin Marked(S)
      <3>1. valid'[s] = valid[s]
        BY <2>2 DEF WriteFlash
      <3>2. \A u \in UnitsOf(s) : u \in Units /\ SectorOf(u) = s /\ u \notin S
        BY <2>2, BlockMarks, BlocksAssumption DEF UnitsOf
      <3>3. \A u \in UnitsOf(s) : fbuf'[u] = fbuf[u]
        BY <2>2, <3>2 DEF WriteFlash
      <3> QED
        BY <1>1, <3>1, <3>3 DEF RegionTrue
    <2> QED
      BY <2>1, <2>2
  <1> QED
    BY <1>1, <1>2, <1>3 DEF RegionTrue

-----------------------------------------------------------------------------
(* The invariant *)

DataSame == UNCHANGED <<flash, fbuf, valid, queue>>

LEMMA DataUnchanged ==
    ASSUME DataInv, DataSame, state' = "run" => ~InProcess'
    PROVE  DataInv'
BY DEF DataInv, DataSame

(* While a job is in process the target does not run. *)
LEMMA JobStands ==
    ASSUME QueueInv, FlashTypeOK, DataInv, queue # <<>>
    PROVE  /\ Head(queue) \in Job /\ Standing(Head(queue))
           /\ state # "run" /\ InProcess
PROOF
  <1>1. queue = <<Head(queue)>> /\ pending = InProcessOf[Head(queue).kind]
        /\ Head(queue) \in Job /\ Head(queue).kind \in AllKinds
    BY JobsTyped, JobFields DEF QueueInv, QueueOK, JobsTypeOK, IsJob
  <1>2. InProcess
    BY <1>1, StatusKinds DEF InProcess
  <1> QED
    BY <1>1, <1>2 DEF Standing, DataInv

LEMMA CallbackTrue ==
    ASSUME QueueInv, FlashTypeOK, DataInv, ~MayFail, DoCallback, state' = state
    PROVE  DataInv'
PROOF
  <1>1. CASE queue = <<>>
    BY <1>1, DataUnchanged DEF DoCallback, DataSame, DataInv, flashVars, jobVars, InProcess
  <1>2. CASE queue # <<>>
    <2>1. JobStep(Head(queue)) /\ state' # "run"
      BY <1>2, JobStands DEF DoCallback
    <2>2. StepTrue(Head(queue))
      BY <1>2, <2>1, JobStands, JobStepTrue
    <2>3. CASE queue' = <<>> /\ RegionTrue(flash', fbuf', valid', {})
      BY <2>1, <2>3 DEF DataInv
    <2>4. ASSUME NEW next \in Job, queue' = <<next>>,
                 RegionTrue(flash', fbuf', valid', Begun(next)),
                 JobTrue(next, flash', fbuf', valid')
          PROVE  DataInv'
      <3>1. queue' # <<>> /\ Head(queue') = next
        BY <2>4, OneElement
      <3> QED
        BY <2>1, <2>4, <3>1 DEF DataInv
    <2> QED
      BY <2>2, <2>3, <2>4 DEF StepTrue
  <1> QED
    BY <1>1, <1>2

LEMMA StartTrue ==
    ASSUME QueueInv, FlashTypeOK, DataInv, NEW kind \in AllKinds, NEW s \in Sectors,
           NEW count \in 1 .. NumSectors - s, Start(kind, s, count)
    PROVE  DataInv'
PROOF
  <1>1. queue = <<>> /\ UNCHANGED <<flash, fbuf, valid>> /\ state' # "run"
    BY JobStands DEF Start, flashVars, hostVars
  <1> DEFINE job == NewJob(kind, s, count)
  <1>2. /\ job \in Job /\ job.kind = kind /\ job.from = s /\ job.sec = s
        /\ s <= job.last /\ job.temp = <<>>
        /\ kind \in {"program", "verify"} => job.cnt = -1
    BY JobQueued
  <1>3. queue' = <<job>>
    BY <1>1, OneElement DEF Start
  <1> HIDE DEF job
  <1>4. queue' # <<>> /\ Head(queue') = job
    BY <1>3, OneElement
  <1>5. Begun(job) = {}
    BY <1>2 DEF Begun
  <1>6. s \in Int /\ job.from .. job.sec - 1 = {}
    BY <1>2, FlashAssumption DEF Sectors
  <1>7. PagesTrue(job, flash)
    BY <1>2, NoPages, FlashAssumption DEF PagesTrue
  <1>8. kind = "program" => UnitsProgrammed(job, flash, fbuf, valid)
    BY <1>2 DEF UnitsProgrammed
  <1>9. SectorsProgrammed(job, flash, fbuf, valid) /\ SectorsCompared(job, valid)
    BY <1>6 DEF SectorsProgrammed, SectorsCompared
  <1>10. JobTrue(job, flash, fbuf, valid)
    BY <1>2, <1>6, <1>7, <1>8, <1>9 DEF JobTrue
  <1> QED
    BY <1>1, <1>4, <1>5, <1>10 DEF DataInv

LEMMA DataInit == Init => DataInv
BY StatesDiffer DEF Init, RegionInit, DataInv, RegionTrue, Image

LEMMA DataStep ==
    ASSUME Quiet, QueueInv, FlashTypeOK, DataInv, [Next]_vars
    PROVE  DataInv'
PROOF
  <1>1. /\ ~MayFail /\ "touch" \notin Client /\ "resume" \notin Client
        /\ "interrupt" \notin Client /\ "interrupt erase" \notin Client
        /\ "interrupt fake" \notin Client
    BY DEF Quiet
  <1>2. CASE StartFlash
    <2>1. PICK kind \in Kinds \ {"print"}, s \in Sectors :
             \E count \in 1 .. NumSectors - s : Start(kind, s, count)
      BY <1>2 DEF StartFlash
    <2>2. kind \in AllKinds
      BY JobsAssumption DEF AllKinds
    <2> QED
      BY <2>1, <2>2, StartTrue
  <1>3. CASE StartPrint
    <2>1. 0 \in Sectors /\ 1 \in 1 .. NumSectors - 0
      BY FlashAssumption DEF Sectors
    <2> QED
      BY <1>3, <2>1, StartTrue DEF StartPrint, AllKinds
  <1>4. ASSUME NEW S \in FlashBlocks, Read(S) \/ \E v \in Image : Write(S, v)
        PROVE  DataInv'
    <2>1. queue = <<>>
      BY <1>1, <1>4, JobStands DEF Read, Write, Touch
    <2>2. RegionTypeOK /\ RegionTrue(flash, fbuf, valid, {})
      BY <2>1 DEF DataInv, FlashTypeOK
    <2>3. RegionTrue(flash', fbuf', valid', {})
      BY <1>4, <2>2, ReadTrue, WriteTrue DEF Read, Write
    <2>4. queue' = <<>> /\ state' # "run"
      BY <1>4, <2>1 DEF Read, Write, Touch, jobVars, hostVars
    <2> QED
      BY <2>3, <2>4 DEF DataInv
  <1>5. CASE Continue
    BY <1>1, <1>5, DataUnchanged DEF Continue, DataSame, flashVars, jobVars, InProcess
  <1>6. CASE \/ FlashState \/ SetFakeContinue \/ Stopped \/ Close \/ Accept
             \/ FakeWrite \/ FakeEnd
    <2>1. DataSame /\ state' # "run"
      BY <1>6 DEF FlashState, SetFakeContinue, Stopped, Close, Accept, FakeWrite, FakeEnd,
                  DataSame, flashVars, jobVars, hostVars
    <2> QED
      BY <2>1, DataUnchanged
  <1>7. ~InterruptPrompt /\ ~InterruptFake
    BY <1>1 DEF InterruptPrompt, Interrupting, InterruptFake
  <1>8. CASE WaitCallback \/ FakeRead \/ FakeAnswer \/ FakePoll
    <2>1. DoCallback /\ state' = state
      BY <1>8 DEF WaitCallback, FakeRead, FakeAnswer, FakePoll, hostVars
    <2> QED
      BY <1>1, <2>1, CallbackTrue
  <1>9. CASE UNCHANGED vars
    BY <1>9, DataUnchanged DEF vars, flashVars, jobVars, hostVars, DataSame, DataInv, InProcess
  <1> QED
    BY <1>2, <1>3, <1>4, <1>5, <1>6, <1>7, <1>8, <1>9 DEF Next, FakeStep

(* With a chip that does not fail and a user who waits for the jobs, what  *)
(* the sector states say is true at every moment, also between two steps   *)
(* of a job.                                                               *)
THEOREM DataInvariance ==
    ASSUME Quiet
    PROVE  Spec => []DataInv
PROOF
  <1>1. QueueInv /\ FlashTypeOK /\ DataInv /\ [Next]_vars => DataInv'
    BY DataStep
  <1> QED
    BY DataInit, QueueInvariance, FlashTypes, <1>1, PTL DEF Spec

(* gdb_read_mem answers from the buffer when a sector is marked as read:   *)
(* whatever was downloaded, erased, programmed and verified before, what   *)
(* it answers is what the flash holds.                                     *)
THEOREM MarkedReadIsTrue ==
    ASSUME Quiet
    PROVE  Spec => []ReadValidTrue
PROOF
  <1>1. DataInv => ReadValidTrue
    BY DEF DataInv, RegionTrue, ReadValidTrue, Equal
  <1> QED
    BY <1>1, DataInvariance, PTL

(* ProgramFlash may skip the erase of a sector that is marked as erased:   *)
(* the units it has not come to are erased.                                *)
THEOREM MarkedErasedIsTrue ==
    ASSUME Quiet
    PROVE  Spec => []MarkedErasedIsErased
PROOF
  <1>1. ASSUME DataInv, FlashTypeOK, QueueInv,
               NEW s \in Sectors, valid[s] = SECTOR_WRITE_DURTY_ERASED,
               NEW u \in UnitsOf(s)
        PROVE  \/ flash[u] = Erased
               \/ \E i \in DOMAIN queue :
                    /\ queue[i].kind = "program" /\ queue[i].sec = s
                    /\ u % SectorSize < queue[i].cnt
    <2>1. CASE s \notin (IF queue = <<>> THEN {} ELSE Begun(Head(queue)))
      BY <1>1, <2>1 DEF DataInv, RegionTrue
    <2>2. CASE queue # <<>> /\ s \in Begun(Head(queue))
      <3>1. Head(queue).kind = "program" /\ Head(queue).sec = s /\ Head(queue).cnt >= 0
        BY <2>2 DEF Begun
      <3>2. flash[u] = IF u % SectorSize < Head(queue).cnt THEN fbuf[u] ELSE Erased
        BY <1>1, <2>2, <3>1 DEF DataInv, JobTrue, UnitsProgrammed
      <3>3. 1 \in DOMAIN queue /\ queue[1] = Head(queue)
        BY <1>1, <2>2 DEF FlashTypeOK
      <3> QED
        BY <3>1, <3>2, <3>3
    <2> QED
      BY <2>1, <2>2
  <1>2. DataInv /\ FlashTypeOK /\ QueueInv => MarkedErasedIsErased
    BY <1>1 DEF MarkedErasedIsErased
  <1> QED
    BY <1>2, DataInvariance, FlashTypes, QueueInvariance, PTL

(* No unit is programmed a second time without an erase in between.        *)
THEOREM NothingIsTorn ==
    ASSUME Quiet
    PROVE  Spec => []NothingTorn
PROOF
  <1>1. DataInv => NothingTorn
    BY FlashAssumption DEF DataInv, RegionTrue, NothingTorn, Image
  <1> QED
    BY <1>1, DataInvariance, PTL

(* Only the last step of a job turns a status in process into its result.  *)
LEMMA ResultReported ==
    ASSUME Quiet, QueueInv, FlashTypeOK, DataInv, Next,
           pending' \in {"programmed", "equal"}, pending' # pending
    PROVE  queue # <<>> /\ Reported(Head(queue))
PROOF
  <1>1. DoCallback
    <2>1. \A k \in AllKinds : InProcessOf[k] \notin {"programmed", "equal"}
      BY DEF AllKinds, InProcessOf
    <2>2. ~StartFlash /\ ~StartPrint
      BY <2>1, JobsAssumption DEF StartFlash, StartPrint, Start, AllKinds
    <2> QED
      BY <2>2 DEF Next, FlashState, Read, Write, Touch, jobVars, InterruptPrompt,
                  SetFakeContinue, Continue, Stopped, Close, Accept, WaitCallback,
                  FakeStep, FakeWrite, FakeRead, FakeAnswer, FakePoll, FakeEnd, InterruptFake
  <1>2. queue # <<>> /\ JobStep(Head(queue))
    BY <1>1 DEF DoCallback, jobVars
  <1>3. StepTrue(Head(queue))
    BY <1>2, JobStands, JobStepTrue DEF Quiet
  <1> QED
    BY <1>2, <1>3 DEF StepTrue

(* "[1] succeed" is never told of a sector whose data is not in the flash, *)
(* whatever the sectors of the request were before.                        *)
THEOREM ProgramReportsTruth ==
    ASSUME Quiet
    PROVE  Spec => ProgrammedIsBuffer
PROOF
  <1>1. QueueInv /\ FlashTypeOK /\ DataInv /\ [Next]_vars
        => [pending = "programming" /\ pending' = "programmed" =>
              \A s \in Head(queue).from .. Head(queue).last :
                  valid'[s] # SECTOR_INVALID => Equal(s)']_vars
    BY ResultReported DEF Reported, Equal
  <1> QED
    BY QueueInvariance, FlashTypes, DataInvariance, <1>1, PTL DEF Spec, ProgrammedIsBuffer

(* "[1] equal" is never told of a sector that differs from the flash.      *)
THEOREM VerifyReportsTruth ==
    ASSUME Quiet
    PROVE  Spec => VerifiedIsEqual
PROOF
  <1>1. QueueInv /\ FlashTypeOK /\ DataInv /\ [Next]_vars
        => [pending = "verifying" /\ pending' = "equal" =>
              \A s \in Head(queue).from .. Head(queue).last :
                  valid'[s] # SECTOR_INVALID => Equal(s)']_vars
    BY ResultReported DEF Reported, Equal
  <1> QED
    BY QueueInvariance, FlashTypes, DataInvariance, <1>1, PTL DEF Spec, VerifiedIsEqual

-----------------------------------------------------------------------------
(* What gdb never wrote *)

(* Blocks that end inside a sector: none of them marks a sector it does    *)
(* not touch.                                                              *)
InnerEnds == \A S \in FlashBlocks : Marked(S) \subseteq Touched(S)

(* A sector gdb never wrote is in the buffer as far as it is not erased.   *)
ForeignKept ==
    \A s \in Sectors : written \cap UnitsOf(s) = {} /\ valid[s] # SECTOR_INVALID
        => \A u \in UnitsOf(s) : flash[u] \in {Erased, fbuf[u]}

VerifyKept == queue # <<>> /\ Head(queue).kind = "verify" => PagesTrue(Head(queue), flash)

ForeignInv == ForeignKept /\ VerifyKept

LEMMA ForeignCells ==
    ASSUME ForeignKept, UNCHANGED <<fbuf, written>>,
           \A s \in Sectors : valid'[s] # SECTOR_INVALID => valid[s] # SECTOR_INVALID,
           \A u \in Units : flash[u] \in {Erased, fbuf[u]} => flash'[u] \in {Erased, fbuf[u]}
    PROVE  ForeignKept'
PROOF
  <1>1. \A s \in Sectors : \A u \in UnitsOf(s) : u \in Units
    BY DEF UnitsOf
  <1> QED
    BY <1>1 DEF ForeignKept

LEMMA ErasedForeign ==
    ASSUME NEW s
    PROVE  \A u \in Units : flash[u] \in {Erased, fbuf[u]} =>
               ErasedSector(s)[u] \in {Erased, fbuf[u]}
BY DEF ErasedSector

LEMMA ProgrammedForeign ==
    ASSUME NEW U
    PROVE  \A u \in Units :
             /\ flash[u] \in {Erased, fbuf[u]} => Programmed(U)[u] \in {Erased, fbuf[u]}
             /\ Programmed(U)[u] = Erased => flash[u] = Erased
BY FlashAssumption DEF Programmed

(* Programming changes only the sector of the job, which is a dirty one,   *)
(* and erases at most that sector.                                         *)
LEMMA ProgramForeign ==
    ASSUME NEW job \in Job, RegionTypeOK, ProgramStep(job)
    PROVE  /\ \A s \in Sectors : valid'[s] # SECTOR_INVALID => valid[s] # SECTOR_INVALID
           /\ \A u \in Units : flash[u] \in {Erased, fbuf[u]} => flash'[u] \in {Erased, fbuf[u]}
           /\ \A u \in Units : flash[u] # Erased /\ flash'[u] = Erased
                => valid[SectorOf(u)] # SECTOR_INVALID
PROOF
  <1>1. job.sec \in Sectors /\ valid \in [Sectors -> SectorState]
    BY JobFields DEF RegionTypeOK
  <1>2. Dirty(job.sec) => valid[job.sec] # SECTOR_INVALID
    BY StatesDiffer DEF Dirty
  <1>3. CASE UNCHANGED <<flash, valid>>
    BY <1>3
  <1>4. CASE Dirty(job.sec) /\ EraseBeforeProgram(job)
    <2>1. flash' \in {flash, ErasedSector(job.sec)} /\ UNCHANGED valid
      BY <1>4 DEF EraseBeforeProgram
    <2>2. \A u \in Units : ErasedSector(job.sec)[u] =
              IF SectorOf(u) = job.sec THEN Erased ELSE flash[u]
      BY DEF ErasedSector
    <2> QED
      BY <1>2, <1>4, <2>1, <2>2
  <1>5. CASE Dirty(job.sec) /\ ProgramUnits(job)
    <2>1. \E U : flash' = Programmed(U)
      BY <1>5 DEF ProgramUnits, AfterUnits
    <2>2. valid' = valid \/ valid' = SectorDone(job.sec)
      BY <1>5 DEF ProgramUnits
    <2>3. \A s \in Sectors : valid'[s] # SECTOR_INVALID => valid[s] # SECTOR_INVALID
      BY <1>1, <1>2, <1>5, <2>2 DEF SectorDone
    <2> QED
      BY <2>1, <2>3, ProgrammedForeign
  <1> QED
    BY <1>3, <1>4, <1>5 DEF ProgramStep, PrepareProgram

LEMMA JobStepForeign ==
    ASSUME NEW job \in Job, RegionTypeOK, JobStep(job), ForeignKept,
           job.kind = "verify" => PagesTrue(job, flash)
    PROVE  ForeignKept'
PROOF
  <1>1. job.sec \in Sectors /\ valid \in [Sectors -> SectorState]
    BY JobFields DEF RegionTypeOK
  <1>2. CASE job.kind = "erase" /\ EraseStep(job)
    <2>1. UNCHANGED <<fbuf, written>> /\ flash' \in {flash, ErasedSector(job.sec)}
      BY <1>2 DEF EraseStep
    <2>2. \A s \in Sectors : valid'[s] # SECTOR_INVALID => valid[s] # SECTOR_INVALID
      <3>1. AfterErase(job.sec) # SECTOR_INVALID => valid[job.sec] # SECTOR_INVALID
        BY <1>1, FlagStates DEF AfterErase
      <3> QED
        BY <1>1, <1>2, <3>1 DEF EraseStep
    <2>3. \A u \in Units : flash[u] \in {Erased, fbuf[u]} => flash'[u] \in {Erased, fbuf[u]}
      BY <2>1, ErasedForeign
    <2> QED
      BY <2>1, <2>2, <2>3, ForeignCells
  <1>3. CASE job.kind = "program" /\ ProgramStep(job)
    <2>1. UNCHANGED <<fbuf, written>>
      BY <1>3 DEF ProgramStep
    <2> QED
      BY <1>3, <2>1, ProgramForeign, ForeignCells
  <1>4. CASE job.kind = "check" /\ CheckStep(job)
    <2>1. UNCHANGED <<flash, fbuf, written>>
      BY <1>4 DEF CheckStep
    <2>2. \A s \in Sectors : valid'[s] # SECTOR_INVALID => valid[s] # SECTOR_INVALID
      BY <1>1, <1>4 DEF CheckStep
    <2> QED
      BY <2>1, <2>2, ForeignCells
  <1>5. CASE UNCHANGED flashVars
    BY <1>5, ForeignCells DEF flashVars
  <1>6. CASE job.kind = "verify" /\ VerifyStep(job)
    <2> DEFINE pages == PageRead(job)
    <2>1. UNCHANGED <<flash, written>>
      BY <1>6 DEF VerifyStep
    <2>2. CASE UNCHANGED <<fbuf, valid>>
      BY <2>1, <2>2, ForeignCells
    <2>3. CASE /\ Len(pages) = SectorSize
               /\ fbuf' = [u \in Units |->
                              IF SectorOf(u) = job.sec /\ valid[job.sec] = SECTOR_INVALID
                              THEN pages[(u % SectorSize) + 1] ELSE fbuf[u]]
               /\ valid' = [valid EXCEPT ![job.sec] = VerifiedState(job.sec, pages)]
      <3>1. \A u \in UnitsOf(job.sec) : pages[(u % SectorSize) + 1] = flash[u]
        BY <1>6, <2>3, PagesAreSector
      <3> HIDE DEF pages
      <3>2. ASSUME NEW s \in Sectors, written \cap UnitsOf(s) = {},
                   valid'[s] # SECTOR_INVALID, NEW u \in UnitsOf(s)
            PROVE  flash[u] \in {Erased, fbuf'[u]}
        <4>1. u \in Units /\ SectorOf(u) = s
          BY DEF UnitsOf
        <4>2. CASE s = job.sec /\ valid[job.sec] = SECTOR_INVALID
          BY <2>3, <3>1, <4>1, <4>2
        <4>3. CASE ~(s = job.sec /\ valid[job.sec] = SECTOR_INVALID)
          <5>1. valid[s] # SECTOR_INVALID
            BY <1>1, <2>3, <3>2, <4>3
          <5>2. fbuf'[u] = fbuf[u]
            BY <2>3, <4>1, <4>3
          <5> QED
            BY <3>2, <5>1, <5>2 DEF ForeignKept
        <4> QED
          BY <4>2, <4>3
      <3> QED
        BY <2>1, <3>2 DEF ForeignKept
    <2> QED
      BY <1>6, <2>2, <2>3 DEF VerifyStep
  <1> QED
    BY <1>2, <1>3, <1>4, <1>5, <1>6 DEF JobStep, PrintStep

(* The pages a verify holds stay those of the flash: while it is queued    *)
(* nothing else changes the flash.                                         *)
LEMMA JobStepPages ==
    ASSUME NEW job \in Job, RegionTypeOK, JobStep(job), queue = <<job>>,
           job.kind = "verify" => PagesTrue(job, flash)
    PROVE  VerifyKept'
PROOF
  <1>1. ASSUME NEW next, Again(next), next.kind = "verify" => PagesTrue(next, flash')
        PROVE  VerifyKept'
    <2>1. queue' = <<next>> /\ queue' # <<>> /\ Head(queue') = next
      BY <1>1, OneElement DEF Again
    <2> QED
      BY <1>1, <2>1 DEF VerifyKept
  <1>2. ASSUME NEW status, Done(status) PROVE VerifyKept'
    BY <1>2, OneElement DEF Done, VerifyKept
  <1>3. ASSUME NEW n, job.sec < job.last, Again(AtSector(job, n)), n \in Counts
        PROVE  VerifyKept'
    <2>1. AtSector(job, n).temp = <<>>
      BY <1>3, JobMoved
    <2>2. PagesTrue(AtSector(job, n), flash')
      <3> DEFINE next == AtSector(job, n)
      <3>1. next.temp = <<>>
        BY <2>1
      <3> HIDE DEF next
      <3>2. PagesTrue(next, flash')
        BY <3>1, NoPages, FlashAssumption DEF PagesTrue
      <3> QED
        BY <3>2 DEF next
    <2> QED
      BY <1>1, <1>3, <2>2
  <1>4. ASSUME NEW n \in Counts, job.kind # "verify", Again([job EXCEPT !.cnt = n])
        PROVE  VerifyKept'
    BY <1>1, <1>4, JobFields, CountKept
  <1>5. ASSUME VerifyStep(job), job.kind = "verify" PROVE VerifyKept'
    <2> DEFINE pages == PageRead(job)
    <2>1. CASE Len(pages) < SectorSize /\ Again([job EXCEPT !.temp = pages])
      <3>1. Len(pages) <= SectorSize /\ pages \in Pages
        BY <2>1, PagesRead, PagesAre, FlashAssumption
      <3>2. PICK t \in Pages : t = pages
        BY <3>1
      <3>3. \A i \in 1 .. Len(t) : t[i] = flash[job.sec * SectorSize + (i - 1)]
        BY <1>5, <3>1, <3>2, PagesStayTrue
      <3>4. Len(t) < SectorSize /\ Again([job EXCEPT !.temp = t]) /\ flash' = flash
        BY <1>5, <2>1, <3>2 DEF VerifyStep
      <3> HIDE DEF pages
      <3> DEFINE next == [job EXCEPT !.temp = t]
      <3>5. next.sec = job.sec /\ next.temp = t
        BY JobPaged
      <3>6. Again(next)
        BY <3>4
      <3> HIDE DEF next
      <3>7. PagesTrue(next, flash')
        BY <3>3, <3>4, <3>5 DEF PagesTrue
      <3> QED
        BY <1>1, <3>6, <3>7
    <2>2. CASE Judged(job, valid')
      BY <1>2, <1>3, <2>2, StepCounts DEF Judged
    <2> QED
      BY <1>5, <2>1, <2>2 DEF VerifyStep
  <1>6. ASSUME NEW n \in {-1, 0}, NEW status, NextSector(job, n, status) PROVE VerifyKept'
    BY <1>2, <1>3, <1>6, StepCounts DEF NextSector
  <1>7. ASSUME NEW states, Judged(job, states) PROVE VerifyKept'
    BY <1>2, <1>3, <1>7, StepCounts DEF Judged
  <1>8. ASSUME EraseStep(job) PROVE VerifyKept'
    BY <1>2, <1>6, <1>8 DEF EraseStep
  <1>9. ASSUME job.kind = "program", ProgramStep(job) PROVE VerifyKept'
    <2>1. ASSUME EraseBeforeProgram(job) \/ PrepareProgram(job) PROVE VerifyKept'
      BY <1>2, <1>4, <1>9, <2>1, StepCounts DEF EraseBeforeProgram, PrepareProgram
    <2>2. ASSUME ProgramUnits(job) PROVE VerifyKept'
      <3>1. ASSUME NEW n \in 1 .. SectorSize - job.cnt - 1, Again([job EXCEPT !.cnt = @ + n])
            PROVE  VerifyKept'
        <4>1. job.cnt >= 0 /\ job.cnt \in Counts
          BY <2>2, JobFields DEF ProgramUnits
        <4>2. job.cnt + n \in Counts
          BY <4>1, FlashAssumption, JobsAssumption DEF Counts
        <4>3. Again([job EXCEPT !.cnt = job.cnt + n])
          BY <3>1
        <4> QED
          BY <1>4, <1>9, <4>2, <4>3
      <3> QED
        BY <1>2, <1>6, <2>2, <3>1 DEF ProgramUnits
    <2> QED
      BY <1>2, <1>6, <1>9, <2>1, <2>2 DEF ProgramStep
  <1>10. ASSUME CheckStep(job) PROVE VerifyKept'
    BY <1>2, <1>7, <1>10 DEF CheckStep
  <1>11. ASSUME job.kind = "print", PrintStep(job) PROVE VerifyKept'
    <2>1. CASE job.cnt < MapEntries /\ Again([job EXCEPT !.cnt = @ + 1])
      <3>1. job.cnt + 1 \in Counts
        BY <2>1, JobFields, FlashAssumption, JobsAssumption DEF Counts
      <3>2. Again([job EXCEPT !.cnt = job.cnt + 1])
        BY <2>1
      <3> QED
        BY <1>4, <1>11, <3>1, <3>2
    <2> QED
      BY <1>2, <1>11, <2>1 DEF PrintStep
  <1> QED
    BY <1>2, <1>5, <1>8, <1>9, <1>10, <1>11 DEF JobStep

LEMMA CallbackForeign ==
    ASSUME QueueInv, FlashTypeOK, ForeignInv, DoCallback
    PROVE  ForeignInv'
PROOF
  <1>1. CASE queue = <<>>
    BY <1>1, ForeignCells DEF DoCallback, ForeignInv, VerifyKept, flashVars, jobVars
  <1>2. CASE queue # <<>>
    <2>1. queue = <<Head(queue)>> /\ Head(queue) \in Job /\ RegionTypeOK
      BY <1>2, JobsTyped DEF QueueInv, QueueOK, JobsTypeOK
    <2>2. JobStep(Head(queue))
      BY <1>2 DEF DoCallback
    <2>3. ForeignKept /\ (Head(queue).kind = "verify" => PagesTrue(Head(queue), flash))
      BY <1>2 DEF ForeignInv, VerifyKept
    <2> QED
      BY <2>1, <2>2, <2>3, JobStepForeign, JobStepPages DEF ForeignInv
  <1> QED
    BY <1>1, <1>2

LEMMA ReadForeign ==
    ASSUME RegionTypeOK, ForeignKept, NEW S, ReadFlash(S)
    PROVE  ForeignKept'
PROOF
  <1>1. SUFFICES ASSUME NEW s \in Sectors, written \cap UnitsOf(s) = {},
                        valid'[s] # SECTOR_INVALID, NEW u \in UnitsOf(s)
                 PROVE  flash[u] \in {Erased, fbuf'[u]}
    BY DEF ForeignKept, ReadFlash
  <1>2. u \in Units /\ SectorOf(u) = s /\ u \notin written
    BY <1>1 DEF UnitsOf
  <1>3. /\ valid'[s] = IF s \in Touched(S) THEN ReadState(s) ELSE valid[s]
        /\ fbuf'[u] = IF s \in Touched(S) THEN Merged(u) ELSE fbuf[u]
    BY <1>2 DEF ReadFlash
  <1>4. valid[s] # SECTOR_INVALID => flash[u] \in {Erased, fbuf[u]}
    BY <1>1 DEF ForeignKept
  <1>5. valid[s] = SECTOR_INVALID => Merged(u) = flash[u]
    BY <1>2, StatesDiffer DEF Merged
  <1>6. valid[s] # SECTOR_INVALID => Merged(u) \in {flash[u], fbuf[u]}
    BY <1>2 DEF Merged
  <1> QED
    BY <1>1, <1>3, <1>4, <1>5, <1>6

LEMMA WriteForeign ==
    ASSUME InnerEnds, RegionTypeOK, ForeignKept,
           NEW S \in FlashBlocks, NEW v, WriteFlash(S, v)
    PROVE  ForeignKept'
PROOF
  <1>1. SUFFICES ASSUME NEW s \in Sectors, written' \cap UnitsOf(s) = {},
                        valid'[s] # SECTOR_INVALID, NEW u \in UnitsOf(s)
                 PROVE  flash[u] \in {Erased, fbuf'[u]}
    BY DEF ForeignKept, WriteFlash
  <1>2. S \subseteq Units /\ S \cap UnitsOf(s) = {} /\ written \cap UnitsOf(s) = {}
    BY <1>1, BlocksAssumption DEF WriteFlash
  <1>3. s \notin Touched(S)
    BY <1>2 DEF Touched, UnitsOf
  <1>4. s \notin Marked(S)
    BY <1>3 DEF InnerEnds
  <1>5. u \in Units /\ SectorOf(u) = s /\ u \notin S
    BY <1>2 DEF UnitsOf
  <1>6. valid'[s] = valid[s] /\ fbuf'[u] = fbuf[u]
    BY <1>4, <1>5 DEF WriteFlash
  <1> QED
    BY <1>1, <1>2, <1>6 DEF ForeignKept

LEMMA StartForeign ==
    ASSUME QueueInv, ForeignInv, NEW kind \in AllKinds, NEW s \in Sectors,
           NEW count \in 1 .. NumSectors - s, Start(kind, s, count)
    PROVE  ForeignInv'
PROOF
  <1>1. queue = <<>>
    BY StatusKinds DEF QueueInv, QueueOK, IsJob, Start, InProcess
  <1> DEFINE job == NewJob(kind, s, count)
  <1>2. job.temp = <<>>
    BY JobQueued
  <1>3. queue' = <<job>>
    BY <1>1, OneElement DEF Start
  <1> HIDE DEF job
  <1>4. queue' # <<>> /\ Head(queue') = job
    BY <1>3, OneElement
  <1>5. PagesTrue(job, flash')
    BY <1>2, NoPages, FlashAssumption DEF PagesTrue
  <1>6. ForeignKept'
    BY ForeignCells DEF Start, flashVars, ForeignInv
  <1> QED
    BY <1>4, <1>5, <1>6 DEF ForeignInv, VerifyKept

LEMMA ForeignInit == Init => ForeignInv
BY DEF Init, RegionInit, ForeignInv, ForeignKept, VerifyKept

LEMMA ForeignStep ==
    ASSUME InnerEnds, QueueInv, FlashTypeOK, ForeignInv, [Next]_vars
    PROVE  ForeignInv'
PROOF
  <1>1. CASE StartFlash
    <2>1. PICK kind \in Kinds \ {"print"}, s \in Sectors :
             \E count \in 1 .. NumSectors - s : Start(kind, s, count)
      BY <1>1 DEF StartFlash
    <2>2. kind \in AllKinds
      BY JobsAssumption DEF AllKinds
    <2> QED
      BY <2>1, <2>2, StartForeign
  <1>2. CASE StartPrint
    <2>1. 0 \in Sectors /\ 1 \in 1 .. NumSectors - 0
      BY FlashAssumption DEF Sectors
    <2> QED
      BY <1>2, <2>1, StartForeign DEF StartPrint, AllKinds
  <1>3. ASSUME NEW S \in FlashBlocks, Read(S) \/ \E v \in Image : Write(S, v)
        PROVE  ForeignInv'
    <2>1. ForeignKept'
      BY <1>3, ReadForeign, WriteForeign DEF Read, Write, ForeignInv, FlashTypeOK
    <2>2. UNCHANGED <<flash, queue>>
      BY <1>3 DEF Read, Write, Touch, ReadFlash, WriteFlash, jobVars
    <2> QED
      BY <2>1, <2>2 DEF ForeignInv, VerifyKept
  <1>4. CASE InterruptPrompt \/ InterruptFake
    <2>1. queue' = <<>> /\ UNCHANGED flashVars
      BY <1>4 DEF InterruptPrompt, InterruptFake
    <2> QED
      BY <2>1, ForeignCells DEF ForeignInv, VerifyKept, flashVars
  <1>5. CASE DoCallback
    BY <1>5, CallbackForeign
  <1>6. CASE UNCHANGED <<flashVars, queue>>
    BY <1>6, ForeignCells DEF ForeignInv, VerifyKept, flashVars
  <1> QED
    BY <1>1, <1>2, <1>3, <1>4, <1>5, <1>6
       DEF Next, vars, jobVars, FlashState, SetFakeContinue, Continue, Stopped, Close, Accept,
           WaitCallback, FakeStep, FakeWrite, FakeRead, FakeAnswer, FakePoll, FakeEnd

(* Only ProgramFlash's own step can be the one that loses something.       *)
LEMMA ForeignErase ==
    ASSUME QueueInv, FlashTypeOK, ForeignInv, [Next]_vars,
           NEW u \in Units, queue # <<>>, Head(queue).kind = "program",
           flash[u] # Erased, flash'[u] = Erased,
           written \cap UnitsOf(SectorOf(u)) = {}
    PROVE  fbuf[u] = flash[u]
PROOF
  <1>1. DoCallback
    BY DEF Next, vars, flashVars, StartFlash, StartPrint, Start, FlashState, Read, ReadFlash,
           Write, WriteFlash, InterruptPrompt, SetFakeContinue, Continue, Stopped, Close,
           Accept, WaitCallback, FakeStep, FakeWrite, FakeRead, FakeAnswer, FakePoll,
           FakeEnd, InterruptFake
  <1>2. Head(queue) \in Job /\ RegionTypeOK
    BY JobsTyped DEF QueueInv, QueueOK, JobsTypeOK
  <1>3. ProgramStep(Head(queue))
    BY <1>1 DEF DoCallback, JobStep, flashVars
  <1>4. valid[SectorOf(u)] # SECTOR_INVALID
    BY <1>2, <1>3, ProgramForeign
  <1>5. SectorOf(u) \in Sectors /\ u \in UnitsOf(SectorOf(u))
    BY UnitPlace
  <1> QED
    BY <1>4, <1>5 DEF ForeignInv, ForeignKept

(* Sectors that share the flash with a download but were never written     *)
(* survive ProgramFlash, whatever fails and whoever interrupts: what is    *)
(* erased of them is in the buffer.  The blocks must end inside a sector.  *)
THEOREM ForeignSurvives ==
    ASSUME InnerEnds
    PROVE  Spec => NoForeignLoss
PROOF
  <1>1. QueueInv /\ FlashTypeOK /\ ForeignInv /\ [Next]_vars => ForeignInv'
    BY ForeignStep
  <1>2. QueueInv /\ FlashTypeOK /\ ForeignInv /\ [Next]_vars
        => [\A u \in Units :
              /\ queue # <<>> /\ Head(queue).kind = "program"
              /\ flash[u] # Erased /\ flash'[u] = Erased
              /\ written \cap UnitsOf(SectorOf(u)) = {}
              => fbuf[u] = flash[u]]_vars
    BY ForeignErase
  <1> QED
    BY ForeignInit, QueueInvariance, FlashTypes, <1>1, <1>2, PTL DEF Spec, NoForeignLoss
=============================================================================
