------------------------- MODULE IndexingEngineProofs -------------------------
(***************************************************************************)
(* The engine implements the job queue, and its vectors belong to its      *)
(* chunks, for any number of files, contents and threads.  With one thread *)
(* and nothing dropped, paused, lost or killed, what it shows as indexed   *)
(* is what is on disk once things are quiet.                               *)
(***************************************************************************)
EXTENDS MCIndexingEngine, JobQueueProofs, FiniteSetTheorems

USE EngineAssumption

-----------------------------------------------------------------------------
(* Each engine step is a step of the queue, or leaves the queue's variables alone. *)

LEMMA WatchRefines ==
  ASSUME NEW f \in Files, NEW k \in FlushSlots,
         Flush(f, k) \/ ApplyChange(f, k) \/ ApplyDelete(f, k) \/ LoseBatch(f, k)
  PROVE  Produce(f) \/ UNCHANGED vars
<1>1. CASE Flush(f, k) \/ LoseBatch(f, k)
  BY <1>1 DEF Flush, LoseBatch, vars
<1>2. CASE ApplyChange(f, k)
  <2>1. \/ UNCHANGED vars
        \/ Oversize(f)
        \/ Discover(f, <<"HASH_VERIFICATION", 3>>, row[f].mtime # disk[f])
    BY <1>2 DEF ApplyChange
  <2>2. (row[f].mtime # disk[f]) \in BOOLEAN /\ <<"HASH_VERIFICATION", 3>> \in Sources
    BY DEF Sources
  <2> QED
    BY <2>1, <2>2 DEF Produce
<1>3. CASE ApplyDelete(f, k)
  BY <1>3 DEF ApplyDelete, Produce
<1> QED
  BY <1>1, <1>2, <1>3

LEMMA ScanRefines ==
  ASSUME NEW f \in Files, ScanList(f) \/ ScanLook(f) \/ ScanApply(f)
  PROVE  Produce(f) \/ UNCHANGED vars
<1>1. CASE ScanList(f) \/ ScanLook(f)
  BY <1>1 DEF ScanList, ScanLook, vars
<1>2. CASE ScanApply(f)
  <2>1. \/ UNCHANGED vars \/ Oversize(f) \/ ScanError(f) \/ VanishScanned(f)
        \/ \E src \in Sources : ScanDiscover(f, src)
    BY <1>2 DEF ScanApply, ScanOversize, Sources
  <2>2. ASSUME NEW src \in Sources, ScanDiscover(f, src) PROVE Produce(f)
    <3>1. (row[f].mtime # scan[f].mtime) \in BOOLEAN
      OBVIOUS
    <3> QED
      BY <2>2, <3>1 DEF ScanDiscover, Produce
  <2> QED
    BY <2>1, <2>2 DEF Produce
<1> QED
  BY <1>1, <1>2

LEMMA IndexRefines ==
  ASSUME PipeMatchesJob, NEW w \in Workers, Index(w)
  PROVE  Seek(w) \/ Work(w) \/ UNCHANGED vars
<1>1. CASE Stat(w) \/ Check(w) \/ Hash(w) \/ Parse(w) \/ Judge(w)
  BY <1>1 DEF Stat, Check, Hash, Parse, Judge
<1>2. CASE Seeking(w) \/ Take(w)
  BY <1>2 DEF Seeking, Take, Seek
<1>3. CASE Clean(w)
  BY <1>3 DEF Clean, PipeMatchesJob, Work
<1>4. CASE Persist(w)
  <2>1. ~Cleans(w)
    BY <1>4 DEF Persist, PipeMatchesJob
  <2>2. UNCHANGED vars \/ CompleteNow(w, "SKIPPED") \/ CompleteNow(w, "INDEXED")
    BY <1>4 DEF Persist
  <2> QED
    BY <2>1, <2>2 DEF Work
<1>5. CASE Look(w)
  BY <1>5 DEF Look, Work
<1>6. CASE Finish(w)
  <2>1. \/ ~Cleans(w) /\ (CompleteRead(w, "INDEXED") \/ FailJob(w, FALSE))
        \/ FailJob(w, TRUE)
    BY <1>6 DEF Finish, PipeMatchesJob
  <2>2. TRUE \in IF Cleans(w) THEN {TRUE} ELSE BOOLEAN
    OBVIOUS
  <2> QED
    BY <2>1, <2>2 DEF Work
<1> QED
  BY <1>1, <1>2, <1>3, <1>4, <1>5, <1>6 DEF Index

LEMMA EngineStepRefines ==
  ASSUME PipeMatchesJob, [EngineNext]_evars
  PROVE  [Next]_vars
<1>1. CASE UNCHANGED evars
  BY <1>1 DEF evars
<1>2. ASSUME NEW f \in Files, Write(f) \/ Erase(f) \/ Restore(f)
      PROVE  UNCHANGED vars
  BY <1>2 DEF Write, Erase, Restore
<1>3. ASSUME NEW f \in Files, DropFolder(f) \/ Toggle(f)
      PROVE  RemoveFolder(f) \/ SetEnabled(f)
  BY <1>3 DEF DropFolder, Toggle
<1>4. ASSUME NEW w \in Workers, Break(w) \/ GiveUp(w)
      PROVE  Work(w) \/ Abandon(w)
  BY <1>4 DEF Break, GiveUp, Work
<1>5. ASSUME NEW f \in Files, Surround(f)
      PROVE  Produce(f) \/ RemoveFolder(f) \/ SetEnabled(f) \/ UNCHANGED vars
  BY <1>2, <1>3, <1>5, WatchRefines, ScanRefines DEF Surround, Watch
<1>6. CASE \E f \in Files : Surround(f)
  BY <1>5, <1>6 DEF Next
<1>7. CASE \E w \in Workers : Index(w) \/ Break(w) \/ GiveUp(w)
  BY <1>4, <1>7, IndexRefines DEF Next
<1>8. CASE (\E j \in JobIds : RetryDue(j)) \/ Die \/ Start
  BY <1>8 DEF RetryDue, Die, Start, Next
<1> QED
  BY <1>1, <1>6, <1>7, <1>8 DEF EngineNext

-----------------------------------------------------------------------------
(* The invariant of the engine's own variables. *)

IndexInv ==
  /\ SourcesTypeOK /\ IndexTypeOK /\ pipe \in [Workers -> Progress]
  /\ PipeMatchesJob /\ VectorsMatchChunks

LEMMA OnDiskType ==
  ASSUME SourcesTypeOK, NEW f \in Files, disk[f] # 0
  PROVE  OnDisk(f) \in Contents
BY DEF SourcesTypeOK, Writes, OnDisk, Contents

LEMMA EngineInitInv == EngineInit => EngineInv
<1> SUFFICES ASSUME EngineInit PROVE EngineInv
  OBVIOUS
<1>1. QueueInv
  BY InitInv DEF EngineInit
<1>2. SourcesTypeOK /\ IndexTypeOK
  BY DEF EngineInit, SourcesTypeOK, IndexTypeOK, Writes, Texts, Events, Glance, NoScan, ScanSteps
<1>3. pipe \in [Workers -> Progress]
  BY DEF EngineInit, Off, Progress, Steps, Texts
<1>4. PipeMatchesJob /\ VectorsMatchChunks
  BY DEF EngineInit, Off, PipeMatchesJob, VectorsMatchChunks
<1> QED
  BY <1>1, <1>2, <1>3, <1>4 DEF EngineInv, EngineTypeOK, QueueInv

(* A step that leaves the threads and their progress alone. *)
LEMMA ThreadsAside ==
  ASSUME IndexInv, UNCHANGED <<worker, pipe>>, SourcesTypeOK', IndexTypeOK', VectorsMatchChunks'
  PROVE  IndexInv'
BY DEF IndexInv, PipeMatchesJob, Cleans

LEMMA DiskStep ==
  ASSUME IndexInv, NEW f \in Files, Write(f) \/ Erase(f) \/ Restore(f)
  PROVE  IndexInv'
<1>1. SourcesTypeOK /\ IndexTypeOK /\ VectorsMatchChunks
  BY DEF IndexInv
<1>2. notice' \in [Files -> Events]
  BY <1>1 DEF Write, Erase, Restore, Notify, SourcesTypeOK, Events
<1>3. disk' \in [Files -> Writes] /\ written' \in [Files -> Writes]
  BY <1>1 DEF Write, Erase, Restore, SourcesTypeOK, Writes
<1>4. SourcesTypeOK' /\ IndexTypeOK' /\ VectorsMatchChunks' /\ UNCHANGED <<worker, pipe>>
  BY <1>1, <1>2, <1>3
     DEF Write, Erase, Restore, SourcesTypeOK, IndexTypeOK, VectorsMatchChunks, vars, indexvars
<1> QED
  BY <1>4, ThreadsAside

LEMMA SeenType ==
  ASSUME IndexTypeOK, NEW f \in Files, NEW mtime \in Writes, Seen(f, mtime)
  PROVE  row' \in [Files -> [sha : Texts, mtime : Writes]]
<1>1. [row[f] EXCEPT !.mtime = mtime] \in [sha : Texts, mtime : Writes]
  BY DEF IndexTypeOK
<1>2. row' = [row EXCEPT ![f] = [row[f] EXCEPT !.mtime = mtime]]
  BY DEF Seen, IndexTypeOK
<1> QED
  BY <1>1, <1>2 DEF IndexTypeOK

LEMMA FlightType ==
  ASSUME SourcesTypeOK, NEW f \in Files, NEW k \in FlushSlots, NEW e \in Events,
         flight' = [flight EXCEPT ![f][k] = e]
  PROVE  flight' \in [Files -> [FlushSlots -> Events]]
<1>1. [flight[f] EXCEPT ![k] = e] \in [FlushSlots -> Events]
  BY DEF SourcesTypeOK
<1>2. flight' = [flight EXCEPT ![f] = [flight[f] EXCEPT ![k] = e]]
  BY DEF SourcesTypeOK
<1> QED
  BY <1>1, <1>2 DEF SourcesTypeOK

LEMMA WatchStep ==
  ASSUME IndexInv, NEW f \in Files, NEW k \in FlushSlots,
         Flush(f, k) \/ ApplyChange(f, k) \/ ApplyDelete(f, k) \/ LoseBatch(f, k)
  PROVE  IndexInv'
<1>1. SourcesTypeOK /\ IndexTypeOK /\ VectorsMatchChunks
  BY DEF IndexInv
<1>2. UNCHANGED worker
  BY DEF Flush, ApplyChange, ApplyDelete, LoseBatch, vars, Oversize, Discover, VanishWatched
<1>3. UNCHANGED <<pipe, disk, written, scan, chunks, vectors>>
  BY DEF Flush, ApplyChange, ApplyDelete, LoseBatch, Landed, indexvars
<1>4. row' \in [Files -> [sha : Texts, mtime : Writes]]
  <2>1. Seen(f, disk[f]) \/ UNCHANGED row
    BY DEF Flush, ApplyChange, ApplyDelete, LoseBatch, indexvars
  <2>2. disk[f] \in Writes
    BY <1>1 DEF SourcesTypeOK
  <2> QED
    BY <1>1, <2>1, <2>2, SeenType DEF IndexTypeOK
<1>5. notice' \in [Files -> Events] /\ flight' \in [Files -> [FlushSlots -> Events]]
  <2>1. notice[f] \in Events /\ "none" \in Events
    BY <1>1 DEF SourcesTypeOK, Events
  <2>2. \E e \in Events : flight' = [flight EXCEPT ![f][k] = e]
    BY <2>1 DEF Flush, ApplyChange, ApplyDelete, LoseBatch, Landed
  <2>3. notice' \in [Files -> Events]
    BY <1>1, <2>1 DEF Flush, ApplyChange, ApplyDelete, LoseBatch, Landed, SourcesTypeOK
  <2> QED
    BY <1>1, <2>2, <2>3, FlightType
<1>6. SourcesTypeOK' /\ IndexTypeOK' /\ VectorsMatchChunks'
  BY <1>1, <1>3, <1>4, <1>5 DEF SourcesTypeOK, IndexTypeOK, VectorsMatchChunks
<1> QED
  BY <1>2, <1>3, <1>6, ThreadsAside

LEMMA ScanStep ==
  ASSUME IndexInv, NEW f \in Files, ScanList(f) \/ ScanLook(f) \/ ScanApply(f)
  PROVE  IndexInv'
<1>1. SourcesTypeOK /\ IndexTypeOK /\ VectorsMatchChunks
  BY DEF IndexInv
<1>2. UNCHANGED worker
  BY DEF ScanList, ScanLook, ScanApply, ScanDiscover, ScanOversize, vars, Oversize, ScanError, Discover,
         VanishScanned
<1>3. UNCHANGED <<pipe, disk, written, notice, flight>>
  BY DEF ScanList, ScanLook, ScanApply
<1>4. scan' \in [Files -> Glance]
  <2>1. ScanVerdict(f) \in ScanSteps
    BY DEF ScanVerdict, ScanSteps
  <2>2. CASE ScanList(f)
    BY <1>1, <2>2 DEF ScanList, SourcesTypeOK, Glance, ScanSteps, Writes
  <2>3. CASE ScanLook(f)
    BY <1>1, <2>1, <2>3 DEF ScanLook, SourcesTypeOK, Glance, NoScan, ScanSteps, Writes
  <2>4. CASE ScanApply(f)
    BY <1>1, <2>4 DEF ScanApply, SourcesTypeOK, Glance, NoScan, ScanSteps, Writes
  <2> QED
    BY <2>2, <2>3, <2>4
<1>5. IndexTypeOK' /\ VectorsMatchChunks'
  <2>1. CASE UNCHANGED <<chunks, vectors>>
    <3>1. row' \in [Files -> [sha : Texts, mtime : Writes]]
      <4>1. Seen(f, scan[f].mtime) \/ UNCHANGED row
        BY DEF ScanList, ScanLook, ScanApply, ScanDiscover, ScanOversize, indexvars
      <4>2. scan[f].mtime \in Writes
        BY <1>1 DEF SourcesTypeOK, Glance
      <4> QED
        BY <1>1, <4>1, <4>2, SeenType DEF IndexTypeOK
    <3> QED
      BY <1>1, <2>1, <3>1 DEF IndexTypeOK, VectorsMatchChunks
  <2>2. CASE Purged(f) /\ Seen(f, scan[f].mtime)
    BY <1>1, <2>2 DEF Purged, Seen, IndexTypeOK, VectorsMatchChunks, SourcesTypeOK, Glance, Texts
  <2> QED
    BY <2>1, <2>2 DEF ScanList, ScanLook, ScanApply, ScanDiscover, ScanOversize, indexvars
<1>6. SourcesTypeOK'
  BY <1>1, <1>3, <1>4 DEF SourcesTypeOK
<1> QED
  BY <1>2, <1>3, <1>5, <1>6, ThreadsAside

LEMMA FolderStep ==
  ASSUME IndexInv, NEW f \in Files, DropFolder(f) \/ Toggle(f)
  PROVE  IndexInv'
<1>1. SourcesTypeOK /\ IndexTypeOK /\ VectorsMatchChunks /\ PipeMatchesJob
      /\ pipe \in [Workers -> Progress]
  BY DEF IndexInv
<1>2. CASE Toggle(f)
  BY <1>1, <1>2, ThreadsAside
     DEF Toggle, SetEnabled, indexvars, sourcevars, SourcesTypeOK, IndexTypeOK, VectorsMatchChunks
<1>3. CASE DropFolder(f)
  <2>1. UNCHANGED worker
    BY <1>3 DEF DropFolder, RemoveFolder
  <2>2. SourcesTypeOK'
    BY <1>1, <1>3 DEF DropFolder, SourcesTypeOK, Glance, NoScan, ScanSteps, Writes, Events
  <2>3. IndexTypeOK' /\ VectorsMatchChunks'
    BY <1>1, <1>3 DEF DropFolder, Purged, IndexTypeOK, VectorsMatchChunks, Writes, Texts
  <2>4. pipe' \in [Workers -> Progress] /\ \A w \in Workers : pipe'[w].step = pipe[w].step
    <3>1. \A w \in Workers : /\ [pipe[w] EXCEPT !.gone = TRUE] \in Progress
                             /\ [pipe[w] EXCEPT !.gone = TRUE].step = pipe[w].step
      BY <1>1 DEF Progress
    <3> QED
      BY <1>1, <1>3, <3>1 DEF DropFolder
  <2> QED
    BY <1>1, <2>1, <2>2, <2>3, <2>4 DEF IndexInv, PipeMatchesJob, Cleans
<1> QED
  BY <1>2, <1>3

(* A step of thread w that turns its progress into r, without a purge or an insertion. *)
LEMMA OneThread ==
  ASSUME IndexInv, NEW w \in Workers, NEW r \in Progress, pipe' = [pipe EXCEPT ![w] = r],
         UNCHANGED sourcevars, IndexTypeOK', VectorsMatchChunks',
         \A x \in Workers \ {w} : worker'[x] = worker[x],
         r.step # "off" => worker'[w].file \in Files,
         r.step = "clean" => Cleans(w)',
         r.step \notin {"off", "clean", "fail"} => ~Cleans(w)'
  PROVE  IndexInv'
<1>1. pipe \in [Workers -> Progress] /\ PipeMatchesJob /\ SourcesTypeOK
  BY DEF IndexInv
<1>2. pipe' \in [Workers -> Progress]
  BY <1>1
<1>3. pipe'[w] = r /\ \A x \in Workers \ {w} : pipe'[x] = pipe[x]
  BY <1>1
<1>4. PipeMatchesJob'
  BY <1>1, <1>3 DEF PipeMatchesJob, Cleans
<1>5. SourcesTypeOK'
  BY <1>1 DEF SourcesTypeOK, sourcevars
<1> QED
  BY <1>2, <1>4, <1>5 DEF IndexInv

LEMMA GoStep ==
  ASSUME pipe \in [Workers -> Progress], NEW w \in Workers, NEW step \in Steps, Go(w, step)
  PROVE  \E r \in Progress : pipe' = [pipe EXCEPT ![w] = r] /\ r.step = step
<1> DEFINE r == [pipe[w] EXCEPT !.step = step]
<1>1. r \in Progress /\ r.step = step
  BY DEF Progress
<1>2. pipe' = [pipe EXCEPT ![w] = r]
  BY DEF Go
<1> QED
  BY <1>1, <1>2

LEMMA OffType == Off \in Progress /\ Off.step = "off" /\ ~(Off.step = "clean")
BY DEF Off, Progress, Steps, Texts

(* What a thread does between transactions: only its own progress changes. *)
LEMMA ReadingStep ==
  ASSUME IndexInv, NEW w \in Workers, pipe[w].step \notin {"off", "clean", "fail"},
         NEW r \in Progress, r.step \notin {"off", "clean"}, pipe' = [pipe EXCEPT ![w] = r],
         UNCHANGED <<vars, indexvars, sourcevars>>
  PROVE  IndexInv'
<1>1. ~Cleans(w) /\ worker' = worker /\ worker[w].file \in Files
  BY DEF IndexInv, PipeMatchesJob, vars
<1>2. IndexTypeOK' /\ VectorsMatchChunks'
  BY DEF IndexInv, IndexTypeOK, VectorsMatchChunks, indexvars
<1> QED
  BY <1>1, <1>2, OneThread DEF Cleans

LEMMA VerdictStep ==
  ASSUME NEW w, NEW go \in Steps \ {"off", "clean"}
  PROVE  Verdict(w, go) \in Steps \ {"off", "clean"}
BY DEF Verdict, Steps

LEMMA StatStep ==
  ASSUME IndexInv, NEW w \in Workers, Stat(w)
  PROVE  IndexInv'
<1> DEFINE step == IF disk[File(w)] = 0 THEN "fail" ELSE "check"
<1>1. step \in Steps \ {"off", "clean"}
  BY DEF Steps
<1>2. Go(w, step) /\ UNCHANGED <<vars, indexvars, sourcevars>> /\ pipe[w].step = "stat"
  BY DEF Stat
<1>3. PICK r \in Progress : pipe' = [pipe EXCEPT ![w] = r] /\ r.step = step
  BY <1>1, <1>2, GoStep DEF IndexInv
<1> QED
  BY <1>1, <1>2, <1>3, ReadingStep

LEMMA JudgeStep ==
  ASSUME IndexInv, NEW w \in Workers, Judge(w)
  PROVE  IndexInv'
<1> DEFINE go   == IF Bypassed(w) THEN "bypass" ELSE "persist"
           step == Verdict(w, go)
<1>1. step \in Steps \ {"off", "clean"}
  <2>1. go \in Steps \ {"off", "clean"}
    BY DEF Steps
  <2> QED
    BY <2>1, VerdictStep
<1>2. Go(w, step) /\ UNCHANGED <<vars, indexvars, sourcevars>> /\ pipe[w].step = "judge"
  BY DEF Judge
<1> HIDE DEF step
<1>3. PICK r \in Progress : pipe' = [pipe EXCEPT ![w] = r] /\ r.step = step
  BY <1>1, <1>2, GoStep DEF IndexInv
<1> QED
  BY <1>1, <1>2, <1>3, ReadingStep

LEMMA CheckStep ==
  ASSUME IndexInv, NEW w \in Workers, Check(w)
  PROVE  IndexInv'
<1> DEFINE step  == Verdict(w, "hash")
           known == IF step = "hash" /\ chunks[File(w)] # 0 THEN row[File(w)].sha ELSE 0
           r     == [pipe[w] EXCEPT !.step = step, !.known = known]
<1>1. step \in Steps \ {"off", "clean"}
  BY VerdictStep DEF Steps
<1>2. known \in Texts
  <2>1. File(w) \in Files
    BY DEF Check, IndexInv, PipeMatchesJob, File
  <2> QED
    BY <2>1 DEF IndexInv, IndexTypeOK, Texts
<1>3. pipe' = [pipe EXCEPT ![w] = r] /\ UNCHANGED <<vars, indexvars, sourcevars>>
      /\ pipe[w].step = "check"
  BY DEF Check
<1> HIDE DEF step, known
<1>4. r \in Progress /\ r.step = step
  BY <1>1, <1>2 DEF Progress, IndexInv
<1> HIDE DEF r
<1> QED
  BY <1>1, <1>3, <1>4, ReadingStep

LEMMA HashStep ==
  ASSUME IndexInv, NEW w \in Workers, Hash(w)
  PROVE  IndexInv'
<1>1. UNCHANGED <<vars, indexvars, sourcevars>> /\ pipe[w].step = "hash"
  BY DEF Hash
<1>2. CASE Go(w, "retry")
  <2>1. PICK r \in Progress : pipe' = [pipe EXCEPT ![w] = r] /\ r.step = "retry"
    BY <1>2, GoStep DEF IndexInv, Steps
  <2> QED
    BY <1>1, <2>1, ReadingStep
<1>3. CASE ~Go(w, "retry")
  <2> DEFINE c    == OnDisk(File(w))
             step == IF c \in Big \cup Unsupported \/ c = pipe[w].known THEN "judge" ELSE "parse"
             hash == IF c \in Big THEN 0 ELSE c
             r    == [pipe[w] EXCEPT !.step = step, !.hash = hash]
  <2>1. pipe' = [pipe EXCEPT ![w] = r] /\ disk[File(w)] # 0
    BY <1>3 DEF Hash
  <2>2. step \in Steps \ {"off", "clean"}
    BY DEF Steps
  <2>3. hash \in Texts
    <3>1. File(w) \in Files
      BY DEF Hash, IndexInv, PipeMatchesJob, File
    <3> QED
      BY <2>1, <3>1, OnDiskType DEF IndexInv, Texts
  <2> QED
    BY <1>1, <2>1, <2>2, <2>3, ReadingStep DEF Progress, IndexInv
<1> QED
  BY <1>2, <1>3

LEMMA ParseStep ==
  ASSUME IndexInv, NEW w \in Workers, Parse(w)
  PROVE  IndexInv'
<1>0. File(w) \in Files /\ UNCHANGED <<vars, indexvars, sourcevars>> /\ pipe[w].step = "parse"
  BY DEF Parse, IndexInv, PipeMatchesJob, File
<1>1. CASE Go(w, "fail")
  <2>1. PICK r \in Progress : pipe' = [pipe EXCEPT ![w] = r] /\ r.step = "fail"
    BY <1>1, GoStep DEF IndexInv, Steps
  <2> QED
    BY <1>0, <2>1, ReadingStep
<1>2. CASE ~Go(w, "fail")
  <2>1. PICK vec \in BOOLEAN :
          pipe' = [pipe EXCEPT
              ![w].step = "judge",
              ![w].text = IF OnDisk(File(w)) \in Opaque THEN 0 ELSE OnDisk(File(w)),
              ![w].vec  = vec]
    BY <1>2 DEF Parse
  <2> DEFINE text == IF OnDisk(File(w)) \in Opaque THEN 0 ELSE OnDisk(File(w))
             r    == [pipe[w] EXCEPT !.step = "judge", !.text = text, !.vec = vec]
  <2>2. disk[File(w)] # 0
    BY <1>2 DEF Parse
  <2>3. text \in Texts
    BY <1>0, <2>2, OnDiskType DEF IndexInv, Texts
  <2>4. pipe' = [pipe EXCEPT ![w] = r]
    BY <2>1
  <2> HIDE DEF text
  <2>5. r \in Progress /\ r.step = "judge"
    BY <2>3 DEF IndexInv, Progress, Steps
  <2> HIDE DEF r
  <2> QED
    BY <1>0, <2>4, <2>5, ReadingStep
<1> QED
  BY <1>1, <1>2

LEMMA SeekingStep ==
  ASSUME IndexInv, TypeOK, NEW w \in Workers, Seeking(w)
  PROVE  IndexInv'
<1>1. UNCHANGED <<indexvars, sourcevars, pipe>>
  BY DEF Seeking
<1>2. \A x \in Workers : worker'[x].file = worker[x].file /\ worker'[x].type = worker[x].type
  <2>1. \E stamp : worker' = [worker EXCEPT ![w].now = stamp]
    BY DEF Seeking, Poll, PollEmpty
  <2>2. worker \in [Workers -> Thread]
    BY DEF TypeOK
  <2> QED
    BY <2>1, <2>2
<1> QED
  BY <1>1, <1>2 DEF IndexInv, PipeMatchesJob, Cleans, SourcesTypeOK, IndexTypeOK,
                    VectorsMatchChunks, indexvars, sourcevars

LEMMA TakeStep ==
  ASSUME IndexInv, TypeOK, NEW w \in Workers, Take(w)
  PROVE  IndexInv'
<1>1. /\ worker \in [Workers -> Thread] /\ IsTable(jobs)
      /\ UNCHANGED <<indexvars, sourcevars>>
  BY DEF TypeOK, Take
<1>2. PICK j \in NextClaims(jobs, enabled) :
        worker' = [worker EXCEPT ![w] =
                [stage |-> "running", job |-> j, type |-> jobs[j].type, file |-> jobs[j].file,
                 tries |-> jobs[j].attempts + 1, cur |-> FALSE, now |-> 0]]
  BY DEF Take, Claim, ClaimRow
<1>3. jobs[j].file \in Files
  BY <1>1, NextClaimsPending, RowType DEF Row
<1>4. worker'[w].file \in Files /\ \A x \in Workers \ {w} : worker'[x] = worker[x]
  BY <1>1, <1>2, <1>3
<1> DEFINE step == IF worker'[w].type = "DELETE_CLEANUP" THEN "clean" ELSE "stat"
<1>5. step \in Steps /\ Go(w, step)
  BY DEF Take, Steps
<1>6. PICK r \in Progress : pipe' = [pipe EXCEPT ![w] = r] /\ r.step = step
  BY <1>5, GoStep DEF IndexInv
<1>7. IndexTypeOK' /\ VectorsMatchChunks'
  BY <1>1 DEF IndexInv, IndexTypeOK, VectorsMatchChunks, indexvars
<1>8. /\ r.step = "clean" => Cleans(w)'
      /\ r.step \notin {"off", "clean", "fail"} => ~Cleans(w)'
  BY <1>6 DEF Cleans
<1> QED
  BY <1>1, <1>4, <1>6, <1>7, <1>8, OneThread

(* A thread that ends its job. *)
LEMMA EndStep ==
  ASSUME IndexInv, TypeOK, NEW w \in Workers, Done(w), worker' = [worker EXCEPT ![w] = Idle],
         UNCHANGED sourcevars, IndexTypeOK', VectorsMatchChunks'
  PROVE  IndexInv'
<1>1. \A x \in Workers \ {w} : worker'[x] = worker[x]
  BY DEF TypeOK
<1>2. pipe' = [pipe EXCEPT ![w] = Off]
  BY DEF Done
<1> QED
  BY <1>1, <1>2, OffType, OneThread

LEMMA HashedType ==
  ASSUME IndexTypeOK, NEW w, NEW cur, pipe[w].hash \in Texts, Hashed(w, cur), File(w) \in Files
  PROVE  row' \in [Files -> [sha : Texts, mtime : Writes]]
<1> DEFINE r == [row[File(w)] EXCEPT !.sha = pipe[w].hash]
<1>1. r \in [sha : Texts, mtime : Writes]
  BY DEF IndexTypeOK
<1>2. row' = row \/ row' = [row EXCEPT ![File(w)] = r]
  BY DEF Hashed, IndexTypeOK
<1> HIDE DEF r
<1> QED
  BY <1>1, <1>2 DEF IndexTypeOK

LEMMA CleanStep ==
  ASSUME IndexInv, TypeOK, NEW w \in Workers, Clean(w)
  PROVE  IndexInv'
<1>1. /\ Done(w) /\ worker' = [worker EXCEPT ![w] = Idle] /\ UNCHANGED sourcevars
      /\ UNCHANGED row /\ (UNCHANGED <<chunks, vectors>> \/ Purged(File(w)))
  BY DEF Clean, CompleteNow, CompleteJob
<1>2. IndexTypeOK' /\ VectorsMatchChunks'
  BY <1>1 DEF Purged, IndexInv, IndexTypeOK, VectorsMatchChunks, Texts
<1> QED
  BY <1>1, <1>2, EndStep

LEMMA PersistStep ==
  ASSUME IndexInv, TypeOK, NEW w \in Workers, Persist(w)
  PROVE  IndexInv'
<1>0. /\ File(w) \in Files /\ pipe[w].text \in Texts /\ pipe[w].hash \in Texts
      /\ IndexTypeOK /\ VectorsMatchChunks /\ UNCHANGED sourcevars
  BY DEF Persist, IndexInv, PipeMatchesJob, File, Progress
<1>1. CASE Go(w, "fail") /\ UNCHANGED <<vars, indexvars>>
  <2>1. PICK r \in Progress : pipe' = [pipe EXCEPT ![w] = r] /\ r.step = "fail"
    BY <1>1, GoStep DEF IndexInv, Steps
  <2>2. pipe[w].step = "persist"
    BY DEF Persist
  <2> QED
    BY <1>0, <1>1, <2>1, <2>2, ReadingStep
<1>2. CASE ~(Go(w, "fail") /\ UNCHANGED <<vars, indexvars>>)
  <2>1. /\ \E final : CompleteNow(w, final)
        /\ Stored(w) /\ Hashed(w, IsCurrent(jobs, worker[w].job)) /\ Done(w)
    BY <1>2 DEF Persist
  <2>2. worker' = [worker EXCEPT ![w] = Idle]
    BY <2>1 DEF CompleteNow, CompleteJob
  <2>3. row' \in [Files -> [sha : Texts, mtime : Writes]]
    BY <1>0, <2>1, HashedType
  <2>4. chunks' \in [Files -> Texts] /\ vectors' \in [Files -> Texts] /\ VectorsMatchChunks'
    BY <1>0, <2>1 DEF Stored, IndexTypeOK, VectorsMatchChunks, Texts
  <2> QED
    BY <1>0, <2>1, <2>2, <2>3, <2>4, EndStep DEF IndexTypeOK
<1> QED
  BY <1>1, <1>2

LEMMA FinishStep ==
  ASSUME IndexInv, TypeOK, NEW w \in Workers, Finish(w)
  PROVE  IndexInv'
<1>1. /\ File(w) \in Files /\ pipe[w].hash \in Texts /\ IndexTypeOK
      /\ UNCHANGED <<chunks, vectors, sourcevars>> /\ Done(w)
  BY DEF Finish, IndexInv, PipeMatchesJob, File, Progress
<1>2. worker' = [worker EXCEPT ![w] = Idle]
  BY DEF Finish, CompleteRead, CompleteJob, FailJob
<1>3. Hashed(w, worker[w].cur) \/ UNCHANGED row
  BY DEF Finish
<1>4. row' \in [Files -> [sha : Texts, mtime : Writes]]
  BY <1>1, <1>3, HashedType DEF IndexTypeOK
<1>5. IndexTypeOK' /\ VectorsMatchChunks'
  BY <1>1, <1>4 DEF IndexInv, IndexTypeOK, VectorsMatchChunks, sourcevars
<1> QED
  BY <1>1, <1>2, <1>5, EndStep DEF sourcevars

LEMMA GiveUpStep ==
  ASSUME IndexInv, TypeOK, NEW w \in Workers, GiveUp(w)
  PROVE  IndexInv'
<1>1. Done(w) /\ worker' = [worker EXCEPT ![w] = Idle] /\ UNCHANGED <<indexvars, sourcevars>>
  BY DEF GiveUp, Abandon
<1>2. IndexTypeOK' /\ VectorsMatchChunks'
  BY <1>1 DEF IndexInv, IndexTypeOK, VectorsMatchChunks, indexvars
<1> QED
  BY <1>1, <1>2, EndStep

(* Reading the currency changes only what the thread knows of it. *)
LEMMA ReadingKeepsJob ==
  ASSUME TypeOK, NEW w \in Workers, NEW stage, ReadCurrency(w, stage)
  PROVE  \A x \in Workers : /\ worker'[x].file = worker[x].file
                            /\ worker'[x].type = worker[x].type
<1>1. worker' = [worker EXCEPT ![w].stage = stage, ![w].cur = IsCurrent(jobs, worker[w].job)]
  BY DEF ReadCurrency
<1> QED
  BY <1>1 DEF TypeOK

LEMMA LookStep ==
  ASSUME IndexInv, TypeOK, NEW w \in Workers, Look(w)
  PROVE  IndexInv'
<1>1. UNCHANGED <<pipe, indexvars, sourcevars>>
  BY DEF Look
<1>2. \A x \in Workers : worker'[x].file = worker[x].file /\ worker'[x].type = worker[x].type
  BY ReadingKeepsJob DEF Look, ReadToComplete, ReadToFail
<1>3. PipeMatchesJob'
  BY <1>1, <1>2 DEF IndexInv, PipeMatchesJob, Cleans
<1> QED
  BY <1>1, <1>3 DEF IndexInv, SourcesTypeOK, IndexTypeOK, VectorsMatchChunks, indexvars, sourcevars

LEMMA BreakStep ==
  ASSUME IndexInv, TypeOK, NEW w \in Workers, Break(w)
  PROVE  IndexInv'
<1>1. pipe[w].step # "off" /\ Go(w, "fail") /\ UNCHANGED <<indexvars, sourcevars>>
  BY DEF Break
<1>2. \A x \in Workers : worker'[x].file = worker[x].file /\ worker'[x].type = worker[x].type
  BY ReadingKeepsJob DEF Break, ReadToFail
<1>3. PICK r \in Progress : pipe' = [pipe EXCEPT ![w] = r] /\ r.step = "fail"
  BY <1>1, GoStep DEF IndexInv, Steps
<1>4. pipe' \in [Workers -> Progress]
  BY <1>3 DEF IndexInv
<1>5. PipeMatchesJob'
  BY <1>1, <1>2, <1>3 DEF IndexInv, PipeMatchesJob, Cleans
<1> QED
  BY <1>1, <1>4, <1>5 DEF IndexInv, SourcesTypeOK, IndexTypeOK, VectorsMatchChunks, indexvars, sourcevars

LEMMA DieStep ==
  ASSUME IndexInv, Die
  PROVE  IndexInv'
<1>1. UNCHANGED <<indexvars, disk, written>> /\ pipe' = [w \in Workers |-> Off]
  BY DEF Die
<1>2. pipe' \in [Workers -> Progress] /\ PipeMatchesJob'
  BY <1>1, OffType DEF PipeMatchesJob
<1>3. SourcesTypeOK'
  BY <1>1 DEF Die, IndexInv, SourcesTypeOK, Glance, NoScan, ScanSteps, Writes, Events
<1> QED
  BY <1>1, <1>2, <1>3 DEF IndexInv, IndexTypeOK, VectorsMatchChunks, indexvars

LEMMA StartOrRetryStep ==
  ASSUME IndexInv, Start \/ \E j \in JobIds : RetryDue(j)
  PROVE  IndexInv'
<1>1. UNCHANGED <<worker, pipe, indexvars, sourcevars>>
  BY DEF Start, Boot, RetryDue, BackoffOver
<1> QED
  BY <1>1, ThreadsAside
     DEF IndexInv, SourcesTypeOK, IndexTypeOK, VectorsMatchChunks, indexvars, sourcevars

-----------------------------------------------------------------------------
LEMMA SurroundStep ==
  ASSUME IndexInv, NEW f \in Files, Surround(f)
  PROVE  IndexInv'
BY DiskStep, WatchStep, ScanStep, FolderStep DEF Surround, Watch

LEMMA IndexStep ==
  ASSUME IndexInv, TypeOK, NEW w \in Workers, Index(w)
  PROVE  IndexInv'
BY SeekingStep, TakeStep, CleanStep, StatStep, CheckStep, HashStep, ParseStep, JudgeStep, PersistStep,
   LookStep, FinishStep DEF Index

LEMMA IndexInvStep == IndexInv /\ TypeOK /\ [EngineNext]_evars => IndexInv'
<1> SUFFICES ASSUME IndexInv, TypeOK, [EngineNext]_evars PROVE IndexInv'
  OBVIOUS
<1>1. CASE UNCHANGED evars
  BY <1>1, ThreadsAside
     DEF evars, vars, IndexInv, SourcesTypeOK, IndexTypeOK, VectorsMatchChunks, indexvars, sourcevars
<1>2. CASE \E f \in Files : Surround(f)
  BY <1>2, SurroundStep
<1>3. CASE \E w \in Workers : Index(w) \/ Break(w) \/ GiveUp(w)
  BY <1>3, IndexStep, BreakStep, GiveUpStep
<1>4. CASE Die \/ Start \/ \E j \in JobIds : RetryDue(j)
  BY <1>4, DieStep, StartOrRetryStep
<1> QED
  BY <1>1, <1>2, <1>3, <1>4 DEF EngineNext

LEMMA EngineInvStep == EngineInv /\ [EngineNext]_evars => EngineInv'
<1> SUFFICES ASSUME EngineInv, [EngineNext]_evars PROVE EngineInv'
  OBVIOUS
<1>1. IndexInv /\ QueueInv /\ TypeOK
  BY DEF EngineInv, EngineTypeOK, IndexInv
<1>2. [Next]_vars
  BY <1>1, EngineStepRefines DEF IndexInv
<1>3. QueueInv'
  BY <1>1, <1>2, QueueInvStep
<1>4. IndexInv'
  BY <1>1, IndexInvStep
<1> QED
  BY <1>3, <1>4 DEF EngineInv, EngineTypeOK, IndexInv, QueueInv

(* The invariant of the queue together with that of the engine's own state. *)
THEOREM EngineInvariant == EngineSpec => []EngineInv
BY EngineInitInv, EngineInvStep, PTL DEF EngineSpec

(* Every engine behaviour is a behaviour of the queue, so everything proved of the queue holds
   of the engine. *)
THEOREM EngineImplementsQueue == EngineSpec => Spec
<1>1. EngineInit => Init
  BY DEF EngineInit
<1>2. EngineInv /\ [EngineNext]_evars => [Next]_vars
  BY EngineStepRefines DEF EngineInv
<1> QED
  BY <1>1, <1>2, EngineInvariant, PTL DEF EngineSpec, Spec

(* Type correctness of the engine. *)
THEOREM EngineTypeCorrect == EngineSpec => []EngineTypeOK
<1>1. EngineInv => EngineTypeOK
  BY DEF EngineInv
<1> QED
  BY <1>1, EngineInvariant, PTL

(* No stored embedding outlives the chunks it was made from. *)
THEOREM VectorsBelongToChunks == EngineSpec => []VectorsMatchChunks
<1>1. EngineInv => VectorsMatchChunks
  BY DEF EngineInv
<1> QED
  BY <1>1, EngineInvariant, PTL

-----------------------------------------------------------------------------
(* What the index is fresh for: one thread, no batch lost, no folder dropped or paused, no crash *)

(* An event of the file is on its way to the job table. *)
Told(f, event) == notice[f] = event \/ \E k \in FlushSlots : flight[f][k] = event

(* What the file has held so far, and what it held last. *)
Past(f)   == {Content[n] : n \in {m \in DOMAIN Content : m <= written[f]}} \cup {0}
Newest(f) == Content[written[f]]

(* A thread indexes the file; it may still write the row's status and hash. *)
Indexes(w, f) == Busy(w) /\ worker[w].file = f /\ ~Cleans(w)
MayWrite(w, f) == Indexes(w, f) /\ Writable(jobs, worker[w].job)

(* Nothing is paused or removed: what is on disk is the last write, if anything, and only known
   files have jobs. *)
Steady ==
  /\ up
  /\ \A f \in Files : enabled[f] /\ disk[f] \in {0, written[f]}
  /\ \A w \in Workers : /\ ~pipe[w].gone /\ (pipe[w].step = "off" <=> ~Busy(w))
                        /\ ~Busy(w) => pipe[w] = Off
  /\ \A j \in DOMAIN jobs : status[jobs[j].file] # "ABSENT"

(* A job that yields is superseded for good, and will not report the file indexed. *)
Yields(w) ==
  /\ pipe[w].step = "yield" =>
       /\ ~IsCurrent(jobs, worker[w].job)
       /\ worker[w].stage = "completing" => ~worker[w].cur
  /\ worker[w].stage = "completing" => pipe[w].step \in {"bypass", "yield"}

(* What the thread has read of its file.  A text is read after the hash that precedes it. *)
ReadInOrder(w, f) ==
  /\ pipe[w].hash \in Past(f) /\ pipe[w].text \in Past(f)
  /\ pipe[w].known # 0 => pipe[w].known = row[f].sha
  /\ pipe[w].text # 0 /\ Newest(f) \in {pipe[w].hash, row[f].sha} => pipe[w].text = Newest(f)
  /\ pipe[w].step \in {"stat", "check", "hash"} => pipe[w].hash = 0 /\ pipe[w].text = 0
  /\ pipe[w].step = "parse" => pipe[w].text = 0 /\ pipe[w].hash # pipe[w].known
  /\ pipe[w].step = "bypass" => pipe[w].hash = row[f].sha

(* Hash and chunks of the row are of the file's past, and chunks are never older than the hash. *)
InOrder(f) ==
  /\ row[f].sha \in Past(f) /\ chunks[f] \in Past(f)
  /\ row[f].sha # 0 /\ row[f].sha = Newest(f) /\ chunks[f] # 0 => chunks[f] = row[f].sha
  /\ \A w \in Workers : Indexes(w, f) =>
       ReadInOrder(w, f) /\ status[f] \notin {"INDEXED", "ABSENT"}

(* A file that is gone, and whose deletion has arrived, is not shown as indexed, and the thread
   that works on it will not find it. *)
DeletionSeen(f) ==
  disk[f] = 0 /\ ~Told(f, "DELETE") =>
    /\ status[f] # "INDEXED"
    /\ \A w \in Workers : MayWrite(w, f) => pipe[w].step \in {"stat", "fail"}

(* When every change has arrived and no job waits for the file, what is shown as indexed is what
   is on disk, and so is what the thread is about to store. *)
ChangeSeen(f) ==
  disk[f] # 0 /\ OnDisk(f) \notin Big /\ ~Told(f, "CHANGE") /\ ~Awaited(jobs, f) =>
    /\ status[f] = "INDEXED" => chunks[f] \in {0, OnDisk(f)}
    /\ \A w \in Workers : MayWrite(w, f) =>
         /\ pipe[w].step \in {"judge", "persist"} => pipe[w].text \in {0, OnDisk(f)}
         /\ pipe[w].step = "bypass" \/ (pipe[w].step = "judge" /\ Bypassed(w)) =>
              chunks[f] \in {0, OnDisk(f)}

FileCalm(f) == InOrder(f) /\ DeletionSeen(f) /\ ChangeSeen(f)

CalmInv == Steady /\ (\A w \in Workers : Yields(w)) /\ \A f \in Files : FileCalm(f)

(* The hypotheses *)
SingleThread == \E w : Workers = {w}
ContentsDiffer == \A m, n \in DOMAIN Content : Content[m] = Content[n] => m = n
(* Retention does not delete the row that superseded a job. *)
RowsStay ==
  \/ \E f : Files = {f}
  \/ IsFiniteSet(JobIds) /\ Cardinality(JobIds) <= Retention

CalmSurround(f) == Write(f) \/ Erase(f) \/ Watch(f) \/ ScanList(f) \/ ScanLook(f) \/ ScanApply(f)

CalmNext ==
  \/ \E f \in Files : CalmSurround(f)
  \/ \E w \in Workers : Index(w) \/ Break(w)
  \/ \E j \in JobIds : RetryDue(j)

LEMMA CalmIsFresh == EngineInv /\ CalmInv => NoStaleText
<1> SUFFICES ASSUME EngineInv, CalmInv, NEW f \in Files,
                    Quiet(f), status[f] = "INDEXED", chunks[f] # 0
             PROVE  disk[f] # 0 /\ (chunks[f] = OnDisk(f) \/ OnDisk(f) \in Big)
  BY DEF NoStaleText
<1>1. ~Told(f, "DELETE") /\ ~Told(f, "CHANGE") /\ ~Awaited(jobs, f)
  BY DEF Quiet, Told, Awaited, LiveRowsOf, RowsIn, RowsOf, Live
<1> QED
  BY <1>1 DEF CalmInv, FileCalm, DeletionSeen, ChangeSeen

LEMMA CalmInit == EngineInit => CalmInv
<1> SUFFICES ASSUME EngineInit PROVE CalmInv
  OBVIOUS
<1>1. /\ up /\ jobs = [j \in {} |-> NewRow(None, "METADATA_DISCOVERY", 0, 0)]
      /\ enabled = [f \in Files |-> TRUE] /\ worker = [w \in Workers |-> Idle]
      /\ status = [f \in Files |-> "ABSENT"]
  BY DEF EngineInit, Init
<1>2. \A w \in Workers : ~Busy(w) /\ worker[w].stage = "idle"
  BY <1>1 DEF Busy, Idle
<1>3. DOMAIN jobs = {}
  BY <1>1
<1>4. Steady /\ \A w \in Workers : Yields(w)
  BY <1>1, <1>2, <1>3 DEF EngineInit, Steady, Yields, Off
<1>5. ASSUME NEW f \in Files PROVE FileCalm(f)
  <2>1. status[f] # "INDEXED" /\ \A w \in Workers : ~Indexes(w, f)
    BY <1>1, <1>2 DEF Indexes
  <2>2. row[f].sha = 0 /\ chunks[f] = 0 /\ disk[f] = 0
    BY DEF EngineInit
  <2> QED
    BY <2>1, <2>2 DEF FileCalm, InOrder, DeletionSeen, ChangeSeen, MayWrite, Past
<1> QED
  BY <1>4, <1>5 DEF CalmInv

-----------------------------------------------------------------------------
(* What a producer's transaction does to the rows *)

LEMMA NothingPruned ==
  ASSUME NEW js, IsTable(js), IsFiniteSet(JobIds), Cardinality(JobIds) <= Retention,
         NEW D \in Prunable(js)
  PROVE  D = {}
<1> DEFINE old == RowsIn(js, Finished)
<1>1. old \subseteq JobIds /\ D \subseteq old
  BY DEF RowsIn, IsTable, Prunable
<1>2. IsFiniteSet(old) /\ Cardinality(old) <= Cardinality(JobIds)
  BY <1>1, FS_Subset
<1>3. Cardinality(old) \in Nat /\ Cardinality(JobIds) \in Nat /\ Retention \in Nat
  BY <1>2, FS_CardinalityType, JobTableAssumption
<1>4. Cardinality(old \ D) = IF Cardinality(old) > Retention THEN Retention ELSE Cardinality(old)
  BY DEF Prunable
<1>5. Cardinality(old \ D) = Cardinality(old)
  BY <1>2, <1>3, <1>4
<1>6. old \ D = old
  BY <1>2, <1>5, FS_Subset
<1> QED
  BY <1>1, <1>6

(* All rows of js are rows of ks. *)
Within(js, ks) == \A j \in DOMAIN js : j \in DOMAIN ks /\ ks[j] = js[j]

(* The rows of ks that are not rows of js are of file f. *)
NewAreOf(f, js, ks) ==
  \A j \in DOMAIN ks : ks[j].file = f \/ (j \in DOMAIN js /\ ks[j].file = js[j].file)

LEMMA EnqueueWithin ==
  ASSUME NEW js, DOMAIN js \subseteq DOMAIN jobs, NEW f, NEW t, NEW p, Enqueue(js, f, t, p)
  PROVE  Within(js, jobs') /\ NewAreOf(f, js, jobs')
<1>1. CASE Duplicates(js, f, t) # {} /\ jobs' = js
  BY <1>1 DEF Within, NewAreOf
<1>2. CASE Duplicates(js, f, t) = {}
  <2>1. PICK stamp : /\ FreshIds # {}
                     /\ jobs' = Insert(js, CHOOSE id \in FreshIds : TRUE, NewRow(f, t, p, stamp))
    BY <1>2 DEF Enqueue
  <2> DEFINE new == CHOOSE id \in FreshIds : TRUE
             row1 == NewRow(f, t, p, stamp)
  <2>2. new \notin DOMAIN jobs /\ row1.file = f
    BY <2>1 DEF FreshIds, NewRow
  <2>3. jobs' = Insert(js, new, row1)
    BY <2>1
  <2> HIDE DEF new, row1
  <2>4. /\ DOMAIN jobs' = DOMAIN js \cup {new} /\ jobs'[new] = row1
        /\ \A j \in DOMAIN js : jobs'[j] = js[j]
    BY <2>2, <2>3 DEF Insert
  <2> QED
    BY <2>2, <2>4 DEF Within, NewAreOf
<1> QED
  BY <1>1, <1>2 DEF Enqueue

(* A vanished file: its live jobs are cancelled. *)
Ended(f) ==
  /\ status'[f] = "MISSING"
  /\ \A j \in LiveRowsOf(jobs, f) : j \in DOMAIN jobs' => jobs'[j].status = "CANCELLED"

LEMMA VanishRows ==
  ASSUME TypeOK, NEW f \in Files, VanishWatched(f) \/ VanishScanned(f)
  PROVE  /\ Ended(f) /\ NewAreOf(f, jobs, jobs')
         /\ RowsStay => \A j \in DOMAIN jobs : jobs[j].file # f /\ jobs[j].file \in Files =>
                          j \in DOMAIN jobs' /\ jobs'[j] = jobs[j]
<1>0. IsTable(jobs) /\ status \in [Files -> FileStatuses]
  BY DEF TypeOK
<1>1. PICK D \in IF LiveRowsOf(jobs, f) = {} THEN {{}} ELSE Prunable(Cancelled(jobs, f)) :
        \/ \E p : Enqueue(Without(Cancelled(jobs, f), D), f, "DELETE_CLEANUP", p)
        \/ jobs' = Without(Cancelled(jobs, f), D)
  BY DEF VanishWatched, VanishScanned
<1> DEFINE cs == Cancelled(jobs, f)
           js == Without(cs, D)
<1>2. /\ DOMAIN cs = DOMAIN jobs
      /\ DOMAIN js = DOMAIN jobs \ D /\ \A j \in DOMAIN js : js[j] = cs[j]
  BY DEF Cancelled, Without
<1>3. ASSUME NEW j \in DOMAIN jobs
      PROVE  /\ cs[j].file = jobs[j].file
             /\ j \in LiveRowsOf(jobs, f) => cs[j].status = "CANCELLED"
             /\ jobs[j].file # f => cs[j] = jobs[j]
  BY <1>0, <1>3, RowType DEF Cancelled, Row, LiveRowsOf, RowsOf, RowsIn
<1>4. IsTable(cs)
  BY <1>0, CancelledTable
<1> HIDE DEF cs
<1>5. \/ \E p : Enqueue(js, f, "DELETE_CLEANUP", p)
      \/ jobs' = js
  BY <1>1 DEF cs
<1>6. DOMAIN js \subseteq DOMAIN jobs
  BY <1>2
<1> HIDE DEF js
<1>7. Within(js, jobs') /\ NewAreOf(f, js, jobs')
  <2>1. CASE jobs' = js
    BY <2>1 DEF Within, NewAreOf
  <2> QED
    BY <1>5, <1>6, <2>1, EnqueueWithin
<1>8. status' = [status EXCEPT ![f] = "MISSING"]
  BY DEF VanishWatched, VanishScanned
<1>9. Ended(f)
  <2> SUFFICES ASSUME NEW j \in LiveRowsOf(jobs, f), j \in DOMAIN jobs'
               PROVE  jobs'[j].status = "CANCELLED"
    BY <1>0, <1>8 DEF Ended
  <2>1. j \in DOMAIN jobs
    BY DEF LiveRowsOf, RowsOf
  <2>2. CASE j \in DOMAIN js
    BY <1>2, <1>3, <1>7, <2>1, <2>2 DEF Within
  <2>3. CASE j \notin DOMAIN js
    <3>1. PICK p : Enqueue(js, f, "DELETE_CLEANUP", p)
      BY <1>5, <2>3
    <3>2. jobs' # js
      BY <2>3
    <3>3. PICK stamp : /\ FreshIds # {}
                       /\ jobs' = Insert(js, CHOOSE id \in FreshIds : TRUE,
                                         NewRow(f, "DELETE_CLEANUP", p, stamp))
      BY <3>1, <3>2 DEF Enqueue
    <3>4. DOMAIN jobs' = DOMAIN js \cup {CHOOSE id \in FreshIds : TRUE}
      BY <3>3 DEF Insert
    <3>5. (CHOOSE id \in FreshIds : TRUE) \notin DOMAIN jobs
      BY <3>3 DEF FreshIds
    <3> QED
      BY <2>1, <2>3, <3>4, <3>5
  <2> QED
    BY <2>2, <2>3
<1>10. NewAreOf(f, jobs, jobs')
  BY <1>2, <1>3, <1>7 DEF NewAreOf
<1>11. ASSUME RowsStay, NEW j \in DOMAIN jobs, jobs[j].file # f, jobs[j].file \in Files
       PROVE  j \in DOMAIN jobs' /\ jobs'[j] = jobs[j]
  <2>1. IsFiniteSet(JobIds) /\ Cardinality(JobIds) <= Retention
    BY <1>11 DEF RowsStay
  <2>2. D = {}
    BY <1>1, <1>4, <2>1, NothingPruned DEF cs
  <2> QED
    BY <1>2, <1>3, <1>7, <1>11, <2>2 DEF Within
<1> QED
  BY <1>9, <1>10, <1>11

(* Every producer's transaction keeps all rows, or it is a deletion. *)
LEMMA ProduceRows ==
  ASSUME TypeOK, NEW f \in Files, Produce(f)
  PROVE  /\ NewAreOf(f, jobs, jobs')
         /\ \/ Within(jobs, jobs')
            \/ VanishWatched(f) \/ VanishScanned(f)
         /\ status'[f] # "ABSENT" \/ (status[f] = "ABSENT" /\ UNCHANGED jobs)
         /\ status' = [status EXCEPT ![f] = status'[f]]
         /\ status'[f] = "INDEXED" => status[f] = "INDEXED"
         /\ UNCHANGED <<worker, enabled, up>>
<1>0. status \in [Files -> FileStatuses]
  BY DEF TypeOK
<1>1. CASE VanishWatched(f) \/ VanishScanned(f)
  BY <1>0, <1>1, VanishRows DEF VanishWatched, VanishScanned
<1>2. CASE Oversize(f) \/ ScanError(f)
  BY <1>0, <1>2 DEF Oversize, ScanError, Within, NewAreOf
<1>3. CASE Register(f) \/ Rename(f) \/ \E src \in Sources, changed \in BOOLEAN : Discover(f, src, changed)
  <2>1. \E t, p : Enqueue(jobs, f, t, p)
    BY <1>3 DEF Register, Rename, Discover
  <2>2. NewAreOf(f, jobs, jobs') /\ Within(jobs, jobs')
    BY <2>1, EnqueueWithin
  <2>3. CASE Register(f) \/ Rename(f)
    BY <1>0, <2>2, <2>3 DEF Register, Rename
  <2>4. ASSUME NEW src \in Sources, NEW changed \in BOOLEAN, Discover(f, src, changed)
        PROVE  /\ status' = [status EXCEPT ![f] = Upserted(status[f], "QUEUED", changed)]
               /\ UNCHANGED <<worker, enabled, up>>
    BY <2>4 DEF Discover
  <2>5. \A changed \in BOOLEAN : Upserted(status[f], "QUEUED", changed) \in {"QUEUED", status[f]}
    BY DEF Upserted
  <2>6. \A changed \in BOOLEAN : Upserted(status[f], "QUEUED", changed) # "ABSENT"
    BY <1>0 DEF Upserted, FileStatuses
  <2> QED
    BY <1>0, <1>3, <2>2, <2>3, <2>4, <2>5, <2>6
<1> QED
  BY <1>1, <1>2, <1>3 DEF Produce

-----------------------------------------------------------------------------
(* Producers, scans, timers and the disk: the threads stand aside *)

(* What such a step leaves of a file's row, its job and its thread. *)
Aside(g) ==
  /\ status'[g] \in {"INDEXED", "ABSENT"} => status'[g] = status[g]
  /\ \A w \in Workers : /\ Indexes(w, g)' => Indexes(w, g)
                        /\ MayWrite(w, g)' => MayWrite(w, g)

LEMMA StaysSuperseded ==
  ASSUME NEW w \in Workers, worker[w].job \in Held, worker' = worker, Carries(jobs'),
         ~IsCurrent(jobs, worker[w].job),
         worker[w].job \in DOMAIN jobs /\ worker[w].job \in RowsIn(jobs', Live) =>
           \A k \in DOMAIN jobs : jobs[k].file = jobs[worker[w].job].file =>
             /\ k \in DOMAIN jobs'
             /\ jobs'[k].file = jobs[k].file /\ jobs'[k].status = jobs[k].status
             /\ jobs'[k].created = jobs[k].created /\ jobs'[k].started = jobs[k].started
  PROVE  ~IsCurrent(jobs', worker'[w].job)
<1> DEFINE j == worker[w].job
<1> SUFFICES ASSUME IsCurrent(jobs', j) PROVE FALSE
  OBVIOUS
<1>1. j \in DOMAIN jobs' /\ j \in RowsIn(jobs', Live)
  BY DEF IsCurrent, RowsIn
<1>2. j \in DOMAIN jobs
  BY <1>1 DEF Carries
<1>3. \A k \in DOMAIN jobs : jobs[k].file = jobs[j].file =>
             /\ k \in DOMAIN jobs'
             /\ jobs'[k].file = jobs[k].file /\ jobs'[k].status = jobs[k].status
             /\ jobs'[k].created = jobs[k].created /\ jobs'[k].started = jobs[k].started
  BY <1>1, <1>2
<1>4. j \in RowsIn(jobs, Live)
  BY <1>1, <1>2, <1>3 DEF RowsIn
<1>5. PICK k \in RowsOf(jobs, jobs[j].file) \ {j} : Supersedes(jobs[k], jobs[j])
  BY <1>4 DEF IsCurrent
<1>6. k \in RowsOf(jobs', jobs'[j].file) \ {j} /\ Supersedes(jobs'[k], jobs'[j])
  BY <1>2, <1>3, <1>5 DEF RowsOf, Supersedes, StartedLater
<1> QED
  BY <1>6 DEF IsCurrent

LEMMA BusyHolds ==
  ASSUME QueueInv, NEW w \in Workers, Busy(w)
  PROVE  worker[w].job \in Held /\ worker[w].job \in JobIds
BY JobQueueAssumption DEF QueueInv, ThreadsMatchRows, Held

(* What a thread may write, it might write before. *)
LEMMA MayShrinks ==
  ASSUME QueueInv, [Next]_vars, worker' = worker, Carries(jobs'), NEW w \in Workers, NEW g,
         MayWrite(w, g)'
  PROVE  MayWrite(w, g)
<1>1. /\ Busy(w) /\ worker[w].file = g /\ ~Cleans(w) /\ worker[w].job \in DOMAIN jobs'
      /\ jobs'[worker[w].job].status # "CANCELLED"
  BY DEF MayWrite, Indexes, Busy, Cleans, Writable
<1>2. worker[w].job \in DOMAIN jobs
  BY <1>1, BusyHolds DEF Carries
<1>3. jobs[worker[w].job].status # "CANCELLED"
  BY <1>1, <1>2, FinishedStep DEF Keeps, RowsIn, Finished
<1> QED
  BY <1>1, <1>2, <1>3 DEF MayWrite, Indexes, Writable

LEMMA ProduceAside ==
  ASSUME EngineInv, CalmInv, RowsStay, NEW f \in Files, Produce(f) \/ UNCHANGED vars, UNCHANGED pipe,
         \A g \in Files : disk'[g] \in {0, written'[g]}
  PROVE  /\ Steady' /\ \A w \in Workers : Yields(w)'
         /\ \A g \in Files : Aside(g)
         /\ \A g \in Files : g # f => status'[g] = status[g] /\ (Awaited(jobs, g) => Awaited(jobs', g))
<1>0. /\ QueueInv /\ TypeOK /\ Steady /\ IsTable(jobs) /\ \A w \in Workers : Yields(w)
      /\ status \in [Files -> FileStatuses]
  BY DEF EngineInv, QueueInv, TypeOK, CalmInv
<1>1. CASE UNCHANGED vars
  <2>1. \A w \in Workers : Busy(w)' <=> Busy(w)
    BY <1>1 DEF vars, Busy
  <2>2. Steady'
    BY <1>0, <1>1, <2>1 DEF Steady, vars
  <2>3. \A w \in Workers : Yields(w)'
    BY <1>0, <1>1 DEF Yields, vars
  <2>4. \A g \in Files : Aside(g)
    BY <1>1 DEF Aside, MayWrite, Indexes, Busy, Cleans, vars
  <2> QED
    BY <1>1, <2>2, <2>3, <2>4 DEF vars
<1>2. CASE Produce(f)
  <2>1. /\ NewAreOf(f, jobs, jobs')
        /\ \/ Within(jobs, jobs')
           \/ VanishWatched(f) \/ VanishScanned(f)
        /\ status'[f] # "ABSENT" \/ (status[f] = "ABSENT" /\ UNCHANGED jobs)
        /\ status' = [status EXCEPT ![f] = status'[f]]
        /\ status'[f] = "INDEXED" => status[f] = "INDEXED"
        /\ UNCHANGED <<worker, enabled, up>>
    BY <1>0, <1>2, ProduceRows
  <2>2. /\ Carries(jobs') /\ \A g : g # f => Waits(jobs', g)
    BY <1>0, <1>2, ProduceCarries
  <2>3. [Next]_vars
    BY <1>2 DEF Next
  <2>4. \A g \in Files : g # f => status'[g] = status[g]
    BY <1>0, <2>1
  <2>5. Steady'
    <3>1. ASSUME NEW j \in DOMAIN jobs' PROVE status'[jobs'[j].file] # "ABSENT"
      <4>1. CASE jobs'[j].file = f
        BY <1>0, <2>1, <4>1 DEF Steady
      <4>2. CASE jobs'[j].file # f
        <5>1. j \in DOMAIN jobs /\ jobs'[j].file = jobs[j].file
          BY <2>1, <4>2 DEF NewAreOf
        <5>2. jobs[j].file \in Files
          BY <1>0, <5>1, RowType DEF Row
        <5> QED
          BY <1>0, <2>4, <4>2, <5>1, <5>2 DEF Steady
      <4> QED
        BY <4>1, <4>2
    <3>2. \A w \in Workers : Busy(w)' <=> Busy(w)
      BY <2>1 DEF Busy
    <3> QED
      BY <1>0, <2>1, <3>1, <3>2 DEF Steady
  <2>6. ASSUME NEW w \in Workers PROVE Yields(w)'
    <3>1. CASE pipe[w].step = "yield"
      <4>1. Busy(w)
        BY <1>0, <3>1 DEF Steady
      <4>2. worker[w].job \in Held /\ ~IsCurrent(jobs, worker[w].job)
        BY <1>0, <3>1, <4>1, BusyHolds DEF Yields
      <4> DEFINE j == worker[w].job
      <4>3. ASSUME j \in DOMAIN jobs, j \in RowsIn(jobs', Live),
                   NEW k \in DOMAIN jobs, jobs[k].file = jobs[j].file
            PROVE  k \in DOMAIN jobs' /\ jobs'[k] = jobs[k]
        <5>1. CASE Within(jobs, jobs')
          BY <5>1 DEF Within
        <5>2. CASE VanishWatched(f) \/ VanishScanned(f)
          <6>1. /\ Ended(f)
                /\ \A i \in DOMAIN jobs : jobs[i].file # f /\ jobs[i].file \in Files =>
                          i \in DOMAIN jobs' /\ jobs'[i] = jobs[i]
            BY <1>0, <5>2, VanishRows
          <6>2. jobs[k].file \in Files
            BY <1>0, RowType DEF Row
          <6>3. jobs'[j].status \in Live /\ j \in DOMAIN jobs'
            BY <4>3 DEF RowsIn
          <6>4. jobs[j].status \in Live
            BY <1>0, <2>3, <4>3, <6>3, FinishedStep, RowType DEF Keeps, RowsIn, Row, Live, Finished
          <6>5. jobs[j].file # f
            BY <4>3, <6>1, <6>3, <6>4 DEF Ended, LiveRowsOf, RowsOf, RowsIn, Live
          <6> QED
            BY <4>3, <6>1, <6>2, <6>5
        <5> QED
          BY <2>1, <5>1, <5>2
      <4>4. ~IsCurrent(jobs', worker'[w].job)
        BY <2>1, <2>2, <4>2, <4>3, StaysSuperseded
      <4> QED
        BY <1>0, <2>1, <4>4 DEF Yields
    <3>2. CASE pipe[w].step # "yield"
      BY <1>0, <2>1, <3>2 DEF Yields
    <3> QED
      BY <3>1, <3>2
  <2>7. ASSUME NEW g \in Files PROVE Aside(g)
    <3>1. \A w \in Workers : MayWrite(w, g)' => MayWrite(w, g)
      BY <1>0, <2>1, <2>2, <2>3, MayShrinks
    <3>2. \A w \in Workers : Indexes(w, g)' => Indexes(w, g)
      BY <2>1 DEF Indexes, Busy, Cleans
    <3>3. status'[g] \in {"INDEXED", "ABSENT"} => status'[g] = status[g]
      BY <2>1, <2>4
    <3> QED
      BY <3>1, <3>2, <3>3 DEF Aside
  <2> QED
    BY <2>2, <2>4, <2>5, <2>6, <2>7, WaitsAwaited
<1> QED
  BY <1>1, <1>2

(* Such a step keeps what holds of a file if an event that arrives leaves a waiting job, or takes
   the file out of the index and its job from its thread. *)
LEMMA FileAside ==
  ASSUME NEW g \in Files, FileCalm(g), Aside(g), UNCHANGED <<worker, pipe>>,
         disk'[g] = disk[g], written'[g] = written[g], row'[g].sha = row[g].sha,
         chunks'[g] \in {0, chunks[g]},
         disk[g] = 0 /\ ~Told(g, "DELETE")' =>
           \/ ~Told(g, "DELETE")
           \/ status'[g] # "INDEXED" /\ \A w \in Workers : ~MayWrite(w, g)',
         disk[g] # 0 /\ OnDisk(g) \notin Big /\ ~Told(g, "CHANGE")' /\ ~Awaited(jobs, g)' =>
           \/ ~Told(g, "CHANGE") /\ ~Awaited(jobs, g)
           \/ status'[g] # "INDEXED" /\ \A w \in Workers : ~MayWrite(w, g)'
  PROVE  FileCalm(g)'
<1>1. OnDisk(g)' = OnDisk(g) /\ Past(g)' = Past(g) /\ Newest(g)' = Newest(g) /\ 0 \in Past(g)
  BY DEF OnDisk, Past, Newest
<1>2. \A w \in Workers : ReadInOrder(w, g) => ReadInOrder(w, g)'
  BY <1>1 DEF ReadInOrder
<1>3. InOrder(g)'
  <2>1. row'[g].sha \in Past(g)' /\ chunks'[g] \in Past(g)'
    BY <1>1 DEF FileCalm, InOrder
  <2>2. row'[g].sha # 0 /\ row'[g].sha = Newest(g)' /\ chunks'[g] # 0 => chunks'[g] = row'[g].sha
    BY <1>1 DEF FileCalm, InOrder
  <2>3. \A w \in Workers : Indexes(w, g)' => ReadInOrder(w, g)' /\ status'[g] \notin {"INDEXED", "ABSENT"}
    BY <1>2 DEF FileCalm, InOrder, Aside
  <2> QED
    BY <2>1, <2>2, <2>3 DEF InOrder
<1>4. DeletionSeen(g)'
  BY DEF FileCalm, DeletionSeen, Aside
<1>5. ChangeSeen(g)'
  <2> SUFFICES ASSUME disk[g] # 0, OnDisk(g) \notin Big, ~Told(g, "CHANGE")', ~Awaited(jobs, g)'
               PROVE  /\ status'[g] = "INDEXED" => chunks'[g] \in {0, OnDisk(g)}
                      /\ \A w \in Workers : MayWrite(w, g)' =>
                          /\ pipe[w].step \in {"judge", "persist"} => pipe[w].text \in {0, OnDisk(g)}
                          /\ pipe[w].step = "bypass" \/ (pipe[w].step = "judge" /\ Bypassed(w)) =>
                                chunks'[g] \in {0, OnDisk(g)}
    BY <1>1 DEF ChangeSeen, Bypassed
  <2>1. CASE status'[g] # "INDEXED" /\ \A w \in Workers : ~MayWrite(w, g)'
    BY <2>1
  <2>2. CASE ~Told(g, "CHANGE") /\ ~Awaited(jobs, g)
    <3>1. /\ status[g] = "INDEXED" => chunks[g] \in {0, OnDisk(g)}
          /\ \A w \in Workers : MayWrite(w, g) =>
               /\ pipe[w].step \in {"judge", "persist"} => pipe[w].text \in {0, OnDisk(g)}
               /\ pipe[w].step = "bypass" \/ (pipe[w].step = "judge" /\ Bypassed(w)) =>
                     chunks[g] \in {0, OnDisk(g)}
      BY <2>2 DEF FileCalm, ChangeSeen
    <3> QED
      BY <3>1 DEF Aside
  <2> QED
    BY <2>1, <2>2
<1> QED
  BY <1>3, <1>4, <1>5 DEF FileCalm

LEMMA SurroundFrame ==
  ASSUME EngineInv, CalmInv, RowsStay, NEW f \in Files, Produce(f) \/ UNCHANGED vars, UNCHANGED pipe,
         disk'[f] \in {0, written'[f]},
         \A g \in Files : g # f =>
           /\ disk'[g] = disk[g] /\ written'[g] = written[g] /\ notice'[g] = notice[g]
           /\ flight'[g] = flight[g] /\ row'[g] = row[g] /\ chunks'[g] = chunks[g],
         (\A g \in Files : Aside(g)) => FileCalm(f)'
  PROVE  CalmInv'
<1>1. \A g \in Files : disk'[g] \in {0, written'[g]}
  BY DEF CalmInv, Steady
<1>2. /\ Steady' /\ \A w \in Workers : Yields(w)'
      /\ \A g \in Files : Aside(g)
      /\ \A g \in Files : g # f => status'[g] = status[g] /\ (Awaited(jobs, g) => Awaited(jobs', g))
  BY <1>1, ProduceAside
<1>3. UNCHANGED worker
  BY ProduceRows DEF vars, EngineInv, QueueInv
<1>4. ASSUME NEW g \in Files, g # f PROVE FileCalm(g)'
  <2>1. (Told(g, "DELETE")' <=> Told(g, "DELETE")) /\ (Told(g, "CHANGE")' <=> Told(g, "CHANGE"))
    BY <1>4 DEF Told
  <2>2. FileCalm(g)
    BY DEF CalmInv
  <2>3. Awaited(jobs, g) => Awaited(jobs, g)'
    BY <1>2, <1>4 DEF Awaited, RowsOf
  <2> QED
    BY <1>2, <1>3, <1>4, <2>1, <2>2, <2>3, FileAside
<1> QED
  BY <1>2, <1>4 DEF CalmInv

(* A new write is not of the past, and its event is on its way. *)
LEMMA WriteCalm ==
  ASSUME EngineInv, CalmInv, RowsStay, ContentsDiffer, NEW f \in Files, Write(f)
  PROVE  CalmInv'
<1> DEFINE n == written[f] + 1
<1>1. /\ disk' = [disk EXCEPT ![f] = n] /\ written' = [written EXCEPT ![f] = n]
      /\ n \in DOMAIN Content /\ UNCHANGED <<vars, indexvars, pipe, flight, scan>>
      /\ Notify(f, "CHANGE")
  BY DEF Write
<1>2. /\ disk \in [Files -> Writes] /\ written \in [Files -> Writes] /\ notice \in [Files -> Events]
  BY DEF EngineInv, EngineTypeOK, SourcesTypeOK
<1>3. written[f] \in Nat /\ n \in Nat /\ n # 0 /\ Content[n] # 0
  BY <1>1, <1>2, EngineAssumption DEF Writes
<1>4. disk'[f] = n /\ written'[f] = n /\ notice' = [notice EXCEPT ![f] = "CHANGE"]
  BY <1>1, <1>2 DEF Notify, CalmInv, Steady
<1>5. Told(f, "CHANGE")'
  BY <1>2, <1>4 DEF Told
<1>6. Past(f) \subseteq Past(f)' /\ Newest(f)' \notin Past(f)
  <2>1. \A m \in DOMAIN Content : m <= written[f] => m <= n /\ Content[m] # Content[n]
    BY <1>1, <1>3, EngineAssumption DEF ContentsDiffer
  <2>2. Newest(f)' = Content[n]
    BY <1>4 DEF Newest
  <2> QED
    BY <1>3, <1>4, <2>1, <2>2 DEF Past
<1>7. InOrder(f)'
  <2>1. InOrder(f)
    BY DEF CalmInv, FileCalm
  <2>2. UNCHANGED <<row, chunks, status, pipe, worker>>
    BY <1>1 DEF indexvars, vars
  <2>3. \A w \in Workers : Indexes(w, f)' => Indexes(w, f)
    BY <2>2 DEF Indexes, Busy, Cleans
  <2>4. \A w \in Workers : ReadInOrder(w, f) /\ row[f].sha \in Past(f) => ReadInOrder(w, f)'
    BY <1>6, <2>2 DEF ReadInOrder
  <2> QED
    BY <1>6, <2>1, <2>2, <2>3, <2>4 DEF InOrder
<1>8. FileCalm(f)'
  BY <1>3, <1>4, <1>5, <1>7 DEF FileCalm, DeletionSeen, ChangeSeen
<1>9. \A g \in Files : g # f =>
           /\ disk'[g] = disk[g] /\ written'[g] = written[g] /\ notice'[g] = notice[g]
           /\ flight'[g] = flight[g] /\ row'[g] = row[g] /\ chunks'[g] = chunks[g]
  BY <1>1, <1>2, <1>4 DEF indexvars
<1> QED
  BY <1>1, <1>4, <1>8, <1>9, SurroundFrame

LEMMA EraseCalm ==
  ASSUME EngineInv, CalmInv, RowsStay, NEW f \in Files, Erase(f)
  PROVE  CalmInv'
<1>1. /\ disk' = [disk EXCEPT ![f] = 0]
      /\ UNCHANGED <<vars, indexvars, pipe, written, flight, scan>>
      /\ Notify(f, "DELETE")
  BY DEF Erase
<1>2. /\ disk \in [Files -> Writes] /\ notice \in [Files -> Events]
  BY DEF EngineInv, EngineTypeOK, SourcesTypeOK
<1>3. disk'[f] = 0 /\ notice' = [notice EXCEPT ![f] = "DELETE"]
  BY <1>1, <1>2 DEF Notify, CalmInv, Steady
<1>4. Told(f, "DELETE")'
  BY <1>2, <1>3 DEF Told
<1>5. InOrder(f)'
  <2>1. InOrder(f)
    BY DEF CalmInv, FileCalm
  <2>2. UNCHANGED <<row, chunks, status, pipe, worker, written>>
    BY <1>1 DEF indexvars, vars
  <2>3. \A w \in Workers : (Indexes(w, f)' <=> Indexes(w, f)) /\ (ReadInOrder(w, f)' <=> ReadInOrder(w, f))
    BY <2>2 DEF Indexes, Busy, Cleans, ReadInOrder, Past, Newest
  <2>4. Past(f)' = Past(f) /\ Newest(f)' = Newest(f)
    BY <2>2 DEF Past, Newest
  <2> QED
    BY <2>1, <2>2, <2>3, <2>4 DEF InOrder
<1>6. FileCalm(f)'
  BY <1>3, <1>4, <1>5 DEF FileCalm, DeletionSeen, ChangeSeen
<1>7. \A g \in Files : g # f =>
           /\ disk'[g] = disk[g] /\ written'[g] = written[g] /\ notice'[g] = notice[g]
           /\ flight'[g] = flight[g] /\ row'[g] = row[g] /\ chunks'[g] = chunks[g]
  BY <1>1, <1>2, <1>3 DEF indexvars
<1> QED
  BY <1>1, <1>3, <1>6, <1>7, SurroundFrame

(* An event's slot is emptied; the others are as they were. *)
LEMMA SlotEmptied ==
  ASSUME EngineInv, NEW f \in Files, NEW k \in FlushSlots, Landed(f, k)
  PROVE  /\ \A g \in Files : g # f => flight'[g] = flight[g]
         /\ \A e \in {"CHANGE", "DELETE"} : Told(f, e) /\ flight[f][k] # e => Told(f, e)'
         /\ UNCHANGED <<pipe, disk, written, notice, scan>>
<1>1. flight \in [Files -> [FlushSlots -> Events]]
  BY DEF EngineInv, EngineTypeOK, SourcesTypeOK
<1>2. flight' = [flight EXCEPT ![f][k] = "none"] /\ UNCHANGED <<pipe, disk, written, notice, scan>>
  BY DEF Landed
<1>3. \A i \in FlushSlots : i # k => flight'[f][i] = flight[f][i]
  BY <1>1, <1>2
<1> QED
  BY <1>1, <1>2, <1>3 DEF Told

LEMMA FlushCalm ==
  ASSUME EngineInv, CalmInv, RowsStay, NEW f \in Files, NEW k \in FlushSlots, Flush(f, k)
  PROVE  CalmInv'
<1>1. /\ flight[f][k] = "none"
      /\ flight' = [flight EXCEPT ![f][k] = notice[f]] /\ notice' = [notice EXCEPT ![f] = "none"]
      /\ UNCHANGED <<vars, indexvars, pipe, disk, written, scan>>
  BY DEF Flush
<1>2. flight \in [Files -> [FlushSlots -> Events]] /\ notice \in [Files -> Events]
  BY DEF EngineInv, EngineTypeOK, SourcesTypeOK
<1>3. flight'[f][k] = notice[f] /\ \A i \in FlushSlots : i # k => flight'[f][i] = flight[f][i]
  BY <1>1, <1>2
<1>4. \A e \in {"CHANGE", "DELETE"} : Told(f, e) => Told(f, e)'
  BY <1>1, <1>2, <1>3 DEF Told
<1>5. \A g \in Files : g # f => flight'[g] = flight[g] /\ notice'[g] = notice[g]
  BY <1>1, <1>2
<1>6. UNCHANGED <<worker, pipe, disk, written, row, chunks, jobs>>
  BY <1>1 DEF vars, indexvars
<1>7. FileCalm(f) /\ disk[f] \in {0, written[f]}
  BY DEF CalmInv, Steady
<1>8. Awaited(jobs, f)' <=> Awaited(jobs, f)
  BY <1>6 DEF Awaited, RowsOf
<1>9. Aside(f) => FileCalm(f)'
  BY <1>4, <1>6, <1>7, <1>8, FileAside
<1> QED
  BY <1>1, <1>5, <1>6, <1>7, <1>9, SurroundFrame

LEMMA SeenFrame ==
  ASSUME IndexTypeOK, NEW f \in Files, NEW mtime, Seen(f, mtime)
  PROVE  row'[f].sha = row[f].sha /\ \A g \in Files : g # f => row'[g] = row[g]
BY DEF Seen, IndexTypeOK

(* A job waits for the file after its discovery. *)
LEMMA DiscoverAwaited ==
  ASSUME NEW f \in Files, NEW src \in Sources, NEW changed \in BOOLEAN, Discover(f, src, changed)
  PROVE  Produce(f) /\ Awaited(jobs', f)
<1>1. Enqueue(jobs, f, src[1], src[2]) /\ src[1] # "DELETE_CLEANUP"
  BY DEF Discover, Sources
<1>2. Awaited(jobs', f)
  BY <1>1, SameRows, EnqueueCarries
<1> QED
  BY <1>2 DEF Produce

(* After a deletion no thread may write the row. *)
LEMMA VanishedAside ==
  ASSUME EngineInv, Remembered, NEW f \in Files, VanishWatched(f) \/ VanishScanned(f)
  PROVE  Produce(f) /\ status'[f] # "INDEXED" /\ \A w \in Workers : ~MayWrite(w, f)'
<1>0. QueueInv /\ TypeOK /\ Produce(f)
  BY DEF EngineInv, QueueInv, Produce
<1>1. Ended(f) /\ Carries(jobs') /\ UNCHANGED worker
  BY <1>0, VanishRows, ProduceCarries, ProduceRows
<1>2. ASSUME NEW w \in Workers, MayWrite(w, f)' PROVE FALSE
  <2>1. MayWrite(w, f)
    BY <1>0, <1>1, <1>2, MayShrinks DEF Next
  <2> DEFINE j == worker[w].job
  <2>2. j \in DOMAIN jobs /\ j \in DOMAIN jobs' /\ jobs'[j].status # "CANCELLED"
    BY <1>1, <1>2, <2>1 DEF MayWrite, Writable
  <2>3. jobs[j].status = "PROCESSING" /\ jobs[j].file = f
    BY <1>0, <2>1, <2>2 DEF QueueInv, SingleOwner, MayWrite, Indexes, Writable, Remembered
  <2> QED
    BY <1>1, <2>2, <2>3 DEF Ended, LiveRowsOf, RowsOf, RowsIn, Live
<1> QED
  BY <1>0, <1>1, <1>2 DEF Ended

LEMMA ArrivalCalm ==
  ASSUME EngineInv, CalmInv, RowsStay, NEW f \in Files, Produce(f) \/ UNCHANGED vars,
         UNCHANGED <<pipe, disk, written, notice>>,
         row'[f].sha = row[f].sha, chunks'[f] \in {0, chunks[f]},
         \A g \in Files : g # f =>
           flight'[g] = flight[g] /\ row'[g] = row[g] /\ chunks'[g] = chunks[g],
         \/ status'[f] # "INDEXED" /\ \A w \in Workers : ~MayWrite(w, f)'
         \/ /\ Told(f, "DELETE") => Told(f, "DELETE")'
            /\ \/ disk[f] = 0 \/ OnDisk(f) \in Big \/ Awaited(jobs', f)
               \/ /\ Told(f, "CHANGE") => Told(f, "CHANGE")'
                  /\ Awaited(jobs, f) => Awaited(jobs', f)
  PROVE  CalmInv'
<1>1. UNCHANGED worker
  BY ProduceRows DEF vars, EngineInv, QueueInv
<1>2. FileCalm(f) /\ disk[f] \in {0, written[f]}
  BY DEF CalmInv, Steady
<1>3. Awaited(jobs, f)' <=> Awaited(jobs', f)
  BY DEF Awaited, RowsOf
<1>4. Aside(f) => FileCalm(f)'
  BY <1>1, <1>2, <1>3, FileAside
<1> QED
  BY <1>2, <1>4, SurroundFrame

LEMMA ApplyChangeCalm ==
  ASSUME EngineInv, CalmInv, RowsStay, NEW f \in Files, NEW k \in FlushSlots, ApplyChange(f, k)
  PROVE  CalmInv'
<1>1. /\ \A g \in Files : g # f => flight'[g] = flight[g]
      /\ Told(f, "DELETE") => Told(f, "DELETE")'
      /\ UNCHANGED <<pipe, disk, written, notice, scan>>
  BY SlotEmptied DEF ApplyChange
<1>2. UNCHANGED <<chunks, vectors>> /\ enabled[f] /\ IndexTypeOK
  BY DEF ApplyChange, CalmInv, Steady, EngineInv, EngineTypeOK
<1>3. CASE disk[f] = 0
  <2>1. UNCHANGED <<vars, row>>
    BY <1>3 DEF ApplyChange
  <2> QED
    BY <1>1, <1>2, <1>3, <2>1, ArrivalCalm
<1>4. CASE disk[f] # 0
  <2>1. /\ IF OnDisk(f) \in Big THEN Oversize(f)
           ELSE Discover(f, <<"HASH_VERIFICATION", 3>>, row[f].mtime # disk[f])
        /\ Seen(f, disk[f])
    BY <1>2, <1>4 DEF ApplyChange
  <2>2. row'[f].sha = row[f].sha /\ \A g \in Files : g # f => row'[g] = row[g]
    BY <1>2, <2>1, SeenFrame
  <2>3. Produce(f) /\ (OnDisk(f) \in Big \/ Awaited(jobs', f))
    <3>1. (row[f].mtime # disk[f]) \in BOOLEAN /\ <<"HASH_VERIFICATION", 3>> \in Sources
      BY DEF Sources
    <3>2. CASE OnDisk(f) \in Big
      BY <2>1, <3>2 DEF Produce
    <3>3. CASE OnDisk(f) \notin Big
      BY <2>1, <3>1, <3>3, DiscoverAwaited
    <3> QED
      BY <3>2, <3>3
  <2> QED
    BY <1>1, <1>2, <2>2, <2>3, ArrivalCalm
<1> QED
  BY <1>3, <1>4

LEMMA ApplyDeleteCalm ==
  ASSUME EngineInv, Remembered, CalmInv, RowsStay, NEW f \in Files, NEW k \in FlushSlots,
         ApplyDelete(f, k)
  PROVE  CalmInv'
<1>1. /\ \A g \in Files : g # f => flight'[g] = flight[g]
      /\ UNCHANGED <<pipe, disk, written, notice, scan>>
  BY SlotEmptied DEF ApplyDelete
<1>2. UNCHANGED <<row, chunks>> /\ enabled[f]
  BY DEF ApplyDelete, CalmInv, Steady, indexvars
<1>3. CASE status[f] # "ABSENT"
  <2>1. VanishWatched(f)
    BY <1>2, <1>3 DEF ApplyDelete
  <2>2. Produce(f) /\ status'[f] # "INDEXED" /\ \A w \in Workers : ~MayWrite(w, f)'
    BY <2>1, VanishedAside
  <2> QED
    BY <1>1, <1>2, <2>2, ArrivalCalm
<1>4. CASE status[f] = "ABSENT"
  <2>1. UNCHANGED vars
    BY <1>4 DEF ApplyDelete
  <2>2. status'[f] # "INDEXED"
    BY <1>4, <2>1 DEF vars
  <2>3. ASSUME NEW w \in Workers PROVE ~MayWrite(w, f)'
    BY <1>4, <2>1 DEF MayWrite, Indexes, Busy, Cleans, vars, CalmInv, FileCalm, InOrder
  <2> QED
    BY <1>1, <1>2, <2>1, <2>2, <2>3, ArrivalCalm
<1> QED
  BY <1>3, <1>4

LEMMA ScanCalm ==
  ASSUME EngineInv, Remembered, CalmInv, RowsStay, NEW f \in Files,
         ScanList(f) \/ ScanLook(f) \/ ScanApply(f)
  PROVE  CalmInv'
<1>1. UNCHANGED <<pipe, disk, written, notice, flight>> /\ IndexTypeOK
  BY DEF ScanList, ScanLook, ScanApply, EngineInv, EngineTypeOK
<1>2. \A e \in {"CHANGE", "DELETE"} : Told(f, e) => Told(f, e)'
  BY <1>1 DEF Told
<1>3. CASE UNCHANGED <<vars, indexvars>>
  <2>1. UNCHANGED <<row, chunks, jobs>>
    BY <1>3 DEF indexvars, vars
  <2> QED
    BY <1>1, <1>2, <1>3, <2>1, ArrivalCalm
<1>4. ASSUME NEW src \in Sources, ScanDiscover(f, src) PROVE CalmInv'
  <2>1. (row[f].mtime # scan[f].mtime) \in BOOLEAN
    OBVIOUS
  <2>2. Produce(f) /\ Awaited(jobs', f)
    BY <1>4, <2>1, DiscoverAwaited DEF ScanDiscover
  <2>3. row'[f].sha = row[f].sha /\ (\A g \in Files : g # f => row'[g] = row[g]) /\ UNCHANGED chunks
    BY <1>1, <1>4, SeenFrame DEF ScanDiscover
  <2> QED
    BY <1>1, <1>2, <2>2, <2>3, ArrivalCalm
<1>5. CASE ScanOversize(f) /\ (UNCHANGED <<chunks, vectors>> \/ Purged(f))
  <2>1. Produce(f) /\ UNCHANGED jobs
    BY <1>5 DEF ScanOversize, Oversize, Produce
  <2>2. row'[f].sha = row[f].sha /\ (\A g \in Files : g # f => row'[g] = row[g])
    BY <1>1, <1>5, SeenFrame DEF ScanOversize
  <2>3. chunks'[f] \in {0, chunks[f]} /\ \A g \in Files : g # f => chunks'[g] = chunks[g]
    BY <1>1, <1>5 DEF Purged, IndexTypeOK
  <2> QED
    BY <1>1, <1>2, <2>1, <2>2, <2>3, ArrivalCalm
<1>6. CASE ScanError(f) /\ UNCHANGED indexvars
  <2>1. Produce(f) /\ UNCHANGED <<jobs, row, chunks>>
    BY <1>6 DEF ScanError, Produce, indexvars
  <2> QED
    BY <1>1, <1>2, <2>1, ArrivalCalm
<1>7. CASE VanishScanned(f) /\ UNCHANGED indexvars
  <2>1. Produce(f) /\ status'[f] # "INDEXED" /\ \A w \in Workers : ~MayWrite(w, f)'
    BY <1>7, VanishedAside
  <2> QED
    BY <1>1, <1>7, <2>1, ArrivalCalm DEF indexvars
<1>8. ASSUME ScanApply(f)
      PROVE  \/ UNCHANGED <<vars, indexvars>>
             \/ \E src \in Sources : ScanDiscover(f, src)
             \/ ScanOversize(f) /\ (UNCHANGED <<chunks, vectors>> \/ Purged(f))
             \/ (ScanError(f) \/ VanishScanned(f)) /\ UNCHANGED indexvars
  BY <1>8 DEF ScanApply, Sources
<1>9. ScanList(f) \/ ScanLook(f) => UNCHANGED <<vars, indexvars>>
  BY DEF ScanList, ScanLook
<1> QED
  BY <1>3, <1>4, <1>5, <1>6, <1>7, <1>8, <1>9

LEMMA CalmSurroundStep ==
  ASSUME EngineInv, Remembered, CalmInv, RowsStay, ContentsDiffer, NEW f \in Files, CalmSurround(f)
  PROVE  CalmInv'
BY WriteCalm, EraseCalm, FlushCalm, ApplyChangeCalm, ApplyDeleteCalm, ScanCalm DEF CalmSurround, Watch

LEMMA RetryDueCalm ==
  ASSUME EngineInv, CalmInv, NEW i \in JobIds, RetryDue(i)
  PROVE  CalmInv'
<1>0. QueueInv /\ TypeOK /\ Steady /\ (\A w \in Workers : Yields(w)) /\ [Next]_vars
  BY DEF EngineInv, QueueInv, CalmInv, RetryDue, Next
<1>1. /\ i \in DOMAIN jobs /\ jobs' = [jobs EXCEPT ![i].backoff = FALSE]
      /\ UNCHANGED <<status, enabled, worker, up, indexvars, sourcevars, pipe>>
  BY DEF RetryDue, BackoffOver, RowsIn
<1>2. jobs[i] \in Row
  BY <1>0, <1>1, RowType DEF TypeOK
<1>3. /\ DOMAIN jobs' = DOMAIN jobs
      /\ \A j \in DOMAIN jobs :
           /\ jobs'[j].file = jobs[j].file /\ jobs'[j].status = jobs[j].status
           /\ jobs'[j].created = jobs[j].created /\ jobs'[j].started = jobs[j].started
  BY <1>1, <1>2 DEF Row
<1>4. Carries(jobs') /\ \A f : Waits(jobs', f)
  BY <1>0, BackoffCarries DEF RetryDue
<1>5. Steady'
  <2>1. \A w \in Workers : Busy(w)' <=> Busy(w)
    BY <1>1 DEF Busy
  <2> QED
    BY <1>0, <1>1, <1>3, <2>1 DEF Steady, sourcevars
<1>6. ASSUME NEW w \in Workers PROVE Yields(w)'
  <2>1. CASE pipe[w].step = "yield"
    <3>1. Busy(w)
      BY <1>0, <2>1 DEF Steady
    <3>2. worker[w].job \in Held /\ ~IsCurrent(jobs, worker[w].job)
      BY <1>0, <2>1, <3>1, BusyHolds DEF Yields
    <3>3. ~IsCurrent(jobs', worker'[w].job)
      BY <1>1, <1>3, <1>4, <3>2, StaysSuperseded
    <3> QED
      BY <1>0, <1>1, <3>3 DEF Yields
  <2>2. CASE pipe[w].step # "yield"
    BY <1>0, <1>1, <2>2 DEF Yields
  <2> QED
    BY <2>1, <2>2
<1>7. ASSUME NEW g \in Files PROVE FileCalm(g)'
  <2>1. Aside(g)
    <3>1. \A w \in Workers : MayWrite(w, g)' => MayWrite(w, g)
      BY <1>0, <1>1, <1>4, MayShrinks
    <3> QED
      BY <1>1, <3>1 DEF Aside, Indexes, Busy, Cleans
  <2>2. \A e \in {"CHANGE", "DELETE"} : Told(g, e)' <=> Told(g, e)
    BY <1>1 DEF Told, sourcevars
  <2>3. Awaited(jobs, g) => Awaited(jobs, g)'
    BY <1>4, WaitsAwaited DEF Awaited, RowsOf
  <2>4. FileCalm(g) /\ UNCHANGED <<worker, pipe, disk, written, row, chunks>>
    BY <1>1 DEF CalmInv, indexvars, sourcevars
  <2> QED
    BY <2>1, <2>2, <2>3, <2>4, FileAside
<1> QED
  BY <1>5, <1>6, <1>7 DEF CalmInv

-----------------------------------------------------------------------------
(* The thread between its transactions *)

(* It knows r now, and its file, its job and the index are as they were. *)
LEMMA ReadingCalm ==
  ASSUME EngineInv, CalmInv, NEW w, Workers = {w}, NEW f \in Files, Indexes(w, f),
         NEW r \in Progress, pipe' = [pipe EXCEPT ![w] = r],
         UNCHANGED <<vars, indexvars, sourcevars>>,
         ~r.gone, r.step # "off", worker[w].stage # "completing",
         r.step = "yield" => ~IsCurrent(jobs, worker[w].job),
         ReadInOrder(w, f)',
         disk[f] = 0 /\ pipe[w].step \in {"stat", "fail"} => r.step \in {"stat", "fail"},
         disk[f] # 0 /\ MayWrite(w, f) =>
           \/ OnDisk(f) \in Big \/ Told(f, "CHANGE") \/ Awaited(jobs, f)
           \/ /\ r.step \in {"judge", "persist"} => r.text \in {0, OnDisk(f)}
              /\ r.step = "bypass" \/ (r.step = "judge" /\ Bypassed(w)') => chunks[f] \in {0, OnDisk(f)}
  PROVE  CalmInv'
<1>1. /\ UNCHANGED <<jobs, status, enabled, worker, up, row, chunks, disk, written, notice, flight>>
      /\ pipe \in [Workers -> Progress]
  BY DEF vars, indexvars, sourcevars, EngineInv, EngineTypeOK
<1>2. pipe'[w] = r
  BY <1>1
<1>3. Steady'
  BY <1>1, <1>2 DEF CalmInv, Steady, Busy, Indexes
<1>4. Yields(w)'
  BY <1>1, <1>2 DEF Yields
<1>5. ASSUME NEW g \in Files PROVE FileCalm(g)'
  <2>0. FileCalm(g)
    BY DEF CalmInv
  <2>1. /\ OnDisk(g)' = OnDisk(g) /\ Past(g)' = Past(g) /\ Newest(g)' = Newest(g)
        /\ \A e \in {"CHANGE", "DELETE"} : Told(g, e)' <=> Told(g, e)
        /\ Awaited(jobs, g)' <=> Awaited(jobs, g)
        /\ Indexes(w, g)' <=> Indexes(w, g)
        /\ MayWrite(w, g)' <=> MayWrite(w, g)
        /\ MayWrite(w, g) => Indexes(w, g)
    BY <1>1 DEF OnDisk, Past, Newest, Told, Awaited, RowsOf, Indexes, MayWrite, Busy, Cleans, Writable
  <2>2. InOrder(g)'
    <3>1. Indexes(w, g) => g = f
      BY DEF Indexes
    <3> QED
      BY <1>1, <2>0, <2>1, <3>1 DEF FileCalm, InOrder
  <2>3. MayWrite(w, g) => g = f
    BY DEF Indexes, MayWrite
  <2>4. DeletionSeen(g)'
    BY <1>1, <1>2, <2>0, <2>1, <2>3 DEF FileCalm, DeletionSeen
  <2>5. ChangeSeen(g)'
    <3> SUFFICES ASSUME disk[g] # 0, OnDisk(g) \notin Big, ~Told(g, "CHANGE"), ~Awaited(jobs, g)
                 PROVE  /\ status[g] = "INDEXED" => chunks[g] \in {0, OnDisk(g)}
                        /\ MayWrite(w, g) =>
                            /\ r.step \in {"judge", "persist"} => r.text \in {0, OnDisk(g)}
                            /\ r.step = "bypass" \/ (r.step = "judge" /\ Bypassed(w)') =>
                                  chunks[g] \in {0, OnDisk(g)}
      BY <1>1, <1>2, <2>1 DEF ChangeSeen
    <3>1. status[g] = "INDEXED" => chunks[g] \in {0, OnDisk(g)}
      BY <2>0 DEF FileCalm, ChangeSeen
    <3> QED
      BY <2>3, <3>1
  <2> QED
    BY <2>2, <2>4, <2>5 DEF FileCalm
<1> QED
  BY <1>3, <1>4, <1>5 DEF CalmInv

(* What holds of a thread that indexes a file. *)
LEMMA AtWork ==
  ASSUME EngineInv, CalmInv, NEW w \in Workers, pipe[w].step \notin {"off", "clean", "fail"}
  PROVE  /\ File(w) \in Files /\ Indexes(w, File(w))
         /\ ~pipe[w].gone /\ pipe[w] \in Progress
         /\ FileCalm(File(w)) /\ ReadInOrder(w, File(w))
         /\ status[File(w)] \notin {"INDEXED", "ABSENT"}
<1> DEFINE f == File(w)
<1>1. f \in Files /\ ~Cleans(w) /\ pipe[w] \in Progress
  BY DEF EngineInv, EngineTypeOK, PipeMatchesJob, File
<1>2. Busy(w) /\ ~pipe[w].gone
  BY DEF CalmInv, Steady
<1>3. Indexes(w, f)
  BY <1>1, <1>2 DEF Indexes, File
<1> QED
  BY <1>1, <1>2, <1>3 DEF CalmInv, FileCalm, InOrder

LEMMA AtStep ==
  ASSUME EngineInv, CalmInv, NEW w \in Workers, pipe[w].step \in {"stat", "check", "hash", "parse", "judge"}
  PROVE  /\ File(w) \in Files /\ Indexes(w, File(w)) /\ worker[w].stage # "completing"
         /\ ~pipe[w].gone /\ pipe[w] \in Progress
         /\ FileCalm(File(w)) /\ ReadInOrder(w, File(w))
         /\ disk[File(w)] # 0 => /\ OnDisk(File(w)) = Newest(File(w))
                                 /\ OnDisk(File(w)) \in Past(File(w)) \ {0}
<1> DEFINE f == File(w)
<1>1. /\ f \in Files /\ Indexes(w, f) /\ ~pipe[w].gone /\ pipe[w] \in Progress
      /\ FileCalm(f) /\ ReadInOrder(w, f)
  BY AtWork
<1>2. worker[w].stage # "completing"
  BY DEF CalmInv, Yields
<1>3. ASSUME disk[f] # 0 PROVE OnDisk(f) = Newest(f) /\ OnDisk(f) \in Past(f) \ {0}
  <2>1. disk[f] = written[f] /\ disk[f] \in DOMAIN Content /\ disk[f] \in Nat
    BY <1>1, <1>3, EngineAssumption
       DEF CalmInv, Steady, EngineInv, EngineTypeOK, SourcesTypeOK, Writes
  <2>2. disk[f] \in {m \in DOMAIN Content : m <= written[f]} /\ Content[disk[f]] # 0
    BY <2>1, EngineAssumption
  <2> QED
    BY <2>1, <2>2 DEF OnDisk, Newest, Past
<1> QED
  BY <1>1, <1>2, <1>3

(* A thread past the first look at the disk does not write the row of a file that is gone, once
   the deletion has arrived. *)
LEMMA StatCalm ==
  ASSUME EngineInv, CalmInv, NEW w, Workers = {w}, NEW f \in Files, File(w) = f, Stat(w)
  PROVE  CalmInv'
<1> DEFINE r == [pipe[w] EXCEPT !.step = IF disk[f] = 0 THEN "fail" ELSE "check"]
<1>1. /\ pipe[w].step = "stat" /\ UNCHANGED <<vars, indexvars, sourcevars>>
      /\ pipe' = [pipe EXCEPT ![w] = r]
  BY DEF Stat, Go
<1>2. /\ f \in Files /\ Indexes(w, f) /\ worker[w].stage # "completing"
      /\ ~pipe[w].gone /\ pipe[w] \in Progress /\ ReadInOrder(w, f)
  BY <1>1, AtStep
<1>3. /\ r \in Progress /\ ~r.gone /\ r.hash = pipe[w].hash /\ r.text = pipe[w].text
      /\ r.known = pipe[w].known /\ r.step = IF disk[f] = 0 THEN "fail" ELSE "check"
  BY <1>2 DEF Progress, Steps
<1>4. pipe'[w] = r /\ UNCHANGED <<row, written>>
  BY <1>1 DEF EngineInv, EngineTypeOK, indexvars, sourcevars
<1> HIDE DEF r
<1>5. ReadInOrder(w, f)'
  BY <1>1, <1>2, <1>3, <1>4 DEF ReadInOrder, Past, Newest
<1> QED
  BY <1>1, <1>2, <1>3, <1>5, ReadingCalm

LEMMA VerdictMeans ==
  ASSUME NEW w, NEW go, Verdict(w, go) = "yield", go # "yield"
  PROVE  ~IsCurrent(jobs, worker[w].job)
BY DEF Verdict

LEMMA CheckCalm ==
  ASSUME EngineInv, CalmInv, NEW w, Workers = {w}, NEW f \in Files, File(w) = f, Check(w)
  PROVE  CalmInv'
<1> DEFINE step == Verdict(w, "hash")
           known == IF step = "hash" /\ chunks[f] # 0 THEN row[f].sha ELSE 0
           r == [pipe[w] EXCEPT !.step = step, !.known = known]
<1>1. /\ pipe[w].step = "check" /\ UNCHANGED <<vars, indexvars, sourcevars>>
      /\ pipe' = [pipe EXCEPT ![w] = r]
  BY DEF Check
<1>2. /\ f \in Files /\ Indexes(w, f) /\ worker[w].stage # "completing"
      /\ ~pipe[w].gone /\ pipe[w] \in Progress /\ ReadInOrder(w, f)
  BY <1>1, AtStep
<1>3. step \in {"hash", "fail", "yield"} /\ (step = "yield" => ~IsCurrent(jobs, worker[w].job))
  BY DEF Verdict
<1>4. known \in {0, row[f].sha} /\ known \in Texts
  BY <1>2 DEF EngineInv, EngineTypeOK, IndexTypeOK, Texts
<1> HIDE DEF step, known
<1>5. /\ r \in Progress /\ ~r.gone /\ r.hash = pipe[w].hash /\ r.text = pipe[w].text
      /\ r.known = known /\ r.step = step
  BY <1>2, <1>3, <1>4 DEF Progress, Steps
<1>6. pipe'[w] = r /\ UNCHANGED <<row, written>>
  BY <1>1 DEF EngineInv, EngineTypeOK, indexvars, sourcevars
<1> HIDE DEF r
<1>7. ReadInOrder(w, f)'
  BY <1>1, <1>2, <1>3, <1>4, <1>5, <1>6 DEF ReadInOrder, Past, Newest
<1> QED
  BY <1>1, <1>2, <1>3, <1>5, <1>7, ReadingCalm

LEMMA HashCalm ==
  ASSUME EngineInv, CalmInv, NEW w, Workers = {w}, NEW f \in Files, File(w) = f, Hash(w)
  PROVE  CalmInv'
<1> DEFINE c == OnDisk(f)
<1>1. /\ pipe[w].step = "hash" /\ UNCHANGED <<vars, indexvars, sourcevars>>
      /\ UNCHANGED <<row, written>> /\ pipe \in [Workers -> Progress]
  BY DEF Hash, indexvars, sourcevars, EngineInv, EngineTypeOK
<1>2. /\ f \in Files /\ Indexes(w, f) /\ worker[w].stage # "completing"
      /\ ~pipe[w].gone /\ pipe[w] \in Progress /\ ReadInOrder(w, f) /\ FileCalm(f)
      /\ disk[f] # 0 => c = Newest(f) /\ c \in Past(f) \ {0} /\ c \in Texts
  BY <1>1, AtStep, OnDiskType DEF Texts, EngineInv, EngineTypeOK
<1>3. /\ Past(f)' = Past(f) /\ Newest(f)' = Newest(f)
      /\ pipe[w].hash = 0 /\ pipe[w].text = 0 /\ (pipe[w].known # 0 => pipe[w].known = row[f].sha)
  BY <1>1, <1>2 DEF ReadInOrder, Past, Newest
<1>4. CASE Go(w, "retry")
  <2> DEFINE r == [pipe[w] EXCEPT !.step = "retry"]
  <2>1. pipe' = [pipe EXCEPT ![w] = r]
    BY <1>4 DEF Go
  <2>2. /\ r \in Progress /\ ~r.gone /\ r.hash = 0 /\ r.text = 0
        /\ r.known = pipe[w].known /\ r.step = "retry"
    BY <1>2, <1>3 DEF Progress, Steps
  <2>3. pipe'[w] = r
    BY <1>1, <2>1
  <2> HIDE DEF r
  <2>4. ReadInOrder(w, f)'
    BY <1>1, <1>2, <1>3, <2>2, <2>3 DEF ReadInOrder
  <2> QED
    BY <1>1, <1>2, <2>1, <2>2, <2>4, ReadingCalm
<1>5. CASE ~Go(w, "retry")
  <2> DEFINE step == IF c \in Big \cup Unsupported \/ c = pipe[w].known THEN "judge" ELSE "parse"
             hash == IF c \in Big THEN 0 ELSE c
             r == [pipe[w] EXCEPT !.step = step, !.hash = hash]
  <2>1. disk[f] # 0 /\ pipe' = [pipe EXCEPT ![w] = r]
    BY <1>5 DEF Hash
  <2>2. /\ hash \in {0, c} /\ step \in {"judge", "parse"}
        /\ step = "parse" => hash = c /\ hash # pipe[w].known
    OBVIOUS
  <2> HIDE DEF step, hash
  <2>3. /\ r \in Progress /\ ~r.gone /\ r.hash = hash /\ r.text = 0
        /\ r.known = pipe[w].known /\ r.step = step
    BY <1>2, <1>3, <2>1, <2>2 DEF Progress, Steps, Texts
  <2>4. pipe'[w] = r
    BY <1>1, <2>1
  <2> HIDE DEF r
  <2>5. 0 \in Past(f)
    BY DEF Past
  <2>6. ReadInOrder(w, f)'
    BY <1>1, <1>2, <1>3, <2>1, <2>2, <2>3, <2>4, <2>5 DEF ReadInOrder
  <2>7. Bypassed(w)' => chunks[f] \in {0, c}
    <3> SUFFICES ASSUME Bypassed(w)' PROVE chunks[f] \in {0, c}
      OBVIOUS
    <3>1. hash = pipe[w].known /\ hash # 0
      BY <2>3, <2>4 DEF Bypassed
    <3>2. row[f].sha = Newest(f) /\ row[f].sha # 0 /\ c = Newest(f)
      BY <1>2, <1>3, <2>1, <2>2, <3>1
    <3> QED
      BY <1>2, <3>2 DEF FileCalm, InOrder
  <2> QED
    BY <1>1, <1>2, <2>1, <2>2, <2>3, <2>6, <2>7, ReadingCalm
<1> QED
  BY <1>4, <1>5

LEMMA ParseCalm ==
  ASSUME EngineInv, CalmInv, NEW w, Workers = {w}, NEW f \in Files, File(w) = f, Parse(w)
  PROVE  CalmInv'
<1>1. /\ pipe[w].step = "parse" /\ UNCHANGED <<vars, indexvars, sourcevars>>
      /\ UNCHANGED <<row, written>> /\ pipe \in [Workers -> Progress]
  BY DEF Parse, indexvars, sourcevars, EngineInv, EngineTypeOK
<1>2. /\ f \in Files /\ Indexes(w, f) /\ worker[w].stage # "completing"
      /\ ~pipe[w].gone /\ pipe[w] \in Progress /\ ReadInOrder(w, f)
      /\ disk[f] # 0 => OnDisk(f) = Newest(f) /\ OnDisk(f) \in Past(f) \ {0} /\ OnDisk(f) \in Texts
  BY <1>1, AtStep, OnDiskType DEF Texts, EngineInv, EngineTypeOK
<1>3. /\ Past(f)' = Past(f) /\ Newest(f)' = Newest(f) /\ 0 \in Past(f)
      /\ pipe[w].text = 0 /\ pipe[w].hash # pipe[w].known
  BY <1>1, <1>2 DEF ReadInOrder, Past, Newest
<1>4. CASE Go(w, "fail")
  <2> DEFINE r == [pipe[w] EXCEPT !.step = "fail"]
  <2>1. pipe' = [pipe EXCEPT ![w] = r]
    BY <1>4 DEF Go
  <2>2. /\ r \in Progress /\ ~r.gone /\ r.hash = pipe[w].hash /\ r.text = 0
        /\ r.known = pipe[w].known /\ r.step = "fail"
    BY <1>2, <1>3 DEF Progress, Steps
  <2>3. pipe'[w] = r
    BY <1>1, <2>1
  <2> HIDE DEF r
  <2>4. ReadInOrder(w, f)'
    BY <1>1, <1>2, <1>3, <2>2, <2>3 DEF ReadInOrder
  <2> QED
    BY <1>1, <1>2, <2>1, <2>2, <2>4, ReadingCalm
<1>5. CASE ~Go(w, "fail")
  <2>1. /\ disk[f] # 0
        /\ \E vec \in BOOLEAN :
            pipe' = [pipe EXCEPT
              ![w].step = "judge",
              ![w].text = IF OnDisk(f) \in Opaque THEN 0 ELSE OnDisk(f),
              ![w].vec  = vec]
    BY <1>5 DEF Parse
  <2>2. PICK vec \in BOOLEAN :
            pipe' = [pipe EXCEPT
              ![w].step = "judge",
              ![w].text = IF OnDisk(f) \in Opaque THEN 0 ELSE OnDisk(f),
              ![w].vec  = vec]
    BY <2>1
  <2> DEFINE text == IF OnDisk(f) \in Opaque THEN 0 ELSE OnDisk(f)
             r == [pipe[w] EXCEPT !.step = "judge", !.text = text, !.vec = vec]
  <2>3. pipe' = [pipe EXCEPT ![w] = r]
    BY <2>2
  <2>4. text \in {0, OnDisk(f)} /\ text \in Texts
    BY <1>2, <2>1 DEF Texts
  <2> HIDE DEF text
  <2>5. /\ r \in Progress /\ ~r.gone /\ r.hash = pipe[w].hash /\ r.text = text
        /\ r.known = pipe[w].known /\ r.step = "judge"
    BY <1>2, <2>4 DEF Progress, Steps
  <2>6. pipe'[w] = r
    BY <1>1, <2>3
  <2> HIDE DEF r
  <2>7. ReadInOrder(w, f)'
    BY <1>1, <1>2, <1>3, <2>1, <2>4, <2>5, <2>6 DEF ReadInOrder
  <2>8. ~Bypassed(w)'
    BY <1>3, <2>5, <2>6 DEF Bypassed
  <2> QED
    BY <1>1, <1>2, <2>1, <2>3, <2>4, <2>5, <2>7, <2>8, ReadingCalm
<1> QED
  BY <1>4, <1>5

LEMMA JudgeCalm ==
  ASSUME EngineInv, CalmInv, NEW w, Workers = {w}, NEW f \in Files, File(w) = f, Judge(w)
  PROVE  CalmInv'
<1> DEFINE go == IF Bypassed(w) THEN "bypass" ELSE "persist"
           step == Verdict(w, go)
           r == [pipe[w] EXCEPT !.step = step]
<1>1. /\ pipe[w].step = "judge" /\ UNCHANGED <<vars, indexvars, sourcevars>>
      /\ pipe' = [pipe EXCEPT ![w] = r]
  BY DEF Judge, Go
<1>2. /\ f \in Files /\ Indexes(w, f) /\ worker[w].stage # "completing"
      /\ ~pipe[w].gone /\ pipe[w] \in Progress /\ ReadInOrder(w, f) /\ FileCalm(f)
  BY <1>1, AtStep
<1>3. /\ step \in {"bypass", "persist", "fail", "yield"}
      /\ step = "yield" => ~IsCurrent(jobs, worker[w].job)
      /\ step = "bypass" => Bypassed(w)
  BY DEF Verdict
<1> HIDE DEF step
<1>4. /\ r \in Progress /\ ~r.gone /\ r.hash = pipe[w].hash /\ r.text = pipe[w].text
      /\ r.known = pipe[w].known /\ r.step = step
  BY <1>2, <1>3 DEF Progress, Steps
<1>5. pipe'[w] = r /\ UNCHANGED <<row, written>>
  BY <1>1 DEF EngineInv, EngineTypeOK, indexvars, sourcevars
<1> HIDE DEF r
<1>6. step = "bypass" => pipe[w].hash = row[f].sha
  BY <1>2, <1>3 DEF Bypassed, ReadInOrder
<1>7. ReadInOrder(w, f)'
  BY <1>1, <1>2, <1>3, <1>4, <1>5, <1>6 DEF ReadInOrder, Past, Newest
<1>8. disk[f] # 0 /\ MayWrite(w, f) =>
        \/ OnDisk(f) \in Big \/ Told(f, "CHANGE") \/ Awaited(jobs, f)
        \/ /\ step = "persist" => pipe[w].text \in {0, OnDisk(f)}
           /\ step = "bypass" => chunks[f] \in {0, OnDisk(f)}
  BY <1>1, <1>2, <1>3 DEF FileCalm, ChangeSeen
<1> QED
  BY <1>1, <1>2, <1>3, <1>4, <1>7, <1>8, ReadingCalm

(* It takes a time stamp, or reads whether its job is current, or meets an exception. *)
LEMMA ThreadCalm ==
  ASSUME EngineInv, CalmInv, NEW w, Workers = {w},
         UNCHANGED <<jobs, status, enabled, up, indexvars, sourcevars>>,
         worker'[w].job = worker[w].job, worker'[w].file = worker[w].file,
         worker'[w].type = worker[w].type, Busy(w)' <=> Busy(w),
         \/ pipe'[w] = pipe[w]
         \/ Busy(w) /\ pipe'[w] = [pipe[w] EXCEPT !.step = "fail"],
         Yields(w)'
  PROVE  CalmInv'
<1>1. UNCHANGED <<row, chunks, disk, written, notice, flight>> /\ pipe[w] \in Progress
  BY DEF indexvars, sourcevars, EngineInv, EngineTypeOK
<1>2. /\ pipe'[w].known = pipe[w].known /\ pipe'[w].hash = pipe[w].hash
      /\ pipe'[w].text = pipe[w].text /\ pipe'[w].gone = pipe[w].gone
      /\ pipe'[w].step = pipe[w].step \/ (pipe'[w].step = "fail" /\ Busy(w))
      /\ pipe'[w] = pipe[w] \/ Busy(w)
  BY <1>1 DEF Progress
<1>3. Steady'
  BY <1>1, <1>2 DEF CalmInv, Steady
<1>4. ASSUME NEW g \in Files PROVE FileCalm(g)'
  <2>0. FileCalm(g)
    BY DEF CalmInv
  <2>1. /\ OnDisk(g)' = OnDisk(g) /\ Past(g)' = Past(g) /\ Newest(g)' = Newest(g)
        /\ \A e \in {"CHANGE", "DELETE"} : Told(g, e)' <=> Told(g, e)
        /\ Awaited(jobs, g)' <=> Awaited(jobs, g)
        /\ Indexes(w, g)' <=> Indexes(w, g)
        /\ MayWrite(w, g)' <=> MayWrite(w, g)
        /\ Bypassed(w)' <=> Bypassed(w)
    BY <1>1, <1>2
       DEF OnDisk, Past, Newest, Told, Awaited, RowsOf, Indexes, MayWrite, Cleans, Writable, Bypassed
  <2>2. ReadInOrder(w, g) => ReadInOrder(w, g)'
    BY <1>1, <1>2, <2>1 DEF ReadInOrder
  <2>3. InOrder(g)'
    BY <1>1, <2>0, <2>1, <2>2 DEF FileCalm, InOrder
  <2>4. DeletionSeen(g)'
    BY <1>1, <1>2, <2>0, <2>1 DEF FileCalm, DeletionSeen
  <2>5. ChangeSeen(g)'
    BY <1>1, <1>2, <2>0, <2>1 DEF FileCalm, ChangeSeen
  <2> QED
    BY <2>3, <2>4, <2>5 DEF FileCalm
<1> QED
  BY <1>3, <1>4 DEF CalmInv

LEMMA SeekingCalm ==
  ASSUME EngineInv, CalmInv, NEW w, Workers = {w}, Seeking(w)
  PROVE  CalmInv'
<1>1. /\ UNCHANGED <<jobs, status, enabled, up, indexvars, sourcevars, pipe>>
      /\ worker[w].stage = "idle" /\ \E t : worker' = [worker EXCEPT ![w].now = t]
  BY DEF Seeking, Poll, PollEmpty
<1>2. worker \in [Workers -> Thread]
  BY DEF EngineInv, QueueInv, TypeOK
<1>3. /\ worker'[w].job = worker[w].job /\ worker'[w].file = worker[w].file
      /\ worker'[w].type = worker[w].type /\ worker'[w].stage = worker[w].stage
  BY <1>1, <1>2 DEF Thread
<1>4. Yields(w)' /\ (Busy(w)' <=> Busy(w))
  BY <1>1, <1>3 DEF Busy, CalmInv, Steady, Yields
<1> QED
  BY <1>1, <1>3, <1>4, ThreadCalm

LEMMA LookCalm ==
  ASSUME EngineInv, CalmInv, NEW w, Workers = {w}, Look(w)
  PROVE  CalmInv'
<1>0. worker \in [Workers -> Thread] /\ TypeOK
  BY DEF EngineInv, QueueInv, TypeOK
<1>1. UNCHANGED <<indexvars, sourcevars, pipe>>
  BY DEF Look
<1>2. PICK stage \in {"completing", "failing"} :
        /\ ReadCurrency(w, stage) /\ worker[w].stage # "idle"
        /\ pipe[w].step \in IF stage = "completing" THEN {"bypass", "yield"} ELSE {"fail", "retry"}
  BY DEF Look, ReadToComplete, ReadToFail
<1> DEFINE cur == IsCurrent(jobs, worker[w].job)
<1>3. /\ worker' = [worker EXCEPT ![w].stage = stage, ![w].cur = cur]
      /\ UNCHANGED <<jobs, status, enabled, up>>
  BY <1>2 DEF ReadCurrency
<1>4. pipe[w].step = "yield" => ~cur
  BY DEF CalmInv, Yields
<1>5. IsCurrent(jobs', worker'[w].job) <=> cur
  BY <1>0, <1>3 DEF Thread
<1> HIDE DEF cur
<1>6. /\ worker'[w].job = worker[w].job /\ worker'[w].file = worker[w].file
      /\ worker'[w].type = worker[w].type /\ worker'[w].stage = stage /\ worker'[w].cur = cur
  BY <1>0, <1>3 DEF Thread
<1>7. Yields(w)' /\ (Busy(w)' <=> Busy(w))
  BY <1>1, <1>2, <1>4, <1>5, <1>6 DEF Busy, Yields
<1> QED
  BY <1>1, <1>3, <1>6, <1>7, ThreadCalm

LEMMA BreakCalm ==
  ASSUME EngineInv, CalmInv, NEW w, Workers = {w}, Break(w)
  PROVE  CalmInv'
<1>0. worker \in [Workers -> Thread] /\ pipe \in [Workers -> Progress]
  BY DEF EngineInv, QueueInv, TypeOK, EngineTypeOK
<1>1. UNCHANGED <<indexvars, sourcevars>> /\ ReadToFail(w) /\ Go(w, "fail")
  BY DEF Break
<1> DEFINE cur == IsCurrent(jobs, worker[w].job)
<1>2. /\ worker' = [worker EXCEPT ![w].stage = "failing", ![w].cur = cur]
      /\ UNCHANGED <<jobs, status, enabled, up>> /\ Busy(w)
  BY <1>1 DEF ReadToFail, ReadCurrency, Busy
<1> HIDE DEF cur
<1>3. /\ worker'[w].job = worker[w].job /\ worker'[w].file = worker[w].file
      /\ worker'[w].type = worker[w].type /\ worker'[w].stage = "failing"
  BY <1>0, <1>2 DEF Thread
<1>4. pipe'[w] = [pipe[w] EXCEPT !.step = "fail"]
  BY <1>0, <1>1 DEF Go
<1>5. pipe'[w].step = "fail"
  BY <1>0, <1>4 DEF Progress
<1>6. Yields(w)' /\ (Busy(w)' <=> Busy(w))
  BY <1>2, <1>3, <1>5 DEF Busy, Yields
<1> QED
  BY <1>1, <1>2, <1>3, <1>4, <1>6, ThreadCalm

-----------------------------------------------------------------------------
(* The thread's transactions *)

(* It begins with nothing read, and an indexing job takes its file out of the index. *)
LEMMA TakeCalm ==
  ASSUME EngineInv, CalmInv, NEW w, Workers = {w}, Take(w)
  PROVE  CalmInv'
<1>0. /\ QueueInv /\ TypeOK /\ IsTable(jobs) /\ Steady /\ pipe \in [Workers -> Progress]
      /\ worker \in [Workers -> Thread] /\ status \in [Files -> FileStatuses]
  BY DEF EngineInv, EngineTypeOK, QueueInv, TypeOK, CalmInv
<1>1. /\ Claim(w) /\ UNCHANGED <<indexvars, sourcevars>>
      /\ Go(w, IF worker'[w].type = "DELETE_CLEANUP" THEN "clean" ELSE "stat")
  BY DEF Take
<1>2. PICK j \in DOMAIN jobs :
           /\ DOMAIN jobs' = DOMAIN jobs /\ \A i \in DOMAIN jobs : i # j => jobs'[i] = jobs[i]
           /\ jobs'[j].status = "PROCESSING"
           /\ jobs'[j].file = jobs[j].file /\ jobs'[j].type = jobs[j].type
           /\ worker'[w].job = j
           /\ worker'[w].file = jobs[j].file /\ worker'[w].type = jobs[j].type
           /\ status' = IF jobs[j].type = "DELETE_CLEANUP" THEN status
                        ELSE Marked(jobs[j].file, "PROCESSING")
  BY <1>0, <1>1, ClaimedRow
<1>3. UNCHANGED <<enabled, up>> /\ ~Busy(w) /\ worker'[w].stage = "running"
  BY <1>0, <1>1 DEF Claim, ClaimRow, Busy
<1>4. Busy(w)' /\ pipe[w] = Off
  BY <1>0, <1>3 DEF Busy, Steady
<1>5. /\ pipe'[w].step = IF jobs[j].type = "DELETE_CLEANUP" THEN "clean" ELSE "stat"
      /\ pipe'[w].hash = 0 /\ pipe'[w].text = 0 /\ pipe'[w].known = 0 /\ ~pipe'[w].gone
  BY <1>0, <1>1, <1>2, <1>4 DEF Go, Off
<1>6. UNCHANGED <<row, chunks, disk, written, notice, flight>>
  BY <1>1 DEF indexvars, sourcevars
<1> DEFINE f == jobs[j].file
<1>7. f \in Files /\ status[f] # "ABSENT"
  BY <1>0, RowType DEF Row, Steady
<1>8. \A g \in Files : /\ status'[g] = status[g] \/ (g = f /\ status'[g] = "PROCESSING")
                       /\ status'[g] = "ABSENT" => status[g] = "ABSENT"
  BY <1>0, <1>2, <1>7 DEF Marked
<1>9. Steady'
  <2>1. \A i \in DOMAIN jobs' : jobs'[i].file = jobs[i].file /\ jobs[i].file \in Files
    BY <1>0, <1>2, RowType DEF Row
  <2> QED
    BY <1>0, <1>2, <1>3, <1>4, <1>5, <1>6, <1>8, <2>1 DEF Steady
<1>10. Yields(w)'
  BY <1>3, <1>5 DEF Yields
<1>11. ASSUME NEW g \in Files PROVE FileCalm(g)'
  <2>0. FileCalm(g)
    BY DEF CalmInv
  <2>1. /\ OnDisk(g)' = OnDisk(g) /\ Past(g)' = Past(g) /\ Newest(g)' = Newest(g) /\ 0 \in Past(g)
        /\ \A e \in {"CHANGE", "DELETE"} : Told(g, e)' <=> Told(g, e)
    BY <1>6 DEF OnDisk, Past, Newest, Told
  <2>2. /\ Indexes(w, g)' => g = f /\ jobs[j].type # "DELETE_CLEANUP"
        /\ MayWrite(w, g)' => Indexes(w, g)'
    BY <1>2 DEF Indexes, MayWrite, Cleans
  <2>3. Indexes(w, g)' => status'[g] \notin {"INDEXED", "ABSENT"} /\ pipe'[w].step = "stat"
    BY <1>0, <1>2, <1>5, <1>7, <2>2 DEF Marked
  <2>4. InOrder(g)'
    BY <1>5, <1>6, <2>0, <2>1, <2>3 DEF FileCalm, InOrder, ReadInOrder
  <2>5. DeletionSeen(g)'
    BY <1>6, <1>8, <2>0, <2>1, <2>2, <2>3 DEF FileCalm, DeletionSeen
  <2>6. g = f \/ Awaited(jobs, g) => status'[g] # "INDEXED" \/ Awaited(jobs', g) \/ ~Awaited(jobs, g)
    <3> SUFFICES ASSUME status'[g] = "INDEXED", Awaited(jobs, g) PROVE Awaited(jobs', g)
      OBVIOUS
    <3>1. PICK i \in DOMAIN jobs : /\ jobs[i].file = g /\ jobs[i].status = "PENDING"
                                   /\ jobs[i].type # "DELETE_CLEANUP"
      BY DEF Awaited, RowsOf
    <3>2. CASE i = j
      BY <1>0, <1>2, <1>7, <3>1, <3>2 DEF Marked
    <3>3. CASE i # j
      BY <1>2, <3>1, <3>3 DEF Awaited, RowsOf
    <3> QED
      BY <3>2, <3>3
  <2>7. Awaited(jobs, g)' <=> Awaited(jobs', g)
    BY DEF Awaited, RowsOf
  <2>8. ChangeSeen(g)'
    BY <1>6, <1>8, <2>0, <2>1, <2>2, <2>3, <2>6, <2>7 DEF FileCalm, ChangeSeen
  <2> QED
    BY <2>4, <2>5, <2>8 DEF FileCalm
<1> QED
  BY <1>9, <1>10, <1>11 DEF CalmInv

(* The rows that the end of a job leaves are of the same files. *)
LEMMA EndRows ==
  ASSUME TypeOK, NEW w,
         \/ \E cur, final : CompleteJob(w, cur, final)
         \/ \E permanent \in BOOLEAN : FailJob(w, permanent)
  PROVE  \A j \in DOMAIN jobs' : j \in DOMAIN jobs /\ jobs'[j].file = jobs[j].file
<1>0. IsTable(jobs)
  BY DEF TypeOK
<1>1. ASSUME NEW D, NEW js, DOMAIN js = DOMAIN jobs, jobs' = Without(js, D),
             \A j \in DOMAIN jobs : js[j].file = jobs[j].file
      PROVE  \A j \in DOMAIN jobs' : j \in DOMAIN jobs /\ jobs'[j].file = jobs[j].file
  BY <1>1 DEF Without
<1>2. CASE \E cur, final : CompleteJob(w, cur, final)
  <2> DEFINE js == Completed(jobs, worker[w].job)
  <2>1. \E D : jobs' = Without(js, D)
    BY <1>2 DEF CompleteJob
  <2>2. DOMAIN js = DOMAIN jobs
    BY <1>0, CompletedTable
  <2>3. \A j \in DOMAIN jobs : js[j].file = jobs[j].file
    BY <1>0, RowType DEF Completed, Row, Writable
  <2> HIDE DEF js
  <2> QED
    BY <1>1, <2>1, <2>2, <2>3
<1>3. ASSUME NEW permanent \in BOOLEAN, FailJob(w, permanent)
      PROVE  \A j \in DOMAIN jobs' : j \in DOMAIN jobs /\ jobs'[j].file = jobs[j].file
  <2> DEFINE retry == Retries(w, permanent)
             js == Failed(jobs, worker[w].job, retry)
  <2>1. \E D : jobs' = Without(js, D)
    BY <1>3 DEF FailJob
  <2>2. retry \in BOOLEAN
    BY DEF Retries
  <2> HIDE DEF retry
  <2>3. DOMAIN js = DOMAIN jobs
    BY <1>0, <2>2, FailedTable
  <2>4. ASSUME NEW j \in DOMAIN jobs PROVE js[j].file = jobs[j].file
    BY <1>0, RowType DEF Failed, Row, Writable
  <2> HIDE DEF js
  <2> QED
    BY <1>1, <2>1, <2>3, <2>4
<1> QED
  BY <1>2, <1>3

(* The thread is done with its job; what it leaves in the row and the index is of the file's past,
   and the row is not shown as indexed with anything but what is there. *)
LEMMA EndCalm ==
  ASSUME EngineInv, CalmInv, NEW w, Workers = {w}, NEW f \in Files,
         Done(w), worker' = [worker EXCEPT ![w] = Idle], UNCHANGED <<enabled, up, sourcevars>>,
         \A j \in DOMAIN jobs' : j \in DOMAIN jobs /\ jobs'[j].file = jobs[j].file,
         \A g : Waits(jobs', g),
         \A g \in Files : g # f =>
           status'[g] = status[g] /\ row'[g] = row[g] /\ chunks'[g] = chunks[g],
         status'[f] = "ABSENT" => status[f] = "ABSENT",
         row'[f].sha \in Past(f), chunks'[f] \in Past(f),
         row'[f].sha # 0 /\ row'[f].sha = Newest(f) /\ chunks'[f] # 0 => chunks'[f] = row'[f].sha,
         status'[f] = "INDEXED" =>
           /\ disk[f] # 0 \/ Told(f, "DELETE")
           /\ \/ disk[f] = 0 \/ OnDisk(f) \in Big \/ Told(f, "CHANGE") \/ Awaited(jobs, f)
              \/ chunks'[f] \in {0, OnDisk(f)}
  PROVE  CalmInv'
<1>0. /\ worker \in [Workers -> Thread] /\ pipe \in [Workers -> Progress] /\ IsTable(jobs)
      /\ Steady
  BY DEF EngineInv, EngineTypeOK, QueueInv, TypeOK, CalmInv
<1>1. /\ UNCHANGED <<disk, written, notice, flight>> /\ worker'[w] = Idle /\ pipe'[w] = Off
  BY <1>0 DEF sourcevars, Done
<1>2. ~Busy(w)' /\ pipe'[w].step = "off" /\ ~pipe'[w].gone /\ worker'[w].stage = "idle"
  BY <1>1 DEF Busy, Idle, Off
<1>3. Steady'
  <2>1. \A j \in DOMAIN jobs : jobs[j].file \in Files
    BY <1>0, RowType DEF Row
  <2> QED
    BY <1>0, <1>1, <1>2, <2>1 DEF Steady
<1>4. Yields(w)'
  BY <1>2 DEF Yields
<1>5. ASSUME NEW g \in Files PROVE FileCalm(g)'
  <2>0. FileCalm(g)
    BY DEF CalmInv
  <2>1. /\ OnDisk(g)' = OnDisk(g) /\ Past(g)' = Past(g) /\ Newest(g)' = Newest(g)
        /\ \A e \in {"CHANGE", "DELETE"} : Told(g, e)' <=> Told(g, e)
        /\ ~Indexes(w, g)' /\ ~MayWrite(w, g)'
        /\ Awaited(jobs, g) => Awaited(jobs, g)'
    <3>1. Awaited(jobs, g) => Awaited(jobs', g)
      BY WaitsAwaited
    <3> QED
      BY <1>1, <1>2, <3>1 DEF OnDisk, Past, Newest, Told, Indexes, MayWrite, Awaited, RowsOf
  <2>2. InOrder(g)'
    BY <2>0, <2>1 DEF FileCalm, InOrder
  <2>3. DeletionSeen(g)'
    BY <1>1, <2>0, <2>1 DEF FileCalm, DeletionSeen
  <2>4. ChangeSeen(g)'
    BY <1>1, <2>0, <2>1 DEF FileCalm, ChangeSeen
  <2> QED
    BY <2>2, <2>3, <2>4 DEF FileCalm
<1> QED
  BY <1>3, <1>4, <1>5 DEF CalmInv

(* What complete_job leaves of the other files' status, and of its own. *)
LEMMA MarkedOne ==
  ASSUME TypeOK, NEW f \in Files, NEW s \in FileStatuses \ {"ABSENT"},
         status' = status \/ status' = Marked(f, s)
  PROVE  /\ \A g \in Files : g # f => status'[g] = status[g]
         /\ status'[f] \in {status[f], s}
         /\ status'[f] = "ABSENT" => status[f] = "ABSENT"
BY DEF TypeOK, Marked

LEMMA CleanCalm ==
  ASSUME EngineInv, CalmInv, NEW w, Workers = {w}, Clean(w)
  PROVE  CalmInv'
<1> DEFINE f == File(w)
<1>0. /\ QueueInv /\ TypeOK /\ IndexTypeOK /\ f \in Files /\ ~pipe[w].gone /\ Busy(w)
  BY DEF EngineInv, EngineTypeOK, QueueInv, PipeMatchesJob, File, CalmInv, Steady, Clean
<1>1. /\ CompleteJob(w, IsCurrent(jobs, worker[w].job), "MISSING") /\ Purged(f)
      /\ Done(w) /\ UNCHANGED <<row, sourcevars>>
  BY <1>0 DEF Clean, CompleteNow
<1>2. /\ worker' = [worker EXCEPT ![w] = Idle] /\ UNCHANGED <<enabled, up>>
      /\ status' = status \/ status' = Marked(f, "MISSING")
  BY <1>1 DEF CompleteJob, File
<1>3. /\ \A j \in DOMAIN jobs' : j \in DOMAIN jobs /\ jobs'[j].file = jobs[j].file
      /\ \A g : Waits(jobs', g)
  BY <1>0, <1>1, EndRows, CompleteJobCarries
<1>4. /\ \A g \in Files : g # f => status'[g] = status[g]
      /\ status'[f] \in {status[f], "MISSING"}
      /\ status'[f] = "ABSENT" => status[f] = "ABSENT"
  BY <1>0, <1>2, MarkedOne DEF FileStatuses
<1>5. /\ chunks'[f] = 0 /\ row'[f] = row[f]
      /\ \A g \in Files : g # f => row'[g] = row[g] /\ chunks'[g] = chunks[g]
  BY <1>0, <1>1 DEF Purged, IndexTypeOK
<1>6. row[f].sha \in Past(f) /\ 0 \in Past(f) /\ DeletionSeen(f)
  BY <1>0 DEF CalmInv, FileCalm, InOrder, Past
<1>7. status'[f] = "INDEXED" => disk[f] # 0 \/ Told(f, "DELETE")
  BY <1>4, <1>6 DEF DeletionSeen
<1> HIDE DEF f
<1> QED
  BY <1>0, <1>1, <1>2, <1>3, <1>4, <1>5, <1>6, <1>7, EndCalm

LEMMA PersistCalm ==
  ASSUME EngineInv, CalmInv, NEW w, Workers = {w}, Persist(w)
  PROVE  CalmInv'
<1> DEFINE f == File(w)
           final == IF pipe[w].text = 0 THEN "SKIPPED" ELSE "INDEXED"
           cur == IsCurrent(jobs, worker[w].job)
<1>0. /\ QueueInv /\ TypeOK /\ IndexTypeOK /\ pipe[w].step = "persist"
  BY DEF EngineInv, EngineTypeOK, QueueInv, Persist
<1>1. /\ f \in Files /\ Indexes(w, f) /\ ~pipe[w].gone /\ FileCalm(f) /\ ReadInOrder(w, f)
      /\ status[f] # "INDEXED" /\ status[f] # "ABSENT" /\ Busy(w)
  BY <1>0, AtWork DEF Indexes
<1>2. /\ CompleteJob(w, cur, final) /\ Stored(w) /\ Hashed(w, cur) /\ Done(w) /\ UNCHANGED sourcevars
  BY <1>1 DEF Persist, CompleteNow
<1> HIDE DEF cur
<1>3. final \in FileStatuses \ {"ABSENT"}
  BY DEF FileStatuses
<1>4. /\ worker' = [worker EXCEPT ![w] = Idle] /\ UNCHANGED <<enabled, up>>
      /\ status' = IF Writable(jobs, worker[w].job) /\ cur THEN Marked(f, final) ELSE status
  BY <1>2 DEF CompleteJob, File
<1> HIDE DEF final
<1>5. /\ \A j \in DOMAIN jobs' : j \in DOMAIN jobs /\ jobs'[j].file = jobs[j].file
      /\ \A g : Waits(jobs', g)
  BY <1>0, <1>1, <1>2, EndRows, CompleteJobCarries
<1>6. /\ \A g \in Files : g # f => status'[g] = status[g]
      /\ status'[f] = "ABSENT" => status[f] = "ABSENT"
      /\ status'[f] = "INDEXED" => MayWrite(w, f)
  BY <1>0, <1>1, <1>3, <1>4, MarkedOne DEF MayWrite
<1>7. /\ chunks' = [chunks EXCEPT ![f] = pipe[w].text]
      /\ row' = row \/ row' = [row EXCEPT ![f].sha = pipe[w].hash]
  BY <1>1, <1>2 DEF Stored, Hashed
<1>8. /\ chunks'[f] = pipe[w].text /\ row'[f].sha \in {row[f].sha, pipe[w].hash}
      /\ \A g \in Files : g # f => row'[g] = row[g] /\ chunks'[g] = chunks[g]
  BY <1>0, <1>1, <1>7 DEF IndexTypeOK
<1>9. row'[f].sha \in Past(f) /\ chunks'[f] \in Past(f)
  BY <1>1, <1>8 DEF FileCalm, InOrder, ReadInOrder
<1>10. row'[f].sha # 0 /\ row'[f].sha = Newest(f) /\ chunks'[f] # 0 => chunks'[f] = row'[f].sha
  BY <1>1, <1>8 DEF ReadInOrder
<1>11. status'[f] = "INDEXED" =>
           /\ disk[f] # 0 \/ Told(f, "DELETE")
           /\ \/ disk[f] = 0 \/ OnDisk(f) \in Big \/ Told(f, "CHANGE") \/ Awaited(jobs, f)
              \/ chunks'[f] \in {0, OnDisk(f)}
  BY <1>0, <1>1, <1>6, <1>8 DEF FileCalm, DeletionSeen, ChangeSeen
<1> HIDE DEF f
<1> QED
  BY <1>1, <1>2, <1>4, <1>5, <1>6, <1>8, <1>9, <1>10, <1>11, EndCalm

LEMMA FinishCalm ==
  ASSUME EngineInv, CalmInv, NEW w, Workers = {w}, Finish(w)
  PROVE  CalmInv'
<1> DEFINE f == File(w)
<1>0. /\ QueueInv /\ TypeOK /\ IndexTypeOK /\ pipe[w].step \in {"bypass", "yield", "fail", "retry"}
  BY DEF EngineInv, EngineTypeOK, QueueInv, Finish
<1>1. f \in Files /\ FileCalm(f) /\ Busy(w) /\ Done(w) /\ UNCHANGED <<chunks, vectors, sourcevars>>
  BY <1>0 DEF EngineInv, PipeMatchesJob, File, CalmInv, Steady, Finish
<1>2. CASE pipe[w].step \in {"bypass", "yield"}
  <2>1. /\ Indexes(w, f) /\ ReadInOrder(w, f) /\ status[f] # "INDEXED" /\ status[f] # "ABSENT"
    BY <1>0, <1>2, AtWork
  <2>2. /\ CompleteJob(w, worker[w].cur, "INDEXED")
        /\ (pipe[w].step = "bypass" /\ Hashed(w, worker[w].cur)) \/ UNCHANGED row
        /\ pipe[w].step = "yield" => ~worker[w].cur
    BY <1>2 DEF Finish, CompleteRead, CalmInv, Yields
  <2>3. /\ worker' = [worker EXCEPT ![w] = Idle] /\ UNCHANGED <<enabled, up>>
        /\ status' = IF Writable(jobs, worker[w].job) /\ worker[w].cur
                     THEN Marked(f, "INDEXED") ELSE status
    BY <2>2 DEF CompleteJob, File
  <2>4. /\ \A j \in DOMAIN jobs' : j \in DOMAIN jobs /\ jobs'[j].file = jobs[j].file
        /\ \A g : Waits(jobs', g)
    BY <1>0, <1>1, <2>2, EndRows, CompleteJobCarries
  <2>5. /\ \A g \in Files : g # f => status'[g] = status[g]
        /\ status'[f] = "ABSENT" => status[f] = "ABSENT"
        /\ status'[f] = "INDEXED" => MayWrite(w, f) /\ pipe[w].step = "bypass"
    BY <1>0, <1>1, <1>2, <2>1, <2>2, <2>3, MarkedOne DEF FileStatuses, MayWrite
  <2>6. \/ row' = row
        \/ row' = [row EXCEPT ![f].sha = pipe[w].hash] /\ pipe[w].step = "bypass"
    BY <2>2 DEF Hashed
  <2>7. row'[f].sha = row[f].sha /\ \A g \in Files : g # f => row'[g] = row[g]
    BY <1>0, <1>1, <2>1, <2>6 DEF IndexTypeOK, ReadInOrder
  <2>8. status'[f] = "INDEXED" =>
           /\ disk[f] # 0 \/ Told(f, "DELETE")
           /\ \/ disk[f] = 0 \/ OnDisk(f) \in Big \/ Told(f, "CHANGE") \/ Awaited(jobs, f)
              \/ chunks[f] \in {0, OnDisk(f)}
    BY <1>1, <2>5 DEF FileCalm, DeletionSeen, ChangeSeen
  <2>9. /\ row[f].sha \in Past(f) /\ chunks[f] \in Past(f)
        /\ row[f].sha # 0 /\ row[f].sha = Newest(f) /\ chunks[f] # 0 => chunks[f] = row[f].sha
    BY <1>1 DEF FileCalm, InOrder
  <2> HIDE DEF f
  <2> QED
    BY <1>1, <2>3, <2>4, <2>5, <2>7, <2>8, <2>9, EndCalm
<1>3. CASE pipe[w].step \in {"fail", "retry"}
  <2>1. PICK permanent \in BOOLEAN : FailJob(w, permanent) /\ UNCHANGED row
    BY <1>3 DEF Finish
  <2> DEFINE s == IF Retries(w, permanent) THEN "QUEUED" ELSE "FAILED"
  <2>2. s \in FileStatuses \ {"ABSENT", "INDEXED"}
    BY DEF FileStatuses
  <2>3. /\ worker' = [worker EXCEPT ![w] = Idle] /\ UNCHANGED <<enabled, up>>
        /\ status' = status \/ status' = Marked(f, s)
    BY <2>1 DEF FailJob, File
  <2> HIDE DEF s
  <2>4. /\ \A j \in DOMAIN jobs' : j \in DOMAIN jobs /\ jobs'[j].file = jobs[j].file
        /\ \A g : Waits(jobs', g)
    BY <1>0, <2>1, EndRows, FailJobCarries
  <2>5. /\ \A g \in Files : g # f => status'[g] = status[g]
        /\ status'[f] = "ABSENT" => status[f] = "ABSENT"
        /\ status'[f] = "INDEXED" => status[f] = "INDEXED"
    BY <1>0, <1>1, <2>2, <2>3, MarkedOne
  <2>6. status'[f] = "INDEXED" =>
           /\ disk[f] # 0 \/ Told(f, "DELETE")
           /\ \/ disk[f] = 0 \/ OnDisk(f) \in Big \/ Told(f, "CHANGE") \/ Awaited(jobs, f)
              \/ chunks[f] \in {0, OnDisk(f)}
    BY <1>1, <2>5 DEF FileCalm, DeletionSeen, ChangeSeen
  <2>7. /\ row[f].sha \in Past(f) /\ chunks[f] \in Past(f)
        /\ row[f].sha # 0 /\ row[f].sha = Newest(f) /\ chunks[f] # 0 => chunks[f] = row[f].sha
    BY <1>1 DEF FileCalm, InOrder
  <2> HIDE DEF f
  <2> QED
    BY <1>1, <2>1, <2>3, <2>4, <2>5, <2>6, <2>7, EndCalm
<1> QED
  BY <1>0, <1>2, <1>3

LEMMA CalmIndexStep ==
  ASSUME EngineInv, CalmInv, NEW w, Workers = {w}, Index(w) \/ Break(w)
  PROVE  CalmInv'
<1>1. CASE Stat(w) \/ Check(w) \/ Hash(w) \/ Parse(w) \/ Judge(w)
  <2>1. pipe[w].step \in {"stat", "check", "hash", "parse", "judge"}
    BY <1>1 DEF Stat, Check, Hash, Parse, Judge
  <2>2. File(w) \in Files
    BY <2>1, AtStep
  <2> QED
    BY <1>1, <2>2, StatCalm, CheckCalm, HashCalm, ParseCalm, JudgeCalm
<1>2. CASE Seeking(w) \/ Take(w) \/ Clean(w) \/ Persist(w) \/ Look(w) \/ Finish(w) \/ Break(w)
  BY <1>2, SeekingCalm, TakeCalm, CleanCalm, PersistCalm, LookCalm, FinishCalm, BreakCalm
<1> QED
  BY <1>1, <1>2 DEF Index

(* The calm invariant is inductive while the calm lasts. *)
LEMMA CalmStep ==
  ASSUME SingleThread, ContentsDiffer, RowsStay, EngineInv, Remembered, CalmInv, CalmNext
  PROVE  CalmInv'
<1>1. CASE \E f \in Files : CalmSurround(f)
  BY <1>1, CalmSurroundStep
<1>2. ASSUME NEW w \in Workers, Index(w) \/ Break(w) PROVE CalmInv'
  <2>1. Workers = {w}
    BY DEF SingleThread
  <2> QED
    BY <1>2, <2>1, CalmIndexStep
<1>3. CASE \E j \in JobIds : RetryDue(j)
  BY <1>3, RetryDueCalm
<1> QED
  BY <1>1, <1>2, <1>3 DEF CalmNext

-----------------------------------------------------------------------------
(* The bounded environment *)

BudgetType ==
  [write : Nat, erase : Nat, scan : Nat, other : Nat, fault : Nat, crash : Nat, calm : BOOLEAN]

LEMMA MCStepEngine == [MCNext]_mcvars => [EngineNext]_evars
<1> SUFFICES ASSUME [MCNext]_mcvars PROVE [EngineNext]_evars
  OBVIOUS
<1>1. CASE UNCHANGED mcvars
  BY <1>1 DEF mcvars
<1>2. MCNext => EngineNext
  BY DEF MCNext, EngineNext, Surround
<1> QED
  BY <1>1, <1>2

LEMMA SpendCalm ==
  ASSUME budget \in BudgetType, NEW e \in {"write", "erase", "scan", "other", "fault", "crash"}, Spend(e)
  PROVE  /\ budget' \in BudgetType
         /\ budget'.calm => budget.calm /\ e \notin {"other", "crash"}
<1> DEFINE n == budget[e] - 1
           b == [budget EXCEPT ![e] = n]
<1>1. budget' = [b EXCEPT !.calm = b.calm /\ e \notin {"other", "crash"}]
  BY DEF Spend
<1>2. n \in Nat
  <2>1. /\ budget["write"] \in Nat /\ budget["erase"] \in Nat /\ budget["scan"] \in Nat
        /\ budget["other"] \in Nat /\ budget["fault"] \in Nat /\ budget["crash"] \in Nat
    BY DEF BudgetType
  <2>2. budget[e] > 0 /\ budget[e] \in Nat
    BY <2>1 DEF Spend
  <2> QED
    BY <2>2
<1> HIDE DEF n
<1>3. b \in BudgetType /\ b.calm = budget.calm
  BY <1>2 DEF BudgetType
<1> HIDE DEF b
<1> QED
  BY <1>1, <1>3 DEF BudgetType

LEMMA MCStepCalm ==
  ASSUME budget \in BudgetType, [MCNext]_mcvars
  PROVE  /\ budget' \in BudgetType
         /\ budget'.calm => budget.calm /\ (CalmNext \/ Start \/ UNCHANGED evars)
<1>1. CASE UNCHANGED mcvars
  BY <1>1 DEF mcvars
<1>2. ASSUME NEW f \in Files,
             \/ Write(f) /\ Spend("write")
             \/ Erase(f) /\ Spend("erase")
             \/ Watch(f) /\ Free
             \/ ScanList(f) /\ Spend("scan")
             \/ (ScanLook(f) \/ ScanApply(f)) /\ Free
      PROVE  budget' \in BudgetType /\ (budget'.calm => budget.calm /\ CalmNext)
  BY <1>2, SpendCalm DEF CalmNext, CalmSurround, Free
<1>3. CASE Spend("other") \/ Spend("crash")
  BY <1>3, SpendCalm
<1>4. ASSUME NEW w \in Workers,
             \/ Index(w) /\ IF Faulty(w) THEN Spend("fault") ELSE Free
             \/ Break(w) /\ Spend("fault")
      PROVE  budget' \in BudgetType /\ (budget'.calm => budget.calm /\ CalmNext)
  BY <1>4, SpendCalm DEF CalmNext, Free
<1>5. CASE (Start \/ \E j \in JobIds : RetryDue(j)) /\ Free
  BY <1>5 DEF CalmNext, Free
<1> QED
  BY <1>1, <1>2, <1>3, <1>4, <1>5 DEF MCNext

(* With one thread, contents that never return and rows that stay, the index holds no stale text
   while no batch is lost, no folder dropped or paused, no job abandoned, and the process lives. *)
THEOREM CalmIndexIsFresh ==
  ASSUME SingleThread, ContentsDiffer, RowsStay, Scenarios \subseteq BudgetType
  PROVE  MCSpec => []CalmKeepsFresh
<1> DEFINE Inv == budget \in BudgetType /\ (budget.calm => CalmInv)
<1>1. MCInit => EngineInit /\ Inv
  BY CalmInit DEF MCInit
<1>2. ASSUME EngineInv, Remembered, Inv, [MCNext]_mcvars PROVE Inv'
  <2>1. /\ budget' \in BudgetType
        /\ budget'.calm => budget.calm /\ (CalmNext \/ Start \/ UNCHANGED evars)
    BY <1>2, MCStepCalm
  <2> SUFFICES ASSUME budget'.calm PROVE CalmInv'
    BY <2>1
  <2>2. CalmInv
    BY <1>2, <2>1
  <2>3. CASE CalmNext
    BY <1>2, <2>2, <2>3, CalmStep
  <2>4. CASE Start
    BY <2>2, <2>4 DEF Start, Boot, CalmInv, Steady
  <2>5. CASE UNCHANGED evars
    BY <2>2, <2>5
       DEF evars, vars, indexvars, sourcevars, CalmInv, Steady, Busy, Yields, FileCalm, InOrder,
           ReadInOrder, Past, Newest, Indexes, MayWrite, Cleans, Writable, DeletionSeen, ChangeSeen,
           Told, OnDisk, Awaited, RowsOf, Bypassed
  <2> QED
    BY <2>1, <2>3, <2>4, <2>5
<1>3. EngineInv /\ Inv => CalmKeepsFresh
  BY CalmIsFresh DEF CalmKeepsFresh
<1>4. MCSpec => EngineSpec
  BY <1>1, MCStepEngine, PTL DEF MCSpec, EngineSpec
<1>5. EngineSpec => [](EngineInv /\ Remembered)
  BY EngineInvariant, EngineImplementsQueue, ThreadsRemember, PTL
<1> HIDE DEF Inv
<1>6. EngineInv /\ Remembered /\ Inv /\ [MCNext]_mcvars => Inv'
  BY <1>2
<1> QED
  BY <1>1, <1>3, <1>4, <1>5, <1>6, PTL DEF MCSpec
=============================================================================
