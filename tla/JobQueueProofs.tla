---------------------------- MODULE JobQueueProofs ----------------------------
(***************************************************************************)
(* QueueInv is an inductive invariant of the job queue, for any number of  *)
(* files, job ids and threads, any retry limit and any retention.  Beside  *)
(* it: what becomes of finished rows, deleted files and queued ones,       *)
(* which of a file's running jobs is the current one, and the lease that   *)
(* the queue implements.                                                   *)
(***************************************************************************)
EXTENDS JobQueueProps, TLAPS

(* What the statements of JobRepository do to a well-formed table: each returns a well-formed
   table, and what each says about the row it touches. *)

(* A row of a table has the type of a row, and its id is a job id. *)
LEMMA RowType ==
  ASSUME NEW js, IsTable(js), NEW j \in DOMAIN js
  PROVE  js[j] \in Row /\ j \in JobIds
BY DEF IsTable

(* A function from job ids to rows is a table. *)
LEMMA TableByRows ==
  ASSUME NEW D \in SUBSET JobIds, NEW js, js = [j \in D |-> js[j]],
         \A j \in D : js[j] \in Row
  PROVE  IsTable(js) /\ DOMAIN js = D
BY DEF IsTable

(* enqueue_job creates a PENDING row that has used no attempt. *)
LEMMA NewRowType ==
  ASSUME NEW f \in Files, NEW t \in JobTypes, NEW p \in Nat, NEW stamp \in Nat
  PROVE  NewRow(f, t, p, stamp) \in Row
BY DEF NewRow, Row, Live, Finished

LEMMA InsertTable ==
  ASSUME NEW js, IsTable(js), NEW id \in JobIds, NEW row \in Row
  PROVE  IsTable(Insert(js, id, row)) /\ DOMAIN Insert(js, id, row) = DOMAIN js \cup {id}
<1>1. DOMAIN js \cup {id} \in SUBSET JobIds
  BY DEF IsTable
<1>2. \A j \in DOMAIN js \cup {id} : Insert(js, id, row)[j] \in Row
  BY RowType DEF Insert
<1>3. Insert(js, id, row) = [j \in DOMAIN js \cup {id} |-> Insert(js, id, row)[j]]
  BY DEF Insert
<1> QED
  BY <1>1, <1>2, <1>3, TableByRows

LEMMA WithoutTable ==
  ASSUME NEW js, IsTable(js), NEW D
  PROVE  IsTable(Without(js, D)) /\ DOMAIN Without(js, D) = DOMAIN js \ D
<1>1. \A j \in DOMAIN js \ D : Without(js, D)[j] \in Row
  BY RowType DEF Without
<1> QED
  BY <1>1, TableByRows DEF Without, IsTable

LEMMA ClaimedTable ==
  ASSUME NEW js, IsTable(js), NEW j \in DOMAIN js, NEW stamp \in Nat
  PROVE  IsTable(Claimed(js, j, stamp)) /\ DOMAIN Claimed(js, j, stamp) = DOMAIN js
<1>1. js[j] \in Row
  BY RowType
<1> DEFINE r == [js[j] EXCEPT !.status = "PROCESSING", !.started = stamp, !.attempts = @ + 1]
<1>a. r \in Row
  <2>1. js[j].attempts + 1 \in Nat
    BY <1>1 DEF Row
  <2>2. "PROCESSING" \in Live \cup Finished
    BY DEF Live
  <2> QED
    BY <1>1, <2>1, <2>2 DEF Row
<1>b. Claimed(js, j, stamp) = [js EXCEPT ![j] = r]
  BY <1>1 DEF Claimed, Row, IsTable
<1>2. Claimed(js, j, stamp)[j] \in Row
  BY <1>a, <1>b DEF IsTable
<1>3. \A i \in DOMAIN js : Claimed(js, j, stamp)[i] \in Row
  BY <1>2, RowType DEF Claimed
<1> QED
  BY <1>3, TableByRows DEF Claimed, IsTable

LEMMA CompletedTable ==
  ASSUME NEW js, IsTable(js), NEW j
  PROVE  IsTable(Completed(js, j)) /\ DOMAIN Completed(js, j) = DOMAIN js
<1>1. CASE ~Writable(js, j)
  BY <1>1 DEF Completed
<1>2. CASE Writable(js, j)
  <2>1. js[j] \in Row /\ j \in DOMAIN js
    BY <1>2, RowType DEF Writable
  <2>2. Completed(js, j)[j] \in Row
    BY <1>2, <2>1 DEF Completed, Row, Live, Finished, IsTable
  <2>3. \A i \in DOMAIN js : Completed(js, j)[i] \in Row
    BY <1>2, <2>2, RowType DEF Completed
  <2> QED
    BY <1>2, <2>3, TableByRows DEF Completed, IsTable
<1> QED
  BY <1>1, <1>2

LEMMA FailedTable ==
  ASSUME NEW js, IsTable(js), NEW j, NEW retry \in BOOLEAN
  PROVE  IsTable(Failed(js, j, retry)) /\ DOMAIN Failed(js, j, retry) = DOMAIN js
<1>1. CASE ~Writable(js, j)
  BY <1>1 DEF Failed
<1>2. CASE Writable(js, j)
  <2>1. js[j] \in Row /\ j \in DOMAIN js
    BY <1>2, RowType DEF Writable
  <2>2. Failed(js, j, retry)[j] \in Row
    BY <1>2, <2>1 DEF Failed, Row, Live, Finished, IsTable
  <2>3. \A i \in DOMAIN js : Failed(js, j, retry)[i] \in Row
    BY <1>2, <2>2, RowType DEF Failed
  <2> QED
    BY <1>2, <2>3, TableByRows DEF Failed, IsTable
<1> QED
  BY <1>1, <1>2

LEMMA CancelledTable ==
  ASSUME NEW js, IsTable(js), NEW f
  PROVE  IsTable(Cancelled(js, f)) /\ DOMAIN Cancelled(js, f) = DOMAIN js
<1>1. \A j \in DOMAIN js : [js[j] EXCEPT !.status = "CANCELLED"] \in Row
  BY RowType DEF Row, Finished
<1>2. \A j \in DOMAIN js : Cancelled(js, f)[j] \in Row
  BY <1>1, RowType DEF Cancelled
<1> QED
  BY <1>2, TableByRows DEF Cancelled, IsTable

LEMMA RecoveredTable ==
  ASSUME NEW js, IsTable(js)
  PROVE  IsTable(Recovered(js)) /\ DOMAIN Recovered(js) = DOMAIN js
<1>1. ASSUME NEW j \in DOMAIN js PROVE Recovered(js)[j] \in Row
  <2>1. js[j] \in Row
    BY RowType
  <2>2. (IF js[j].attempts > 0 THEN js[j].attempts - 1 ELSE 0) \in Nat
    BY <2>1 DEF Row
  <2> QED
    BY <2>1, <2>2 DEF Recovered, Row, Live
<1> QED
  BY <1>1, TableByRows DEF Recovered, IsTable

(* Pruning deletes finished rows only. *)
LEMMA PrunableFinished ==
  ASSUME NEW js, NEW D \in Prunable(js)
  PROVE  D \subseteq RowsIn(js, Finished)
BY DEF Prunable

(* The claimed row was PENDING. *)
LEMMA NextClaimsPending ==
  ASSUME NEW js, NEW on, NEW j \in NextClaims(js, on)
  PROVE  j \in DOMAIN js /\ js[j].status = "PENDING"
BY DEF NextClaims, Claimable, RowsIn

-----------------------------------------------------------------------------
(* The queue *)

USE JobTableAssumption, JobQueueAssumption DEF Thread, Stages

(* A thread that is not idle holds a job of the table's id space, and Held is what they hold. *)
LEMMA HeldType ==
  ASSUME TypeOK
  PROVE  Held \subseteq JobIds
BY DEF TypeOK, Held

LEMMA InitInv == Init => QueueInv
<1> SUFFICES ASSUME Init PROVE QueueInv
  OBVIOUS
<1>1. IsTable(jobs) /\ DOMAIN jobs = {}
  BY DEF Init, IsTable
<1>2. TypeOK
  BY <1>1 DEF Init, TypeOK, Idle, FileStatuses, JobTypes
<1>3. \A w \in Workers : ~Busy(w) /\ worker[w].job = None
  BY DEF Init, Busy, Idle
<1> QED
  BY <1>1, <1>2, <1>3
     DEF QueueInv, SingleOwner, AttemptsBounded, ThreadsMatchRows, ProcessingHasOwner, RowsIn, Init

-----------------------------------------------------------------------------
(* Steps that leave the threads alone. *)

(* What such a step may do to the table: delete rows, cancel live ones, end a back-off, and
   insert a new row under an id that no thread holds. *)
Respects(js) ==
  \A j \in DOMAIN js :
    \/ /\ j \in DOMAIN jobs
       /\ js[j].attempts = jobs[j].attempts
       /\ js[j].status = jobs[j].status \/ js[j].status = "CANCELLED"
    \/ j \notin Held /\ js[j].status = "PENDING" /\ js[j].attempts = 0

LEMMA ThreadsUntouched ==
  ASSUME QueueInv, TypeOK', Respects(jobs'), UNCHANGED <<worker, up, lost>>
  PROVE  QueueInv'
<1> USE DEF QueueInv, Busy
<1>1. \A w \in Workers : Busy(w) => worker[w].job \in Held
  BY DEF Held, ThreadsMatchRows
<1>2. Held' = Held
  BY DEF Held
<1>3. SingleOwner'
  BY <1>1 DEF SingleOwner, Respects
<1>4. AttemptsBounded'
  BY DEF AttemptsBounded, Respects
<1>5. ThreadsMatchRows'
  BY <1>1 DEF ThreadsMatchRows, Respects
<1>6. ProcessingHasOwner'
  BY <1>2 DEF ProcessingHasOwner, Respects, RowsIn
<1> QED
  BY <1>3, <1>4, <1>5, <1>6

(* Time stamps are natural numbers. *)
LEMMA StampsType ==
  ASSUME NEW S, S \subseteq Nat
  PROVE  StampsAfter(S) \subseteq Nat
<1> SUFFICES ASSUME NEW x \in StampsAfter(S) PROVE x \in Nat
  OBVIOUS
<1>1. PICK s \in S \cup {1}, d \in Ticks : x = s + d
  BY DEF StampsAfter
<1>2. s \in Nat
  OBVIOUS
<1>3. d \in Nat
  BY JobQueueAssumption DEF JobQueueAssumption
<1> QED
  BY <1>1, <1>2, <1>3

(* enqueue_job after a transaction that turned the table into js. *)
LEMMA EnqueueRespects ==
  ASSUME TypeOK, NEW js, IsTable(js), Respects(js), DOMAIN js \subseteq DOMAIN jobs,
         NEW f \in Files, NEW t \in JobTypes, NEW p \in Nat, Enqueue(js, f, t, p)
  PROVE  IsTable(jobs') /\ Respects(jobs')
<1>1. CASE jobs' = js
  BY <1>1 DEF Respects
<1>2. CASE jobs' # js
  <2>1. PICK stamp \in StampsAfter({js[j].created : j \in DOMAIN js}) :
          /\ FreshIds # {}
          /\ jobs' = Insert(js, CHOOSE id \in FreshIds : TRUE, NewRow(f, t, p, stamp))
    BY <1>2 DEF Enqueue
  <2> DEFINE new == CHOOSE id \in FreshIds : TRUE
  <2>2. new \in JobIds /\ new \notin DOMAIN jobs /\ new \notin Held
    BY <2>1 DEF FreshIds
  <2>3. stamp \in Nat
    <3>1. {js[j].created : j \in DOMAIN js} \subseteq Nat
      BY DEF IsTable, Row
    <3> QED
      BY <2>1, <3>1, StampsType
  <2>4. NewRow(f, t, p, stamp) \in Row
    BY <2>3, NewRowType
  <2> HIDE DEF new
  <2>5. jobs' = Insert(js, new, NewRow(f, t, p, stamp))
    BY <2>1 DEF new
  <2>6. IsTable(jobs') /\ DOMAIN jobs' = DOMAIN js \cup {new}
    BY <2>2, <2>4, <2>5, InsertTable
  <2>7. Respects(jobs')
    BY <2>2, <2>5, <2>6 DEF Respects, Insert, NewRow
  <2> QED
    BY <2>6, <2>7
<1> QED
  BY <1>1, <1>2

LEMMA JobsRespect ==
  ASSUME TypeOK
  PROVE  IsTable(jobs) /\ Respects(jobs)
BY DEF TypeOK, Respects

LEMMA DiscoverInv ==
  ASSUME QueueInv, NEW f \in Files, NEW src \in Sources, NEW changed \in BOOLEAN,
         Discover(f, src, changed)
  PROVE  QueueInv'
<1>1. IsTable(jobs) /\ Respects(jobs)
  BY JobsRespect DEF QueueInv
<1>2. src[1] \in JobTypes /\ src[2] \in Nat
  BY DEF Sources, JobTypes
<1>3. IsTable(jobs') /\ Respects(jobs')
  BY <1>1, <1>2, EnqueueRespects DEF Discover, QueueInv
<1>4. Upserted(status[f], "QUEUED", changed) \in FileStatuses
  BY DEF Upserted, QueueInv, TypeOK, FileStatuses
<1>5. TypeOK'
  BY <1>3, <1>4 DEF QueueInv, TypeOK, Discover
<1> QED
  BY <1>3, <1>5, ThreadsUntouched DEF Discover

LEMMA RegisterInv ==
  ASSUME QueueInv, NEW f \in Files, Register(f)
  PROVE  QueueInv'
<1>1. IsTable(jobs) /\ Respects(jobs)
  BY JobsRespect DEF QueueInv
<1>2. IsTable(jobs') /\ Respects(jobs')
  BY <1>1, EnqueueRespects DEF Register, QueueInv, JobTypes
<1>3. TypeOK'
  BY <1>2 DEF QueueInv, TypeOK, Register, FileStatuses
<1> QED
  BY <1>2, <1>3, ThreadsUntouched DEF Register

LEMMA RenameInv ==
  ASSUME QueueInv, NEW f \in Files, Rename(f)
  PROVE  QueueInv'
<1>1. IsTable(jobs) /\ Respects(jobs)
  BY JobsRespect DEF QueueInv
<1>2. IsTable(jobs') /\ Respects(jobs')
  BY <1>1, EnqueueRespects DEF Rename, QueueInv, JobTypes
<1>3. TypeOK'
  BY <1>2 DEF QueueInv, TypeOK, Rename
<1> QED
  BY <1>2, <1>3, ThreadsUntouched DEF Rename

(* Oversize and ScanError write the file's row only. *)
LEMMA StatusOnlyInv ==
  ASSUME QueueInv, NEW f \in Files, Oversize(f) \/ ScanError(f)
  PROVE  QueueInv'
<1>1. Respects(jobs')
  BY JobsRespect DEF Oversize, ScanError, QueueInv, Respects
<1>2. TypeOK'
  BY DEF QueueInv, TypeOK, Oversize, ScanError, FileStatuses
<1> QED
  BY <1>1, <1>2, ThreadsUntouched DEF Oversize, ScanError

(* The two ways to see a deletion: cancel the file's live rows, prune, perhaps enqueue. *)
LEMMA CancelAndPrune ==
  ASSUME TypeOK, NEW f \in Files, NEW D
  PROVE  LET js == Without(Cancelled(jobs, f), D)
         IN  IsTable(js) /\ Respects(js) /\ DOMAIN js \subseteq DOMAIN jobs
<1> DEFINE js == Without(Cancelled(jobs, f), D)
<1>1. IsTable(jobs)
  BY DEF TypeOK
<1>2. IsTable(Cancelled(jobs, f)) /\ DOMAIN Cancelled(jobs, f) = DOMAIN jobs
  BY <1>1, CancelledTable
<1>3. IsTable(js) /\ DOMAIN js = DOMAIN jobs \ D
  BY <1>2, WithoutTable
<1>4. ASSUME NEW j \in DOMAIN js
      PROVE  /\ js[j].attempts = jobs[j].attempts
             /\ js[j].status = jobs[j].status \/ js[j].status = "CANCELLED"
  <2>1. j \in DOMAIN jobs /\ js[j] = Cancelled(jobs, f)[j]
    BY <1>3, <1>4 DEF Without
  <2>2. jobs[j] \in Row
    BY <1>1, <2>1, RowType
  <2>3. Cancelled(jobs, f)[j] = jobs[j] \/ Cancelled(jobs, f)[j] = [jobs[j] EXCEPT !.status = "CANCELLED"]
    BY <2>1 DEF Cancelled
  <2> QED
    BY <2>1, <2>2, <2>3 DEF Row
<1>5. Respects(js)
  BY <1>3, <1>4 DEF Respects
<1> QED
  BY <1>3, <1>5

LEMMA VanishWatchedInv ==
  ASSUME QueueInv, NEW f \in Files, VanishWatched(f)
  PROVE  QueueInv'
<1>0. TypeOK
  BY DEF QueueInv, TypeOK
<1>1. PICK D : IF status[f] = "INDEXED"
               THEN Enqueue(Without(Cancelled(jobs, f), D), f, "DELETE_CLEANUP", 1)
               ELSE jobs' = Without(Cancelled(jobs, f), D)
  BY DEF VanishWatched
<1>2. IsTable(jobs') /\ Respects(jobs')
  <2> DEFINE js == Without(Cancelled(jobs, f), D)
  <2>1. IsTable(js) /\ Respects(js) /\ DOMAIN js \subseteq DOMAIN jobs
    BY <1>0, CancelAndPrune
  <2> HIDE DEF js
  <2>2. CASE Enqueue(js, f, "DELETE_CLEANUP", 1)
    BY <1>0, <2>1, <2>2, EnqueueRespects DEF JobTypes
  <2>3. CASE jobs' = js
    BY <1>0, <2>1, <2>3 DEF Respects
  <2> QED
    BY <1>1, <2>2, <2>3 DEF js
<1>3. TypeOK'
  BY <1>2 DEF QueueInv, TypeOK, VanishWatched, FileStatuses
<1> QED
  BY <1>2, <1>3, ThreadsUntouched DEF VanishWatched

LEMMA VanishScannedInv ==
  ASSUME QueueInv, NEW f \in Files, VanishScanned(f)
  PROVE  QueueInv'
<1>0. TypeOK
  BY DEF QueueInv
<1>1. PICK D : Enqueue(Without(Cancelled(jobs, f), D), f, "DELETE_CLEANUP", 0)
  BY DEF VanishScanned
<1>2. IsTable(jobs') /\ Respects(jobs')
  <2> DEFINE js == Without(Cancelled(jobs, f), D)
  <2>1. IsTable(js) /\ Respects(js) /\ DOMAIN js \subseteq DOMAIN jobs
    BY <1>0, CancelAndPrune
  <2> HIDE DEF js
  <2>2. Enqueue(js, f, "DELETE_CLEANUP", 0)
    BY <1>1 DEF js
  <2> QED
    BY <1>0, <2>1, <2>2, EnqueueRespects DEF JobTypes
<1>3. TypeOK'
  BY <1>2 DEF QueueInv, TypeOK, VanishScanned, FileStatuses
<1> QED
  BY <1>2, <1>3, ThreadsUntouched DEF VanishScanned

LEMMA RemoveFolderInv ==
  ASSUME QueueInv, NEW f \in Files, RemoveFolder(f)
  PROVE  QueueInv'
<1>1. IsTable(jobs)
  BY DEF QueueInv, TypeOK
<1>2. IsTable(jobs') /\ DOMAIN jobs' = DOMAIN jobs \ RowsOf(jobs, f)
  BY <1>1, WithoutTable DEF RemoveFolder
<1>3. Respects(jobs')
  BY <1>2 DEF Respects, RemoveFolder, Without
<1>4. TypeOK'
  BY <1>2 DEF QueueInv, TypeOK, RemoveFolder, FileStatuses
<1> QED
  BY <1>3, <1>4, ThreadsUntouched DEF RemoveFolder

LEMMA SetEnabledInv ==
  ASSUME QueueInv, NEW f \in Files, SetEnabled(f)
  PROVE  QueueInv'
<1>1. Respects(jobs')
  BY JobsRespect DEF SetEnabled, QueueInv, Respects
<1>2. TypeOK'
  BY DEF QueueInv, TypeOK, SetEnabled
<1> QED
  BY <1>1, <1>2, ThreadsUntouched DEF SetEnabled

LEMMA BackoffOverInv ==
  ASSUME QueueInv, NEW j, BackoffOver(j)
  PROVE  QueueInv'
<1>1. IsTable(jobs) /\ j \in DOMAIN jobs
  BY DEF QueueInv, TypeOK, BackoffOver, RowsIn
<1>2. jobs[j] \in Row
  BY <1>1, RowType
<1>3. jobs' = [jobs EXCEPT ![j] = [jobs[j] EXCEPT !.backoff = FALSE]]
  BY <1>1, <1>2 DEF BackoffOver, IsTable
<1>4. [jobs[j] EXCEPT !.backoff = FALSE] \in Row
  BY <1>2 DEF Row
<1>5. IsTable(jobs') /\ DOMAIN jobs' = DOMAIN jobs
  BY <1>1, <1>3, <1>4 DEF IsTable
<1>6. Respects(jobs')
  BY <1>1, <1>2, <1>3, <1>5 DEF Respects, Row, IsTable
<1>7. TypeOK'
  BY <1>5 DEF QueueInv, TypeOK, BackoffOver
<1> QED
  BY <1>6, <1>7, ThreadsUntouched DEF BackoffOver

-----------------------------------------------------------------------------
(* Steps of the threads. *)

(* A thread that lets go of its job leaves the other rows alone, except for deletions, and its
   own row not PROCESSING and within its attempts. *)
LEMMA ReleaseInv ==
  ASSUME QueueInv, TypeOK', NEW w \in Workers, Busy(w),
         worker' = [worker EXCEPT ![w] = Idle], UNCHANGED <<up, lost>>,
         DOMAIN jobs' \subseteq DOMAIN jobs,
         \A j \in DOMAIN jobs' : j # worker[w].job => jobs'[j] = jobs[j],
         worker[w].job \in DOMAIN jobs' =>
           /\ jobs'[worker[w].job].status # "PROCESSING"
           /\ jobs'[worker[w].job].status = "PENDING" => jobs'[worker[w].job].attempts < MaxAttempts
  PROVE  QueueInv'
<1>0. /\ TypeOK /\ SingleOwner /\ AttemptsBounded /\ ThreadsMatchRows /\ ProcessingHasOwner
      /\ worker \in [Workers -> Thread]
  BY DEF QueueInv, TypeOK
<1>1. /\ ~Busy(w)' /\ worker'[w].job = None
      /\ \A x \in Workers \ {w} : worker'[x] = worker[x] /\ (Busy(x)' <=> Busy(x))
  BY <1>0 DEF Busy, Idle
<1>2. \A x \in Workers \ {w} : Busy(x) => worker[x].job # worker[w].job
  BY <1>0 DEF SingleOwner
<1>3. SingleOwner'
  <2>1. \A x, y \in Workers : x # y /\ Busy(x)' /\ Busy(y)' => worker'[x].job # worker'[y].job
    BY <1>0, <1>1 DEF SingleOwner
  <2>2. ASSUME NEW x \in Workers, Busy(x)', worker'[x].job \in DOMAIN jobs'
        PROVE  jobs'[worker'[x].job].status \in {"PROCESSING", "CANCELLED"}
    <3>1. x \in Workers \ {w} /\ Busy(x) /\ worker'[x].job = worker[x].job
      BY <1>1, <2>2
    <3>2. jobs'[worker[x].job] = jobs[worker[x].job] /\ worker[x].job \in DOMAIN jobs
      BY <1>2, <2>2, <3>1
    <3> QED
      BY <1>0, <3>1, <3>2 DEF SingleOwner
  <2> QED
    BY <2>1, <2>2 DEF SingleOwner
<1>4. AttemptsBounded'
  BY <1>0 DEF AttemptsBounded
<1>5. ThreadsMatchRows'
  <2>1. ASSUME NEW x \in Workers \ {w}, Busy(x), worker[x].job \in DOMAIN jobs'
        PROVE  jobs'[worker[x].job].attempts = worker[x].tries
    <3>1. jobs'[worker[x].job] = jobs[worker[x].job] /\ worker[x].job \in DOMAIN jobs
      BY <1>2, <2>1
    <3> QED
      BY <1>0, <2>1, <3>1 DEF ThreadsMatchRows
  <2>2. up /\ up'
    BY <1>0 DEF ThreadsMatchRows
  <2> QED
    BY <1>0, <1>1, <2>1, <2>2 DEF ThreadsMatchRows
<1>6. ProcessingHasOwner'
  <2> SUFFICES ASSUME up, NEW j \in RowsIn(jobs, {"PROCESSING"})' PROVE j \in Held' \cup lost
    BY DEF ProcessingHasOwner
  <2>1. j \in DOMAIN jobs' /\ jobs'[j].status = "PROCESSING" /\ j # worker[w].job
    BY DEF RowsIn
  <2>2. j \in RowsIn(jobs, {"PROCESSING"})
    BY <2>1 DEF RowsIn
  <2>3. j \in Held \cup lost
    BY <1>0, <2>2 DEF ProcessingHasOwner
  <2>4. CASE j \in Held
    <3>1. PICK x \in Workers : worker[x].job = j /\ j # None
      BY <2>4 DEF Held
    <3> QED
      BY <1>1, <2>1, <3>1 DEF Held
  <2> QED
    BY <2>3, <2>4
<1> QED
  BY <1>3, <1>4, <1>5, <1>6 DEF QueueInv

LEMMA ClaimInv ==
  ASSUME QueueInv, NEW w \in Workers, Claim(w)
  PROVE  QueueInv'
<1>0. /\ TypeOK /\ SingleOwner /\ AttemptsBounded /\ ThreadsMatchRows /\ ProcessingHasOwner
      /\ IsTable(jobs)
      /\ up /\ ~Busy(w) /\ worker[w].job = None
  BY DEF QueueInv, TypeOK, Claim, ClaimRow, Busy, ThreadsMatchRows
<1>1. PICK j \in NextClaims(jobs, enabled) :
        /\ jobs' = Claimed(jobs, j, worker[w].now)
        /\ worker' = [worker EXCEPT ![w] =
                [stage |-> "running", job |-> j, type |-> jobs[j].type, file |-> jobs[j].file,
                 tries |-> jobs[j].attempts + 1, cur |-> FALSE, now |-> 0]]
        /\ status' = IF jobs[j].type = "DELETE_CLEANUP" THEN status
                     ELSE Marked(jobs[j].file, "PROCESSING")
  BY DEF Claim, ClaimRow
<1>2. UNCHANGED <<enabled, up, lost>>
  BY DEF Claim, ClaimRow
<1>3. j \in DOMAIN jobs /\ jobs[j].status = "PENDING" /\ j \in JobIds /\ jobs[j] \in Row
  BY <1>0, NextClaimsPending, RowType
<1>4. worker[w].now \in Nat
  BY <1>0 DEF TypeOK
<1>5. IsTable(jobs') /\ DOMAIN jobs' = DOMAIN jobs
  BY <1>0, <1>1, <1>3, <1>4, ClaimedTable
<1>6. /\ jobs'[j].status = "PROCESSING"
      /\ jobs'[j].attempts = jobs[j].attempts + 1
      /\ \A i \in DOMAIN jobs : i # j => jobs'[i] = jobs[i]
  BY <1>1, <1>3 DEF Claimed, Row
<1>7. jobs[j].attempts + 1 \in 1..MaxAttempts /\ jobs[j].attempts + 1 \in Nat
  BY <1>0, <1>3 DEF AttemptsBounded, Row
<1>8. /\ worker'[w] = [stage |-> "running", job |-> j, type |-> jobs[j].type,
                       file |-> jobs[j].file,
                       tries |-> jobs[j].attempts + 1, cur |-> FALSE, now |-> 0]
      /\ \A x \in Workers \ {w} : worker'[x] = worker[x]
      /\ Busy(w)' /\ \A x \in Workers \ {w} : Busy(x)' <=> Busy(x)
  BY <1>0, <1>1 DEF TypeOK, Busy
<1>9. TypeOK'
  <2>1. worker'[w] \in Thread
    BY <1>3, <1>7, <1>8 DEF Row
  <2>2. status' \in [Files -> FileStatuses]
    BY <1>0, <1>1 DEF TypeOK, Marked, FileStatuses
  <2> QED
    BY <1>0, <1>1, <1>2, <1>5, <2>1, <2>2 DEF TypeOK
<1>10. \A x \in Workers \ {w} : Busy(x) => worker[x].job # j
  BY <1>0, <1>3 DEF SingleOwner
<1>11. SingleOwner'
  <2>1. \A x, y \in Workers : x # y /\ Busy(x)' /\ Busy(y)' => worker'[x].job # worker'[y].job
    BY <1>0, <1>8, <1>10 DEF SingleOwner
  <2>2. ASSUME NEW x \in Workers, Busy(x)', worker'[x].job \in DOMAIN jobs'
        PROVE  jobs'[worker'[x].job].status \in {"PROCESSING", "CANCELLED"}
    <3>1. CASE x = w
      BY <1>6, <1>8, <3>1
    <3>2. CASE x # w
      BY <1>0, <1>5, <1>6, <1>8, <1>10, <2>2, <3>2 DEF SingleOwner
    <3> QED
      BY <3>1, <3>2
  <2> QED
    BY <2>1, <2>2 DEF SingleOwner
<1>12. AttemptsBounded'
  BY <1>0, <1>5, <1>6, <1>7 DEF AttemptsBounded
<1>13. ThreadsMatchRows'
  <2>1. ASSUME NEW x \in Workers \ {w}, Busy(x), worker[x].job \in DOMAIN jobs'
        PROVE  jobs'[worker[x].job].attempts = worker[x].tries
    BY <1>0, <1>5, <1>6, <1>10, <2>1 DEF ThreadsMatchRows
  <2> QED
    BY <1>0, <1>2, <1>3, <1>6, <1>7, <1>8, <2>1 DEF ThreadsMatchRows
<1>14. ProcessingHasOwner'
  <2>1. Held \cup {j} \subseteq Held'
    <3>1. j \in Held'
      BY <1>3, <1>8, JobQueueAssumption DEF Held
    <3>2. ASSUME NEW i \in Held PROVE i \in Held'
      <4>1. PICK x \in Workers : worker[x].job = i /\ i # None
        BY <3>2 DEF Held
      <4> QED
        BY <1>0, <1>8, <4>1 DEF Held
    <3> QED
      BY <3>1, <3>2
  <2>2. RowsIn(jobs, {"PROCESSING"})' \subseteq RowsIn(jobs, {"PROCESSING"}) \cup {j}
    BY <1>5, <1>6 DEF RowsIn
  <2> QED
    BY <1>0, <1>2, <2>1, <2>2 DEF ProcessingHasOwner
<1> QED
  BY <1>9, <1>11, <1>12, <1>13, <1>14 DEF QueueInv

(* Taking a time stamp, or dropping it, changes one field of an idle thread. *)
LEMMA PollInv ==
  ASSUME QueueInv, NEW w \in Workers, Poll(w) \/ PollEmpty(w)
  PROVE  QueueInv'
<1>0. TypeOK /\ UNCHANGED <<jobs, status, enabled, up, lost>>
  BY DEF QueueInv, Poll, PollEmpty
<1>1. PICK stamp \in Nat : worker' = [worker EXCEPT ![w].now = stamp]
  <2>1. {jobs[j].started : j \in DOMAIN jobs} \cup {worker[x].now : x \in Workers} \subseteq Nat
    BY <1>0 DEF TypeOK, IsTable, Row
  <2> QED
    BY <2>1, StampsType DEF Poll, PollEmpty
<1>2. \A x \in Workers : /\ worker'[x].job = worker[x].job /\ worker'[x].tries = worker[x].tries
                         /\ Busy(x)' <=> Busy(x)
  BY <1>0, <1>1 DEF TypeOK, Busy
<1>3. worker' \in [Workers -> Thread]
  BY <1>0, <1>1 DEF TypeOK
<1>4. TypeOK'
  BY <1>0, <1>3 DEF TypeOK
<1>5. Held' = Held
  BY <1>2 DEF Held
<1> QED
  BY <1>0, <1>2, <1>4, <1>5
     DEF QueueInv, SingleOwner, AttemptsBounded, ThreadsMatchRows, ProcessingHasOwner, RowsIn

LEMMA ReadCurrencyInv ==
  ASSUME QueueInv, NEW w \in Workers, Busy(w), NEW stage \in {"completing", "failing"},
         ReadCurrency(w, stage)
  PROVE  QueueInv'
<1>0. /\ TypeOK /\ SingleOwner /\ AttemptsBounded /\ ThreadsMatchRows /\ ProcessingHasOwner
      /\ IsTable(jobs) /\ Busy(w)
      /\ worker' = [worker EXCEPT ![w].stage = stage,
                                  ![w].cur = IsCurrent(jobs, worker[w].job)]
      /\ UNCHANGED <<jobs, status, enabled, up, lost>>
  BY DEF QueueInv, TypeOK, ReadCurrency, Busy
<1>1. \A x \in Workers : /\ worker'[x].job = worker[x].job /\ worker'[x].tries = worker[x].tries
                         /\ Busy(x)' <=> Busy(x)
  BY <1>0 DEF TypeOK, Busy
<1>2. TypeOK'
  <2> DEFINE cur == IsCurrent(jobs, worker[w].job)
             t   == [worker[w] EXCEPT !.stage = stage, !.cur = cur]
  <2>1. cur \in BOOLEAN
    BY DEF IsCurrent
  <2>2. worker' = [worker EXCEPT ![w] = t]
    BY <1>0, Zenon DEF TypeOK
  <2> HIDE DEF cur
  <2>3. t \in Thread
    <3>1. worker[w] \in Thread
      BY <1>0 DEF TypeOK
    <3>2. CASE cur = TRUE
      BY <3>1, <3>2
    <3>3. CASE cur = FALSE
      BY <3>1, <3>3
    <3> QED
      BY <2>1, <3>2, <3>3
  <2> HIDE DEF t
  <2>4. worker' \in [Workers -> Thread]
    BY <1>0, <2>2, <2>3 DEF TypeOK
  <2> QED
    BY <1>0, <2>4 DEF TypeOK
<1>3. Held' = Held
  BY <1>1 DEF Held
<1>4. SingleOwner'
  BY <1>0, <1>1 DEF SingleOwner
<1>5. AttemptsBounded'
  BY <1>0 DEF AttemptsBounded
<1>6. ThreadsMatchRows'
  BY <1>0, <1>1 DEF ThreadsMatchRows
<1>7. ProcessingHasOwner'
  BY <1>0, <1>3 DEF ProcessingHasOwner, RowsIn
<1> QED
  BY <1>2, <1>4, <1>5, <1>6, <1>7 DEF QueueInv

(* The first UPDATE of complete_job or fail_job turned the table into js, which differs from
   jobs in the thread's own row at most; then finished rows are pruned. *)
LEMMA CommitInv ==
  ASSUME QueueInv, NEW w \in Workers, Busy(w), NEW D, NEW js, IsTable(js),
         DOMAIN js = DOMAIN jobs, jobs' = Without(js, D),
         \A j \in DOMAIN jobs : j # worker[w].job => js[j] = jobs[j],
         worker[w].job \in DOMAIN js =>
           /\ js[worker[w].job].status # "PROCESSING"
           /\ js[worker[w].job].status = "PENDING" => js[worker[w].job].attempts < MaxAttempts,
         status' \in [Files -> FileStatuses],
         worker' = [worker EXCEPT ![w] = Idle], UNCHANGED <<enabled, up, lost>>
  PROVE  QueueInv'
<1>1. IsTable(jobs') /\ DOMAIN jobs' = DOMAIN jobs \ D
  BY WithoutTable
<1>2. \A j \in DOMAIN jobs' : jobs'[j] = js[j]
  BY <1>1 DEF Without
<1>3. worker' \in [Workers -> Thread]
  BY DEF QueueInv, TypeOK, Idle, JobTypes
<1>4. TypeOK'
  BY <1>1, <1>3 DEF QueueInv, TypeOK
<1> QED
  BY <1>1, <1>2, <1>4, ReleaseInv

LEMMA MarkedType ==
  ASSUME TypeOK, NEW f, NEW s \in FileStatuses
  PROVE  Marked(f, s) \in [Files -> FileStatuses]
BY DEF TypeOK, Marked

LEMMA CompleteJobInv ==
  ASSUME QueueInv, NEW w \in Workers, Busy(w), NEW cur, NEW final \in FileStatuses,
         CompleteJob(w, cur, final)
  PROVE  QueueInv'
<1> DEFINE j == worker[w].job
           js == Completed(jobs, j)
<1>1. PICK D : jobs' = Without(js, D)
  BY DEF CompleteJob
<1>2. IsTable(jobs)
  BY DEF QueueInv, TypeOK
<1>3. IsTable(js) /\ DOMAIN js = DOMAIN jobs
  BY <1>2, CompletedTable
<1>4. \A i \in DOMAIN jobs : i # j => js[i] = jobs[i]
  BY DEF Completed
<1>5. j \in DOMAIN js => js[j].status \in {"COMPLETED", "CANCELLED"}
  <2> SUFFICES ASSUME j \in DOMAIN jobs PROVE js[j].status \in {"COMPLETED", "CANCELLED"}
    BY <1>3
  <2>1. jobs[j] \in Row
    BY <1>2, RowType
  <2>2. CASE Writable(jobs, j)
    BY <2>1, <2>2, <1>2 DEF Completed, Row, IsTable
  <2>3. CASE ~Writable(jobs, j)
    BY <2>3 DEF Completed, Writable
  <2> QED
    BY <2>2, <2>3
<1>6. status' \in [Files -> FileStatuses]
  BY MarkedType DEF QueueInv, TypeOK, CompleteJob
<1>7. worker' = [worker EXCEPT ![w] = Idle] /\ UNCHANGED <<enabled, up, lost>>
  BY DEF CompleteJob
<1> QED
  BY <1>1, <1>3, <1>4, <1>5, <1>6, <1>7, CommitInv

LEMMA FailJobInv ==
  ASSUME QueueInv, NEW w \in Workers, NEW permanent \in BOOLEAN, FailJob(w, permanent)
  PROVE  QueueInv'
<1> DEFINE j == worker[w].job
           retry == Retries(w, permanent)
           js == Failed(jobs, j, retry)
<1>1. PICK D : jobs' = Without(js, D)
  BY DEF FailJob
<1>2. /\ IsTable(jobs) /\ retry \in BOOLEAN /\ Busy(w)
      /\ j \in DOMAIN jobs => jobs[j].attempts = worker[w].tries
  BY DEF QueueInv, TypeOK, Retries, FailJob, Busy, ThreadsMatchRows
<1>3. IsTable(js) /\ DOMAIN js = DOMAIN jobs
  BY <1>2, FailedTable
<1>4. \A i \in DOMAIN jobs : i # j => js[i] = jobs[i]
  BY DEF Failed
<1>5. j \in DOMAIN js => /\ js[j].status # "PROCESSING"
                         /\ js[j].status = "PENDING" => js[j].attempts < MaxAttempts
  <2> SUFFICES ASSUME j \in DOMAIN jobs
               PROVE  /\ js[j].status # "PROCESSING"
                      /\ js[j].status = "PENDING" => js[j].attempts < MaxAttempts
    BY <1>3
  <2>1. jobs[j] \in Row
    BY <1>2, RowType
  <2>2. CASE Writable(jobs, j)
    <3>1. /\ js[j].status = IF retry THEN "PENDING" ELSE "FAILED"
          /\ js[j].attempts = jobs[j].attempts
      BY <2>1, <2>2, <1>2 DEF Failed, Row, IsTable
    <3>2. retry => worker[w].tries < MaxAttempts
      BY DEF Retries
    <3> QED
      BY <1>2, <3>1, <3>2
  <2>3. CASE ~Writable(jobs, j)
    BY <2>3 DEF Failed, Writable
  <2> QED
    BY <2>2, <2>3
<1>6. status' \in [Files -> FileStatuses]
  <2>1. {"QUEUED", "FAILED"} \subseteq FileStatuses
    BY DEF FileStatuses
  <2>2. TypeOK
    BY DEF QueueInv
  <2>3. status' \in {status, Marked(worker[w].file, "QUEUED"), Marked(worker[w].file, "FAILED")}
    BY DEF FailJob
  <2> QED
    BY <2>1, <2>2, <2>3, MarkedType DEF TypeOK
<1>7. worker' = [worker EXCEPT ![w] = Idle] /\ UNCHANGED <<enabled, up, lost>>
  BY DEF FailJob
<1> QED
  BY <1>1, <1>2, <1>3, <1>4, <1>5, <1>6, <1>7, CommitInv

LEMMA AbandonInv ==
  ASSUME QueueInv, NEW w \in Workers, Abandon(w)
  PROVE  QueueInv'
<1>0. /\ TypeOK /\ SingleOwner /\ AttemptsBounded /\ ThreadsMatchRows /\ ProcessingHasOwner
      /\ Busy(w) /\ worker[w].job \in JobIds
      /\ worker' = [worker EXCEPT ![w] = Idle]
      /\ lost' = lost \cup {worker[w].job}
      /\ UNCHANGED <<jobs, status, enabled, up>>
  BY DEF QueueInv, Abandon, Busy, ThreadsMatchRows
<1>1. TypeOK'
  BY <1>0 DEF TypeOK, Idle, JobTypes
<1>2. /\ ~Busy(w)' /\ worker'[w].job = None
      /\ \A x \in Workers \ {w} : worker'[x] = worker[x] /\ (Busy(x)' <=> Busy(x))
  BY <1>0 DEF Busy, Idle, TypeOK
<1>3. SingleOwner' /\ AttemptsBounded' /\ ThreadsMatchRows'
  BY <1>0, <1>2 DEF SingleOwner, AttemptsBounded, ThreadsMatchRows
<1>4. Held \subseteq Held' \cup lost'
  <2> SUFFICES ASSUME NEW i \in Held PROVE i \in Held' \cup lost'
    OBVIOUS
  <2>1. PICK x \in Workers : worker[x].job = i /\ i # None
    BY DEF Held
  <2> QED
    BY <1>0, <1>2, <2>1 DEF Held
<1>5. ProcessingHasOwner'
  BY <1>0, <1>4 DEF ProcessingHasOwner, RowsIn
<1> QED
  BY <1>1, <1>3, <1>5 DEF QueueInv

-----------------------------------------------------------------------------
(* The process. *)

LEMMA CrashInv == QueueInv /\ Crash => QueueInv'
<1> SUFFICES ASSUME QueueInv, Crash PROVE QueueInv'
  OBVIOUS
<1>1. \A w \in Workers : ~Busy(w)' /\ worker'[w].job = None
  BY DEF Crash, Busy, Idle
<1>2. TypeOK'
  BY DEF QueueInv, TypeOK, Crash, Idle, JobTypes
<1>3. ~up'
  BY DEF Crash
<1> QED
  BY <1>1, <1>2, <1>3
     DEF QueueInv, Crash, SingleOwner, AttemptsBounded, ThreadsMatchRows, ProcessingHasOwner

(* Recovery returns each PROCESSING row to the queue with one attempt fewer, so within the limit. *)
LEMMA BootInv == QueueInv /\ Boot => QueueInv'
<1> SUFFICES ASSUME QueueInv, Boot PROVE QueueInv'
  OBVIOUS
<1>0. /\ TypeOK /\ AttemptsBounded /\ ThreadsMatchRows /\ IsTable(jobs)
      /\ jobs' = Recovered(jobs) /\ UNCHANGED <<enabled, worker, lost>>
  BY DEF QueueInv, TypeOK, Boot
<1>1. IsTable(jobs') /\ DOMAIN jobs' = DOMAIN jobs
  BY <1>0, RecoveredTable
<1>2. TypeOK'
  BY <1>0, <1>1 DEF TypeOK, Boot, FileStatuses
<1>3. \A w \in Workers : ~Busy(w)' /\ worker'[w].job = None
  BY <1>0 DEF Boot, ThreadsMatchRows, Busy
<1>4. ASSUME NEW j \in DOMAIN jobs'
      PROVE  /\ jobs'[j].status # "PROCESSING"
             /\ jobs'[j].status = "PENDING" => jobs'[j].attempts < MaxAttempts
  <2>1. jobs[j] \in Row
    BY <1>0, <1>1, RowType
  <2>2. CASE jobs[j].status = "PROCESSING"
    <3>1. jobs[j].attempts \in 1..MaxAttempts
      BY <1>0, <1>1, <2>2 DEF AttemptsBounded
    <3>2. jobs'[j] = [jobs[j] EXCEPT !.status = "PENDING", !.started = 0,
                        !.attempts = IF jobs[j].attempts > 0 THEN jobs[j].attempts - 1 ELSE 0]
      BY <1>0, <1>1, <2>2, Zenon DEF Recovered
    <3>3. jobs'[j].status = "PENDING" /\ jobs'[j].attempts = jobs[j].attempts - 1
      BY <2>1, <3>1, <3>2 DEF Row
    <3> QED
      BY <3>1, <3>3
  <2>3. CASE jobs[j].status # "PROCESSING"
    BY <1>0, <1>1, <2>3 DEF Recovered, AttemptsBounded
  <2> QED
    BY <2>2, <2>3
<1>5. SingleOwner' /\ ThreadsMatchRows'
  BY <1>3 DEF SingleOwner, ThreadsMatchRows
<1>6. AttemptsBounded' /\ ProcessingHasOwner'
  BY <1>4 DEF AttemptsBounded, ProcessingHasOwner, RowsIn
<1> QED
  BY <1>2, <1>5, <1>6 DEF QueueInv

-----------------------------------------------------------------------------
LEMMA WorkInv ==
  ASSUME QueueInv, NEW w \in Workers, Work(w)
  PROVE  QueueInv'
<1>1. {"INDEXED", "SKIPPED", "MISSING"} \subseteq FileStatuses
  BY DEF FileStatuses
<1>2. CASE ReadToComplete(w) \/ ReadToFail(w)
  BY <1>2, ReadCurrencyInv DEF ReadToComplete, ReadToFail, Busy
<1>3. CASE CompleteRead(w, "INDEXED")
  <2>1. Busy(w) /\ CompleteJob(w, worker[w].cur, "INDEXED")
    BY <1>3 DEF CompleteRead, Busy
  <2> QED
    BY <1>1, <2>1, CompleteJobInv
<1>4. ASSUME NEW final \in {"INDEXED", "SKIPPED", "MISSING"}, CompleteNow(w, final)
      PROVE  QueueInv'
  <2>1. Busy(w) /\ CompleteJob(w, IsCurrent(jobs, worker[w].job), final)
    BY <1>4 DEF CompleteNow, Busy
  <2> QED
    BY <1>1, <2>1, CompleteJobInv
<1>5. ASSUME NEW permanent \in BOOLEAN, FailJob(w, permanent)
      PROVE  QueueInv'
  BY <1>5, FailJobInv
<1>6. (IF Cleans(w) THEN {TRUE} ELSE BOOLEAN) \subseteq BOOLEAN
  OBVIOUS
<1>7. (IF Cleans(w) THEN {"MISSING"} ELSE {"INDEXED", "SKIPPED"})
        \subseteq {"INDEXED", "SKIPPED", "MISSING"}
  OBVIOUS
<1>8. \/ ReadToComplete(w) \/ ReadToFail(w) \/ CompleteRead(w, "INDEXED")
      \/ \E final \in {"INDEXED", "SKIPPED", "MISSING"} : CompleteNow(w, final)
      \/ \E permanent \in BOOLEAN : FailJob(w, permanent)
  BY <1>6, <1>7, Zenon DEF Work
<1> QED
  BY <1>2, <1>3, <1>4, <1>5, <1>8

(* Every step preserves the invariant. *)
LEMMA QueueInvStep == QueueInv /\ [Next]_vars => QueueInv'
<1> SUFFICES ASSUME QueueInv, [Next]_vars PROVE QueueInv'
  OBVIOUS
<1>1. CASE UNCHANGED vars
  BY <1>1 DEF vars, QueueInv, TypeOK, SingleOwner, AttemptsBounded, ThreadsMatchRows,
              ProcessingHasOwner, Busy, RowsIn, Held
<1>2. ASSUME NEW f \in Files, Produce(f) \/ RemoveFolder(f) \/ SetEnabled(f)
      PROVE  QueueInv'
  BY <1>2, DiscoverInv, RegisterInv, RenameInv, StatusOnlyInv, VanishWatchedInv,
     VanishScannedInv, RemoveFolderInv, SetEnabledInv DEF Produce
<1>3. ASSUME NEW w \in Workers, Seek(w) \/ Work(w) \/ Abandon(w)
      PROVE  QueueInv'
  BY <1>3, PollInv, ClaimInv, WorkInv, AbandonInv DEF Seek
<1>4. ASSUME NEW j \in JobIds, BackoffOver(j) PROVE QueueInv'
  BY <1>4, BackoffOverInv
<1>5. CASE Crash \/ Boot
  BY <1>5, CrashInv, BootInv
<1> QED
  BY <1>1, <1>2, <1>3, <1>4, <1>5 DEF Next

(* The invariant that carries the others: types, ownership of rows by threads, the attempt
   counter, and the agreement of a thread's memory with its row hold together. *)
THEOREM QueueInvariant == Spec => []QueueInv
BY InitInv, QueueInvStep, PTL DEF Spec

(* Type correctness for every set of files, ids and threads. *)
THEOREM TypeCorrect == Spec => []TypeOK
<1>1. QueueInv => TypeOK
  BY DEF QueueInv
<1> QED
  BY <1>1, QueueInvariant, PTL

(* A row is in the hands of one thread at a time and is not claimable while it is. *)
THEOREM JobsAreOwned == Spec => []SingleOwner
<1>1. QueueInv => SingleOwner
  BY DEF QueueInv
<1> QED
  BY <1>1, QueueInvariant, PTL

(* The retry limit holds for every MaxAttempts, whatever crashes and cancellations happen. *)
THEOREM RetriesAreBounded == Spec => []AttemptsBounded
<1>1. QueueInv => AttemptsBounded
  BY DEF QueueInv
<1> QED
  BY <1>1, QueueInvariant, PTL

(* No PROCESSING row is orphaned while the engine is up. *)
THEOREM NoOrphans == Spec => []ProcessingHasOwner
<1>1. QueueInv => ProcessingHasOwner
  BY DEF QueueInv
<1> QED
  BY <1>1, QueueInvariant, PTL

-----------------------------------------------------------------------------
(* Finished rows. *)

Keeps(js) == \A j \in RowsIn(jobs, Finished) : j \in DOMAIN js => js[j] = jobs[j]

LEMMA EnqueueKeeps ==
  ASSUME NEW js, Keeps(js), NEW f, NEW t, NEW p, Enqueue(js, f, t, p)
  PROVE  Keeps(jobs')
<1>1. CASE jobs' = js
  BY <1>1 DEF Keeps
<1>2. CASE jobs' # js
  <2>1. PICK row : FreshIds # {} /\ jobs' = Insert(js, CHOOSE id \in FreshIds : TRUE, row)
    BY <1>2 DEF Enqueue
  <2> DEFINE new == CHOOSE id \in FreshIds : TRUE
  <2>2. new \notin DOMAIN jobs
    BY <2>1 DEF FreshIds
  <2> HIDE DEF new
  <2>3. jobs' = Insert(js, new, row)
    BY <2>1 DEF new
  <2> QED
    BY <2>2, <2>3 DEF Keeps, Insert, RowsIn
<1> QED
  BY <1>1, <1>2

LEMMA CancelledKeeps ==
  ASSUME NEW f, NEW D
  PROVE  Keeps(Without(Cancelled(jobs, f), D))
BY DEF Keeps, Without, Cancelled, RowsIn, Live, Finished

LEMMA ProduceKeeps ==
  ASSUME NEW f \in Files, Produce(f) \/ RemoveFolder(f) \/ SetEnabled(f)
  PROVE  Keeps(jobs')
<1>0. Keeps(jobs)
  BY DEF Keeps
<1>1. ASSUME NEW src \in Sources, NEW changed \in BOOLEAN, Discover(f, src, changed)
      PROVE  Keeps(jobs')
  BY <1>0, <1>1, EnqueueKeeps DEF Discover
<1>2. CASE Register(f) \/ Rename(f)
  BY <1>0, <1>2, EnqueueKeeps DEF Register, Rename
<1>3. CASE Oversize(f) \/ ScanError(f) \/ SetEnabled(f)
  BY <1>3 DEF Oversize, ScanError, SetEnabled, Keeps
<1>4. CASE VanishWatched(f)
  <2>1. PICK D : \/ Enqueue(Without(Cancelled(jobs, f), D), f, "DELETE_CLEANUP", 1)
                 \/ jobs' = Without(Cancelled(jobs, f), D)
    BY <1>4 DEF VanishWatched
  <2> QED
    BY <2>1, CancelledKeeps, EnqueueKeeps
<1>5. CASE VanishScanned(f)
  <2>1. PICK D : Enqueue(Without(Cancelled(jobs, f), D), f, "DELETE_CLEANUP", 0)
    BY <1>5 DEF VanishScanned
  <2> QED
    BY <2>1, CancelledKeeps, EnqueueKeeps
<1>6. CASE RemoveFolder(f)
  BY <1>6 DEF RemoveFolder, Keeps, Without
<1> QED
  BY <1>1, <1>2, <1>3, <1>4, <1>5, <1>6 DEF Produce

(* The row a thread holds is not finished unless it was cancelled, and then it is not writable. *)
LEMMA CommitKeeps ==
  ASSUME QueueInv, NEW w \in Workers, Busy(w), NEW D, NEW js,
         DOMAIN js = DOMAIN jobs, jobs' = Without(js, D),
         \A j \in DOMAIN jobs : j # worker[w].job => js[j] = jobs[j],
         ~Writable(jobs, worker[w].job) => js = jobs
  PROVE  Keeps(jobs')
<1>1. CASE worker[w].job \in RowsIn(jobs, Finished)
  <2>1. jobs[worker[w].job].status = "CANCELLED"
    BY <1>1 DEF QueueInv, SingleOwner, RowsIn, Finished
  <2>2. js = jobs
    BY <2>1 DEF Writable
  <2> QED
    BY <2>2 DEF Keeps, Without
<1>2. CASE worker[w].job \notin RowsIn(jobs, Finished)
  BY <1>2 DEF Keeps, Without, RowsIn
<1> QED
  BY <1>1, <1>2

LEMMA CompleteJobKeeps ==
  ASSUME QueueInv, NEW w \in Workers, Busy(w), NEW cur, NEW final, CompleteJob(w, cur, final)
  PROVE  Keeps(jobs')
<1> DEFINE js == Completed(jobs, worker[w].job)
<1>1. PICK D : jobs' = Without(js, D)
  BY DEF CompleteJob
<1>2. IsTable(jobs)
  BY DEF QueueInv, TypeOK
<1>3. DOMAIN js = DOMAIN jobs
  BY <1>2, CompletedTable
<1>4. \A j \in DOMAIN jobs : j # worker[w].job => js[j] = jobs[j]
  BY DEF Completed
<1>5. ~Writable(jobs, worker[w].job) => js = jobs
  BY DEF Completed
<1> QED
  BY <1>1, <1>3, <1>4, <1>5, CommitKeeps

LEMMA FailJobKeeps ==
  ASSUME QueueInv, NEW w \in Workers, NEW permanent \in BOOLEAN, FailJob(w, permanent)
  PROVE  Keeps(jobs')
<1> DEFINE retry == Retries(w, permanent)
           js == Failed(jobs, worker[w].job, retry)
<1>1. PICK D : jobs' = Without(js, D)
  BY DEF FailJob
<1>2. IsTable(jobs) /\ Busy(w) /\ retry \in BOOLEAN
  BY DEF QueueInv, TypeOK, FailJob, Busy, Retries
<1>3. DOMAIN js = DOMAIN jobs
  BY <1>2, FailedTable
<1>4. \A j \in DOMAIN jobs : j # worker[w].job => js[j] = jobs[j]
  BY DEF Failed
<1>5. ~Writable(jobs, worker[w].job) => js = jobs
  BY DEF Failed
<1> QED
  BY <1>1, <1>2, <1>3, <1>4, <1>5, CommitKeeps

LEMMA WorkKeeps ==
  ASSUME QueueInv, NEW w \in Workers, Seek(w) \/ Work(w) \/ Abandon(w)
  PROVE  Keeps(jobs')
<1>1. CASE Claim(w)
  <2>1. PICK j \in NextClaims(jobs, enabled) : jobs' = Claimed(jobs, j, worker[w].now)
    BY <1>1 DEF Claim, ClaimRow
  <2>2. j \notin RowsIn(jobs, Finished)
    BY NextClaimsPending DEF RowsIn, Finished
  <2>3. \A i \in DOMAIN jobs : i # j => jobs'[i] = jobs[i]
    BY <2>1 DEF Claimed
  <2> QED
    BY <2>2, <2>3 DEF Keeps, RowsIn
<1>2. CASE Poll(w) \/ PollEmpty(w) \/ ReadToComplete(w) \/ ReadToFail(w) \/ Abandon(w)
  BY <1>2 DEF Poll, PollEmpty, ReadToComplete, ReadToFail, ReadCurrency, Abandon, Keeps
<1>3. CASE CompleteRead(w, "INDEXED")
  BY <1>3, CompleteJobKeeps DEF CompleteRead, Busy
<1>4. ASSUME NEW final, CompleteNow(w, final)
      PROVE  Keeps(jobs')
  BY <1>4, CompleteJobKeeps DEF CompleteNow, Busy
<1>5. ASSUME NEW permanent \in BOOLEAN, FailJob(w, permanent)
      PROVE  Keeps(jobs')
  BY <1>5, FailJobKeeps
<1>6. (IF Cleans(w) THEN {TRUE} ELSE BOOLEAN) \subseteq BOOLEAN
  OBVIOUS
<1>7. Work(w) => \/ ReadToComplete(w) \/ ReadToFail(w) \/ CompleteRead(w, "INDEXED")
                 \/ \E final : CompleteNow(w, final)
                 \/ \E permanent \in BOOLEAN : FailJob(w, permanent)
  BY <1>6, Zenon DEF Work
<1> QED
  BY <1>1, <1>2, <1>3, <1>4, <1>5, <1>7 DEF Seek

LEMMA FinishedStep == QueueInv /\ [Next]_vars => Keeps(jobs')
<1> SUFFICES ASSUME QueueInv, [Next]_vars PROVE Keeps(jobs')
  OBVIOUS
<1>1. CASE UNCHANGED vars \/ Crash
  BY <1>1 DEF vars, Crash, Keeps
<1>2. ASSUME NEW j \in JobIds, BackoffOver(j) PROVE Keeps(jobs')
  BY <1>2 DEF BackoffOver, Keeps, RowsIn, Finished
<1>3. CASE Boot
  BY <1>3 DEF Boot, Keeps, Recovered, RowsIn, Finished
<1> QED
  BY <1>1, <1>2, <1>3, ProduceKeeps, WorkKeeps DEF Next

(* A finished row never changes again, whichever thread still holds it. *)
THEOREM FinishedRowsAreFinal == Spec => FinishedIsFinal
<1>1. QueueInv /\ [Next]_vars =>
        [\A j \in RowsIn(jobs, Finished) : j \in DOMAIN jobs' => jobs'[j] = jobs[j]]_vars
  BY FinishedStep DEF Keeps
<1> QED
  BY <1>1, QueueInvariant, PTL DEF Spec, FinishedIsFinal

-----------------------------------------------------------------------------
(* Deleted files. *)

Spares == \A f \in Files : status[f] = "MISSING" => status'[f] = "MISSING"

LEMMA CompleteJobSpares ==
  ASSUME TypeOK, NEW w, NEW cur, NEW final, CompleteJob(w, cur, final)
  PROVE  Spares
BY DEF CompleteJob, Spares, Marked, TypeOK

LEMMA WorkSpares ==
  ASSUME TypeOK, NEW w \in Workers, Seek(w) \/ Work(w) \/ Abandon(w)
  PROVE  Spares
<1>1. CASE Claim(w)
  <2>1. PICK g : status' \in {status, Marked(g, "PROCESSING")}
    BY <1>1 DEF Claim, ClaimRow
  <2> QED
    BY <2>1 DEF Spares, Marked, TypeOK
<1>2. CASE Poll(w) \/ PollEmpty(w) \/ ReadToComplete(w) \/ ReadToFail(w) \/ Abandon(w)
  BY <1>2 DEF Poll, PollEmpty, ReadToComplete, ReadToFail, ReadCurrency, Abandon, Spares
<1>3. CASE CompleteRead(w, "INDEXED") \/ \E final : CompleteNow(w, final)
  BY <1>3, CompleteJobSpares DEF CompleteRead, CompleteNow
<1>4. ASSUME NEW permanent, FailJob(w, permanent)
      PROVE  Spares
  BY <1>4 DEF FailJob, Spares, Marked, TypeOK
<1>5. Work(w) => \/ ReadToComplete(w) \/ ReadToFail(w) \/ CompleteRead(w, "INDEXED")
                 \/ \E final : CompleteNow(w, final)
                 \/ \E permanent : FailJob(w, permanent)
  BY Zenon DEF Work
<1> QED
  BY <1>1, <1>2, <1>3, <1>4, <1>5 DEF Seek

LEMMA MissingStep ==
  ASSUME TypeOK, [Next]_vars,
         NEW f \in Files, status[f] = "MISSING", status'[f] # "MISSING"
  PROVE  UNCHANGED worker
<1>1. CASE UNCHANGED vars \/ Crash \/ Boot \/ \E j \in JobIds : BackoffOver(j)
  BY <1>1 DEF vars, Crash, Boot, BackoffOver, TypeOK
<1>2. ASSUME NEW g \in Files, Produce(g) \/ RemoveFolder(g) \/ SetEnabled(g)
      PROVE  UNCHANGED worker
  BY <1>2 DEF Produce, Discover, Register, Rename, Oversize, ScanError, VanishWatched,
              VanishScanned, RemoveFolder, SetEnabled
<1>3. ASSUME NEW w \in Workers, Seek(w) \/ Work(w) \/ Abandon(w)
      PROVE  UNCHANGED worker
  BY <1>3, WorkSpares DEF Spares
<1> QED
  BY <1>1, <1>2, <1>3 DEF Next

(* No thread's step brings a deleted file back. *)
THEOREM ThreadsSpareDeletedFiles == Spec => WorkersSpareMissing
<1>1. TypeOK /\ [Next]_vars =>
        [\A f \in Files : status[f] = "MISSING" /\ status'[f] # "MISSING"
                           => UNCHANGED worker]_vars
  BY MissingStep
<1> QED
  BY <1>1, TypeCorrect, PTL DEF Spec, WorkersSpareMissing

-----------------------------------------------------------------------------
(* What a step leaves of the rows *)

(* A row after a step, next to what it was: it keeps its file and its type, and does not become
   PROCESSING. *)
RowKept(old, new) ==
  /\ new.file = old.file /\ new.type = old.type
  /\ new.status = "PROCESSING" => old.status = "PROCESSING" /\ new.started = old.started

(* Each row of js is one of the table's, kept, or was inserted under an id no thread holds. *)
Carries(js) ==
  \A j \in DOMAIN js :
    \/ j \in DOMAIN jobs /\ RowKept(jobs[j], js[j])
    \/ j \notin Held /\ js[j].status = "PENDING"

(* The file's waiting rows go on waiting. *)
Waits(js, f) ==
  \A j \in RowsOf(jobs, f) : jobs[j].status = "PENDING" =>
    /\ j \in DOMAIN js /\ js[j].status = "PENDING"
    /\ js[j].file = f /\ js[j].type = jobs[j].type

LEMMA WaitsAwaited ==
  ASSUME NEW js, NEW f, Waits(js, f), Awaited(jobs, f)
  PROVE  Awaited(js, f)
BY DEF Waits, Awaited, RowsOf

LEMMA SameRows == Carries(jobs) /\ \A f : Waits(jobs, f)
BY DEF Carries, RowKept, Waits, RowsOf

(* enqueue_job after a transaction that turned the table into js: the file's job of that type
   is waiting now, whether it was inserted or found. *)
LEMMA EnqueueCarries ==
  ASSUME NEW js, Carries(js), DOMAIN js \subseteq DOMAIN jobs, NEW f, NEW t, NEW p,
         Enqueue(js, f, t, p)
  PROVE  /\ Carries(jobs')
         /\ \A g : Waits(js, g) => Waits(jobs', g)
         /\ t # "DELETE_CLEANUP" => Awaited(jobs', f)
<1>1. CASE Duplicates(js, f, t) # {} /\ jobs' = js
  BY <1>1 DEF Duplicates, Awaited, RowsOf
<1>2. CASE Duplicates(js, f, t) = {} /\ jobs' # js
  <2>1. PICK stamp \in StampsAfter({js[j].created : j \in DOMAIN js}) :
          /\ FreshIds # {}
          /\ jobs' = Insert(js, CHOOSE id \in FreshIds : TRUE, NewRow(f, t, p, stamp))
    BY <1>2 DEF Enqueue
  <2> DEFINE new == CHOOSE id \in FreshIds : TRUE
             row == NewRow(f, t, p, stamp)
  <2>2. new \notin DOMAIN jobs /\ new \notin Held
    BY <2>1 DEF FreshIds
  <2>3. row.status = "PENDING" /\ row.file = f /\ row.type = t
    BY DEF NewRow
  <2>4. jobs' = Insert(js, new, row)
    BY <2>1
  <2> HIDE DEF new, row
  <2>5. /\ DOMAIN jobs' = DOMAIN js \cup {new} /\ jobs'[new] = row
        /\ \A j \in DOMAIN js : jobs'[j] = js[j]
    BY <2>2, <2>4 DEF Insert
  <2>6. Carries(jobs')
    BY <2>2, <2>3, <2>5 DEF Carries
  <2>7. \A g : Waits(js, g) => Waits(jobs', g)
    BY <2>5 DEF Waits
  <2>8. Awaited(jobs', f)  \/ t = "DELETE_CLEANUP"
    BY <2>3, <2>5 DEF Awaited, RowsOf
  <2> QED
    BY <2>6, <2>7, <2>8
<1>3. CASE Duplicates(js, f, t) = {} /\ jobs' = js
  <2>1. PICK stamp \in StampsAfter({js[j].created : j \in DOMAIN js}) :
          /\ FreshIds # {}
          /\ jobs' = Insert(js, CHOOSE id \in FreshIds : TRUE, NewRow(f, t, p, stamp))
    BY <1>3 DEF Enqueue
  <2> DEFINE new == CHOOSE id \in FreshIds : TRUE
  <2>2. new \notin DOMAIN jobs
    BY <2>1 DEF FreshIds
  <2>3. new \in DOMAIN jobs'
    BY <2>1 DEF Insert
  <2> QED
    BY <1>3, <2>2, <2>3
<1> QED
  BY <1>1, <1>2, <1>3 DEF Enqueue

LEMMA CancelledCarries ==
  ASSUME NEW f, NEW D, IsTable(jobs), D \subseteq RowsIn(Cancelled(jobs, f), Finished)
  PROVE  LET js == Without(Cancelled(jobs, f), D)
         IN  /\ Carries(js) /\ DOMAIN js \subseteq DOMAIN jobs
             /\ \A g : g # f => Waits(js, g)
<1> DEFINE cs == Cancelled(jobs, f)
           js == Without(cs, D)
<1>1. DOMAIN cs = DOMAIN jobs /\ DOMAIN js = DOMAIN jobs \ D /\ \A j \in DOMAIN js : js[j] = cs[j]
  BY DEF Cancelled, Without
<1>2. ASSUME NEW j \in DOMAIN jobs
      PROVE  /\ cs[j].file = jobs[j].file /\ cs[j].type = jobs[j].type
             /\ cs[j].started = jobs[j].started
             /\ cs[j].status \in {jobs[j].status, "CANCELLED"}
             /\ jobs[j].file # f => cs[j] = jobs[j]
  BY <1>2, RowType DEF Cancelled, Row
<1>0. \A j \in D : cs[j].status # "PENDING"
  BY DEF RowsIn, Finished
<1> HIDE DEF cs
<1>3. Carries(js)
  BY <1>1, <1>2 DEF Carries, RowKept
<1>4. \A g : g # f => Waits(js, g)
  BY <1>0, <1>1, <1>2 DEF Waits, RowsOf
<1> QED
  BY <1>1, <1>3, <1>4 DEF cs

(* Producers and the folder routes.  A file that is queued by such a step has its job. *)
LEMMA ProduceCarries ==
  ASSUME TypeOK, NEW f \in Files, Produce(f) \/ RemoveFolder(f) \/ SetEnabled(f)
  PROVE  /\ Carries(jobs')
         /\ \A g : g # f => Waits(jobs', g)
         /\ \A g \in Files : g # f => status'[g] = status[g]
         /\ status'[f] = "QUEUED" => Awaited(jobs', f) \/ (status[f] = "QUEUED" /\ Waits(jobs', f))
<1>0. IsTable(jobs) /\ status \in [Files -> FileStatuses]
  BY DEF TypeOK
<1>1. ASSUME NEW src \in Sources, NEW changed \in BOOLEAN, Discover(f, src, changed)
      PROVE  Carries(jobs') /\ (\A g : Waits(jobs', g)) /\ Awaited(jobs', f)
             /\ \A g \in Files : g # f => status'[g] = status[g]
  <2>1. Enqueue(jobs, f, src[1], src[2]) /\ src[1] # "DELETE_CLEANUP"
    BY <1>1 DEF Discover, Sources
  <2>2. Carries(jobs') /\ (\A g : Waits(jobs', g)) /\ Awaited(jobs', f)
    BY <2>1, SameRows, EnqueueCarries
  <2> QED
    BY <1>0, <1>1, <2>2 DEF Discover
<1>2. CASE Register(f) \/ Rename(f)
  <2>1. \E t \in {"METADATA_DISCOVERY", "HASH_VERIFICATION"}, p \in {2, 5} : Enqueue(jobs, f, t, p)
    BY <1>2 DEF Register, Rename
  <2>2. Carries(jobs') /\ (\A g : Waits(jobs', g)) /\ Awaited(jobs', f)
    BY <2>1, SameRows, EnqueueCarries
  <2> QED
    BY <1>0, <1>2, <2>2 DEF Register, Rename
<1>3. CASE Oversize(f) \/ ScanError(f) \/ SetEnabled(f)
  BY <1>0, <1>3, SameRows DEF Oversize, ScanError, SetEnabled
<1>4. CASE VanishWatched(f) \/ VanishScanned(f)
  <2>1. PICK D \in IF LiveRowsOf(jobs, f) = {} THEN {{}} ELSE Prunable(Cancelled(jobs, f)) :
          \/ \E p : Enqueue(Without(Cancelled(jobs, f), D), f, "DELETE_CLEANUP", p)
          \/ jobs' = Without(Cancelled(jobs, f), D)
    BY <1>4 DEF VanishWatched, VanishScanned
  <2> DEFINE js == Without(Cancelled(jobs, f), D)
  <2>2. D \subseteq RowsIn(Cancelled(jobs, f), Finished)
    BY PrunableFinished
  <2>3. Carries(js) /\ DOMAIN js \subseteq DOMAIN jobs /\ \A g : g # f => Waits(js, g)
    BY <1>0, <2>2, CancelledCarries
  <2>4. \/ \E p : Enqueue(js, f, "DELETE_CLEANUP", p)
        \/ jobs' = js
    BY <2>1
  <2> HIDE DEF js
  <2>5. Carries(jobs') /\ \A g : g # f => Waits(jobs', g)
    BY <2>3, <2>4, EnqueueCarries
  <2>6. status' = [status EXCEPT ![f] = "MISSING"]
    BY <1>4 DEF VanishWatched, VanishScanned
  <2> QED
    BY <1>0, <2>5, <2>6
<1>5. CASE RemoveFolder(f)
  <2>1. /\ DOMAIN jobs' = DOMAIN jobs \ RowsOf(jobs, f) /\ \A j \in DOMAIN jobs' : jobs'[j] = jobs[j]
        /\ status' = [status EXCEPT ![f] = "ABSENT"]
    BY <1>5 DEF RemoveFolder, Without
  <2> QED
    BY <1>0, <2>1 DEF Carries, RowKept, Waits, RowsOf
<1> QED
  BY <1>1, <1>2, <1>3, <1>4, <1>5 DEF Produce

(* A thread lets go of its row: the waiting ones are not its own, nor finished. *)
LEMMA CommitCarries ==
  ASSUME QueueInv, NEW w \in Workers, Busy(w), NEW D, NEW js, DOMAIN js = DOMAIN jobs,
         jobs' = Without(js, D), D \subseteq RowsIn(js, Finished),
         \A j \in DOMAIN jobs : j # worker[w].job => js[j] = jobs[j],
         worker[w].job \in DOMAIN jobs =>
           /\ js[worker[w].job].file = jobs[worker[w].job].file
           /\ js[worker[w].job].type = jobs[worker[w].job].type
           /\ js[worker[w].job].status # "PROCESSING"
  PROVE  Carries(jobs') /\ \A f : Waits(jobs', f)
<1>1. DOMAIN jobs' = DOMAIN jobs \ D /\ \A j \in DOMAIN jobs' : jobs'[j] = js[j]
  BY DEF Without
<1>2. Carries(jobs')
  BY <1>1 DEF Carries, RowKept
<1>3. ASSUME NEW j \in DOMAIN jobs, jobs[j].status = "PENDING"
      PROVE  j # worker[w].job /\ j \notin D
  <2>1. j # worker[w].job
    BY <1>3 DEF QueueInv, SingleOwner
  <2> QED
    BY <1>3, <2>1 DEF RowsIn, Finished
<1>4. \A f : Waits(jobs', f)
  BY <1>1, <1>3 DEF Waits, RowsOf
<1> QED
  BY <1>2, <1>4

LEMMA CompleteJobCarries ==
  ASSUME QueueInv, NEW w \in Workers, Busy(w), NEW cur, NEW final, CompleteJob(w, cur, final)
  PROVE  Carries(jobs') /\ \A f : Waits(jobs', f)
<1> DEFINE j == worker[w].job
           js == Completed(jobs, j)
<1>1. PICK D \in IF Writable(jobs, j) THEN Prunable(js) ELSE {{}} : jobs' = Without(js, D)
  BY DEF CompleteJob
<1>2. IsTable(jobs) /\ DOMAIN js = DOMAIN jobs
  BY CompletedTable DEF QueueInv, TypeOK
<1>3. D \subseteq RowsIn(js, Finished)
  BY <1>1, PrunableFinished
<1>4. \A i \in DOMAIN jobs : i # j => js[i] = jobs[i]
  BY DEF Completed
<1>5. j \in DOMAIN jobs => /\ js[j].file = jobs[j].file /\ js[j].type = jobs[j].type
                           /\ js[j].status # "PROCESSING"
  <2> SUFFICES ASSUME j \in DOMAIN jobs
               PROVE  /\ js[j].file = jobs[j].file /\ js[j].type = jobs[j].type
                      /\ js[j].status # "PROCESSING"
    OBVIOUS
  <2>1. jobs[j] \in Row
    BY <1>2, RowType
  <2>2. CASE Writable(jobs, j)
    BY <1>2, <2>1, <2>2 DEF Completed, Row, IsTable
  <2>3. CASE ~Writable(jobs, j)
    BY <2>3 DEF Completed, Writable
  <2> QED
    BY <2>2, <2>3
<1> HIDE DEF js
<1> QED
  BY <1>1, <1>2, <1>3, <1>4, <1>5, CommitCarries

(* Besides, a job that is to be tried again waits. *)
LEMMA FailJobCarries ==
  ASSUME QueueInv, NEW w \in Workers, NEW permanent \in BOOLEAN, FailJob(w, permanent)
  PROVE  /\ Carries(jobs') /\ \A f : Waits(jobs', f)
         /\ Writable(jobs, worker[w].job) /\ Retries(w, permanent) =>
              /\ worker[w].job \in DOMAIN jobs' /\ jobs'[worker[w].job].status = "PENDING"
              /\ jobs'[worker[w].job].file = jobs[worker[w].job].file
              /\ jobs'[worker[w].job].type = jobs[worker[w].job].type
<1> DEFINE j == worker[w].job
           retry == Retries(w, permanent)
           js == Failed(jobs, j, retry)
<1>1. PICK D \in IF Writable(jobs, j) /\ ~retry THEN Prunable(js) ELSE {{}} : jobs' = Without(js, D)
  BY DEF FailJob
<1>2. IsTable(jobs) /\ retry \in BOOLEAN /\ Busy(w)
  BY DEF QueueInv, TypeOK, Retries, FailJob, Busy
<1>3. DOMAIN js = DOMAIN jobs
  BY <1>2, FailedTable
<1>4. D \subseteq RowsIn(js, Finished)
  BY <1>1, PrunableFinished
<1>5. \A i \in DOMAIN jobs : i # j => js[i] = jobs[i]
  BY DEF Failed
<1>6. j \in DOMAIN jobs => /\ js[j].file = jobs[j].file /\ js[j].type = jobs[j].type
                           /\ js[j].status # "PROCESSING"
                           /\ Writable(jobs, j) /\ retry => js[j].status = "PENDING"
  <2> SUFFICES ASSUME j \in DOMAIN jobs
               PROVE  /\ js[j].file = jobs[j].file /\ js[j].type = jobs[j].type
                      /\ js[j].status # "PROCESSING"
                      /\ Writable(jobs, j) /\ retry => js[j].status = "PENDING"
    OBVIOUS
  <2>1. jobs[j] \in Row
    BY <1>2, RowType
  <2>2. CASE Writable(jobs, j)
    BY <1>2, <2>1, <2>2 DEF Failed, Row, IsTable
  <2>3. CASE ~Writable(jobs, j)
    BY <2>3 DEF Failed, Writable
  <2> QED
    BY <2>2, <2>3
<1>7. Writable(jobs, j) /\ retry => D = {} /\ j \in DOMAIN jobs
  BY <1>1 DEF Writable
<1> HIDE DEF js, retry
<1>8. Carries(jobs') /\ \A f : Waits(jobs', f)
  BY <1>1, <1>2, <1>3, <1>4, <1>5, <1>6, CommitCarries
<1>9. Writable(jobs, j) /\ retry =>
        /\ j \in DOMAIN jobs' /\ jobs'[j].status = "PENDING"
        /\ jobs'[j].file = jobs[j].file /\ jobs'[j].type = jobs[j].type
  BY <1>1, <1>3, <1>6, <1>7 DEF Without
<1> QED
  BY <1>8, <1>9 DEF retry

(* A claim changes the one row, which keeps its file and its type. *)
LEMMA ClaimedRow ==
  ASSUME QueueInv, NEW w \in Workers, Claim(w)
  PROVE  \E j \in DOMAIN jobs :
           /\ DOMAIN jobs' = DOMAIN jobs /\ \A i \in DOMAIN jobs : i # j => jobs'[i] = jobs[i]
           /\ jobs[j].status = "PENDING" /\ jobs'[j].status = "PROCESSING"
           /\ jobs'[j].file = jobs[j].file /\ jobs'[j].type = jobs[j].type
           /\ jobs'[j].started = worker[w].now /\ worker[w].now # 0
           /\ \A x \in Workers : x # w => worker'[x] = worker[x]
           /\ worker'[w].job = j /\ worker'[w].now = 0
           /\ worker'[w].file = jobs[j].file /\ worker'[w].type = jobs[j].type
           /\ status' = IF jobs[j].type = "DELETE_CLEANUP" THEN status
                        ELSE Marked(jobs[j].file, "PROCESSING")
<1>1. PICK j \in NextClaims(jobs, enabled) : ClaimRow(w, j)
  BY DEF Claim
<1>2. j \in DOMAIN jobs /\ jobs[j].status = "PENDING" /\ jobs[j] \in Row
  BY NextClaimsPending, RowType DEF QueueInv, TypeOK
<1>3. jobs' = Claimed(jobs, j, worker[w].now) /\ worker[w].now # 0
  BY <1>1 DEF ClaimRow
<1>4. worker' = [worker EXCEPT ![w] =
                   [stage |-> "running", job |-> j, type |-> jobs[j].type, file |-> jobs[j].file,
                    tries |-> jobs[j].attempts + 1, cur |-> FALSE, now |-> 0]]
  BY <1>1 DEF ClaimRow
<1>5. status' = IF jobs[j].type = "DELETE_CLEANUP" THEN status ELSE Marked(jobs[j].file, "PROCESSING")
  BY <1>1 DEF ClaimRow
<1>6. /\ DOMAIN jobs' = DOMAIN jobs /\ \A i \in DOMAIN jobs : i # j => jobs'[i] = jobs[i]
      /\ jobs'[j].status = "PROCESSING" /\ jobs'[j].started = worker[w].now
      /\ jobs'[j].file = jobs[j].file /\ jobs'[j].type = jobs[j].type
  BY <1>2, <1>3 DEF Claimed, Row
<1>7. worker \in [Workers -> Thread]
  BY DEF QueueInv, TypeOK
<1> QED
  BY <1>2, <1>3, <1>4, <1>5, <1>6, <1>7

LEMMA RecoveredCarries ==
  ASSUME QueueInv, Boot
  PROVE  /\ Carries(jobs') /\ \A f : Waits(jobs', f)
         /\ \A j \in DOMAIN jobs : jobs[j].status = "PROCESSING" =>
              /\ j \in DOMAIN jobs' /\ jobs'[j].status = "PENDING"
              /\ jobs'[j].file = jobs[j].file /\ jobs'[j].type = jobs[j].type
<1>1. IsTable(jobs) /\ jobs' = Recovered(jobs)
  BY DEF QueueInv, TypeOK, Boot
<1>2. ASSUME NEW j \in DOMAIN jobs
      PROVE  /\ jobs'[j].file = jobs[j].file /\ jobs'[j].type = jobs[j].type
             /\ jobs[j].status = "PROCESSING" => jobs'[j].status = "PENDING"
             /\ jobs[j].status # "PROCESSING" => jobs'[j] = jobs[j]
  <2>1. jobs[j] \in Row
    BY <1>1, RowType
  <2>2. CASE jobs[j].status = "PROCESSING"
    <3>1. jobs'[j] = [jobs[j] EXCEPT !.status = "PENDING", !.started = 0,
                        !.attempts = IF jobs[j].attempts > 0 THEN jobs[j].attempts - 1 ELSE 0]
      BY <1>1, <2>2, Zenon DEF Recovered
    <3> QED
      BY <2>1, <2>2, <3>1 DEF Row
  <2>3. CASE jobs[j].status # "PROCESSING"
    BY <1>1, <2>3 DEF Recovered
  <2> QED
    BY <2>2, <2>3
<1>3. DOMAIN jobs' = DOMAIN jobs
  BY <1>1, RecoveredTable
<1> QED
  BY <1>2, <1>3 DEF Carries, RowKept, Waits, RowsOf

LEMMA BackoffCarries ==
  ASSUME TypeOK, NEW i \in JobIds, BackoffOver(i)
  PROVE  Carries(jobs') /\ \A f : Waits(jobs', f)
<1>1. i \in DOMAIN jobs /\ jobs' = [jobs EXCEPT ![i].backoff = FALSE]
  BY DEF BackoffOver, RowsIn
<1>2. jobs[i] \in Row
  BY <1>1, RowType DEF TypeOK
<1>3. /\ DOMAIN jobs' = DOMAIN jobs
      /\ \A j \in DOMAIN jobs : /\ jobs'[j].file = jobs[j].file /\ jobs'[j].type = jobs[j].type
                                /\ jobs'[j].status = jobs[j].status
                                /\ jobs'[j].started = jobs[j].started
  BY <1>1, <1>2 DEF Row
<1> QED
  BY <1>3 DEF Carries, RowKept, Waits, RowsOf

(* What a step leaves of the threads: no other claims a row, or takes a stamp. *)
ThreadsKept ==
  \A x \in Workers :
    /\ Busy(x)' => /\ Busy(x) /\ worker'[x].job = worker[x].job
                   /\ worker'[x].type = worker[x].type /\ worker'[x].file = worker[x].file
    /\ worker'[x].now \in {worker[x].now, 0}

LEMMA WorkCarries ==
  ASSUME QueueInv, NEW w \in Workers, Work(w)
  PROVE  Carries(jobs') /\ (\A f : Waits(jobs', f)) /\ ThreadsKept
<1>0. worker \in [Workers -> Thread]
  BY DEF QueueInv, TypeOK
<1>1. ASSUME NEW stage, stage # "idle", Busy(w), ReadCurrency(w, stage)
      PROVE  Carries(jobs') /\ (\A f : Waits(jobs', f)) /\ ThreadsKept
  <2> DEFINE cur == IsCurrent(jobs, worker[w].job)
  <2>1. worker' = [worker EXCEPT ![w].stage = stage, ![w].cur = cur]
    BY <1>1 DEF ReadCurrency
  <2> HIDE DEF cur
  <2>2. \A x \in Workers : /\ worker'[x].job = worker[x].job /\ worker'[x].now = worker[x].now
                           /\ worker'[x].type = worker[x].type /\ worker'[x].file = worker[x].file
                           /\ x # w => worker'[x] = worker[x]
    BY <1>0, <2>1
  <2>3. UNCHANGED jobs
    BY <1>1 DEF ReadCurrency
  <2> QED
    BY <1>1, <2>2, <2>3, SameRows DEF ThreadsKept, Busy
<1>2. ASSUME worker' = [worker EXCEPT ![w] = Idle]
      PROVE  ThreadsKept
  BY <1>0, <1>2 DEF ThreadsKept, Busy, Idle
<1>3. CASE ReadToComplete(w) \/ ReadToFail(w)
  BY <1>1, <1>3 DEF ReadToComplete, ReadToFail, Busy
<1>4. ASSUME NEW cur, NEW final, Busy(w), CompleteJob(w, cur, final)
      PROVE  Carries(jobs') /\ (\A f : Waits(jobs', f)) /\ ThreadsKept
  BY <1>2, <1>4, CompleteJobCarries DEF CompleteJob
<1>5. CASE CompleteRead(w, "INDEXED")
  BY <1>4, <1>5 DEF CompleteRead, Busy
<1>6. ASSUME NEW final, CompleteNow(w, final)
      PROVE  Carries(jobs') /\ (\A f : Waits(jobs', f)) /\ ThreadsKept
  BY <1>4, <1>6 DEF CompleteNow, Busy
<1>7. ASSUME NEW permanent \in BOOLEAN, FailJob(w, permanent)
      PROVE  Carries(jobs') /\ (\A f : Waits(jobs', f)) /\ ThreadsKept
  BY <1>2, <1>7, FailJobCarries DEF FailJob
<1>8. (IF Cleans(w) THEN {TRUE} ELSE BOOLEAN) \subseteq BOOLEAN
  OBVIOUS
<1> QED
  BY <1>3, <1>5, <1>6, <1>7, <1>8 DEF Work

(* Every step but a claim and the taking of a stamp. *)
LEMMA StepCarries ==
  ASSUME QueueInv, [Next]_vars, \A w \in Workers : ~Claim(w) /\ ~Poll(w)
  PROVE  Carries(jobs') /\ ThreadsKept
<1>0. worker \in [Workers -> Thread] /\ TypeOK
  BY DEF QueueInv, TypeOK
<1>1. UNCHANGED worker => ThreadsKept
  BY DEF ThreadsKept, Busy
<1>2. CASE UNCHANGED vars
  BY <1>1, <1>2, SameRows DEF vars
<1>3. ASSUME NEW f \in Files, Produce(f) \/ RemoveFolder(f) \/ SetEnabled(f)
      PROVE  Carries(jobs') /\ ThreadsKept
  <2>1. UNCHANGED worker
    BY <1>3 DEF Produce, Discover, Register, Rename, Oversize, ScanError, VanishWatched,
                VanishScanned, RemoveFolder, SetEnabled
  <2> QED
    BY <1>0, <1>1, <1>3, <2>1, ProduceCarries
<1>4. ASSUME NEW w \in Workers, Seek(w) \/ Work(w) \/ Abandon(w)
      PROVE  Carries(jobs') /\ ThreadsKept
  <2>1. CASE PollEmpty(w)
    BY <1>0, <2>1, SameRows DEF PollEmpty, ThreadsKept, Busy
  <2>2. CASE Abandon(w)
    BY <1>0, <2>2, SameRows DEF Abandon, ThreadsKept, Busy, Idle
  <2> QED
    BY <1>4, <2>1, <2>2, WorkCarries DEF Seek
<1>5. ASSUME NEW j \in JobIds, BackoffOver(j) PROVE Carries(jobs') /\ ThreadsKept
  BY <1>0, <1>1, <1>5, BackoffCarries DEF BackoffOver
<1>6. CASE Crash
  BY <1>0, <1>6, SameRows DEF Crash, ThreadsKept, Busy, Idle
<1>7. CASE Boot
  BY <1>1, <1>7, RecoveredCarries DEF Boot
<1> QED
  BY <1>2, <1>3, <1>4, <1>5, <1>6, <1>7 DEF Next

-----------------------------------------------------------------------------
(* Queued files *)

(* A thread goes on knowing the type and the file of its row. *)
Remembered ==
  \A w \in Workers : Busy(w) /\ worker[w].job \in DOMAIN jobs =>
    jobs[worker[w].job].file = worker[w].file /\ jobs[worker[w].job].type = worker[w].type

LEMMA RememberedStep == QueueInv /\ Remembered /\ [Next]_vars => Remembered'
<1> SUFFICES ASSUME QueueInv, Remembered, [Next]_vars PROVE Remembered'
  OBVIOUS
<1>0. /\ worker \in [Workers -> Thread]
      /\ \A x \in Workers : Busy(x) => worker[x].job \in JobIds /\ worker[x].job \in Held
  <2>1. \A x \in Workers : Busy(x) => worker[x].job \in JobIds
    BY DEF QueueInv, ThreadsMatchRows
  <2> QED
    BY <2>1, JobQueueAssumption DEF QueueInv, TypeOK, Held
<1>1. CASE \A w \in Workers : ~Claim(w) /\ ~Poll(w)
  <2>1. Carries(jobs') /\ ThreadsKept
    BY <1>1, StepCarries
  <2> SUFFICES ASSUME NEW x \in Workers, Busy(x)', worker'[x].job \in DOMAIN jobs'
               PROVE  /\ jobs'[worker'[x].job].file = worker'[x].file
                      /\ jobs'[worker'[x].job].type = worker'[x].type
    BY DEF Remembered
  <2>2. /\ Busy(x) /\ worker'[x].job = worker[x].job
        /\ worker'[x].type = worker[x].type /\ worker'[x].file = worker[x].file
    BY <2>1 DEF ThreadsKept
  <2>3. worker[x].job \in DOMAIN jobs /\ RowKept(jobs[worker[x].job], jobs'[worker[x].job])
    BY <1>0, <2>1, <2>2 DEF Carries
  <2> QED
    BY <2>2, <2>3 DEF Remembered, RowKept
<1>2. ASSUME NEW w \in Workers, Claim(w) PROVE Remembered'
  <2>1. PICK j \in DOMAIN jobs :
           /\ DOMAIN jobs' = DOMAIN jobs /\ \A i \in DOMAIN jobs : i # j => jobs'[i] = jobs[i]
           /\ jobs'[j].file = jobs[j].file /\ jobs'[j].type = jobs[j].type
           /\ \A x \in Workers : x # w => worker'[x] = worker[x]
           /\ worker'[w].job = j
           /\ worker'[w].file = jobs[j].file /\ worker'[w].type = jobs[j].type
    BY <1>2, ClaimedRow
  <2> QED
    BY <2>1 DEF Remembered, Busy
<1>3. ASSUME NEW w \in Workers, Poll(w) PROVE Remembered'
  <2>1. PICK stamp : worker' = [worker EXCEPT ![w].now = stamp]
    BY <1>3 DEF Poll
  <2>2. \A x \in Workers : /\ worker'[x].job = worker[x].job /\ worker'[x].stage = worker[x].stage
                           /\ worker'[x].type = worker[x].type /\ worker'[x].file = worker[x].file
    BY <1>0, <2>1
  <2>3. UNCHANGED jobs
    BY <1>3 DEF Poll
  <2> QED
    BY <2>2, <2>3 DEF Remembered, Busy
<1> QED
  BY <1>1, <1>2, <1>3

LEMMA ThreadsRemember == Spec => []Remembered
<1>1. Init => Remembered
  BY DEF Init, Remembered, Busy, Idle
<1> QED
  BY <1>1, RememberedStep, QueueInvariant, PTL DEF Spec

(* The step relation of QueuedIsAwaited, for one file. *)
StaysAwaited(f) ==
  status'[f] = "QUEUED" /\ ~Awaited(jobs', f) =>
    \/ status[f] = "QUEUED" /\ ~Awaited(jobs, f)
    \/ /\ up # up'
       /\ \E j \in RowsOf(jobs, f) :
            jobs[j].status = "PROCESSING" /\ jobs[j].type = "DELETE_CLEANUP"

(* Where the rows go on waiting, only a file that was not queued matters. *)
LEMMA WaitingStays ==
  ASSUME NEW f, Waits(jobs', f),
         status'[f] = "QUEUED" => status[f] = "QUEUED" \/ Awaited(jobs', f)
  PROVE  StaysAwaited(f)
<1>1. Awaited(jobs, f) => Awaited(jobs', f)
  BY WaitsAwaited
<1> QED
  BY <1>1 DEF StaysAwaited

LEMMA MarkedElse ==
  ASSUME TypeOK, NEW g, NEW s, NEW f \in Files
  PROVE  Marked(g, s)[f] = status[f] \/ (g = f /\ Marked(g, s)[f] = s)
BY DEF Marked, TypeOK

LEMMA WorkAwaited ==
  ASSUME QueueInv, Remembered, NEW w \in Workers, Work(w), NEW f \in Files
  PROVE  StaysAwaited(f)
<1>0. TypeOK /\ Waits(jobs', f)
  BY WorkCarries DEF QueueInv
<1>1. CASE ReadToComplete(w) \/ ReadToFail(w)
  BY <1>0, <1>1, WaitingStays DEF ReadToComplete, ReadToFail, ReadCurrency
<1>2. ASSUME NEW cur, NEW final \in {"INDEXED", "SKIPPED", "MISSING"}, CompleteJob(w, cur, final)
      PROVE  StaysAwaited(f)
  BY <1>0, <1>2, MarkedElse, WaitingStays DEF CompleteJob
<1>3. CASE CompleteRead(w, "INDEXED")
  BY <1>2, <1>3 DEF CompleteRead
<1>4. ASSUME NEW final \in {"INDEXED", "SKIPPED", "MISSING"}, CompleteNow(w, final)
      PROVE  StaysAwaited(f)
  BY <1>2, <1>4 DEF CompleteNow
<1>5. ASSUME NEW permanent \in BOOLEAN, FailJob(w, permanent), Cleans(w) => permanent
      PROVE  StaysAwaited(f)
  <2> DEFINE j == worker[w].job
             new == IF Retries(w, permanent) THEN "QUEUED" ELSE "FAILED"
  <2>1. CASE ~(Writable(jobs, j) /\ Retries(w, permanent) /\ worker[w].file = f)
    <3>1. status' = status \/ status' = Marked(worker[w].file, new)
      BY <1>5 DEF FailJob
    <3>2. status'[f] = "QUEUED" => status[f] = "QUEUED"
      BY <1>0, <1>5, <2>1, <3>1, MarkedElse DEF FailJob
    <3> QED
      BY <1>0, <3>2, WaitingStays
  <2>2. CASE Writable(jobs, j) /\ Retries(w, permanent) /\ worker[w].file = f
    <3>1. Busy(w) /\ ~Cleans(w)
      BY <1>5, <2>2 DEF FailJob, Busy, Retries
    <3>2. j \in DOMAIN jobs /\ jobs[j].file = f /\ jobs[j].type # "DELETE_CLEANUP"
      BY <2>2, <3>1 DEF Remembered, Writable, Cleans
    <3>3. /\ j \in DOMAIN jobs' /\ jobs'[j].status = "PENDING"
          /\ jobs'[j].file = jobs[j].file /\ jobs'[j].type = jobs[j].type
      BY <1>5, <2>2, FailJobCarries
    <3>4. Awaited(jobs', f)
      BY <3>2, <3>3 DEF Awaited, RowsOf
    <3> QED
      BY <1>0, <3>4, WaitingStays
  <2> QED
    BY <2>1, <2>2
<1>6. \/ ReadToComplete(w) \/ ReadToFail(w) \/ CompleteRead(w, "INDEXED")
      \/ \E final \in {"INDEXED", "SKIPPED", "MISSING"} : CompleteNow(w, final)
      \/ \E permanent \in BOOLEAN : FailJob(w, permanent) /\ (Cleans(w) => permanent)
  <2>1. CASE Cleans(w)
    BY <2>1 DEF Work
  <2>2. CASE ~Cleans(w)
    BY <2>2 DEF Work
  <2> QED
    BY <2>1, <2>2
<1> QED
  BY <1>1, <1>3, <1>4, <1>5, <1>6

LEMMA ClaimAwaited ==
  ASSUME QueueInv, NEW w \in Workers, Claim(w), NEW f \in Files
  PROVE  StaysAwaited(f)
<1>0. TypeOK
  BY DEF QueueInv
<1>1. PICK j \in DOMAIN jobs :
        /\ DOMAIN jobs' = DOMAIN jobs /\ \A i \in DOMAIN jobs : i # j => jobs'[i] = jobs[i]
        /\ status' = IF jobs[j].type = "DELETE_CLEANUP" THEN status
                     ELSE Marked(jobs[j].file, "PROCESSING")
  BY ClaimedRow
<1>2. status'[f] = "QUEUED" => status[f] = "QUEUED"
  BY <1>0, <1>1, MarkedElse
<1>3. CASE jobs[j].file = f /\ jobs[j].type # "DELETE_CLEANUP"
  <2>1. status'[f] # "QUEUED"
    BY <1>0, <1>1, <1>3 DEF Marked, TypeOK
  <2> QED
    BY <2>1 DEF StaysAwaited
<1>4. CASE jobs[j].file # f \/ jobs[j].type = "DELETE_CLEANUP"
  <2>1. Awaited(jobs, f) => Awaited(jobs', f)
    BY <1>1, <1>4 DEF Awaited, RowsOf
  <2> QED
    BY <1>2, <2>1 DEF StaysAwaited
<1> QED
  BY <1>3, <1>4

LEMMA BootAwaited ==
  ASSUME QueueInv, Boot, NEW f \in Files
  PROVE  StaysAwaited(f)
<1>1. /\ Waits(jobs', f)
      /\ \A j \in DOMAIN jobs : jobs[j].status = "PROCESSING" =>
           /\ j \in DOMAIN jobs' /\ jobs'[j].status = "PENDING"
           /\ jobs'[j].file = jobs[j].file /\ jobs'[j].type = jobs[j].type
  BY RecoveredCarries
<1>2. status'[f] = "QUEUED" => status[f] = "QUEUED"
                            \/ RowsOf(jobs, f) \cap RowsIn(jobs, {"PROCESSING"}) # {}
  BY DEF Boot
<1>3. CASE RowsOf(jobs, f) \cap RowsIn(jobs, {"PROCESSING"}) # {}
  <2>1. PICK j \in RowsOf(jobs, f) : jobs[j].status = "PROCESSING"
    BY <1>3 DEF RowsIn
  <2>2. CASE jobs[j].type = "DELETE_CLEANUP"
    BY <2>1, <2>2 DEF StaysAwaited, Boot
  <2>3. CASE jobs[j].type # "DELETE_CLEANUP"
    <3>1. Awaited(jobs', f)
      BY <1>1, <2>1, <2>3 DEF Awaited, RowsOf
    <3> QED
      BY <3>1 DEF StaysAwaited
  <2> QED
    BY <2>2, <2>3
<1>4. CASE RowsOf(jobs, f) \cap RowsIn(jobs, {"PROCESSING"}) = {}
  BY <1>1, <1>2, <1>4, WaitingStays
<1> QED
  BY <1>3, <1>4

LEMMA AwaitedStep ==
  ASSUME QueueInv, Remembered, [Next]_vars
  PROVE  \A f \in Files : StaysAwaited(f)
<1> SUFFICES ASSUME NEW f \in Files PROVE StaysAwaited(f)
  OBVIOUS
<1>0. TypeOK
  BY DEF QueueInv
<1>1. UNCHANGED status /\ Waits(jobs', f) => StaysAwaited(f)
  BY WaitingStays
<1>2. CASE UNCHANGED vars
  BY <1>1, <1>2, SameRows DEF vars
<1>3. ASSUME NEW g \in Files, Produce(g) \/ RemoveFolder(g) \/ SetEnabled(g)
      PROVE  StaysAwaited(f)
  <2>1. CASE g # f
    BY <1>0, <1>3, <2>1, ProduceCarries, WaitingStays
  <2>2. CASE g = f
    <3>1. status'[f] = "QUEUED" => Awaited(jobs', f) \/ (status[f] = "QUEUED" /\ Waits(jobs', f))
      BY <1>0, <1>3, <2>2, ProduceCarries
    <3> QED
      BY <3>1, WaitsAwaited DEF StaysAwaited
  <2> QED
    BY <2>1, <2>2
<1>4. ASSUME NEW w \in Workers, Seek(w) \/ Work(w) \/ Abandon(w)
      PROVE  StaysAwaited(f)
  <2>1. CASE Poll(w) \/ PollEmpty(w) \/ Abandon(w)
    BY <1>1, <2>1, SameRows DEF Poll, PollEmpty, Abandon
  <2> QED
    BY <1>4, <2>1, WorkAwaited, ClaimAwaited DEF Seek
<1>5. ASSUME NEW j \in JobIds, BackoffOver(j) PROVE StaysAwaited(f)
  BY <1>0, <1>1, <1>5, BackoffCarries DEF BackoffOver
<1>6. CASE Crash
  BY <1>1, <1>6, SameRows DEF Crash
<1>7. CASE Boot
  BY <1>7, BootAwaited
<1> QED
  BY <1>2, <1>3, <1>4, <1>5, <1>6, <1>7 DEF Next

(* A file is queued only with a job that will index it, but for recoveries that met its cleanup
   job at work: upsert_file, enqueue_job, cancel_pending_jobs_for_file, claim_next_job, fail_job
   and recover_stale_processing_jobs, in any order, for any number of threads. *)
THEOREM QueuedFilesAreAwaited == Spec => QueuedIsAwaited
<1>1. QueueInv /\ Remembered /\ [Next]_vars =>
        [\A f \in Files :
           status'[f] = "QUEUED" /\ ~Awaited(jobs', f) =>
             \/ status[f] = "QUEUED" /\ ~Awaited(jobs, f)
             \/ /\ up # up'
                /\ \E j \in RowsOf(jobs, f) :
                     jobs[j].status = "PROCESSING" /\ jobs[j].type = "DELETE_CLEANUP"]_vars
  BY AwaitedStep DEF StaysAwaited
<1> QED
  BY <1>1, QueueInvariant, ThreadsRemember, PTL DEF Spec, QueuedIsAwaited

-----------------------------------------------------------------------------
(* Stamps *)

(* The running jobs have different stamps, and so have the threads that are about to claim. *)
Stamped ==
  /\ \A j \in RowsIn(jobs, {"PROCESSING"}) :
       jobs[j].started > 0 /\ \A w \in Workers : worker[w].now # jobs[j].started
  /\ \A i, j \in RowsIn(jobs, {"PROCESSING"}) : i # j => jobs[i].started # jobs[j].started
  /\ \A w, x \in Workers : w # x /\ worker[w].now # 0 => worker[w].now # worker[x].now

(* A new stamp is later than those in use when the clock never stands still. *)
LEMMA StampsAreNew ==
  ASSUME 0 \notin Ticks, NEW S, S \subseteq Nat, NEW stamp \in StampsAfter(S)
  PROVE  stamp > 0 /\ stamp \notin S
<1>1. PICK s \in S \cup {1}, d \in Ticks : (\A y \in S \cup {1} : y <= s) /\ stamp = s + d
  BY DEF StampsAfter
<1>2. s \in Nat /\ d \in Nat /\ d > 0
  BY JobQueueAssumption DEF JobQueueAssumption
<1>3. \A y \in S : y < stamp
  BY <1>1, <1>2
<1> QED
  BY <1>1, <1>2, <1>3

LEMMA StampedStep ==
  ASSUME 0 \notin Ticks
  PROVE  QueueInv /\ Stamped /\ [Next]_vars => Stamped'
<1> SUFFICES ASSUME QueueInv, Stamped, [Next]_vars PROVE Stamped'
  OBVIOUS
<1>0. worker \in [Workers -> Thread] /\ IsTable(jobs)
  BY DEF QueueInv, TypeOK
<1>1. CASE \A w \in Workers : ~Claim(w) /\ ~Poll(w)
  <2>1. Carries(jobs') /\ ThreadsKept
    BY <1>1, StepCarries
  <2>2. \A j \in RowsIn(jobs', {"PROCESSING"}) :
          j \in RowsIn(jobs, {"PROCESSING"}) /\ jobs'[j].started = jobs[j].started
    BY <2>1 DEF Carries, RowKept, RowsIn
  <2>3. \A w \in Workers : worker'[w].now \in {worker[w].now, 0}
    BY <2>1 DEF ThreadsKept
  <2> QED
    BY <2>2, <2>3 DEF Stamped
<1>2. ASSUME NEW w \in Workers, Claim(w) PROVE Stamped'
  <2>1. PICK j \in DOMAIN jobs :
           /\ DOMAIN jobs' = DOMAIN jobs /\ \A i \in DOMAIN jobs : i # j => jobs'[i] = jobs[i]
           /\ jobs'[j].started = worker[w].now /\ worker[w].now # 0
           /\ \A x \in Workers : x # w => worker'[x] = worker[x]
           /\ worker'[w].now = 0
    BY <1>2, ClaimedRow
  <2>2. \A i \in RowsIn(jobs', {"PROCESSING"}) :
          i # j => i \in RowsIn(jobs, {"PROCESSING"}) /\ jobs'[i].started = jobs[i].started
    BY <2>1 DEF RowsIn
  <2>3. worker[w].now \in Nat
    BY <1>0
  <2>4. \A i \in RowsIn(jobs', {"PROCESSING"}) :
          jobs'[i].started > 0 /\ \A x \in Workers : worker'[x].now # jobs'[i].started
    BY <2>1, <2>2, <2>3 DEF Stamped
  <2>5. \A i, k \in RowsIn(jobs', {"PROCESSING"}) : i # k => jobs'[i].started # jobs'[k].started
    BY <2>1, <2>2 DEF Stamped
  <2>6. \A x, y \in Workers : x # y /\ worker'[x].now # 0 => worker'[x].now # worker'[y].now
    BY <2>1 DEF Stamped
  <2> QED
    BY <2>4, <2>5, <2>6 DEF Stamped
<1>3. ASSUME NEW w \in Workers, Poll(w) PROVE Stamped'
  <2> DEFINE S == {jobs[j].started : j \in DOMAIN jobs} \cup {worker[x].now : x \in Workers}
  <2>1. PICK stamp \in StampsAfter(S) : worker' = [worker EXCEPT ![w].now = stamp]
    BY <1>3 DEF Poll
  <2>2. S \subseteq Nat
    BY <1>0 DEF IsTable, Row
  <2>3. stamp > 0 /\ stamp \notin S
    BY <2>1, <2>2, StampsAreNew
  <2>4. UNCHANGED jobs
    BY <1>3 DEF Poll
  <2>5. /\ worker'[w].now = stamp
        /\ \A x \in Workers : x # w => worker'[x].now = worker[x].now
    BY <1>0, <2>1
  <2>6. /\ \A j \in RowsIn(jobs, {"PROCESSING"}) : jobs[j].started # stamp
        /\ \A x \in Workers : worker[x].now # stamp
    BY <2>3 DEF RowsIn
  <2> QED
    BY <2>4, <2>5, <2>6 DEF Stamped
<1> QED
  BY <1>1, <1>2, <1>3

(* Of the running jobs of a file at most one is current, as long as no two threads take the same
   time stamp before they claim (claim_next_job's started_at, is_current_processing_job). *)
THEOREM CurrentJobIsUnique ==
  ASSUME 0 \notin Ticks
  PROVE  Spec => []OneCurrentJob
<1>1. Init => Stamped
  BY DEF Init, Stamped, RowsIn, Idle
<1>2. QueueInv /\ Stamped => OneCurrentJob
  <2> SUFFICES ASSUME QueueInv, Stamped,
                      NEW i \in RowsIn(jobs, {"PROCESSING"}), NEW j \in RowsIn(jobs, {"PROCESSING"}),
                      i # j, jobs[i].file = jobs[j].file
               PROVE  ~(IsCurrent(jobs, i) /\ IsCurrent(jobs, j))
    BY DEF OneCurrentJob
  <2>1. jobs[i] \in Row /\ jobs[j] \in Row /\ i \in DOMAIN jobs /\ j \in DOMAIN jobs
    BY RowType DEF QueueInv, TypeOK, RowsIn
  <2>2. jobs[i].started > jobs[j].started \/ jobs[j].started > jobs[i].started
    BY <2>1 DEF Stamped, Row
  <2>3. Supersedes(jobs[i], jobs[j]) \/ Supersedes(jobs[j], jobs[i])
    BY <2>1, <2>2 DEF Stamped, Supersedes, StartedLater, RowsIn
  <2> QED
    BY <2>1, <2>3 DEF IsCurrent, RowsOf
<1> QED
  BY <1>1, <1>2, StampedStep, QueueInvariant, PTL DEF Spec

-----------------------------------------------------------------------------
(* The queue implements JobLease.  Every step moves each job along one arrow of Life: a step of a
   producer offers or withdraws jobs, a step of a thread takes, returns, finishes or lets go the
   one job it holds, a restart takes turns back. *)

Turns(j) == IF j \in DOMAIN jobs THEN jobs[j].attempts ELSE 0
Owner(j) == {w \in Workers : Busy(w) /\ worker[w].job = j}

(* The arrows of Life, read off the table and the threads. *)
Unmoved(j) == LeaseState(j)' = LeaseState(j) /\ Turns(j)' = Turns(j)
Gone(j) == \/ LeaseState(j)' = "over" /\ Turns(j)' = Turns(j)
           \/ LeaseState(j)' = "absent" /\ Turns(j)' = 0

Arrow(j) ==
  \/ Unmoved(j) /\ Owner(j)' = Owner(j)
  \/ /\ LeaseState(j) = "absent" /\ LeaseState(j)' = "waiting" /\ Turns(j)' = 0
     /\ Owner(j) = {} /\ Owner(j)' = {}
  \/ /\ LeaseState(j) = "waiting" /\ LeaseState(j)' = "taken"
     /\ Turns(j)' = Turns(j) + 1 /\ Turns(j)' <= MaxAttempts
     /\ Owner(j) = {} /\ \E w \in Workers : Owner(j)' = {w}
  \/ /\ LeaseState(j) = "taken" /\ LeaseState(j)' = "waiting"
     /\ Turns(j)' = Turns(j) /\ Turns(j) < MaxAttempts
     /\ Owner(j) # {} /\ Owner(j)' = {}
  \/ LeaseState(j) = "taken" /\ Gone(j) /\ Owner(j) # {} /\ Owner(j)' = {}
  \/ LeaseState(j) # "absent" /\ Gone(j) /\ Owner(j)' = Owner(j)
  \/ Unmoved(j) /\ Owner(j) # {} /\ Owner(j)' = {}
  \/ /\ LeaseState(j) = "taken" /\ LeaseState(j)' = "waiting" /\ Turns(j) = Turns(j)' + 1
     /\ Owner(j) = {} /\ Owner(j)' = {}

LEMMA ArrowIsLife ==
  ASSUME NEW j \in JobIds, Arrow(j)
  PROVE  Lease!Life(j)
BY DEF Arrow, Unmoved, Gone, Turns, Owner, Lease!Life, Lease!Stays, Lease!Kept, Lease!Free,
       Lease!Freed, Lease!Offered, Lease!Taken, Lease!Returned, Lease!Ended, Lease!Finished,
       Lease!Withdrawn, Lease!LetGo, Lease!TakenBack

LEMMA ArrowsAreLeaseNext ==
  ASSUME \A j \in JobIds : Arrow(j)
  PROVE  Lease!LeaseNext
<1>1. \A j \in JobIds : Lease!Life(j)
  BY ArrowIsLife
<1> QED
  BY <1>1 DEF Lease!LeaseNext

-----------------------------------------------------------------------------
(* Steps that leave the threads alone. *)

(* Like Respects, and a row that was there is not made anew. *)
Follows(js) ==
  \A j \in DOMAIN js :
    \/ /\ j \in DOMAIN jobs
       /\ js[j].attempts = jobs[j].attempts
       /\ js[j].status = jobs[j].status \/ js[j].status = "CANCELLED"
    \/ j \notin DOMAIN jobs \cup Held /\ js[j].status = "PENDING" /\ js[j].attempts = 0

LEMMA FollowsArrow ==
  ASSUME QueueInv, Follows(jobs'), UNCHANGED worker, NEW j \in JobIds
  PROVE  Arrow(j)
<1>1. Owner(j)' = Owner(j)
  BY DEF Owner, Busy
<1>2. Owner(j) # {} => j \in Held
  <2>1. j # None
    BY JobQueueAssumption
  <2>2. \A w \in Owner(j) : w \in Workers /\ worker[w].job = j
    BY DEF Owner
  <2> QED
    BY <2>1, <2>2 DEF Held
<1>3. CASE j \notin DOMAIN jobs /\ j \notin DOMAIN jobs'
  BY <1>1, <1>3 DEF Arrow, Unmoved, LeaseState, Turns
<1>4. CASE j \notin DOMAIN jobs /\ j \in DOMAIN jobs'
  BY <1>1, <1>2, <1>4 DEF Arrow, Follows, LeaseState, Turns
<1>5. CASE j \in DOMAIN jobs /\ j \notin DOMAIN jobs'
  <2>1. LeaseState(j) # "absent"
    BY <1>5, RowType DEF QueueInv, TypeOK, LeaseState, Row, Live, Finished
  <2> QED
    BY <1>1, <1>5, <2>1 DEF Arrow, Gone, LeaseState, Turns
<1>6. CASE j \in DOMAIN jobs /\ j \in DOMAIN jobs'
  <2>1. LeaseState(j) # "absent" /\ Turns(j)' = Turns(j)
    BY <1>6, RowType DEF QueueInv, TypeOK, LeaseState, Row, Live, Finished, Turns, Follows
  <2>2. CASE jobs'[j].status = jobs[j].status
    BY <1>1, <1>6, <2>1, <2>2 DEF Arrow, Unmoved, LeaseState
  <2>3. CASE jobs'[j].status = "CANCELLED"
    BY <1>1, <1>6, <2>1, <2>3 DEF Arrow, Gone, LeaseState, Finished
  <2> QED
    BY <1>6, <2>2, <2>3 DEF Follows
<1> QED
  BY <1>3, <1>4, <1>5, <1>6

LEMMA EnqueueFollows ==
  ASSUME NEW js, Follows(js), NEW f, NEW t, NEW p, Enqueue(js, f, t, p)
  PROVE  Follows(jobs')
<1>1. CASE jobs' = js
  BY <1>1 DEF Follows
<1>2. CASE jobs' # js
  <2>1. PICK stamp : /\ FreshIds # {}
                     /\ jobs' = Insert(js, CHOOSE id \in FreshIds : TRUE, NewRow(f, t, p, stamp))
    BY <1>2 DEF Enqueue
  <2> DEFINE new == CHOOSE id \in FreshIds : TRUE
  <2>2. new \notin DOMAIN jobs \cup Held
    BY <2>1 DEF FreshIds
  <2> HIDE DEF new
  <2>3. jobs' = Insert(js, new, NewRow(f, t, p, stamp))
    BY <2>1 DEF new
  <2> QED
    BY <2>2, <2>3 DEF Follows, Insert, NewRow
<1> QED
  BY <1>1, <1>2

LEMMA CancelledFollows ==
  ASSUME QueueInv, NEW f, NEW D
  PROVE  Follows(Without(Cancelled(jobs, f), D))
<1>1. \A j \in DOMAIN jobs : jobs[j] \in Row
  BY RowType DEF QueueInv, TypeOK
<1> QED
  BY <1>1 DEF Follows, Without, Cancelled, Row

LEMMA ProduceArrow ==
  ASSUME QueueInv, NEW f \in Files, Produce(f) \/ RemoveFolder(f) \/ SetEnabled(f),
         NEW j \in JobIds
  PROVE  Arrow(j)
<1>0. Follows(jobs)
  BY DEF Follows
<1>a. UNCHANGED worker
  BY DEF Produce, Discover, Register, Rename, Oversize, ScanError, VanishWatched,
         VanishScanned, RemoveFolder, SetEnabled
<1> SUFFICES Follows(jobs')
  BY <1>a, FollowsArrow
<1>1. ASSUME NEW src \in Sources, NEW changed \in BOOLEAN, Discover(f, src, changed)
      PROVE  Follows(jobs')
  BY <1>0, <1>1, EnqueueFollows DEF Discover
<1>2. CASE Register(f) \/ Rename(f)
  BY <1>0, <1>2, EnqueueFollows DEF Register, Rename
<1>3. CASE Oversize(f) \/ ScanError(f) \/ SetEnabled(f)
  BY <1>3 DEF Oversize, ScanError, SetEnabled, Follows
<1>4. CASE VanishWatched(f)
  <2>1. PICK D : \/ Enqueue(Without(Cancelled(jobs, f), D), f, "DELETE_CLEANUP", 1)
                 \/ jobs' = Without(Cancelled(jobs, f), D)
    BY <1>4 DEF VanishWatched
  <2> QED
    BY <2>1, CancelledFollows, EnqueueFollows
<1>5. CASE VanishScanned(f)
  <2>1. PICK D : Enqueue(Without(Cancelled(jobs, f), D), f, "DELETE_CLEANUP", 0)
    BY <1>5 DEF VanishScanned
  <2> QED
    BY <2>1, CancelledFollows, EnqueueFollows
<1>6. CASE RemoveFolder(f)
  BY <1>6 DEF RemoveFolder, Follows, Without
<1> QED
  BY <1>1, <1>2, <1>3, <1>4, <1>5, <1>6 DEF Produce

-----------------------------------------------------------------------------
(* Steps of a thread. *)

(* A busy thread is the only owner of its job, and a step that makes it idle frees that job and
   no other. *)
LEMMA OwnerIsThread ==
  ASSUME QueueInv, NEW w \in Workers, Busy(w)
  PROVE  Owner(worker[w].job) = {w} /\ worker[w].job \in JobIds
BY DEF QueueInv, SingleOwner, ThreadsMatchRows, Owner

LEMMA ReleaseOwners ==
  ASSUME QueueInv, NEW w \in Workers, Busy(w), worker' = [worker EXCEPT ![w] = Idle],
         NEW j \in JobIds
  PROVE  Owner(j)' = IF j = worker[w].job THEN {} ELSE Owner(j)
<1>1. ~Busy(w)' /\ \A x \in Workers \ {w} : worker'[x] = worker[x] /\ (Busy(x)' <=> Busy(x))
  BY DEF Busy, Idle, QueueInv, TypeOK
<1>2. Owner(j)' = Owner(j) \ {w}
  BY <1>1 DEF Owner
<1> QED
  BY <1>2, OwnerIsThread DEF Owner

(* The end of a job: its row is settled unless it was cancelled or deleted, finished rows may be
   pruned with it, and no other row changes. *)
LEMMA CommitArrow ==
  ASSUME QueueInv, NEW w \in Workers, Busy(w), worker' = [worker EXCEPT ![w] = Idle],
         NEW js, NEW D, jobs' = Without(js, D), DOMAIN js = DOMAIN jobs,
         \A i \in DOMAIN jobs : i # worker[w].job => js[i] = jobs[i],
         ~Writable(jobs, worker[w].job) => js = jobs /\ D = {},
         Writable(jobs, worker[w].job) =>
           /\ js[worker[w].job].attempts = jobs[worker[w].job].attempts
           /\ \/ js[worker[w].job].status \in {"COMPLETED", "FAILED"}
              \/ /\ js[worker[w].job].status = "PENDING" /\ D = {}
                 /\ worker[w].tries < MaxAttempts,
         NEW j \in JobIds
  PROVE  Arrow(j)
<1>1. Owner(j)' = IF j = worker[w].job THEN {} ELSE Owner(j)
  BY ReleaseOwners
<1>2. j \in DOMAIN jobs => jobs[j] \in Row
  BY RowType DEF QueueInv, TypeOK
<1>3. j \in DOMAIN jobs => LeaseState(j) # "absent"
  BY <1>2 DEF LeaseState, Row, Live, Finished
<1>4. CASE j # worker[w].job
  <2>1. CASE j \in DOMAIN jobs /\ j \in D
    BY <1>1, <1>3, <1>4, <2>1 DEF Arrow, Gone, LeaseState, Turns, Without
  <2>2. CASE ~(j \in DOMAIN jobs /\ j \in D)
    <3>1. (j \in DOMAIN jobs' <=> j \in DOMAIN jobs) /\ (j \in DOMAIN jobs => jobs'[j] = jobs[j])
      BY <1>4, <2>2 DEF Without
    <3> QED
      BY <1>1, <1>4, <3>1 DEF Arrow, Unmoved, LeaseState, Turns
  <2> QED
    BY <2>1, <2>2
<1>5. CASE j = worker[w].job
  <2>1. Owner(j) = {w} /\ Owner(j) # {} /\ Owner(j)' = {}
    BY <1>1, <1>5, OwnerIsThread
  <2>2. CASE ~Writable(jobs, j)
    <3>1. jobs' = jobs \/ (j \notin DOMAIN jobs /\ j \notin DOMAIN jobs')
      BY <1>5, <2>2 DEF Without, QueueInv, TypeOK, IsTable
    <3> QED
      BY <2>1, <3>1 DEF Arrow, Unmoved, LeaseState, Turns
  <2>3. CASE Writable(jobs, j)
    <3>1. LeaseState(j) = "taken" /\ j \in DOMAIN jobs
      BY <1>5, <2>3 DEF QueueInv, SingleOwner, Writable, LeaseState
    <3>2. CASE j \in D
      <4>1. Gone(j)
        BY <3>2 DEF Gone, LeaseState, Turns, Without
      <4> QED
        BY <2>1, <3>1, <4>1 DEF Arrow
    <3>3. CASE j \notin D
      <4>1. j \in DOMAIN jobs' /\ jobs'[j] = js[j]
        BY <3>1, <3>3 DEF Without
      <4>2. Turns(j)' = Turns(j)
        BY <1>5, <2>3, <3>1, <4>1 DEF Turns
      <4>3. CASE js[j].status \in {"COMPLETED", "FAILED"}
        <5>1. LeaseState(j)' = "over"
          BY <4>1, <4>3 DEF LeaseState, Finished
        <5> QED
          BY <2>1, <3>1, <4>2, <5>1 DEF Arrow, Gone
      <4>4. CASE js[j].status = "PENDING" /\ worker[w].tries < MaxAttempts
        <5>1. LeaseState(j)' = "waiting"
          BY <4>1, <4>4 DEF LeaseState
        <5>2. Turns(j) < MaxAttempts
          BY <1>5, <3>1, <4>4 DEF QueueInv, ThreadsMatchRows, Turns
        <5> QED
          BY <2>1, <3>1, <4>2, <5>1, <5>2 DEF Arrow
      <4> QED
        BY <1>5, <2>3, <4>3, <4>4
    <3> QED
      BY <3>2, <3>3
  <2> QED
    BY <2>2, <2>3
<1> QED
  BY <1>4, <1>5

LEMMA CompleteArrow ==
  ASSUME QueueInv, NEW w \in Workers, Busy(w), NEW cur, NEW final, CompleteJob(w, cur, final),
         NEW j \in JobIds
  PROVE  Arrow(j)
<1> DEFINE k == worker[w].job
           js == Completed(jobs, k)
<1>1. PICK D : jobs' = Without(js, D) /\ (~Writable(jobs, k) => D = {})
  BY DEF CompleteJob
<1>2. IsTable(jobs) /\ worker' = [worker EXCEPT ![w] = Idle]
  BY DEF QueueInv, TypeOK, CompleteJob
<1>3. DOMAIN js = DOMAIN jobs
  BY <1>2, CompletedTable
<1>4. /\ \A i \in DOMAIN jobs : i # k => js[i] = jobs[i]
      /\ ~Writable(jobs, k) => js = jobs
  BY DEF Completed
<1>5. Writable(jobs, k) => js[k].status = "COMPLETED" /\ js[k].attempts = jobs[k].attempts
  <2>1. k \in DOMAIN jobs => jobs[k] \in Row
    BY <1>2, RowType
  <2> QED
    BY <2>1, <1>2 DEF Completed, Writable, Row, IsTable
<1> HIDE DEF js
<1> QED
  BY <1>1, <1>2, <1>3, <1>4, <1>5, CommitArrow

LEMMA FailArrow ==
  ASSUME QueueInv, NEW w \in Workers, NEW permanent \in BOOLEAN, FailJob(w, permanent),
         NEW j \in JobIds
  PROVE  Arrow(j)
<1> DEFINE k == worker[w].job
           retry == Retries(w, permanent)
           js == Failed(jobs, k, retry)
<1>1. PICK D : jobs' = Without(js, D) /\ (~Writable(jobs, k) \/ retry => D = {})
  BY DEF FailJob
<1>2. /\ IsTable(jobs) /\ worker' = [worker EXCEPT ![w] = Idle] /\ Busy(w)
      /\ retry \in BOOLEAN
  BY DEF QueueInv, TypeOK, FailJob, Busy, Retries
<1>3. DOMAIN js = DOMAIN jobs
  BY <1>2, FailedTable
<1>4. /\ \A i \in DOMAIN jobs : i # k => js[i] = jobs[i]
      /\ ~Writable(jobs, k) => js = jobs
  BY DEF Failed
<1>5. Writable(jobs, k) => /\ js[k].status = IF retry THEN "PENDING" ELSE "FAILED"
                           /\ js[k].attempts = jobs[k].attempts
  <2>1. k \in DOMAIN jobs => jobs[k] \in Row
    BY <1>2, RowType
  <2> QED
    BY <2>1, <1>2 DEF Failed, Writable, Row, IsTable
<1>6. retry => worker[w].tries < MaxAttempts
  BY DEF Retries
<1> HIDE DEF js, retry
<1> QED
  BY <1>1, <1>2, <1>3, <1>4, <1>5, <1>6, CommitArrow

LEMMA ClaimArrow ==
  ASSUME QueueInv, NEW w \in Workers, Claim(w), NEW j \in JobIds
  PROVE  Arrow(j)
<1>1. PICK k \in NextClaims(jobs, enabled) : ClaimRow(w, k)
  BY DEF Claim
<1>2. /\ k \in DOMAIN jobs /\ jobs[k].status = "PENDING" /\ jobs[k] \in Row
      /\ IsTable(jobs) /\ k \in JobIds
  BY NextClaimsPending, RowType DEF QueueInv, TypeOK, IsTable
<1>3. /\ ~Busy(w) /\ Busy(w)' /\ worker'[w].job = k
      /\ \A x \in Workers \ {w} : worker'[x] = worker[x] /\ (Busy(x)' <=> Busy(x))
  BY <1>1 DEF ClaimRow, Busy, QueueInv, TypeOK
<1>4. /\ DOMAIN jobs' = DOMAIN jobs
      /\ \A i \in DOMAIN jobs : i # k => jobs'[i] = jobs[i]
      /\ jobs'[k].status = "PROCESSING" /\ jobs'[k].attempts = jobs[k].attempts + 1
  BY <1>1, <1>2 DEF ClaimRow, Claimed, Row, IsTable
<1>5. CASE j = k
  <2>1. Owner(j) = {} /\ Owner(j)' = {w}
    BY <1>2, <1>3, <1>5 DEF Owner, QueueInv, SingleOwner
  <2>2. jobs[j].attempts \in Nat /\ jobs[j].attempts < MaxAttempts
    BY <1>2, <1>5 DEF QueueInv, AttemptsBounded, Row
  <2>3. LeaseState(j) = "waiting" /\ LeaseState(j)' = "taken"
    BY <1>2, <1>4, <1>5 DEF LeaseState
  <2>4. Turns(j)' = Turns(j) + 1 /\ Turns(j)' <= MaxAttempts
    BY <1>2, <1>4, <1>5, <2>2, JobTableAssumption DEF Turns
  <2> QED
    BY <2>1, <2>3, <2>4 DEF Arrow
<1>6. CASE j # k
  <2>1. Owner(j)' = Owner(j)
    BY <1>3, <1>6 DEF Owner
  <2> QED
    BY <1>4, <1>6, <2>1 DEF Arrow, Unmoved, LeaseState, Turns
<1> QED
  BY <1>5, <1>6

LEMMA ThreadArrow ==
  ASSUME QueueInv, NEW w \in Workers, Seek(w) \/ Work(w) \/ Abandon(w), NEW j \in JobIds
  PROVE  Arrow(j)
<1>1. CASE Claim(w)
  BY <1>1, ClaimArrow
<1>2. CASE Poll(w) \/ PollEmpty(w)
  <2>1. UNCHANGED jobs /\ \E stamp : worker' = [worker EXCEPT ![w].now = stamp]
    BY <1>2 DEF Poll, PollEmpty
  <2>2. \A x \in Workers : worker'[x].job = worker[x].job /\ (Busy(x)' <=> Busy(x))
    BY <2>1 DEF Busy, QueueInv, TypeOK
  <2>3. Owner(j)' = Owner(j)
    BY <2>2 DEF Owner
  <2> QED
    BY <2>1, <2>3 DEF Arrow, Unmoved, LeaseState, Turns
<1>3. CASE ReadToComplete(w) \/ ReadToFail(w)
  <2>1. PICK stage \in {"completing", "failing"} :
          /\ Busy(w) /\ UNCHANGED jobs
          /\ worker' = [worker EXCEPT ![w].stage = stage, ![w].cur = IsCurrent(jobs, worker[w].job)]
    BY <1>3 DEF ReadToComplete, ReadToFail, ReadCurrency, Busy
  <2>2. \A x \in Workers : worker'[x].job = worker[x].job /\ (Busy(x)' <=> Busy(x))
    BY <2>1 DEF Busy, QueueInv, TypeOK
  <2>3. Owner(j)' = Owner(j)
    BY <2>2 DEF Owner
  <2> QED
    BY <2>1, <2>3 DEF Arrow, Unmoved, LeaseState, Turns
<1>4. CASE Abandon(w)
  <2>1. Busy(w) /\ UNCHANGED jobs /\ worker' = [worker EXCEPT ![w] = Idle]
    BY <1>4 DEF Abandon, Busy
  <2>2. Unmoved(j)
    BY <2>1 DEF Unmoved, LeaseState, Turns
  <2>3. Owner(j)' = IF j = worker[w].job THEN {} ELSE Owner(j)
    BY <2>1, ReleaseOwners
  <2> QED
    BY <2>2, <2>3 DEF Arrow
<1>5. CASE CompleteRead(w, "INDEXED")
  BY <1>5, CompleteArrow DEF CompleteRead, Busy
<1>6. ASSUME NEW final, CompleteNow(w, final)
      PROVE  Arrow(j)
  BY <1>6, CompleteArrow DEF CompleteNow, Busy
<1>7. ASSUME NEW permanent \in BOOLEAN, FailJob(w, permanent)
      PROVE  Arrow(j)
  BY <1>7, FailArrow
<1>8. (IF Cleans(w) THEN {TRUE} ELSE BOOLEAN) \subseteq BOOLEAN
  OBVIOUS
<1>9. Work(w) => \/ ReadToComplete(w) \/ ReadToFail(w) \/ CompleteRead(w, "INDEXED")
                 \/ \E final : CompleteNow(w, final)
                 \/ \E permanent \in BOOLEAN : FailJob(w, permanent)
  BY <1>8, Zenon DEF Work
<1> QED
  BY <1>1, <1>2, <1>3, <1>4, <1>5, <1>6, <1>7, <1>9 DEF Seek

-----------------------------------------------------------------------------
(* The process. *)

LEMMA CrashArrow ==
  ASSUME QueueInv, Crash, NEW j \in JobIds
  PROVE  Arrow(j)
<1>1. UNCHANGED jobs /\ Owner(j)' = {}
  BY DEF Crash, Owner, Busy, Idle
<1> QED
  BY <1>1 DEF Arrow, Unmoved, LeaseState, Turns

LEMMA BootArrow ==
  ASSUME QueueInv, Boot, NEW j \in JobIds
  PROVE  Arrow(j)
<1>1. Owner(j) = {} /\ Owner(j)' = {}
  BY DEF QueueInv, ThreadsMatchRows, Boot, Owner, Busy
<1>2. jobs' = Recovered(jobs) /\ IsTable(jobs)
  BY DEF Boot, QueueInv, TypeOK
<1>3. DOMAIN jobs' = DOMAIN jobs
  BY <1>2, RecoveredTable
<1>4. CASE j \in DOMAIN jobs /\ jobs[j].status = "PROCESSING"
  <2>1. jobs[j] \in Row /\ jobs[j].attempts \in 1..MaxAttempts
    BY <1>2, <1>4, RowType DEF QueueInv, AttemptsBounded
  <2>2. jobs'[j] = [jobs[j] EXCEPT !.status = "PENDING", !.started = 0,
                      !.attempts = IF jobs[j].attempts > 0 THEN jobs[j].attempts - 1 ELSE 0]
    BY <1>2, <1>4, Zenon DEF Recovered
  <2>3. jobs'[j].status = "PENDING" /\ jobs[j].attempts = jobs'[j].attempts + 1
    BY <2>1, <2>2 DEF Row
  <2>4. LeaseState(j) = "taken" /\ LeaseState(j)' = "waiting"
    BY <1>3, <1>4, <2>3 DEF LeaseState
  <2>5. Turns(j) = Turns(j)' + 1
    BY <1>3, <1>4, <2>3 DEF Turns
  <2> QED
    BY <1>1, <2>4, <2>5 DEF Arrow
<1>5. CASE ~(j \in DOMAIN jobs /\ jobs[j].status = "PROCESSING")
  <2>1. j \in DOMAIN jobs => jobs'[j] = jobs[j]
    BY <1>2, <1>5 DEF Recovered
  <2> QED
    BY <1>1, <1>3, <2>1 DEF Arrow, Unmoved, LeaseState, Turns
<1> QED
  BY <1>4, <1>5

LEMMA StepIsLeaseStep ==
  QueueInv /\ [Next]_vars => [Lease!LeaseNext]_(Lease!leaseVars)
<1> SUFFICES ASSUME QueueInv, [Next]_vars PROVE [Lease!LeaseNext]_(Lease!leaseVars)
  OBVIOUS
<1>1. CASE UNCHANGED vars
  BY <1>1 DEF vars, Lease!leaseVars, LeaseState, Busy
<1>2. CASE Next
  <2>1. ASSUME NEW j \in JobIds PROVE Arrow(j)
    <3>1. ASSUME NEW i \in JobIds, BackoffOver(i) PROVE Arrow(j)
      <4>1. Follows(jobs') /\ UNCHANGED worker
        BY <3>1 DEF BackoffOver, Follows, RowsIn, QueueInv, TypeOK, IsTable, Row
      <4> QED
        BY <4>1, FollowsArrow
    <3> QED
      BY <1>2, <3>1, ProduceArrow, ThreadArrow, CrashArrow, BootArrow DEF Next
  <2> QED
    BY <2>1, ArrowsAreLeaseNext
<1> QED
  BY <1>1, <1>2

(* Every behaviour of the queue is one of leases: one holder at a time, at most MaxAttempts
   turns, never back once over, whatever producers, clocks, prunings and crashes do. *)
THEOREM QueueImplementsLease == Spec => ImplementsLease
<1>1. Init => Lease!LeaseInit
  BY DEF Init, Lease!LeaseInit, LeaseState, Busy, Idle
<1> QED
  BY <1>1, QueueInvariant, StepIsLeaseStep, PTL DEF Spec, ImplementsLease, Lease!LeaseSpec
=============================================================================
