----------------------------- MODULE JobQueueProps -----------------------------
(***************************************************************************)
(* What the job queue promises.                                            *)
(***************************************************************************)
EXTENDS JobQueue

Stages == {"idle", "running", "completing", "failing"}

Thread == [stage : Stages, job : JobIds \cup {None}, type : JobTypes,
           file : Files \cup {None}, tries : Nat, cur : BOOLEAN, now : Nat]

(* Every variable has its type; the rows are those the schema allows. *)
TypeOK ==
  /\ IsTable(jobs)
  /\ status \in [Files -> FileStatuses]
  /\ enabled \in [Files -> BOOLEAN]
  /\ worker \in [Workers -> Thread]
  /\ up \in BOOLEAN
  /\ lost \in SUBSET JobIds

Busy(w) == worker[w].stage # "idle"

(* A job is worked on by one thread: two busy threads hold different jobs, and a held row is
   PROCESSING, or CANCELLED under its worker's feet; it is never back in the queue while a
   thread may still commit it (claim_next_job's single UPDATE; fail_job's retry). *)
SingleOwner ==
  /\ \A w, x \in Workers : w # x /\ Busy(w) /\ Busy(x) => worker[w].job # worker[x].job
  /\ \A w \in Workers : Busy(w) /\ worker[w].job \in DOMAIN jobs =>
       jobs[worker[w].job].status \in {"PROCESSING", "CANCELLED"}

(* However retries, cancellations and crash recoveries interleave, a queued job has used fewer
   than MaxAttempts attempts and a running one between 1 and MaxAttempts: recovery gives back
   exactly the attempt the crash interrupted. *)
AttemptsBounded ==
  \A j \in DOMAIN jobs :
    /\ jobs[j].status = "PENDING" => jobs[j].attempts < MaxAttempts
    /\ jobs[j].status = "PROCESSING" => jobs[j].attempts \in 1..MaxAttempts

(* While the engine is up a PROCESSING row has a thread behind it, except the rows whose
   thread could not reach the database to record a failure: initialize() recovers all that an
   earlier process left behind. *)
ProcessingHasOwner ==
  up => \A j \in RowsIn(jobs, {"PROCESSING"}) : j \in Held \cup lost

(* What a thread remembers of its job agrees with the row, as long as the row exists; an idle
   thread holds no job, and no thread outlives the engine.  With the invariants above this is
   inductive. *)
ThreadsMatchRows ==
  /\ \A w \in Workers :
       IF Busy(w)
       THEN /\ worker[w].job \in JobIds
            /\ worker[w].tries \in 1..MaxAttempts
            /\ worker[w].job \in DOMAIN jobs => jobs[worker[w].job].attempts = worker[w].tries
       ELSE worker[w].job = None
  /\ ~up => \A w \in Workers : ~Busy(w)

(* Together: across retries, cancellations, lost failure reports and recoveries a job is in one
   thread's hands, its attempts stay in their limit, and none is orphaned. *)
QueueInv ==
  TypeOK /\ SingleOwner /\ AttemptsBounded /\ ThreadsMatchRows /\ ProcessingHasOwner

(* Some thread will come to index the file. *)
Awaited(js, f) ==
  \E j \in RowsOf(js, f) : js[j].status = "PENDING" /\ js[j].type # "DELETE_CLEANUP"

(* A file is QUEUED only with a job waiting to index it, whatever deletions, retries and crashes
   did to its jobs (upsert_file and enqueue_job, fail_job's retry, cancellation, recovery); the
   one exception is a recovery that queues a file because of its interrupted cleanup job. *)
QueuedIsAwaited ==
  [][\A f \in Files :
       status'[f] = "QUEUED" /\ ~Awaited(jobs', f) =>
         \/ status[f] = "QUEUED" /\ ~Awaited(jobs, f)
         \/ /\ up # up'
            /\ \E j \in RowsOf(jobs, f) :
                 jobs[j].status = "PROCESSING" /\ jobs[j].type = "DELETE_CLEANUP"]_vars

(* At most one running job of a file is the current one, the one whose result is persisted. *)
OneCurrentJob ==
  \A i, j \in RowsIn(jobs, {"PROCESSING"}) :
    i # j /\ jobs[i].file = jobs[j].file => ~(IsCurrent(jobs, i) /\ IsCurrent(jobs, j))

(* A finished row stays as it is until it is deleted: in particular a thread that is still
   working on a cancelled job cannot complete, fail or re-queue it. *)
FinishedIsFinal ==
  [][\A j \in RowsIn(jobs, Finished) : j \in DOMAIN jobs' => jobs'[j] = jobs[j]]_vars

(* A thread never brings a deleted file back: a step that takes a file out of MISSING is a
   producer's, not the late commit of a thread that started before the deletion. *)
WorkersSpareMissing ==
  [][\A f \in Files : status[f] = "MISSING" /\ status'[f] # "MISSING" => UNCHANGED worker]_vars

(* A file shown as queued has a live job. *)
QueuedHasJob == \A f \in Files : status[f] = "QUEUED" => LiveRowsOf(jobs, f) # {}

(* A file shown as queued or in process has a live job that will settle it. *)
UnsettledHasJob ==
  \A f \in Files : status[f] \in {"QUEUED", "PROCESSING"} => LiveRowsOf(jobs, f) # {}

(* Every live job ends: a claimed or claimable row is eventually finished or deleted, unless
   its folder is paused. *)
JobsEnd ==
  \A j \in JobIds :
    j \in RowsIn(jobs, Live) ~> (j \notin RowsIn(jobs, Live) \/ ~enabled[jobs[j].file])

-----------------------------------------------------------------------------
(* The table and its threads as leases. *)

LeaseState(j) ==
  IF j \notin DOMAIN jobs THEN "absent"
  ELSE CASE jobs[j].status = "PENDING" -> "waiting"
         [] jobs[j].status = "PROCESSING" -> "taken"
         [] OTHER -> "over"

Lease == INSTANCE JobLease WITH
  Items <- JobIds, Holders <- Workers, MaxTurns <- MaxAttempts,
  state <- [j \in JobIds |-> LeaseState(j)],
  turns <- [j \in JobIds |-> IF j \in DOMAIN jobs THEN jobs[j].attempts ELSE 0],
  owner <- [j \in JobIds |-> {w \in Workers : Busy(w) /\ worker[w].job = j}]

(* The queue implements the leases: whatever the producers, the clocks and the crashes do, a job
   has one holder at a time, at most MAX_RETRY_ATTEMPTS turns, and never comes back once it is
   over (JobRepository's statements together with WorkerPool's threads). *)
ImplementsLease == Lease!LeaseSpec
=============================================================================
