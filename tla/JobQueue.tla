------------------------------- MODULE JobQueue -------------------------------
(***************************************************************************)
(* The persistent indexing queue of FileMind: the job table, the index     *)
(* status of the files it refers to, and the worker threads that claim     *)
(* jobs.  One action is one SQLite transaction, or the reads that a        *)
(* handler makes before its transaction opens: Python's sqlite3 opens a    *)
(* transaction at the first INSERT, UPDATE or DELETE of a session, so      *)
(* complete_job and fail_job look at other rows BEFORE they hold the write *)
(* lock, unless an earlier statement of the session took it.               *)
(*                                                                         *)
(* Each file stands for itself and its registered folder.  What the disk   *)
(* holds and what gets indexed is left to IndexingEngine: here a producer  *)
(* may enqueue whenever it likes and a worker may meet any outcome.        *)
(***************************************************************************)
EXTENDS JobTable

CONSTANTS
  Workers,   \* the threads of WorkerPool
  Ticks,     \* how far a time stamp may lie after the latest one; 0 is a coarse clock
  None       \* "no job", "no file"

ASSUME JobQueueAssumption == Ticks \in SUBSET Nat /\ None \notin JobIds \cup Files

VARIABLES
  jobs,      \* indexing_jobs
  status,    \* files.index_status, "ABSENT" when there is no row
  enabled,   \* folders.indexing_enabled of the file's folder
  worker,    \* what each worker thread is doing
  up,        \* the engine is initialised
  lost       \* jobs whose worker could not even record the failure

vars == <<jobs, status, enabled, worker, up, lost>>

FileStatuses == {"ABSENT", "QUEUED", "PROCESSING", "INDEXED", "FAILED", "SKIPPED", "MISSING"}

Idle == [stage |-> "idle", job |-> None, type |-> "METADATA_DISCOVERY", file |-> None,
         tries |-> 0, cur |-> FALSE, now |-> 0]

Init ==
  /\ jobs = [j \in {} |-> NewRow(None, "METADATA_DISCOVERY", 0, 0)]
  /\ status = [f \in Files |-> "ABSENT"]
  /\ enabled = [f \in Files |-> TRUE]
  /\ worker = [w \in Workers |-> Idle]
  /\ up = TRUE
  /\ lost = {}

(* The clock does not run backwards: a new stamp is no older than any stamp still in use.  It
   may be the same.  0 is NULL. *)
StampsAfter(stamps) ==
  LET used == stamps \cup {1}
  IN  {s + d : s \in {x \in used : \A y \in used : y <= x}, d \in Ticks}

Held == {worker[w].job : w \in Workers} \ {None}

-----------------------------------------------------------------------------
(* Producers: the watcher's and the scanner's transactions, and the file registration route. *)

FreshIds == JobIds \ (DOMAIN jobs \cup Held \cup lost)

(* enqueue_job at the end of a transaction that has already turned the table into js. *)
Enqueue(js, f, t, p) ==
  \/ /\ Duplicates(js, f, t) # {}
     /\ jobs' = js
  \/ /\ Duplicates(js, f, t) = {}
     /\ FreshIds # {}
     /\ \E stamp \in StampsAfter({js[j].created : j \in DOMAIN js}) :
          jobs' = Insert(js, CHOOSE id \in FreshIds : TRUE, NewRow(f, t, p, stamp))

(* The CASE of upsert_file; changed says that mtime or size differ from the stored row's. *)
Upserted(old, new, changed) ==
  IF old \in {"ABSENT", "MISSING"} \/ new = "SKIPPED" \/ changed THEN new
  ELSE IF old \in {"PROCESSING", "INDEXED", "FAILED", "SKIPPED"} THEN old
  ELSE new

(* Who enqueues indexing work, with which type and priority: the scanner for a new file, the
   scanner for a changed one, the watcher.  The scanner may have found no row before its
   transaction began and find one when it upserts. *)
Sources == {<<"METADATA_DISCOVERY", 1>>, <<"HASH_VERIFICATION", 1>>,
            <<"HASH_VERIFICATION", 2>>, <<"HASH_VERIFICATION", 3>>}

Discover(f, src, changed) ==
  /\ up
  /\ src[2] = 2 => status[f] # "ABSENT"
  /\ src[2] = 3 => enabled[f]
  /\ status' = [status EXCEPT ![f] = Upserted(@, "QUEUED", changed)]
  /\ Enqueue(jobs, f, src[1], src[2])
  /\ UNCHANGED <<enabled, worker, up, lost>>

(* register_individual_files forces the status to QUEUED after it has enqueued. *)
Register(f) ==
  /\ up
  /\ status' = [status EXCEPT ![f] = "QUEUED"]
  /\ Enqueue(jobs, f, "METADATA_DISCOVERY", 5)
  /\ UNCHANGED <<enabled, worker, up, lost>>

(* A rename keeps the row and its status and only asks for verification. *)
Rename(f) ==
  /\ up /\ enabled[f]
  /\ status[f] # "ABSENT"
  /\ Enqueue(jobs, f, "HASH_VERIFICATION", 2)
  /\ UNCHANGED <<status, enabled, worker, up, lost>>

(* A file above MAX_FILE_SIZE_BYTES gets a SKIPPED row and no job. *)
Oversize(f) ==
  /\ up
  /\ status' = [status EXCEPT ![f] = "SKIPPED"]
  /\ UNCHANGED <<jobs, enabled, worker, up, lost>>

(* record_scan_error: the scanner cannot stat or open the file. *)
ScanError(f) ==
  /\ up
  /\ status[f] \notin {"ABSENT", "MISSING"}
  /\ status' = [status EXCEPT ![f] = "FAILED"]
  /\ UNCHANGED <<jobs, enabled, worker, up, lost>>

(* The watcher sees a deletion: row MISSING, live jobs cancelled, and a cleanup job only if
   the row said INDEXED. *)
VanishWatched(f) ==
  /\ up /\ enabled[f]
  /\ status[f] # "ABSENT"
  /\ status' = [status EXCEPT ![f] = "MISSING"]
  /\ \E D \in IF LiveRowsOf(jobs, f) = {} THEN {{}} ELSE Prunable(Cancelled(jobs, f)) :
       IF status[f] = "INDEXED"
       THEN Enqueue(Without(Cancelled(jobs, f), D), f, "DELETE_CLEANUP", 1)
       ELSE jobs' = Without(Cancelled(jobs, f), D)
  /\ UNCHANGED <<enabled, worker, up, lost>>

(* The scanner finds a row whose file it did not see: always a cleanup job.  It chose the row
   before its transaction began, so the row may be MISSING by now. *)
VanishScanned(f) ==
  /\ up
  /\ status[f] # "ABSENT"
  /\ status' = [status EXCEPT ![f] = "MISSING"]
  /\ \E D \in IF LiveRowsOf(jobs, f) = {} THEN {{}} ELSE Prunable(Cancelled(jobs, f)) :
       Enqueue(Without(Cancelled(jobs, f), D), f, "DELETE_CLEANUP", 0)
  /\ UNCHANGED <<enabled, worker, up, lost>>

(* purge_folder deletes the folder with its files and jobs; registering it again is SetEnabled. *)
RemoveFolder(f) ==
  /\ up
  /\ status[f] # "ABSENT"
  /\ status' = [status EXCEPT ![f] = "ABSENT"]
  /\ jobs' = Without(jobs, RowsOf(jobs, f))
  /\ enabled' = [enabled EXCEPT ![f] = FALSE]
  /\ UNCHANGED <<worker, up, lost>>

SetEnabled(f) ==
  /\ up
  /\ enabled' = [enabled EXCEPT ![f] = ~@]
  /\ UNCHANGED <<jobs, status, worker, up, lost>>

-----------------------------------------------------------------------------
(* Worker threads. *)

(* The status UPDATEs of the worker's calls spare a MISSING row and find no deleted one. *)
M_MarkedAny(f, s) == IF status[f] = "ABSENT" THEN status ELSE [status EXCEPT ![f] = s]

Marked(f, s) ==
  IF status[f] \in {"ABSENT", "MISSING"} THEN status ELSE [status EXCEPT ![f] = s]

(* claim_next_job takes its time stamp before its UPDATE holds the write lock, so another
   thread with a later stamp may claim first.  A poll of a queue with nothing to claim changes
   nothing and is left out, unless the row was taken after the stamp. *)
Poll(w) ==
  /\ up
  /\ worker[w].stage = "idle" /\ worker[w].now = 0
  /\ NextClaims(jobs, enabled) # {}
  /\ \E stamp \in StampsAfter({jobs[j].started : j \in DOMAIN jobs} \cup {worker[x].now : x \in Workers}) :
       worker' = [worker EXCEPT ![w].now = stamp]
  /\ UNCHANGED <<jobs, status, enabled, up, lost>>

PollEmpty(w) ==
  /\ up
  /\ worker[w].stage = "idle" /\ worker[w].now # 0
  /\ NextClaims(jobs, enabled) = {}
  /\ worker' = [worker EXCEPT ![w].now = 0]
  /\ UNCHANGED <<jobs, status, enabled, up, lost>>

ClaimRow(w, j) ==
  LET f == jobs[j].file
  IN  /\ up
      /\ worker[w].stage = "idle" /\ worker[w].now # 0
      /\ jobs' = Claimed(jobs, j, worker[w].now)
      /\ worker' = [worker EXCEPT ![w] =
           [stage |-> "running", job |-> j, type |-> jobs[j].type, file |-> f,
            tries |-> jobs[j].attempts + 1, cur |-> FALSE, now |-> 0]]
      /\ status' = IF jobs[j].type = "DELETE_CLEANUP" THEN status ELSE Marked(f, "PROCESSING")
      /\ UNCHANGED <<enabled, up, lost>>

Claim(w) == \E j \in NextClaims(jobs, enabled) : ClaimRow(w, j)

(* complete_job and fail_job read is_current_processing_job before their transaction opens.
   An exception, also one of complete_job's own, leads to a fail_job with a reading of its own. *)
ReadCurrency(w, stage) ==
  /\ worker' = [worker EXCEPT ![w].stage = stage, ![w].cur = IsCurrent(jobs, worker[w].job)]
  /\ UNCHANGED <<jobs, status, enabled, up, lost>>

ReadToComplete(w) == worker[w].stage = "running" /\ ReadCurrency(w, "completing")
ReadToFail(w)     == worker[w].stage # "idle" /\ ReadCurrency(w, "failing")

(* The transaction of complete_job, given what it knows of the job's currency. *)
CompleteJob(w, cur, final) ==
  LET j == worker[w].job
  IN  /\ \E D \in IF Writable(jobs, j) THEN Prunable(Completed(jobs, j)) ELSE {{}} :
           jobs' = Without(Completed(jobs, j), D)
      /\ status' = IF Writable(jobs, j) /\ cur THEN Marked(worker[w].file, final) ELSE status
      /\ worker' = [worker EXCEPT ![w] = Idle]
      /\ UNCHANGED <<enabled, up, lost>>

(* A bypass or a superseded job: the currency was read earlier. *)
CompleteRead(w, final) ==
  /\ worker[w].stage = "completing"
  /\ CompleteJob(w, worker[w].cur, final)

(* Cleanup or full persistence: the purge has opened the transaction, the read is current. *)
CompleteNow(w, final) ==
  /\ worker[w].stage = "running"
  /\ CompleteJob(w, IsCurrent(jobs, worker[w].job), final)

(* JobQueue.fail_job: another attempt while there are attempts left, unless it is permanent. *)
M_RetriesOneMore(w, permanent) == ~permanent /\ worker[w].tries <= MaxAttempts

Retries(w, permanent) == ~permanent /\ worker[w].tries < MaxAttempts

FailJob(w, permanent) ==
  LET j     == worker[w].job
      retry == Retries(w, permanent)
  IN  /\ worker[w].stage = "failing"
      /\ \E D \in IF Writable(jobs, j) /\ ~retry THEN Prunable(Failed(jobs, j, retry)) ELSE {{}} :
           jobs' = Without(Failed(jobs, j, retry), D)
      /\ status' = IF Writable(jobs, j) /\ worker[w].cur
                   THEN Marked(worker[w].file, IF retry THEN "QUEUED" ELSE "FAILED")
                   ELSE status
      /\ worker' = [worker EXCEPT ![w] = Idle]
      /\ UNCHANGED <<enabled, up, lost>>

(* The write lock is not free within busy_timeout: fail_job itself raises, _worker_loop logs
   the exception and goes on, and the row stays PROCESSING. *)
Abandon(w) ==
  /\ worker[w].stage # "idle"
  /\ lost' = lost \cup {worker[w].job}
  /\ worker' = [worker EXCEPT ![w] = Idle]
  /\ UNCHANGED <<jobs, status, enabled, up>>

-----------------------------------------------------------------------------
(* Time and the process. *)

BackoffOver(j) ==
  /\ j \in RowsIn(jobs, {"PENDING"})
  /\ jobs[j].backoff
  /\ jobs' = [jobs EXCEPT ![j].backoff = FALSE]
  /\ UNCHANGED <<status, enabled, worker, up, lost>>

Crash ==
  /\ up
  /\ up' = FALSE
  /\ worker' = [w \in Workers |-> Idle]
  /\ lost' = {}
  /\ UNCHANGED <<jobs, status, enabled>>

(* EngineCoordinator.initialize: recovery in one transaction, then the threads start. *)
M_BootWithoutRecovery ==
  /\ ~up
  /\ up' = TRUE
  /\ UNCHANGED <<jobs, status, enabled, worker, lost>>

(* Every file in process is queued, whether or not it has a row to recover. *)
M_BootQueuesAll ==
  /\ ~up
  /\ up' = TRUE
  /\ jobs' = Recovered(jobs)
  /\ status' = [f \in Files |-> IF status[f] = "PROCESSING" THEN "QUEUED" ELSE status[f]]
  /\ UNCHANGED <<enabled, worker, lost>>

Boot ==
  /\ ~up
  /\ up' = TRUE
  /\ jobs' = Recovered(jobs)
  /\ status' = [f \in Files |->
       IF status[f] = "PROCESSING" /\ RowsOf(jobs, f) \cap RowsIn(jobs, {"PROCESSING"}) # {}
       THEN "QUEUED" ELSE status[f]]
  /\ UNCHANGED <<enabled, worker, lost>>

-----------------------------------------------------------------------------
Produce(f) ==
  \/ \E src \in Sources, changed \in BOOLEAN : Discover(f, src, changed)
  \/ Register(f)
  \/ Rename(f)
  \/ Oversize(f)
  \/ ScanError(f)
  \/ VanishWatched(f)
  \/ VanishScanned(f)

Seek(w) == Poll(w) \/ PollEmpty(w) \/ Claim(w)

Cleans(w) == worker[w].type = "DELETE_CLEANUP"

Work(w) ==
  \/ ReadToComplete(w)
  \/ ReadToFail(w)
  \/ ~Cleans(w) /\ CompleteRead(w, "INDEXED")
  \/ \E final \in IF Cleans(w) THEN {"MISSING"} ELSE {"INDEXED", "SKIPPED"} : CompleteNow(w, final)
  \/ \E permanent \in IF Cleans(w) THEN {TRUE} ELSE BOOLEAN : FailJob(w, permanent)

Next ==
  \/ \E f \in Files : Produce(f) \/ RemoveFolder(f) \/ SetEnabled(f)
  \/ \E w \in Workers : Seek(w) \/ Work(w) \/ Abandon(w)
  \/ \E j \in JobIds : BackoffOver(j)
  \/ Crash
  \/ Boot

Spec == Init /\ [][Next]_vars
=============================================================================
