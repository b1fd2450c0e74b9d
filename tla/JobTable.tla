------------------------------- MODULE JobTable -------------------------------
(***************************************************************************)
(* The table indexing_jobs and the SQL statements of JobRepository that    *)
(* read and write it, as operators from tables to tables.                  *)
(*                                                                         *)
(* A table is a function from the ids of the existing rows to rows.  The   *)
(* statements are composed into transactions by JobQueue.  Error texts,    *)
(* completed_at and the folder column are left out: a folder is a property *)
(* of the row's file here.  A time stamp is a natural number, 0 is NULL;   *)
(* created_at and started_at are never compared with each other, so each   *)
(* column has stamps of its own.  backoff stands for "retry_at lies in    *)
(* the future".                                                            *)
(*                                                                         *)
(* In this project the operators named M_... are faulty variants of the    *)
(* definitions that follow them.  No specification uses them: they serve   *)
(* to show that each property can fail.                                    *)
(***************************************************************************)
EXTENDS Naturals, FiniteSets

CONSTANTS
  Files,        \* the tracked files (file_id)
  JobIds,       \* the uuids of job rows
  MaxAttempts,  \* MAX_RETRY_ATTEMPTS of core/config.py
  Retention     \* TERMINAL_JOB_RETENTION

ASSUME JobTableAssumption == MaxAttempts \in Nat \ {0} /\ Retention \in Nat

(* DOCUMENT_PARSE and CHUNK_GENERATION are in the schema and nothing enqueues them. *)
JobTypes == {"METADATA_DISCOVERY", "HASH_VERIFICATION", "DELETE_CLEANUP"}
Live     == {"PENDING", "PROCESSING"}
Finished == {"COMPLETED", "FAILED", "CANCELLED"}

Row == [file : Files, type : JobTypes, status : Live \cup Finished, prio : Nat,
        attempts : Nat, created : Nat, started : Nat, backoff : BOOLEAN]

IsTable(js) == DOMAIN js \in SUBSET JobIds /\ js \in [DOMAIN js -> Row]

RowsOf(js, f)       == {j \in DOMAIN js : js[j].file = f}
RowsIn(js, states)  == {j \in DOMAIN js : js[j].status \in states}
LiveRowsOf(js, f)   == RowsOf(js, f) \cap RowsIn(js, Live)

-----------------------------------------------------------------------------
(* enqueue_job: a PENDING row of the same file and type is returned instead of a new one. *)
M_DuplicatesLive(js, f, t) ==
  {j \in RowsOf(js, f) : js[j].type = t /\ js[j].status \in Live}

Duplicates(js, f, t) ==
  {j \in RowsOf(js, f) : js[j].type = t /\ js[j].status = "PENDING"}

NewRow(f, t, p, stamp) ==
  [file |-> f, type |-> t, status |-> "PENDING", prio |-> p,
   attempts |-> 0, created |-> stamp, started |-> 0, backoff |-> FALSE]

Insert(js, id, row) == [j \in DOMAIN js \cup {id} |-> IF j = id THEN row ELSE js[j]]

-----------------------------------------------------------------------------
(* claim_next_job: the subquery that chooses the row and the UPDATE of that row. *)
Claimable(js, enabled) ==
  {j \in RowsIn(js, {"PENDING"}) :
     /\ ~js[j].backoff
     /\ enabled[js[j].file] \/ js[j].type = "DELETE_CLEANUP"}

NotAfter(a, b) == a.prio > b.prio \/ (a.prio = b.prio /\ a.created <= b.created)

NextClaims(js, enabled) ==
  {j \in Claimable(js, enabled) : \A k \in Claimable(js, enabled) : NotAfter(js[j], js[k])}

Claimed(js, j, stamp) ==
  [js EXCEPT ![j].status = "PROCESSING", ![j].started = stamp, ![j].attempts = @ + 1]

-----------------------------------------------------------------------------
(* is_current_processing_job: does row k take the file away from row j? *)
StartedLater(k, j) == k.started > 0 /\ j.started > 0 /\ k.started > j.started

Supersedes(k, j) ==
  \/ /\ k.status = "PENDING"
     /\ k.created > j.created \/ (k.created = j.created /\ j.status = "PROCESSING")
  \/ /\ k.status \in {"PROCESSING", "COMPLETED"}
     /\ StartedLater(k, j) \/ k.created > j.created

M_CurrentIfRunnable(js, j) == j \in RowsIn(js, Live)

IsCurrent(js, j) ==
  /\ j \in RowsIn(js, Live)
  /\ \A k \in RowsOf(js, js[j].file) \ {j} : ~Supersedes(js[k], js[j])

-----------------------------------------------------------------------------
(* The UPDATEs of complete_job, fail_job and cancel_pending_jobs_for_file.  The first two
   leave a CANCELLED row alone, and match no row once the row is pruned or its folder deleted. *)
M_WritableAny(js, j) == j \in DOMAIN js

Writable(js, j) == j \in DOMAIN js /\ js[j].status # "CANCELLED"

Completed(js, j) == IF Writable(js, j) THEN [js EXCEPT ![j].status = "COMPLETED"] ELSE js

Failed(js, j, retry) ==
  IF Writable(js, j)
  THEN [js EXCEPT ![j].status = IF retry THEN "PENDING" ELSE "FAILED", ![j].backoff = retry]
  ELSE js

Cancelled(js, f) ==
  [j \in DOMAIN js |-> IF js[j].file = f /\ js[j].status \in Live
                       THEN [js[j] EXCEPT !.status = "CANCELLED"] ELSE js[j]]

-----------------------------------------------------------------------------
(* prune_terminal_jobs keeps the Retention newest finished rows.  Their order is the wall
   clock's (completed_at, else created_at) and is abstracted: any Retention of them stay. *)
Prunable(js) ==
  LET old == RowsIn(js, Finished)
  IN  {D \in SUBSET old :
         Cardinality(old \ D) =
           IF Cardinality(old) > Retention THEN Retention ELSE Cardinality(old)}

Without(js, D) == [j \in DOMAIN js \ D |-> js[j]]

-----------------------------------------------------------------------------
(* recover_stale_processing_jobs, called without a threshold. *)
Recovered(js) ==
  [j \in DOMAIN js |->
     IF js[j].status = "PROCESSING"
     THEN [js[j] EXCEPT !.status = "PENDING", !.started = 0,
                        !.attempts = IF @ > 0 THEN @ - 1 ELSE 0]
     ELSE js[j]]
=============================================================================
