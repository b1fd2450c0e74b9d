---------------------------- MODULE IndexingEngine ----------------------------
(***************************************************************************)
(* The indexing engine around the job queue: files on disk, the watcher    *)
(* that debounces and applies their events, the scanner, the pipeline of a *)
(* worker thread, and the index (chunks and vectors) that search reads.    *)
(*                                                                         *)
(* Every step that touches the job table is an action of JobQueue in       *)
(* conjunction with what the same transaction does to the rest, so this    *)
(* specification implements JobQueue's.                                    *)
(*                                                                         *)
(* Each file is the only file of its registered folder.  Files influence   *)
(* each other only by occupying workers, so what several files do in one   *)
(* transaction of the watcher or of the scanner shows file by file.        *)
(***************************************************************************)
EXTENDS JobQueue

CONSTANTS
  Content,     \* Content[n] is what the n-th write of a file leaves on disk
  Big,         \* contents above MAX_FILE_SIZE_BYTES
  Unsupported, \* contents without a parser
  Opaque,      \* contents that are encrypted or need OCR
  Corrupt,     \* contents their parser rejects
  FlushSlots   \* timer threads that may wait for the write lock at once

ASSUME EngineAssumption ==
  /\ DOMAIN Content \in SUBSET (Nat \ {0})
  /\ 0 \notin {Content[n] : n \in DOMAIN Content}

VARIABLES
  disk,      \* the write that is on disk, 0 when the file does not exist
  written,   \* how often the file was written
  row,       \* files.sha256 (a content) and files.modified_at (a write), 0 when NULL
  chunks,    \* the content whose chunks are stored, 0 for none
  vectors,   \* the content whose embeddings are stored, 0 for none
  pipe,      \* what each worker thread has read and decided about its job
  notice,    \* the debouncer's pending event of the file
  flight,    \* events of flushed batches that are not applied yet
  scan       \* what a scan of the folder has seen of the file, and its mtime

indexvars == <<row, chunks, vectors>>
sourcevars == <<disk, written, notice, flight, scan>>
evars == <<vars, indexvars, sourcevars, pipe>>

Contents == {Content[n] : n \in DOMAIN Content}

Steps == {"off", "clean", "stat", "check", "hash", "parse", "judge", "persist",
          "bypass", "yield", "fail", "retry"}

Off == [step |-> "off", known |-> 0, hash |-> 0, text |-> 0, vec |-> FALSE, gone |-> FALSE]

ScanSteps == {"idle", "seen", "unseen", "new", "changed", "oversized", "error", "lost"}

NoScan == [step |-> "idle", strict |-> FALSE, mtime |-> 0]

EngineInit ==
  /\ Init
  /\ disk = [f \in Files |-> 0]
  /\ written = [f \in Files |-> 0]
  /\ row = [f \in Files |-> [sha |-> 0, mtime |-> 0]]
  /\ chunks = [f \in Files |-> 0]
  /\ vectors = [f \in Files |-> 0]
  /\ pipe = [w \in Workers |-> Off]
  /\ notice = [f \in Files |-> "none"]
  /\ flight = [f \in Files |-> [k \in FlushSlots |-> "none"]]
  /\ scan = [f \in Files |-> NoScan]

OnDisk(f) == Content[disk[f]]

-----------------------------------------------------------------------------
(* The disk and the operating system's notifications.  CREATE and MODIFY are one event here:
   the debouncer merges them and the watcher treats them alike.  In the debouncer the latest
   event of a path replaces an earlier one. *)
Notify(f, event) ==
  notice' = IF up /\ enabled[f] THEN [notice EXCEPT ![f] = event] ELSE notice

Write(f) ==
  /\ written[f] + 1 \in DOMAIN Content
  /\ written' = [written EXCEPT ![f] = @ + 1]
  /\ disk' = [disk EXCEPT ![f] = written[f] + 1]
  /\ Notify(f, "CHANGE")
  /\ UNCHANGED <<vars, indexvars, pipe, flight, scan>>

Erase(f) ==
  /\ disk[f] # 0
  /\ disk' = [disk EXCEPT ![f] = 0]
  /\ Notify(f, "DELETE")
  /\ UNCHANGED <<vars, indexvars, pipe, written, flight, scan>>

(* The file comes back as it was, with its old modification time. *)
Restore(f) ==
  /\ disk[f] = 0 /\ written[f] > 0
  /\ disk' = [disk EXCEPT ![f] = written[f]]
  /\ Notify(f, "CHANGE")
  /\ UNCHANGED <<vars, indexvars, pipe, written, flight, scan>>

-----------------------------------------------------------------------------
(* The watcher.  _flush empties the debouncer, then processes the batch without its lock; the
   timer of later events is another thread. *)
Flush(f, k) ==
  /\ up
  /\ notice[f] # "none" /\ flight[f][k] = "none"
  /\ flight' = [flight EXCEPT ![f][k] = notice[f]]
  /\ notice' = [notice EXCEPT ![f] = "none"]
  /\ UNCHANGED <<vars, indexvars, pipe, disk, written, scan>>

Landed(f, k) ==
  /\ flight' = [flight EXCEPT ![f][k] = "none"]
  /\ UNCHANGED <<pipe, disk, written, notice, scan>>

Seen(f, mtime) == row' = [row EXCEPT ![f].mtime = mtime]

ApplyChange(f, k) ==
  /\ up /\ flight[f][k] = "CHANGE"
  /\ IF ~enabled[f] \/ disk[f] = 0
     THEN UNCHANGED <<vars, row>>
     ELSE /\ IF OnDisk(f) \in Big
             THEN Oversize(f)
             ELSE Discover(f, <<"HASH_VERIFICATION", 3>>, row[f].mtime # disk[f])
          /\ Seen(f, disk[f])
  /\ Landed(f, k)
  /\ UNCHANGED <<chunks, vectors>>

ApplyDelete(f, k) ==
  /\ up /\ flight[f][k] = "DELETE"
  /\ IF enabled[f] /\ status[f] # "ABSENT" THEN VanishWatched(f) ELSE UNCHANGED vars
  /\ Landed(f, k)
  /\ UNCHANGED indexvars

(* The events left the debouncer when the batch was taken: if its transaction fails, the
   exception is logged and they are gone. *)
LoseBatch(f, k) ==
  /\ up /\ flight[f][k] # "none"
  /\ Landed(f, k)
  /\ UNCHANGED <<vars, indexvars>>

-----------------------------------------------------------------------------
(* The scanner.  os.walk lists the folder; then each listed file is looked at, and each row
   that was not listed is looked up, before the first write opens the transaction.  A scan is
   strict by the folder's integrity mode or by the RESCAN request. *)
ScanList(f) ==
  /\ up /\ scan[f].step = "idle"
  /\ enabled[f] \/ status[f] # "ABSENT"
  /\ \E strict \in BOOLEAN :
       scan' = [scan EXCEPT ![f] = [step   |-> IF disk[f] = 0 THEN "unseen" ELSE "seen",
                                    strict |-> strict,
                                    mtime  |-> 0]]
  /\ UNCHANGED <<vars, indexvars, pipe, disk, written, notice, flight>>

Tracked(f) == status[f] \notin {"ABSENT", "MISSING"}

(* What the scanner decides to do about a listed file that is there, and one that is gone. *)
ScanVerdict(f) ==
  CASE scan[f].step = "unseen" -> IF Tracked(f) THEN "lost" ELSE "idle"
    [] scan[f].step = "seen" /\ disk[f] = 0 -> IF status[f] # "ABSENT" THEN "error" ELSE "idle"
    [] scan[f].step = "seen" /\ disk[f] # 0 /\ status[f] = "ABSENT" -> "new"
    [] scan[f].step = "seen" /\ disk[f] # 0 /\ status[f] # "ABSENT" /\ OnDisk(f) \in Big ->
         IF status[f] = "SKIPPED" THEN "idle" ELSE "oversized"
    [] OTHER ->
         IF row[f].mtime # disk[f] \/ scan[f].strict \/ row[f].sha = 0 THEN "changed" ELSE "idle"

ScanLook(f) ==
  /\ up /\ scan[f].step \in {"seen", "unseen"}
  /\ scan' = [scan EXCEPT ![f] =
       IF ScanVerdict(f) = "idle" THEN NoScan
       ELSE [@ EXCEPT !.step = ScanVerdict(f), !.mtime = disk[f]]]
  /\ UNCHANGED <<vars, indexvars, pipe, disk, written, notice, flight>>

Purged(f) ==
  /\ chunks' = [chunks EXCEPT ![f] = 0]
  /\ vectors' = [vectors EXCEPT ![f] = 0]

ScanOversize(f) == Oversize(f) /\ Seen(f, scan[f].mtime)

ScanDiscover(f, src) ==
  /\ Discover(f, src, row[f].mtime # scan[f].mtime)
  /\ Seen(f, scan[f].mtime)
  /\ UNCHANGED <<chunks, vectors>>

ScanApply(f) ==
  /\ up
  /\ \/ /\ scan[f].step = "new" /\ Content[scan[f].mtime] \in Big
        /\ ScanOversize(f) /\ UNCHANGED <<chunks, vectors>>
     \/ /\ scan[f].step = "new" /\ Content[scan[f].mtime] \notin Big
        /\ ScanDiscover(f, <<IF scan[f].strict THEN "HASH_VERIFICATION" ELSE "METADATA_DISCOVERY", 1>>)
     \/ scan[f].step = "changed" /\ ScanDiscover(f, <<"HASH_VERIFICATION", 2>>)
     \/ scan[f].step = "oversized" /\ ScanOversize(f) /\ Purged(f)
     \/ /\ scan[f].step = "error"
        /\ IF Tracked(f) THEN ScanError(f) ELSE UNCHANGED vars
        /\ UNCHANGED indexvars
     \/ scan[f].step = "lost" /\ VanishScanned(f) /\ UNCHANGED indexvars
  /\ scan' = [scan EXCEPT ![f] = NoScan]
  /\ UNCHANGED <<pipe, disk, written, notice, flight>>

-----------------------------------------------------------------------------
(* The worker's pipeline.  Only the transactions change the queue; between them the thread
   reads the database and the disk at moments of its own. *)
Go(w, step) == pipe' = [pipe EXCEPT ![w].step = step]

Done(w) == pipe' = [pipe EXCEPT ![w] = Off]

File(w) == worker[w].file

Seeking(w) == (Poll(w) \/ PollEmpty(w)) /\ UNCHANGED <<indexvars, sourcevars, pipe>>

Take(w) ==
  /\ Claim(w)
  /\ Go(w, IF worker'[w].type = "DELETE_CLEANUP" THEN "clean" ELSE "stat")
  /\ UNCHANGED <<indexvars, sourcevars>>

(* DELETE_CLEANUP: purge_file_index and complete_job, whatever has become of the file. *)
Clean(w) ==
  /\ pipe[w].step = "clean"
  /\ CompleteNow(w, "MISSING")
  /\ IF pipe[w].gone THEN UNCHANGED <<chunks, vectors>> ELSE Purged(File(w))
  /\ Done(w)
  /\ UNCHANGED <<row, sourcevars>>

M_StatMarksMissing(w) ==
  /\ pipe[w].step = "stat"
  /\ Go(w, IF disk[File(w)] = 0 THEN "fail" ELSE "check")
  /\ status' = IF disk[File(w)] = 0 THEN Marked(File(w), "MISSING") ELSE status
  /\ UNCHANGED <<jobs, enabled, worker, up, lost, indexvars, sourcevars>>

Stat(w) ==
  /\ pipe[w].step = "stat"
  /\ Go(w, IF disk[File(w)] = 0 THEN "fail" ELSE "check")
  /\ UNCHANGED <<vars, indexvars, sourcevars>>

(* Is the row still there, and is this job the one that owns it? *)
Verdict(w, go) ==
  IF pipe[w].gone \/ ~Tracked(File(w)) THEN "fail"
  ELSE IF IsCurrent(jobs, worker[w].job) THEN go ELSE "yield"

(* known is the hash that would let the pipeline bypass parsing: it needs stored chunks. *)
Check(w) ==
  /\ pipe[w].step = "check"
  /\ pipe' = [pipe EXCEPT
       ![w].step  = Verdict(w, "hash"),
       ![w].known = IF Verdict(w, "hash") = "hash" /\ chunks[File(w)] # 0
                    THEN row[File(w)].sha ELSE 0]
  /\ UNCHANGED <<vars, indexvars, sourcevars>>

(* Size guard, SHA-256 and format detection; the file may be locked or gone. *)
Hash(w) ==
  /\ pipe[w].step = "hash"
  /\ \/ Go(w, "retry")
     \/ /\ disk[File(w)] # 0
        /\ LET c == OnDisk(File(w))
           IN  pipe' = [pipe EXCEPT
                 ![w].step = IF c \in Big \cup Unsupported \/ c = pipe[w].known
                             THEN "judge" ELSE "parse",
                 ![w].hash = IF c \in Big THEN 0 ELSE c]
  /\ UNCHANGED <<vars, indexvars, sourcevars>>

(* The parser opens the file a second time, and may find another document than the one that it
   was chosen for.  Embedding may fail; the chunks are kept. *)
Parse(w) ==
  /\ pipe[w].step = "parse"
  /\ IF disk[File(w)] = 0 \/ OnDisk(File(w)) \in Corrupt \cup Unsupported
     THEN Go(w, "fail")
     ELSE \E vec \in BOOLEAN :
            pipe' = [pipe EXCEPT
              ![w].step = "judge",
              ![w].text = IF OnDisk(File(w)) \in Opaque THEN 0 ELSE OnDisk(File(w)),
              ![w].vec  = vec]
  /\ UNCHANGED <<vars, indexvars, sourcevars>>

Bypassed(w) ==
  /\ pipe[w].text = 0
  /\ pipe[w].hash \notin {0} \cup Unsupported
  /\ pipe[w].hash = pipe[w].known

(* _persist_pipeline_outcome reads the row and the job's currency before it writes. *)
Judge(w) ==
  /\ pipe[w].step = "judge"
  /\ Go(w, Verdict(w, IF Bypassed(w) THEN "bypass" ELSE "persist"))
  /\ UNCHANGED <<vars, indexvars, sourcevars>>

(* sha256 = COALESCE(?, sha256), under the same condition as the status. *)
Hashed(w, cur) ==
  row' = IF /\ cur /\ Writable(jobs, worker[w].job)
            /\ Tracked(File(w)) /\ pipe[w].hash # 0
         THEN [row EXCEPT ![File(w)].sha = pipe[w].hash] ELSE row

(* The purge takes the old vectors with the old chunks; the new chunks may come without. *)
M_StoredKeepingVectors(w) ==
  IF pipe[w].gone THEN UNCHANGED <<chunks, vectors>>
  ELSE /\ chunks' = [chunks EXCEPT ![File(w)] = pipe[w].text]
       /\ vectors' = [vectors EXCEPT ![File(w)] = IF pipe[w].vec THEN pipe[w].text ELSE @]

Stored(w) ==
  IF pipe[w].gone THEN UNCHANGED <<chunks, vectors>>
  ELSE /\ chunks' = [chunks EXCEPT ![File(w)] = pipe[w].text]
       /\ vectors' = [vectors EXCEPT ![File(w)] = IF pipe[w].vec THEN pipe[w].text ELSE 0]

(* Purge, insert, complete.  Inserting chunks of a deleted row breaks the foreign key. *)
Persist(w) ==
  /\ pipe[w].step = "persist"
  /\ IF pipe[w].gone /\ pipe[w].text # 0
     THEN Go(w, "fail") /\ UNCHANGED <<vars, indexvars>>
     ELSE /\ CompleteNow(w, IF pipe[w].text = 0 THEN "SKIPPED" ELSE "INDEXED")
          /\ Stored(w)
          /\ Hashed(w, IsCurrent(jobs, worker[w].job))
          /\ Done(w)
  /\ UNCHANGED sourcevars

(* The other ends of a job read the currency once more and then commit. *)
Look(w) ==
  /\ \/ pipe[w].step \in {"bypass", "yield"} /\ ReadToComplete(w)
     \/ pipe[w].step \in {"fail", "retry"} /\ worker[w].stage = "running" /\ ReadToFail(w)
  /\ UNCHANGED <<pipe, indexvars, sourcevars>>

(* A statement raises, for instance because the database stays locked: the session rolls back
   and the handler of _process_job fails the job for good. *)
Break(w) ==
  /\ pipe[w].step # "off"
  /\ ReadToFail(w)
  /\ Go(w, "fail")
  /\ UNCHANGED <<indexvars, sourcevars>>

Finish(w) ==
  /\ \/ /\ pipe[w].step = "bypass"
        /\ CompleteRead(w, "INDEXED")
        /\ Hashed(w, worker[w].cur)
     \/ pipe[w].step = "yield" /\ CompleteRead(w, "INDEXED") /\ UNCHANGED row
     \/ pipe[w].step = "fail" /\ FailJob(w, TRUE) /\ UNCHANGED row
     \/ pipe[w].step = "retry" /\ FailJob(w, FALSE) /\ UNCHANGED row
  /\ Done(w)
  /\ UNCHANGED <<chunks, vectors, sourcevars>>

GiveUp(w) ==
  /\ Abandon(w)
  /\ Done(w)
  /\ UNCHANGED <<indexvars, sourcevars>>

-----------------------------------------------------------------------------
(* purge_folder.  Whatever still names the old ids finds nothing, even when the folder is
   registered again: a thread's file, the debouncer's events, a scan's folder. *)
DropFolder(f) ==
  /\ RemoveFolder(f)
  /\ row' = [row EXCEPT ![f] = [sha |-> 0, mtime |-> 0]]
  /\ Purged(f)
  /\ pipe' = [w \in Workers |-> IF worker[w].file = f THEN [pipe[w] EXCEPT !.gone = TRUE] ELSE pipe[w]]
  /\ notice' = [notice EXCEPT ![f] = "none"]
  /\ flight' = [flight EXCEPT ![f] = [k \in FlushSlots |-> "none"]]
  /\ scan' = [scan EXCEPT ![f] = NoScan]
  /\ UNCHANGED <<disk, written>>

Toggle(f) == SetEnabled(f) /\ UNCHANGED <<indexvars, sourcevars, pipe>>

RetryDue(j) == BackoffOver(j) /\ UNCHANGED <<indexvars, sourcevars, pipe>>

(* What is only in memory is gone. *)
Die ==
  /\ Crash
  /\ pipe' = [w \in Workers |-> Off]
  /\ notice' = [f \in Files |-> "none"]
  /\ flight' = [f \in Files |-> [k \in FlushSlots |-> "none"]]
  /\ scan' = [f \in Files |-> NoScan]
  /\ UNCHANGED <<indexvars, disk, written>>

Start == Boot /\ UNCHANGED <<indexvars, sourcevars, pipe>>

-----------------------------------------------------------------------------
Watch(f) == \E k \in FlushSlots : Flush(f, k) \/ ApplyChange(f, k) \/ ApplyDelete(f, k)

Index(w) ==
  \/ Seeking(w) \/ Take(w) \/ Clean(w) \/ Stat(w) \/ Check(w)
  \/ Hash(w) \/ Parse(w) \/ Judge(w) \/ Persist(w) \/ Look(w) \/ Finish(w)

Surround(f) ==
  \/ Write(f) \/ Erase(f) \/ Restore(f)
  \/ Watch(f)
  \/ \E k \in FlushSlots : LoseBatch(f, k)
  \/ ScanList(f) \/ ScanLook(f) \/ ScanApply(f)
  \/ DropFolder(f) \/ Toggle(f)

EngineNext ==
  \/ \E f \in Files : Surround(f)
  \/ \E w \in Workers : Index(w) \/ Break(w) \/ GiveUp(w)
  \/ \E j \in JobIds : RetryDue(j)
  \/ Die
  \/ Start

EngineSpec == EngineInit /\ [][EngineNext]_evars
=============================================================================
