-------------------------- MODULE IndexingEngineProps --------------------------
(***************************************************************************)
(* What the indexing engine promises about the index that search reads.    *)
(***************************************************************************)
EXTENDS IndexingEngine, JobQueueProps

Writes == DOMAIN Content \cup {0}
Texts  == Contents \cup {0}
Events == {"none", "CHANGE", "DELETE"}

Progress == [step : Steps, known : Texts, hash : Texts, text : Texts, vec : BOOLEAN, gone : BOOLEAN]

Glance == [step : ScanSteps, strict : BOOLEAN, mtime : Writes]

SourcesTypeOK ==
  /\ disk \in [Files -> Writes]
  /\ written \in [Files -> Writes]
  /\ notice \in [Files -> Events]
  /\ flight \in [Files -> [FlushSlots -> Events]]
  /\ scan \in [Files -> Glance]

IndexTypeOK ==
  /\ row \in [Files -> [sha : Texts, mtime : Writes]]
  /\ chunks \in [Files -> Texts]
  /\ vectors \in [Files -> Texts]

(* Every variable has its type, those of the queue included. *)
EngineTypeOK == TypeOK /\ SourcesTypeOK /\ IndexTypeOK /\ pipe \in [Workers -> Progress]

(* A thread inside _process_job has a job of some file; only a cleanup job is in the cleanup
   branch, and a cleanup job leaves it by an exception only. *)
PipeMatchesJob ==
  \A w \in Workers :
    /\ pipe[w].step # "off" => worker[w].file \in Files
    /\ pipe[w].step = "clean" => Cleans(w)
    /\ pipe[w].step \notin {"off", "clean", "fail"} => ~Cleans(w)

(* Stored embeddings always belong to the stored chunks: purge and insertion of chunks and
   vectors share one transaction, and a failed embedding leaves no old vector behind. *)
VectorsMatchChunks == \A f \in Files : vectors[f] \in {0, chunks[f]}

(* Together with the queue's invariant, which the engine keeps too. *)
EngineInv == QueueInv /\ EngineTypeOK /\ PipeMatchesJob /\ VectorsMatchChunks

(* Nothing is in flight for the file: no event, no scan, no live job, no thread. *)
Quiet(f) ==
  /\ up
  /\ notice[f] = "none" /\ scan[f].step = "idle"
  /\ \A k \in FlushSlots : flight[f][k] = "none"
  /\ LiveRowsOf(jobs, f) = {}
  /\ \A w \in Workers : ~(Busy(w) /\ worker[w].file = f)

(* Once things are quiet, an INDEXED file that has text in the index has the text that is on
   disk, unless what is on disk is above the size limit: the watcher sets such a file SKIPPED
   without superseding a job that runs, which brings INDEXED and the old text back.  It takes
   contents that differ: the pipeline hashes a file and then reads it again, and a content
   that returns may be taken for indexed. *)
NoStaleText ==
  \A f \in Files :
    Quiet(f) /\ status[f] = "INDEXED" /\ chunks[f] # 0 =>
      disk[f] # 0 /\ (chunks[f] = OnDisk(f) \/ OnDisk(f) \in Big)

(* What the row and the index should say of the file that is on disk. *)
IndexReflects(f) ==
  \/ status[f] = "INDEXED" /\ chunks[f] = OnDisk(f)
     /\ OnDisk(f) \notin Big \cup Unsupported \cup Opaque \cup Corrupt
  \/ status[f] = "SKIPPED" /\ OnDisk(f) \in Unsupported \cup Opaque /\ chunks[f] = 0
  \/ status[f] = "FAILED" /\ OnDisk(f) \in Corrupt

(* A file that is only ever created and modified ends up indexed as it is on disk, once it is
   left alone: the debouncer, the job of every batch, and the ownership checks lose no change. *)
Converges == \A f \in Files : <>[](disk[f] # 0 => Quiet(f) /\ IndexReflects(f))

-----------------------------------------------------------------------------
(* What documents, comments and tests of the repository say, and some interleaving refutes. *)

(* An indexed file is indexed as it is on disk: no stale chunks replace newer ones, and an
   unchanged hash means unchanged chunks. *)
IndexedIsFresh ==
  \A f \in Files : Quiet(f) /\ status[f] = "INDEXED" /\ disk[f] # 0 => chunks[f] = OnDisk(f)

(* Nothing of a deleted file stays behind. *)
MissingIsPurged == \A f \in Files : Quiet(f) /\ status[f] = "MISSING" => chunks[f] = 0

(* Deleting and recreating a file preserves the recreated content. *)
IndexedHasChunks == \A f \in Files : Quiet(f) /\ status[f] = "INDEXED" => chunks[f] # 0

(* A file that outgrows the limit is purged. *)
SkippedIsPurged == \A f \in Files : Quiet(f) /\ status[f] = "SKIPPED" => chunks[f] = 0
=============================================================================
