# FileMind in TLA+

FileMind watches folders, parses the documents in them, stores their chunks and
embeddings in SQLite, and answers searches, chats and requests for summaries from that
index. A desktop program starts the Python backend and keeps it alive. This directory
specifies the parts of it that keep state, checks them with TLC on small instances, and
proves what matters most with TLAPS. Source paths below are relative to
`src/backend/app/` unless they start with `src/`.

Contents: 1 the system, 2 the modules, 3 how they correspond to the code, 4 the runs,
5 the proofs, 6 findings and divergences, 7 what is not modelled, 8 what is left.

## 1. The system

| Component | State it keeps | Operations | Talks to |
|---|---|---|---|
| Job table (`db/repositories/jobs.py`) | rows of `indexing_jobs` | enqueue, claim, complete, fail, cancel, recover, prune, `is_current_processing_job` | everything that indexes |
| Job queue, worker pool (`engine/queue.py`, `engine/worker.py`) | 2 daemon threads, `_running`, `_paused`, a wake event | `_worker_loop`, `_process_job`, `_persist_pipeline_outcome`, pause, resume, stop | job table, pipeline |
| Pipeline (`engine/pipeline.py`, `engine/hasher.py`) | none | size guard, hash, bypass, parse, chunk, embed | disk, parsers, embedding engine |
| Scanner (`engine/discovery.py`) | the walk in progress | `scan_folder` | disk, files, job table |
| Watcher (`engine/watcher.py`) | debouncer (pending events, timer), watches | `push_event`, `_flush`, `_process_event_sub_batch`, `sync_watches` | observer threads, files, job table |
| Files, chunks (`db/repositories/files.py`, `chunks.py`) | `files`, `chunks`, `chunk_vectors` | upsert, mark missing, rename, record an error, purge, replace | all of the above |
| Folders, single files (`db/repositories/folders.py`, `routers/folders.py`, `routers/files.py`) | `folders` | register, update, delete, overlap checks | scanner, watcher |
| Coordinator (`engine/coordinator.py`) | `_initialized` | initialize with recovery, scan threads, shutdown | pool, watcher, queue |
| Sessions (`db/connection.py`, `core/deps.py`) | a connection and a depth for each thread | `session()`, `get_repo` | every repository |
| Model loaders (`retrieval/embeddings.py`, `reranker.py`) | init event, error, failure time, readiness registry | lazy load with time-out, cool-down | pipeline, search |
| Hybrid search and query cache (`retrieval/hybrid.py`, `lexical.py`) | LRU cache of 128 answers, cleared after every change of the index | search, fuse, rerank, degrade, invalidate | index, loaders |
| Vector search (`retrieval/vector_store.py`) | none | count, fetch, match, widen | index |
| Chat (`ai/chat_service.py`) | conversations, messages | turns, rename, delete | search, generation |
| Ask, compare, synthesize (`ai/ask_service.py`, `knowledge_synthesis.py`) | none | evidence, generation | search, chunks, generation |
| Context, prompt, citations (`ai/context.py`, `prompt.py`, `citation.py`) | none | budget, history window, resolution of marks | chat, ask |
| Generation slot (`ai/generation_coordinator.py`) | one semaphore | acquire without waiting, release | chat, ask, summaries |
| Document and folder summaries (`ai/document_understanding.py`, `folder_understanding.py`) | stored insights with the hash of their source | generate, read, staleness | files, chunks, generation |
| Model choice (`routers/models.py`) | the model of a provider object | `select_model` | generation |
| Desktop supervisor (`src/src-tauri/src/main.rs`, `job_object.rs`) | child process, Job Object, restart count, healthy ticks | spawn, watch, restart, shut down | the backend process |
| Chunker (`intelligence/chunker/hierarchical.py`) | none | elements to chunks | pipeline |
| Parsers, detector, path security, settings, export, logging, routes, frontend | none worth a model | | |

### What is hard here

* **The transaction starts late.** Python's `sqlite3` opens a transaction at the first
  INSERT, UPDATE or DELETE of a session. Whatever a handler reads before that (the file
  row, `is_current_processing_job`, the registered folders, a summary's hash) may be
  stale when it writes. Reads and writes are therefore separate steps here.
* **Two worker threads, a scanner, timer threads of the watcher** and request threads
  write the same rows; the same file may have several live jobs of different types and
  priorities. Ownership is decided by time stamps.
* **Jobs outlive processes.** A crash leaves PROCESSING rows; recovery, retry with
  back-off and permanent failure share one counter.
* **Events live in memory.** The debouncer keeps the latest event of a path in the place
  of its first one, rewrites events when directories move, clears all of them before
  their transactions, and may run two batches at once.
* **A file is read twice**, for its hash and for its text, and deduplication, superseding
  and the unchanged-hash bypass all decide not to do work.
* **A connection belongs to a thread, a request does not.** The framework runs the parts
  of a request with a session dependency on whichever thread is free.
* **Slow work inside and outside of transactions.** A search waits for a model to load, a
  chat retrieves inside its write transaction, a summary is stored minutes after its
  source was read.
* **Processes are started in the background**, by two threads, with a budget, while the
  window may close at any moment.

### What makes each component correct

* Job table: a job has one owner; attempts are bounded; finished rows are final; at most
  one running job of a file may persist its result; every job ends.
* Files: QUEUED means that work is queued, but for one way out of a crash; MISSING is undone by producers only.
* Pipeline, scanner, watcher: the index ends up saying what is on disk; vectors belong to
  chunks; nothing stale stays. Watches follow the table of folders; folders do not overlap.
* Sessions: what an ended session wrote is saved, what a failed one wrote is not.
* Search: no answer older than the last change outlives it in the cache; a degraded answer
  says so. The nearest chunks that pass a filter are found.
* Loaders: one load at a time, no caller waits without a thread to wake it.
* Chat: an answer is not listed before its question, unless the two have one time stamp;
  every stored question is answered.
* Generation slot: never more than one holder, always released, nobody waits for it.
* Summaries: shown as current only for the content they were made of, unless that content
  was there only between the reading of the hash and that of the chunks.
* Supervisor: one backend; restarts bounded, budget restored by health; no orphan.
* Chunker, context, citations: nothing lost, nothing invented, limits kept.

## 2. Modules

| Module | Content |
|---|---|
| `JobTable` | `indexing_jobs` as a function, its SQL statements as operators |
| `JobQueue` | EXTENDS JobTable. Transactions of producers, threads, clock, process |
| `JobLease` | abstract: a job is offered, taken by one holder at a time a bounded number of times, over for good |
| `JobQueueProps` | properties of the queue; the queue as an implementation of `JobLease` |
| `IndexingEngine` | EXTENDS JobQueue. Disk, watcher, scanner, pipeline, index, file by file |
| `IndexingEngineProps` | properties of the engine |
| `Watcher` | the observer's events on their way to the files table, over paths and directories |
| `FolderRegistry` | registered folders, the requests that change them, the watches that follow them |
| `SessionPool` | pooled connections under service calls and session dependencies |
| `Retrieval` | hybrid search and the query cache next to the threads that index |
| `VectorSearch` | the widening vector search over a database that changes between statements |
| `ModelLoader` | lazy loading with time-out and cool-down |
| `Chunker`, `Evidence` | the chunker; evidence budget, history window, citations |
| `GenerationSlot`, `Chat`, `Insights`, `Answers` | the slot; conversations; summaries; questions. Each of the last three uses the first, and `Answers` extends `Insights`: its questions read the same text |
| `Supervisor` | the desktop program and its backend process |
| `MCJobQueue`, `MCIndexingEngine` | bounded environments and fairness for TLC |
| `MCFolders` | `Watcher` and `FolderRegistry` |
| `MCRequests` | `Retrieval` and `SessionPool` |
| `MCStarts` | `Supervisor` and `ModelLoader` |
| `Assistant` | composition of `Chat`, `Insights` and `Answers` around one slot, and of a crash |
| `MCAssistant` | `Assistant` in a bounded environment |
| `MCFunctions` | `Chunker`, `VectorSearch` and `Evidence` |
| `Lists` | filtering, summing and joining of lists, as folds |
| `SequenceFolds` | what can be proved of a fold over a sequence, for one operator at a time |
| `JobQueueProofs` | theorems about `JobQueue` with lemmas about `JobTable`; the queue implements the lease |
| `IndexingEngineProofs` | theorems about `IndexingEngine`, among them that a calm index is fresh |
| `StartsProofs` | theorems about `ModelLoader` and `Supervisor` |
| `FolderRegistryProofs` | theorems about `FolderRegistry`, the types of `Watcher` and of `MCFolders` |
| `RequestsProofs` | theorems about `Retrieval` and `SessionPool` |
| `AssistantProofs` | theorems about `Assistant` and its parts |
| `FunctionsProofs` | theorems about `VectorSearch`, `Chunker` and `Evidence` |

`MCFolders`, `MCRequests`, `MCStarts` and `MCFunctions` put parts side by side that share
no state: a behaviour moves one of them and the others stand still, so that each is
checked as thoroughly as in a run of its own. `Assistant` and the engine are true
compositions, in which steps of all parts interleave.

Operators named `M_...` are faulty variants of the definitions that follow them. No
specification uses them. Putting one in the place of the definition makes a property
fail, which shows that the property says something about the code; `PROJECT.json` names
the pairs.

## 3. From the code to the modules

`PROJECT.json` has the lines of every definition. What follows is the reading aid.

**JobQueue.** `jobs` is the table (`backoff` is "retry_at in the future"), `status` is
`files.index_status`, `enabled` the folder's flag, `worker` the locals of `_process_job`
including what `is_current_processing_job` answered before the write, `up` whether the
process runs, `lost` the jobs whose `fail_job` itself raised. Every action is one
transaction, or the reads before one. Producers: `Discover` (scanner and watcher),
`Register`, `Rename`, `Oversize`, `ScanError`, `VanishWatched`, `VanishScanned`,
`RemoveFolder`, `SetEnabled`. Threads: `Poll` (`now = _utcnow_iso()`), `Claim` or
`PollEmpty`, `ReadToComplete`, `ReadToFail`, `CompleteRead`, `CompleteNow`, `FailJob`,
`Abandon`. Process: `BackoffOver`, `Crash`, `Boot`. Which jobs producers create and what
outcome a job has is free here, so JobQueue is the abstract specification that the engine
implements. Pruning keeps the `Retention` newest finished rows by wall clock; the model
keeps any `Retention` of them. Stamps never run backwards; `Ticks` says how far a new
stamp may lie after the latest one.

**JobLease** sees a job as `state`, `turns` and `owner`, and lets several jobs move in one
step, since a deletion or a recovery does. The mapping (end of `JobQueueProps`) makes a
PENDING row waiting, a PROCESSING one taken, a finished one over, and the threads that
hold it its owner.

**IndexingEngine.** `disk`, `written` (the file and its mtime), `row` (stored hash and
mtime), `chunks`, `vectors` (which content's they are), `pipe` (progress of a thread in
`_process_job`), `notice`, `flight` (pending event, batches taken by timer threads),
`scan` (progress of `scan_folder`). A worker goes `Take`, `Stat`, `Check` (row and
ownership), `Hash` (size guard, digest, format), `Parse` (second reading, embedding),
`Judge` (row and ownership again), `Persist` (one transaction) or `Look` and `Finish`
(bypass, superseded, failed). `Clean` is a DELETE_CLEANUP job, `Break` an exception,
`GiveUp` a failure that could not be recorded. A step that touches jobs or statuses is an
action of JobQueue in conjunction with the rest of the same transaction. Each file is the
only file of its registered folder: files influence each other only by occupying workers.

**Watcher** is the same way in more detail and without the jobs' lives: `raw` events of the
observer are handed to the debouncer (`Hand`, with exclusion patterns), `pending` is the
dict in its order, `Flush` hands a copy to a timer thread, `ApplySubBatch` is one
transaction of up to `SubBatch` events (`rows`, `jobs`), `LoseBatch` one that fails,
`RunJob` a worker that reads the file. On disk, files are created, modified, erased and
renamed, and directories made, moved and removed with what is in them; `Emit` is what the
platform's observer reports. `unread` says of a file only whether it changed since it was
last read. `excused` is a single flag, which is set as soon as any change has been lost or
overtaken in one of the named ways; from then on `RowsFollowUnlessExcused` says nothing, of
whichever path. What a lost or an overtaken batch does to other paths is therefore open.

**FolderRegistry.** `folders` are the rows with the patterns and the flags that matter;
`asked` is what a request has read and is about to write (`CheckFolder`, `CheckFile`,
`ReadRow`, then `InsertFolder`, `InsertContainer`, `WriteRow`, or `Taken`), `DeleteRow` is
one step. `sync_watches` is two, `BeginSync` (the table is read) and `EndSync` (watches
taken back, then scheduled), under its lock; `handlers` is the observer's table, which is
keyed by path and recursion and not by folder. `scanning` and `callers` are the threads
that will synchronize; `ScanRaises` is one that will not.

**SessionPool.** A service call is `Serve` and `ServiceEnds` on one thread; a session
dependency is `BeginDependency`, `BeginEndpoint`, `EndEndpoint`, `EndDependency`, each on
any free thread. `depth` and `unsaved` belong to the threads, `saved` to the database.
`crossed` is history: a session has left its thread or shared it.

**Retrieval.** `search` holds how far a search has come and the corpus version each arm
has read; `Ask` (cache hit or miss), `Lexical`, `Dense`, `DenseFails`, `Fuse`, `Rerank`,
`Store`, `Respond`. `Commit` and `Invalidate` are the two steps of a worker,
`ChangeUnannounced` a deletion that nobody announces. **VectorSearch**: `ProbeIndex`,
`CountChunks`, `FetchRows` and `MatchRows` are the statements, `Meanwhile` is another
transaction between them, and `FetchRefused` a fetch of more rows than the vector table
grants, `MaxFetch` (external: 4096 in sqlite-vec), upon which the search raises.

**ModelLoader.** `Enter` takes the lock and reads, `StartOrShare` decides under it, `Wait`,
`TimeOut`, `Return`, `Leave` are the caller's, `Begin`, `Load`, `Ready` or `Fail`,
`TimeFailure` and `ReportFailure`, then `Signal` and `Die` the thread's, which takes no lock. EmbeddingEngine and Reranker share it.

**Supervisor.** Both starter and loop go `Probe` (a healthy backend is left alone),
`Spawn`, `Assign` (to the Job Object), `Register`; the loop goes `Poll`, `Look`, `Clear`,
`Backoff` and `Health`. `Terminate`, `CloseWindow`, `ExitEvent`, `End` are the shell's,
`Boot`, `Crash` the backend's, `OtherBoots`, `OtherEnds` those of another program.

**Chat.** A turn is `Look` (the reads before the transaction), `Record` (user message and
title; the write lock is held), `Retrieve` (still inside it, then commit) or
`ReplyByRule`, `Generate`, `Generated` (the slot returned), `Save`. `Locked` is a database
that stays locked past its time-out, by another turn or by a thread of another component.
Messages are kept in the order of their commits, with the stamp that the code takes when it
makes the message, before the INSERT waits for the lock (`asked`, `since`; `clock` and
`Tick`). They are listed by stamp, and those of one stamp by a random identifier
(`MayPrecede`). The clock may stand still between two messages; it is not set back.

**Insights**: `ReadFile`, `ReadChunks`, `AskForDocument`, `DocumentCalled`, `SaveDocument`;
`ListFiles`, `CountChunks`, `ReadFolder` (the cached row), `Mark` (the row becomes GENERATING,
the evidence is read), `AskForFolder`, `FolderCalled`, `SaveFolder`. `texts` is what the file
contained at each indexing; `Reindex` may bring back a text that was there before, and with it
its hash. The composite hash of a folder also has the file's modification time and its index
status, which come back when a copy is restored. **Answers**: `Search` or `ReadTexts` and
`ReadRows`, `AskModel` or `NoPrompt`, `ModelAnswers`. **GenerationSlot**: `holders`, and the
`Statuses` that a call to the model can end in.

**Chunker** takes elements one at a time (`Heading`, `Table`, `Paragraph`, `End`) over
every document of a small space. **Evidence** considers every sequence of candidates
(`Consider`), builds the prompt and resolves every sequence of marks.

## 4. The runs

Deadlock is not checked: in every run the environment is bounded, and a system whose
budget is spent and whose work is done has nothing left to do.

| Run | Instance | Checks | Shows |
|---|---|---|---|
| `queue` | 1 file, 3 rows, 2 threads. Either two kinds of discovery and a deletion; or a discovery of either kind, another producer, a folder purge, a lost failure report and two crashes; or two discoveries of one kind, a deletion and a crash | `QueueInv` `OneCurrentJob` `QueuedIsAwaited` `FinishedIsFinal` `WorkersSpareMissing` `ImplementsLease` | jobs have one owner and a file one current writer, attempts stay bounded, no row is orphaned, QUEUED files are waited for, and the table implements the lease |
| `queue_liveness` | 2 files, 1 thread, retention 0; deletion, pause, crash | `JobsEnd` | every live job ends unless its folder is paused |
| `engine` | 1 thread, 3 contents of which one is over the limit; edits with a scan, a deletion, faults, a lost batch, a restored file, a dropped or paused folder, or a crash | `EngineInv` `CalmKeepsFresh` `Spec` | vectors belong to chunks; without losses the text in the index is the text on disk; the engine implements the queue |
| `engine_converges` | 1 thread, 2 timer threads, 5 writes of every kind of content | `Converges` | creations and modifications alone always lead to the right index |
| `folders` | watcher: 4 paths in 3 directories, 4 changes, or 3 with two overlapping batches, or 2 with a lost one. Registry: one directory inside the other, 2 requesters, 3 rows, 3 requests, a rescan, failing scan or restart | `FoldersTypeOK` `RowsFollowUnlessExcused` `WatchesFollowUnlessReplaced` `RootsKeepApart` | rows follow the disk and watches the table, but for the named ways of losing a change; roots overlap only if neither request saw the other |
| `requests` | 2 searches at a time, of 3 modes, 2 indexing threads, a cache of 1, 2 changes; 2 pool threads, 2 service calls, 2 dependencies | `RequestsTypeOK` `HonestAnswers` `StaleNeedsOverlap` `AtomicWhileConfined` | degraded answers are not cached as complete; an outdated entry needs an overlap with an announcement; sessions are atomic while each has its thread to itself |
| `starts` | 3 process ids, 3 restarts, 6 ticks to reset, Job Objects, 5 crashes, a failed start; 3 callers, 2 loading threads | `SupervisorInv` `LoaderInv` `NoNewStart` `ExitLeadsToRestart` `WaitersReleased` | one backend, a bounded number of restarts; no thread begins a start after a shutdown (one that is already inside `spawn_backend` still starts its backend); an exit leads to an attempt to restart; one loading thread, waiters released |
| `assistant` | 2 turns, 3 summaries, 2 questions in seven mixtures, with up to three revisions of a file that has three texts (one without chunks) and may return to one, a folder removed, a conversation renamed or deleted, a clock that ticks once or stands still, another model chosen, a crash | `AssistantTypeOK` `AnswersFollowQuestions` `QuestionsAccountedFor` `SlotSound` `SummariesAreTrue` `AnswersGrounded` `QuestionsAnswered` `NobodyWaits` | no answer is listed before its question unless their stamps are equal, every stored question is answered, the slot comes back, current summaries are true unless their text came and went between two reads, answers are grounded |
| `functions` | documents of up to 4 elements; 4 chunks with a write between statements; up to 4 candidates and 6 conversations | `NothingLost` `OverlapIsLocal` `FiledRight` `SizeExplained` `NearestFound` `BudgetKept` `CitationsGrounded` `ShortTalkRemembered` | the sequential algorithms do what they are for on every input of the space |
| `engine_threads`, `sessions`, `history` | see section 6 | one property each | a disagreement between the code and what the repository says |

`QueueInv`, `EngineInv`, `SupervisorInv` and `LoaderInv` are the inductive invariants of
section 5. Their parts are named and commented where they are defined (`SingleOwner`,
`AttemptsBounded`, `ProcessingHasOwner`, `VectorsMatchChunks`, `OneLoader`,
`NoLostWakeUp`, `RegistrySound`, ...); `OneBackend`, `OrphanOnlyUnassigned` and
`RestartBudget` are proved from `SupervisorInv`. Every module has one type invariant,
alone or in one of these.

**Why the bounds are enough.** The properties of the queue speak of one job, of two
threads, or of two jobs of one file; three row ids and two threads are the least in which
a thread that was overtaken meets a successor and a third row. `MaxAttempts = 2` has a
first attempt, a retry and the limit (the code's value is 3). In the engine, two
different texts are what "stale" needs, a third one is over the size limit; the writes of
`engine_converges` walk through text, encrypted document, text, a document with no parser
and a corrupt one. In the watcher, four changes are what it takes to move a directory,
put another in its place and change a file in each; sub-batches of two split a batch. Two
requests overlap in the registry, and a third row gets the path of a deleted one. The
cache of one entry is full at once. Five crashes exceed three restarts and leave
two for a budget that was reset; a process id is used again. Two pool threads and four
requests let a dependency come back on the other thread while a service call uses the
first. Documents of four elements reach two headings around a text that is kept as
overlap, and tables with a header and without one, of none, two and four rows. A text that
returns needs three revisions and a request that reads at two of them. The first
fetch may be of `MaxFetch = 4` rows, and the one that widens it is then refused. Each bound is named in a `.cfg` or in the
scenarios of an MC module.

`Ticks = {1}` says that the stamps of jobs differ. The code writes microseconds, but the clock
of the platform may advance in steps of some 15 ms, so equal stamps are possible, and the
property says nothing of them: with `Ticks = {0, 1}`, `OneCurrentJob` fails, as two rows with
the same `created_at` and `started_at` do not supersede each other. The stamps of chat
messages may be equal in every run. `queue`, `requests` and
`sessions` use the symmetry of threads and requests, which the order of stamps does not
break; no liveness property is checked under symmetry.

**Fairness.** Weak fairness of each thread's own steps, as the operating system schedules
them and they wait for each other at most for the database; of `BackoffOver` (time
passes); of flushing and applying batches and of a scan in progress; and of `Boot` and
`Start`, as the supervisor restarts the backend. In `starts`: of the supervision loop, of
each thread that starts a backend, of the boot of a started process, of callers and
loading threads; not of `TimeOut`, and not of a crash or of the end of a cool-down. In
`assistant`: of each turn, summary and question; a call to the model made for a chat or a
summary ends because the provider has a time-out, and of the questions not even that is
assumed, so that `NobodyWaits` does not rest on the holder of the slot. Nothing is assumed
of events: no write, scan, pause or crash has to happen. `JobsEnd` is checked without
`Abandon`: a row whose failure could not be recorded waits for the next start by the
design of the code. It is stated up to pauses since a paused folder keeps its jobs.

`NoStaleText` and `Converges` use contents that differ from each other: a file that
changes between the two readings of the pipeline and then returns to its first text is
bypassed by its hash, with the chunks of the other text. `CalmKeepsFresh` is `NoStaleText`
for behaviours without a lost batch, a dropped or paused folder, or a crash.

## 5. The proofs

All proofs are checked by TLAPS for every value of the constants that satisfies the named
assumptions: `JobTableAssumption` (`MaxAttempts` positive, `Retention` natural),
`JobQueueAssumption` (`Ticks` natural, `None` is not a job or a file), `EngineAssumption`
(0 is not a write or a content), `LoaderAssumption` and `SupervisorAssumption` (naturals, a
placeholder is not a thread or a process), `RegistryAssumption` (requesters, the program and
row ids are different things), `CacheAssumption` (the cache has room for an entry, a version
is a natural number and "not read" is none), `PoolAssumption` (no request is of both kinds),
`CapacityAssumption`, `AssistantAssumption` (turns, summaries and questions are different
requests, and there is a revision), `VectorAssumption` (finitely many chunks, natural limits), `ChunkerAssumption`
(natural limits; a document is a sequence of elements of the known types with natural sizes),
`EvidenceAssumption` (natural limits and costs; a conversation is a sequence of message
lengths) and `WatcherAssumption` (finitely many paths, a sub-batch has room for an event, a
file's name in one directory can be its name in another, since a directory is moved with what
is in it). TLC evaluates all of them in the runs. A theorem that needs more says so in its
ASSUME.

**Queue.** `QueueInv` is `TypeOK /\ SingleOwner /\ AttemptsBounded /\ ThreadsMatchRows /\
ProcessingHasOwner`, and it is inductive (`QueueInvariant`). None of the parts is so
alone. `fail_job` decides on a retry by the number of attempts that the thread remembers
from its claim, so `AttemptsBounded` needs `ThreadsMatchRows`: what the thread remembers
agrees with its row for as long as the row exists. That agreement survives claims because
a job has a single owner, and `Boot` because no thread outlives the process.
`JobQueueProofs` begins with the lemmas about the statements. Theorems: `TypeCorrect`,
`JobsAreOwned`, `RetriesAreBounded`, `NoOrphans`, and the action properties
`FinishedRowsAreFinal` and `ThreadsSpareDeletedFiles`.

`QueuedFilesAreAwaited` proves `Spec => QueuedIsAwaited` with the help of one more invariant,
`Remembered`: a thread goes on knowing the file and the type of its row. The stronger
`QueuedHasJob` is false, and the attempt to prove it is how that was found: a file is deleted
and created again, the new index job is claimed, then the older cleanup job by the other
thread, which makes the index job superseded, so that it ends without a status and leaves
PROCESSING; the process is killed; the recovery sets the file QUEUED because of the cleanup
job's row; and that job, superseded in its turn, ends. `QueuedIsAwaited` therefore speaks of
steps and names that recovery as the only way in.

`CurrentJobIsUnique` proves `OneCurrentJob` for any number of threads if no stamp is taken
twice (`0 \notin Ticks`). The strengthening `Stamped` says that running jobs have different
stamps and that the threads that have read the clock and not yet claimed have others still.
Two running jobs are never current at once, because one of two different stamps is later.

**Lease.** `QueueImplementsLease` proves `Spec => ImplementsLease` from `QueueInv`: each
action of the queue is, job by job, an offer, a taking, a return, an end, or nothing; the
bound on the turns is where `AttemptsBounded` enters and the single holder where
`SingleOwner` does.

**Engine.** `EngineImplementsQueue` proves `EngineSpec => Spec`: the two share the queue's
variables, so the mapping is the identity on those and hides the others. It needs
`PipeMatchesJob`, because only a cleanup job may finish as MISSING and only an indexing
job as INDEXED. With it `QueueInv`, and through `Spec` the lease, hold of the engine too;
`EngineInvariant` adds the types of the pipeline and of the index and
`VectorsMatchChunks`.

**A calm index is fresh.** `CalmIndexIsFresh` proves `MCSpec => []CalmKeepsFresh`: while no
batch is lost, no folder dropped or paused, no job abandoned and the process lives, a quiet
file that is shown as indexed has on disk the text that is in the index. Its invariant
`CalmInv` has three layers. `Steady` says what the absence of those events means. `Yields`
says that a job which found itself superseded stays so and reports no file indexed.
`FileCalm` relates, file by file, disk, index and pipeline: `InOrder` (what the row, the
chunks and the thread have is of the file's past, and a text is never older than the hash read
before it), `DeletionSeen` and `ChangeSeen` (once every event has reached the job table and no
job waits, what is shown or about to be stored is what is on disk). It was checked by TLC
before it was proved. Its hypotheses:

* `SingleThread`: with two threads the property fails, see the run `engine_threads`.
* `ContentsDiffer`: a file that returns to its first text between the two readings is bypassed
  by its hash.
* `RowsStay`: finished rows are pruned beyond the newest 1000 (`db/repositories/jobs.py:16`).
  With several files, the row that superseded a job could be pruned between the job's
  decision to yield and its completion, which would then report the file indexed. One file
  cannot do this to itself, nor can a table below its limit. It holds in `engine`.
* `Scenarios \subseteq BudgetType`: the budgets are what they should be.

**Loader.** `LoaderInv` is inductive for any number of callers and threads. `NoLostWakeUp`
needs `TracesOfThreads` (how far a thread is tells what it has left behind), since a
caller between the lock and the wait relies on a thread that may signal before it waits.

**Supervisor.** `SupervisorInv` says in whose hands every live backend is (`Custody`), that
it is in the Job Object or about to be put there (`Confinement`), and that the restarts
since the last stable period are among those the loop has counted. `OneBackend` follows
because a thread starts a process only where `Custody` leaves no live one, which is why
the two threads' stages are part of it. `NoNewStart` is proved as an action property.

**Folder registry.** `RootsKeepApart` alone is not inductive: a request decides on rows it
read before. `RootsInv` carries along that those of them that are still there are as they
were in what the comparison looks at (`StillApart`, `StillTheRow`), which updates keep
since they do not change a path.

`WatchesFollowTheTable` (`WatchesFollowUnlessReplaced`) is about what is settled, and its
invariant `WatchInv` about everything on the way there. `LastReadHolds`: unless somebody is
still to read the table, what was read last is the table, but for rows that are being scanned
or were missed; this is why the thread that runs a synchronization counts as one that is
still to do so until it ends. `HandlersMatch`: the observer has the handlers of the watches,
but for those taken back with another's. `OnePathEach` and `ReplacedMarked` say whose: a row
whose path is watched, or was read to be, for a deleted row is marked as replacing it, and
so is a change of that row that a request is about to write.

**Retrieval.** `RetrievalInv` says what a search has gathered by each of its stages
(`Progress`): an arm that gave nothing has marked the answer degraded, and no arm has read
a corpus older than the last announcement when the search began. From it follow
`AnswersAreHonest` and `StalenessIsExplained`, for any number of searches and of indexing
threads and any capacity of the cache; `RetrievalTypeCorrect` has the cache within its
capacity with each key once, which needs the lemmas on removing, appending and evicting.

**Sessions.** `PoolInv` says that as long as no session was shared or moved, each open one
is alone on its connection and so the outermost, and the open transaction holds its writes
only; `SessionsAreAtomic` follows. `PoolTypeCorrect` is about depths once they are shared
and moved: a session that ends on another thread than it began on counts down there, or not
at all at zero, so the depths together can only be too large. `RequestsTypeCorrect` puts both
halves of the run `requests` together.

**Assistant.** `AssistantInv` has four parts. For chats, `TurnInv` says by the stage of a
turn which of its messages are stored, and since when its next stamp may have been taken:
not before its question was stamped. `Tidy` says that each stored answer comes after its
question and is not stamped before it; a save keeps it because no stored question of the turn
is stamped later than `since` (`AskedBy`). From them `AnswersComeInOrder` and
`NoQuestionForgotten`: the conversation may be deleted and the process killed at every stage.

For summaries, `HashKnown` and `Traced` say of every request and every stored row that its
hash is that of the text of an earlier revision, `hashed`, and that its chunks were read at
that revision or at a later one, `read`; `FromDocument` and `FromFolder`, that it is made of
what was read. If the hash of such a row is that of the current text, then either the text
read is the current one too, or the chunks were read later than the hash and of another text:
the exception `CameBack`. That gives `ShownSummariesAreTrue` for every finite history of texts
that may recur in any order; without the exception it would be false, see section 6.

For questions, `Grounded` (`AnswersAreGrounded`). For the slot, its holders are those who talk
to the model (`SlotIsSound`), for any capacity. `BudgetsOnlyRestrict` proves that the run's
bounded environment only leaves behaviours out.

**Vector search.** `SearchFindsNearest` proves `NearestFound` for every set of chunks, every
filter and every write between the statements, of searches that complete: one that the vector
table refuses raises, and has no answer. `SearchSound` says that the chunks which are
there throughout are no more than were counted and are in what the vector table answered
from, and that what is matched has no gap where one of them would be. That the nearest `n`
rows of a set are `n`, or all of them, is proved from a smallest counterexample.

**Folds.** The chunker, the evidence and the watcher sum, filter and join lists. The provers
know nothing of `SelectSeq` and `FlattenSeq`, so `Lists` writes these as folds, and
`SequenceFolds` has what folds satisfy: `FoldRuns` (the fold passes through the results of its
prefixes, shown by a smallest counterexample, which replaces induction), `FoldKeeps` (what
each element keeps the fold keeps), `FoldAppend`, and `FilterPicks` (a filter returns what
passes, in its order). The operator is a constant of that module. A lemma cannot be given an
operator, but a module instance can, so each fold of the model has an instance of its own.

**Evidence.** `EvidenceInv` has the bookkeeping of the budget (`BudgetInv`: the total is the
sum of the costs of what is included, no id is included twice, and what was left out had a
reason that still holds, as the total only grows), the phases of the prompt, and the citations.
From it `BudgetIsKept` and `CitationsAreGrounded`. `ShortTalkIsRemembered` needs the number of
messages the loop of `build_prompt` takes to be the greatest that fits: sums of suffixes grow
with the suffix, so nothing newer than what is taken is skipped.

**Chunker.** `ChunkerInv` says of the elements taken so far, the buffer and the chunks:
`Covered` (each piece that is not blank is in one of them), `Filed` (under the headings it
stands under), `InOrder`, and `Repeated` (a piece in two chunks is text, and in all chunks
between, which is why it must be at the end of the last chunk if it is in the buffer). From
those `NothingIsLost`, `ChunksFiledRight` and `OverlapStaysLocal`. `SizesExplained` needs more
about the buffer: it fits, or it is one element, or the overlap with one element more
(`Excused`); no piece of it is a table, and only its first can be a clip (`ClipsAlone`).
A table is a fold inside a step: its slices are rows in order, none lost, each cut before it
grows too large, and they are filed one after the other, the invariant holding after each.

**Watcher.** `WatcherInv` says that the three queues hold events of the kinds the observer can
report, that the debouncer's has one event per path, and that only rows have jobs.
`PushedQueue` has it for the coalescing, `AppliedType` for one event on the table (where a rename has to
carry jobs only to paths that get a row), `BatchType` for a sub-batch.
`FoldersTypeCorrect` puts it together with `RegistryTypeCorrect` for the behaviours of the run.

Proving also showed where the model said less than it seemed to. A CASE whose guards overlap
stands for any of its alternatives, while TLC takes the first: `Applied` (an event after a
failed one) and `Upserted` now say by IF which one is meant.

**Model-checked only.**

* Liveness (`JobsEnd`, `Converges`, `ExitLeadsToRestart`, `WaitersReleased`,
  `QuestionsAnswered`, `NobodyWaits`), which the prover does not reach.
* `RowsFollowUnlessExcused`. What the table will be depends on all events still to be handed
  over, coalesced and applied, and what an event does when it is applied depends on the disk at
  that moment. An inductive invariant would have to relate the disk to the result of folding
  `Applied` over the batches taken and over what `Pushed` will make of the rest, for every way
  the coalescing can still change it. TLC checks it for every sequence of changes within the
  run's budgets.


## 6. Findings and divergences

Three runs expect a violation:

* `engine_threads` (`engine/worker.py:229`): the ownership check reads before the first
  write. In between, the other thread claims and completes the successor, and the older
  thread replaces the fresh chunks.
* `sessions` (`db/connection.py:95`): a session dependency leaves depth 1 on its thread; a
  service call that the framework then runs on that thread ends without a commit and is
  rolled back with the dependency's request, if that raises.
* `history` (`ai/chat_service.py:288`): the listing of messages is in ascending order and cut
  after 20, so the prompt of a long conversation has none of its newest messages.

The following definitions state what the repository says elsewhere and what the code does
not do. Each is violated when it is named in the run's `.cfg` in the place
of the run's own properties. Where a run checks a weaker form, that form names the only
ways in which the stronger one fails.

| Definition | Run | Source | What happens |
|---|---|---|---|
| `UnsettledHasJob` | `queue` | `engine/worker.py:171`; `tests/test_final_windows_validation.py:197` | of a file's two live jobs of different types, the one that is superseded leaves PROCESSING behind |
| `QueuedHasJob` | `queue` | `db/repositories/jobs.py:224`; `tests/test_hardening_batch3.py:280` | a recovery queues a file because of its interrupted cleanup job, which then ends without a status |
| `MissingIsPurged` | `engine` | `engine/worker.py:229`; `docs/practical-e2e-validation-report.md:77` | a deletion between ownership check and purge: chunks are inserted for a MISSING file |
| `SkippedIsPurged` | `engine` | `engine/watcher.py:612`; `tests/test_chunk4_remediation.py:459` | the watcher sets a file over the limit SKIPPED and does not purge; the scanner does |
| `IndexedHasChunks` | `engine` | `engine/worker.py:140`; `tests/test_directory_cascades.py:194` | delete and recreate: the cleanup of priority 1 runs last and purges the new content |
| `RowsFollowDisk` | `folders` | `engine/watcher.py:94`; `src/README.md:41` | a rename that is replaced by a later event of the same path, a lost batch, batches out of order |
| `WatchesFollow` | `folders` | `engine/watcher.py:391`, `445-450` | the watch of a deleted folder is taken back after one with the same path was scheduled |
| `CacheIsCurrent` | `requests` | `retrieval/hybrid.py:71`, `757` | a search that began before the invalidation stores its answer after it |
| `DiesWithApp` | `starts` | `src/src-tauri/src/job_object.rs:2` | the shell ends between the start of a process and its assignment |
| `KeepsTrying` | `starts` | `src/src-tauri/src/main.rs:554-557` | a restart that fails to spawn leaves no child to watch, and is never repeated |
| `NeverEmptyHanded` | `starts` | `retrieval/embeddings.py:237` | a caller released by a failed load is overtaken by a new one, which clears the error |
| `NeverTied` | `assistant` | `db/repositories/chat.py:162`, `167` | a rule's reply is stamped right after its question; with equal stamps the random identifier decides which one is listed first |
| `NothingComesBack` | `assistant` | `ai/document_understanding.py:132` | hash of A read, B indexed, chunks of B read, A indexed again: the summary of B is shown as current |
| `FolderIsPurelyTrue` | `assistant` | `ai/document_understanding.py:132` | a folder summary is made of an outdated document summary |
| `SummaryKept` | `assistant` | `routers/ai.py:171`, `203`; `ai/folder_understanding.py:445` | the last good folder summary is erased before the slot is asked for |
| `SelectedAnswers` | `assistant` | `routers/models.py:84-92` | the chosen model is set on a provider that no service uses |
| `ChunkBounded` | `functions` | `intelligence/chunker/hierarchical.py:315` | the overlap comes on top of an element of the largest size |
| `PromptFits` | `functions` | `src/docs/architecture.md:125` | the history is limited by characters and not counted against the budget |

Behaviours that are in the models, or were met beside them, and have no property because no
document promises otherwise:

* A folder's concurrent changes each write all columns back, and one is lost
  (`db/repositories/folders.py:107-125`).
* Container rows of single files, and folders whose scan raises, are never watched.
* The batch of a deletion that is applied after the batch of the later recreation leaves a
  present file MISSING. A file that outgrows the limit while it is indexed may become
  INDEXED again.
* Lexical search excludes MISSING, FAILED and SKIPPED files (`retrieval/lexical.py:157`),
  vector search only MISSING ones (`retrieval/vector_store.py:276`).
* `routers/ai.py:101` documents 409 for a busy slot; the services catch it and answer 200
  with a status.
* A comparison uses a stale document summary without its status
  (`ai/knowledge_synthesis.py:72-86`).

## 7. What is not modelled

* All text, paths, wording and formatting. What parsers make of bytes: their outcomes are
  choices of the engine. Which chunks BM25 finds and the arithmetic of rank fusion.
* Knowledge connections: one read-only pass for each request, nothing stored. Settings,
  logging, export, search routes, the frontend: plumbing without state of its own. Path
  security beyond the containment test of folders: sequential checks of strings.
* Pause, stop and wake-up of `WorkerPool`: a thread that does not poll for a while is
  already a behaviour, the wait for the wake-up ends after 0.2 s in any case, and `stop()`
  runs when the process ends. An orderly shutdown flushes the debouncer: `Flush`,
  `Apply...`, then `Die`.
* Migrations: they run once, before anything else.
* Changes of the parser or chunker version, and documents that parse to no chunk.
  `size_changed` is folded into the modification time. Hashing and detecting the format
  are one step. Files that may not be read behave like vanished ones.
* The two reads in `Verdict` (row, ownership) are one step, though each commits on its
  own. A scan of a disabled folder that has no rows is left out.
* JobQueue lets any exception lead to a retry; the engine follows the code, in which
  exceptions are permanent. Registration of single files is an action of JobQueue and of
  FolderRegistry, renames of JobQueue and of Watcher; neither is one of the engine.
* The second statement of `claim_next_job`, for jobs of deleted files, is dead code as
  foreign keys cascade. Polls of an empty queue change nothing and are omitted.
* Watched directories are one level deep; a move between two watched folders is a deletion
  and a creation in the code.
* `reset_init_state` of the loaders is called by tests only. Services are created for each
  request, so their sets of active generations refuse nothing and are left out.
* The intent rules that answer a message without a model are one choice.
* Debug builds of the desktop program, in which a failed assignment to the Job Object falls
  through to a second way of starting the backend (`src/src-tauri/src/main.rs:310-312`). The
  model has the release build, where the attempt ends.
* The chunker's flush when the media type changes between elements
  (`intelligence/chunker/hierarchical.py:368`): each parser gives all elements of a document
  one media type, so the condition never holds.
* `delete_chat_message`, which no route calls, and a clock that is set back.

## 8. What is left

1. `RowsFollowUnlessExcused` as a theorem, see the end of section 5.
2. `Watcher` composed with `JobQueue`, several files to a folder, with the claim of
   section 3 that files influence each other through workers only as a refinement.
3. The shutdown of the coordinator with its timed joins, and a start after it.
4. Knowledge connections as a function against a reference definition.
