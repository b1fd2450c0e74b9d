------------------------------- MODULE Insights -------------------------------
(***************************************************************************)
(* DocumentUnderstandingService and FolderUnderstandingService: a summary  *)
(* of a file and one of its folder, generated on request and kept with the *)
(* hash of what they were made from; a summary is shown as current while   *)
(* that hash is.                                                           *)
(*                                                                         *)
(* The file has one text after the other, and may have one of them again.  *)
(* Its hash, and the composite hash of its folder, say which text it is    *)
(* and not how often it changed: two texts have two hashes, and a text has *)
(* the same hash each time.  (The composite hash also has the file's       *)
(* modification time, which comes back with the text when a copy is        *)
(* restored.)  The text as it was indexed the i-th time is revision i.     *)
(*                                                                         *)
(* Each request builds a service of its own, so the services' sets of      *)
(* active generations refuse nothing and are left out.                     *)
(***************************************************************************)
EXTENDS GenerationSlot, Sequences

CONSTANTS
  Requests,    \* requests for an insight
  Texts,       \* what the file may contain
  Blank,       \* what has no chunks
  MaxRevision, \* bound on the revisions of the file
  None         \* no hash

VARIABLES
  indexed,     \* the folder is registered, and the file with it
  texts,       \* of the file's row and its chunks, at each indexing; the last one is there now
  document,    \* the row of document_insights
  folder,      \* the row of folder_insights
  request

insightVars == <<indexed, texts, document, folder, request>>

revision == Len(texts)
Current == texts[revision]

(* A row, and of a summary that was made: the revision whose hash it has and the one whose chunks
   were read, and all revisions that went into it, through document summaries too. *)
Row(status, hash) == [status |-> status, hash |-> hash, hashed |-> 0, read |-> 0, made |-> {}]
NoInsight == Row("NOT_GENERATED", None)
Summary(hash, hashed, read, made) ==
  [status |-> "READY", hash |-> hash, hashed |-> hashed, read |-> read, made |-> made]

Fresh == [stage |-> "new", hash |-> None, hashed |-> 0, read |-> 0, made |-> {}, result |-> "none"]

InsightInit ==
  /\ indexed = TRUE
  /\ \E text \in Texts : texts = <<text>>
  /\ document = NoInsight
  /\ folder = NoInsight
  /\ request = [r \in Requests |-> Fresh]

Stage(r, stage) == request[r].stage = stage
Move(r, stage) == request' = [request EXCEPT ![r].stage = stage]

(* With a request its locals end. *)
Leave(r, stage) == request' = [request EXCEPT ![r] = [Fresh EXCEPT !.stage = stage]]

-----------------------------------------------------------------------------
(* What is shown: is_cached_insight_current, get_folder_insight *)

Shown(insight) ==
  IF insight.status = "GENERATING" \/ (insight.status = "READY" /\ insight.hash # Current)
  THEN "STALE" ELSE insight.status

-----------------------------------------------------------------------------
(* DocumentUnderstandingService.generate_insight *)

(* The row of the file is read, then its chunks: two statements outside a transaction. *)
ReadFile(r) ==
  /\ Stage(r, "new")
  /\ request' = [request EXCEPT ![r].stage = IF indexed THEN "hashed" ELSE "raised",
                                ![r].hash = Current, ![r].hashed = revision]
  /\ UNCHANGED <<indexed, texts, document, folder, holders>>

(* Without chunks there is nothing to generate from: a fixed text is stored. *)
ReadChunks(r) ==
  /\ Stage(r, "hashed")
  /\ indexed
  /\ IF Current \in Blank
     THEN /\ document' = Summary(request[r].hash, request[r].hashed, revision, {revision})
          /\ Leave(r, "done")
     ELSE /\ request' = [request EXCEPT ![r].stage = "document", ![r].read = revision,
                                        ![r].made = {revision}]
          /\ UNCHANGED document
  /\ UNCHANGED <<indexed, texts, folder, holders>>

(* The file went with its folder: the chunks are gone, and storing the text is refused. *)
ReadGone(r) ==
  /\ Stage(r, "hashed")
  /\ ~indexed
  /\ Leave(r, "raised")
  /\ UNCHANGED <<indexed, texts, document, folder, holders>>

(* A busy slot is reported, and nothing is written. *)
AskForDocument(r) ==
  /\ Stage(r, "document")
  /\ \/ Acquire(r) /\ Move(r, "document generating")
     \/ Busy /\ Leave(r, "raised") /\ UNCHANGED holders
  /\ UNCHANGED <<indexed, texts, document, folder>>

(* What comes of a call: what the feature makes of the answer, or the provider's error. *)
ResultsOf(outcome, parsed) ==
  CASE outcome \in {"text", "empty"} -> parsed
    [] outcome = "connection" -> {"MODEL_UNAVAILABLE"}
    [] OTHER -> {"FAILED"}

Called(r, stage, save, parsed) ==
  /\ Stage(r, stage)
  /\ Release(r)
  /\ \E outcome \in Outcomes : \E result \in ResultsOf(outcome, parsed[outcome]) :
       request' = [request EXCEPT ![r].stage = save, ![r].result = result]
  /\ UNCHANGED <<indexed, texts, document, folder>>

(* A document's summary must be JSON with a summary in it. *)
DocumentParsed(outcome) == IF outcome = "text" THEN {"READY", "FAILED"} ELSE {"FAILED"}

DocumentCalled(r) == Called(r, "document generating", "document save", [o \in Outcomes |-> DocumentParsed(o)])

Stored(r) ==
  IF request[r].result = "READY"
  THEN Summary(request[r].hash, request[r].hashed, request[r].read, request[r].made)
  ELSE Row(request[r].result, request[r].hash)

M_SaveUnderNewHash(r) ==
  /\ Stage(r, "document save")
  /\ IF indexed
     THEN document' = [Stored(r) EXCEPT !.hash = Current] /\ Leave(r, "done")
     ELSE Leave(r, "raised") /\ UNCHANGED document
  /\ UNCHANGED <<indexed, texts, folder, holders>>

(* The result, good or bad, replaces the row, under the hash read at the beginning. *)
SaveDocument(r) ==
  /\ Stage(r, "document save")
  /\ IF indexed
     THEN document' = Stored(r) /\ Leave(r, "done")
     ELSE Leave(r, "raised") /\ UNCHANGED document
  /\ UNCHANGED <<indexed, texts, folder, holders>>

-----------------------------------------------------------------------------
(* FolderUnderstandingService.generate_insight *)

(* The files are listed and hashed, their chunks counted and the folder's row read: three
   statements outside a transaction. *)
ListFiles(r) ==
  /\ Stage(r, "new")
  /\ request' = [request EXCEPT ![r].stage = IF indexed THEN "listed" ELSE "raised",
                                ![r].hash = Current, ![r].hashed = revision]
  /\ UNCHANGED <<indexed, texts, document, folder, holders>>

CountChunks(r) ==
  /\ Stage(r, "listed")
  /\ Move(r, IF indexed /\ Current \notin Blank THEN "some chunks" ELSE "no chunks")
  /\ UNCHANGED <<indexed, texts, document, folder, holders>>

(* A current summary is kept unless a new one is forced. *)
ReadFolder(r) ==
  /\ request[r].stage \in {"some chunks", "no chunks"}
  /\ \/ folder.status = "READY" /\ folder.hash = request[r].hash /\ Leave(r, "done")
     \/ Stage(r, "some chunks") /\ Move(r, "folder")
     \/ Stage(r, "no chunks") /\ Move(r, "no evidence")
  /\ UNCHANGED <<indexed, texts, document, folder, holders>>

Replace(r, stage, status) ==
  /\ Stage(r, stage)
  /\ IF indexed
     THEN folder' = Row(status, request[r].hash) /\ Leave(r, "done")
     ELSE Leave(r, "raised") /\ UNCHANGED folder
  /\ UNCHANGED <<indexed, texts, document, holders>>

NoEvidence(r) == Replace(r, "no evidence", "NO_EVIDENCE")

(* check_ollama_readiness *)
NotReady(r) == Replace(r, "folder", "MODEL_UNAVAILABLE")

(* The row is marked, which erases the summary it had, and the evidence is read in the same
   transaction: the file's summary, if its row says READY, and its chunks. *)
Mark(r) ==
  /\ Stage(r, "folder")
  /\ indexed
  /\ folder' = Row("GENERATING", request[r].hash)
  /\ LET evidence == (IF Current \in Blank THEN {} ELSE {revision}) \cup document.made IN
       request' = [request EXCEPT ![r].made = evidence, ![r].read = revision,
         ![r].stage = IF evidence = {} THEN "no evidence" ELSE "folder marked"]
  /\ UNCHANGED <<indexed, texts, document, holders>>

MarkGone(r) ==
  /\ Stage(r, "folder")
  /\ ~indexed
  /\ Leave(r, "raised")
  /\ UNCHANGED <<indexed, texts, document, folder, holders>>

(* A busy slot is reported only now. *)
AskForFolder(r) ==
  /\ Stage(r, "folder marked")
  /\ \/ Acquire(r) /\ Move(r, "folder generating")
     \/ Busy /\ Leave(r, "raised") /\ UNCHANGED holders
  /\ UNCHANGED <<indexed, texts, document, folder>>

(* Whatever does not parse is itself the summary, an empty answer too. *)
FolderParsed(outcome) == {"READY"}

FolderCalled(r) == Called(r, "folder generating", "folder save", [o \in Outcomes |-> FolderParsed(o)])

SaveFolder(r) ==
  /\ Stage(r, "folder save")
  /\ IF indexed
     THEN folder' = Stored(r) /\ Leave(r, "done")
     ELSE Leave(r, "raised") /\ UNCHANGED folder
  /\ UNCHANGED <<indexed, texts, document, holders>>

(* The thread serves another request. *)
Again(r) ==
  /\ request[r].stage \in {"done", "raised"}
  /\ request' = [request EXCEPT ![r] = Fresh]
  /\ UNCHANGED <<indexed, texts, document, folder, holders>>

InsightStep(r) ==
  \/ ReadChunks(r) \/ ReadGone(r) \/ AskForDocument(r) \/ DocumentCalled(r) \/ SaveDocument(r)
  \/ CountChunks(r) \/ ReadFolder(r) \/ NoEvidence(r) \/ NotReady(r) \/ Mark(r) \/ MarkGone(r) \/ AskForFolder(r) \/ FolderCalled(r)
  \/ SaveFolder(r)

-----------------------------------------------------------------------------
(* Indexing *)

(* Another text is committed with its hash; it may be one that was there before. *)
Reindex ==
  /\ indexed /\ revision < MaxRevision
  /\ \E text \in Texts \ {Current} : texts' = Append(texts, text)
  /\ UNCHANGED <<indexed, document, folder, request, holders>>

(* The insights go with the rows they are about. *)
RemoveFolder ==
  /\ indexed
  /\ indexed' = FALSE
  /\ document' = NoInsight
  /\ folder' = NoInsight
  /\ UNCHANGED <<texts, request, holders>>

InsightCrash ==
  /\ request' = [r \in Requests |-> Fresh]
  /\ UNCHANGED <<indexed, texts, document, folder>>

-----------------------------------------------------------------------------
(* Types; insights do not outlive their folder. *)
InsightTypeOK ==
  /\ texts \in Seq(Texts) /\ revision \in 1..MaxRevision
  /\ \A row \in {document, folder} :
       /\ row.hash \in Texts \cup {None}
       /\ {row.hashed, row.read} \subseteq 0..revision /\ row.made \subseteq 1..revision
       /\ row.made # {} => row.status = "READY"
  /\ ~indexed => document = NoInsight /\ folder = NoInsight

MadeOf(insight) == {texts[i] : i \in insight.made}

(* Between the reading of the hash and that of the chunks the text was replaced, and by now it
   has come back. *)
CameBack(insight) ==
  /\ 0 < insight.hashed /\ insight.hashed < insight.read
  /\ texts[insight.hashed] = Current /\ texts[insight.read] # Current

(* A file's summary that is shown as current was made from the text the file has, however long
   the generation took and whatever was indexed meanwhile, unless just then the text was another
   one and later came back (generate_insight keeps the hash it read first;
   is_cached_insight_current compares nothing but hashes). *)
DocumentIsTrue == Shown(document) = "READY" => MadeOf(document) = {Current} \/ CameBack(document)

(* The same of a folder's summary, as far as it was made from chunks, which a blank text does
   not have. *)
FolderIsTrue == Shown(folder) = "READY" => Current \in MadeOf(folder) \cup Blank \/ CameBack(folder)

(* What is shown as current is made from what is current, unless it came back. *)
SummariesAreTrue == DocumentIsTrue /\ FolderIsTrue

(* The same without the exception. *)
NothingComesBack ==
  /\ Shown(document) = "READY" => MadeOf(document) = {Current}
  /\ Shown(folder) = "READY" => Current \in MadeOf(folder) \cup Blank

(* A current folder summary rests on nothing outdated (the "single authoritative validity rule
   for cached document insights"). *)
FolderIsPurelyTrue == Shown(folder) = "READY" => MadeOf(folder) \subseteq {Current}

(* A refused request leaves the last good folder summary in place (the router: "stores insight
   atomically"). *)
SummaryKept ==
  [][folder.status = "READY" /\ folder'.status # "READY" /\ indexed' =>
       \E r \in Requests : Stage(r, "folder save")]_insightVars
=============================================================================
