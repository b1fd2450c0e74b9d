---------------------------- MODULE FolderRegistry ----------------------------
(***************************************************************************)
(* The table of registered folders, the requests that change it, and the   *)
(* watches that WatcherService keeps for its rows.  A request that changes *)
(* the table commits and then synchronizes the watches itself; one that    *)
(* registers a folder leaves that to the scan it starts in a thread.  A    *)
(* synchronization reads the table and then works through it, under a lock *)
(* that the requests do not take.                                          *)
(*                                                                         *)
(* Adding single files makes their directory a row too, a container.  The  *)
(* directories exist throughout.                                           *)
(***************************************************************************)
EXTENDS FiniteSets, Functions, Naturals

CONSTANTS
  Paths,      \* the directories that can be registered
  Below,      \* <<inner, outer>>: the directories inside one another
  Requesters, \* requests to the service
  MaxRows,    \* how many rows are ever inserted
  Program,    \* who synchronizes when the program starts, and after a scan of all folders
  Nothing

(* Requests, the program and the threads of scans are told apart. *)
ASSUME RegistryAssumption == Program \notin Nat /\ \A c \in Requesters : c # Program /\ c \notin Nat

VARIABLES
  folders,    \* the rows, by folder_id
  inserted,   \* how many rows have been inserted: the last folder_id
  watches,    \* WatcherService.watches, by folder_id
  handlers,   \* the observer's handlers, by ObservedWatch
  asked,      \* what each request is about to write
  scanning,   \* the folders that a registration's thread is scanning
  callers,    \* who still has to synchronize
  syncing,    \* what the synchronization under way has read
  missed      \* folders committed by someone who does not synchronize

registryVars == <<folders, inserted, watches, handlers, asked, scanning, callers, syncing, missed>>

(* A deleted row with this path is still watched, or about to be: the synchronization under way
   has read it. *)
ReplacesWatch(path) ==
  \/ \E i \in DOMAIN watches \ DOMAIN folders : watches[i].path = path
  \/ /\ syncing # Nothing
     /\ \E i \in DOMAIN syncing.rows \ DOMAIN folders : syncing.rows[i].path = path

Row(path, enabled, recursive, patterns, seen) ==
  [path |-> path, enabled |-> enabled, recursive |-> recursive, patterns |-> patterns,
   seen |-> seen,       \* the rows its request saw before it inserted
   replaces |-> ReplacesWatch(path)]

RegistryInit ==
  /\ folders = <<>>
  /\ inserted = 0
  /\ watches = <<>>
  /\ handlers = {}
  /\ asked = [c \in Requesters |-> Nothing]
  /\ scanning = {}
  /\ callers = {}
  /\ syncing = Nothing
  /\ missed = {}

(* Whether a request is free: it holds nothing it has read, and has its watches in order. *)
Free(c) == asked[c] = Nothing /\ c \notin callers

-----------------------------------------------------------------------------
(* register_folder, and register_individual_files for one file *)

Within(p, q) == p = q \/ <<p, q>> \in Below
M_OverlapBelow(p, q) == Within(p, q)
Overlap(p, q) == Within(p, q) \/ Within(q, p)

(* The table is read and the new path compared with each row... *)
CheckFolder(c, p) ==
  /\ Free(c)
  /\ \A i \in DOMAIN folders : ~Overlap(p, folders[i].path)
  /\ asked' = [asked EXCEPT ![c] = [what |-> "folder", path |-> p, seen |-> DOMAIN folders]]
  /\ UNCHANGED <<folders, inserted, watches, handlers, scanning, callers, syncing, missed>>

(* ... and the directory of a file becomes a container where no row contains it. *)
CheckFile(c, p) ==
  /\ Free(c)
  /\ \A i \in DOMAIN folders : ~Within(p, folders[i].path)
  /\ asked' = [asked EXCEPT ![c] = [what |-> "file", path |-> p, seen |-> DOMAIN folders]]
  /\ UNCHANGED <<folders, inserted, watches, handlers, scanning, callers, syncing, missed>>

(* The row is inserted, unless it has come meanwhile: the path is unique. *)
Taken(c) ==
  /\ asked[c] # Nothing /\ asked[c].what \in {"folder", "file"}
  /\ \E i \in DOMAIN folders : folders[i].path = asked[c].path
  /\ asked' = [asked EXCEPT ![c] = Nothing]
  /\ UNCHANGED <<folders, inserted, watches, handlers, scanning, callers, syncing, missed>>

Insert(c, what, enabled, recursive, patterns) ==
  /\ asked[c] # Nothing /\ asked[c].what = what
  /\ inserted < MaxRows
  /\ \A i \in DOMAIN folders : folders[i].path # asked[c].path
  /\ folders' = [i \in DOMAIN folders \cup {inserted + 1} |->
                   IF i \in DOMAIN folders THEN folders[i]
                   ELSE Row(asked[c].path, enabled, recursive, patterns, asked[c].seen)]
  /\ inserted' = inserted + 1
  /\ asked' = [asked EXCEPT ![c] = Nothing]

InsertFolder(c, enabled, recursive) ==
  /\ Insert(c, "folder", enabled, recursive, "some")
  /\ scanning' = IF enabled THEN scanning \cup {inserted'} ELSE scanning
  /\ UNCHANGED <<watches, handlers, callers, syncing, missed>>

(* No scan and no synchronization: the files are put in the table by the request itself. *)
InsertContainer(c) ==
  /\ Insert(c, "file", TRUE, FALSE, "all")
  /\ missed' = missed \cup {inserted'}
  /\ UNCHANGED <<watches, handlers, scanning, callers, syncing>>

-----------------------------------------------------------------------------
(* update_folder and delete_folder *)

(* The row is read... *)
ReadRow(c, i) ==
  /\ Free(c)
  /\ asked' = [asked EXCEPT ![c] = [what |-> "update", id |-> i, row |-> folders[i]]]
  /\ UNCHANGED <<folders, inserted, watches, handlers, scanning, callers, syncing, missed>>

M_UpdateQuietly(c, enabled, recursive) ==
  /\ asked[c] # Nothing /\ asked[c].what = "update"
  /\ asked' = [asked EXCEPT ![c] = Nothing]
  /\ IF asked[c].id \in DOMAIN folders
     THEN folders' = [folders EXCEPT ![asked[c].id] =
                        [asked[c].row EXCEPT !.enabled = enabled, !.recursive = recursive]]
     ELSE UNCHANGED folders
  /\ UNCHANGED <<inserted, watches, handlers, scanning, callers, syncing, missed>>

(* ... and written back whole, with the settings that the request gives.  A row that is gone
   by then is not found, and nothing is synchronized. *)
WriteRow(c, enabled, recursive) ==
  /\ asked[c] # Nothing /\ asked[c].what = "update"
  /\ asked' = [asked EXCEPT ![c] = Nothing]
  /\ IF asked[c].id \in DOMAIN folders
     THEN /\ folders' = [folders EXCEPT ![asked[c].id] =
                           [asked[c].row EXCEPT !.enabled = enabled, !.recursive = recursive]]
          /\ callers' = callers \cup {c}
     ELSE UNCHANGED <<folders, callers>>
  /\ UNCHANGED <<inserted, watches, handlers, scanning, syncing, missed>>

DeleteRow(c, i) ==
  /\ Free(c)
  /\ folders' = [j \in DOMAIN folders \ {i} |-> folders[j]]
  /\ callers' = callers \cup {c}
  /\ missed' = missed \ {i}
  /\ UNCHANGED <<inserted, watches, handlers, asked, scanning, syncing>>

-----------------------------------------------------------------------------
(* scan_single_folder and scan_all_enabled_folders, as far as they concern the watches *)

(* Asked for by control_indexing. *)
Rescan(i) ==
  /\ i \notin scanning
  /\ scanning' = scanning \cup {i}
  /\ UNCHANGED <<folders, inserted, watches, handlers, asked, callers, syncing, missed>>

ScanEnds(i) ==
  /\ i \in DOMAIN folders
  /\ scanning' = scanning \ {i}
  /\ callers' = callers \cup {i}
  /\ UNCHANGED <<folders, inserted, watches, handlers, asked, syncing, missed>>

(* A scan that raises ends its thread: the folder is gone, its directory too, or the database
   is locked. *)
ScanRaises(i) ==
  /\ scanning' = scanning \ {i}
  /\ missed' = missed \cup ({i} \cap DOMAIN folders)
  /\ UNCHANGED <<folders, inserted, watches, handlers, asked, callers, syncing>>

(* Scanning them all catches what one of them raises. *)
ScanAll ==
  /\ callers' = callers \cup {Program}
  /\ UNCHANGED <<folders, inserted, watches, handlers, asked, scanning, syncing, missed>>

-----------------------------------------------------------------------------
(* sync_watches *)

Watch(row) == [path |-> row.path, recursive |-> row.recursive, patterns |-> row.patterns]

(* How watchdog tells watches apart. *)
Observed(watch) == <<watch.path, watch.recursive>>

Handler(i, watch) == [id |-> i, patterns |-> watch.patterns, on |-> Observed(watch)]

(* The lock is taken and the table read. *)
BeginSync(x) ==
  /\ syncing = Nothing
  /\ syncing' = [by |-> x, rows |-> folders]
  /\ UNCHANGED <<folders, inserted, watches, handlers, asked, scanning, callers, missed>>

Active(rows) == {i \in DOMAIN rows : rows[i].enabled}

Scheduled(rows) == {i \in Active(rows) : i \in DOMAIN watches => watches[i] # Watch(rows[i])}
Unscheduled(rows) == DOMAIN watches \ Active(rows)

M_HandlersLeftBehind(rows) ==
  {h \in handlers : \A i \in Unscheduled(rows) : h.on # Observed(watches[i])}
    \cup {Handler(i, Watch(rows[i])) : i \in Scheduled(rows)}

(* The observer drops all the handlers of a watch at once.  The enabled rows have different
   paths, so the order among them makes no difference. *)
HandlersFor(rows) ==
  LET Replaced == {Observed(watches[i]) : i \in Scheduled(rows) \cap DOMAIN watches}
      Removed == {Observed(watches[i]) : i \in Unscheduled(rows)}
      Kept == {h \in handlers : h.on \notin Replaced}
      New == {Handler(i, Watch(rows[i])) : i \in Scheduled(rows)}
  IN {h \in Kept \cup New : h.on \notin Removed}

(* New and changed rows are scheduled first, and what is not active any more is unscheduled
   last. *)
EndSync ==
  /\ syncing # Nothing
  /\ watches' = [i \in Active(syncing.rows) |-> Watch(syncing.rows[i])]
  /\ handlers' = HandlersFor(syncing.rows)
  /\ missed' = missed \ DOMAIN syncing.rows
  /\ callers' = callers \ {syncing.by}
  /\ syncing' = Nothing
  /\ UNCHANGED <<folders, inserted, asked, scanning>>

(* The program stops, or its process dies, and starts again: the observer and the threads are
   new, and the watches are made from the table. *)
RegistryRestart ==
  /\ watches' = <<>> /\ handlers' = {}
  /\ asked' = [c \in Requesters |-> Nothing]
  /\ scanning' = {} /\ missed' = {} /\ syncing' = Nothing
  /\ callers' = {Program}
  /\ folders' = [i \in DOMAIN folders |-> [folders[i] EXCEPT !.replaces = FALSE]]
  /\ UNCHANGED inserted

RegistryNext ==
  \/ \E c \in Requesters :
       \/ \E p \in Paths : CheckFolder(c, p) \/ CheckFile(c, p)
       \/ Taken(c)
       \/ \E enabled, recursive \in BOOLEAN :
            InsertFolder(c, enabled, recursive) \/ WriteRow(c, enabled, recursive)
       \/ InsertContainer(c)
       \/ \E i \in DOMAIN folders : ReadRow(c, i) \/ DeleteRow(c, i)
  \/ \E i \in DOMAIN folders : Rescan(i)
  \/ \E i \in scanning : ScanEnds(i) \/ ScanRaises(i)
  \/ ScanAll
  \/ \E x \in callers : BeginSync(x)
  \/ EndSync
  \/ RegistryRestart

RegistrySpec == RegistryInit /\ [][RegistryNext]_registryVars

-----------------------------------------------------------------------------
(* Properties *)

(* The rows have different paths (the column is unique), and the observer has no handler that
   the service could not take back: each is that of a watch it has written down. *)
RegistryTypeOK ==
  /\ \A i \in DOMAIN folders :
       /\ i \in 1..inserted
       /\ folders[i].path \in Paths /\ folders[i].patterns \in {"some", "all"}
  /\ IsInjective([i \in DOMAIN folders |-> folders[i].path])
  /\ scanning \cup missed \cup DOMAIN watches \subseteq 1..inserted
  /\ callers \subseteq Requesters \cup {Program} \cup 1..inserted
  /\ \A h \in handlers : h.id \in DOMAIN watches /\ h = Handler(h.id, watches[h.id])

(* Nothing is under way that will change the watches. *)
Settled == scanning = {} /\ callers = {} /\ syncing = Nothing

Heard(i) == Handler(i, Watch(folders[i])) \in handlers

(* sync_watches is to keep the watches and the table the same: with nothing under way, the
   changes in the enabled folders are heard, with their settings, and those in no others. *)
WatchesFollow ==
  Settled => /\ \A i \in Active(folders) : Heard(i)
             /\ \A h \in handlers : h.id \in Active(folders)

(* They are, except for a row whose insertion nobody follows up (a container, or a folder
   whose scan raised), and for a row inserted while the watch of a deleted row with the same
   path was still there: taking back the old watch takes back the new one. *)
WatchesFollowUnlessReplaced ==
  Settled => /\ \A i \in Active(folders) : Heard(i) \/ i \in missed \/ folders[i].replaces
             /\ \A h \in handlers : h.id \in Active(folders)

(* register_folder refuses a folder inside a registered one and one that has a registered one
   inside: two rows overlap only when neither request saw the other's row, or when the outer
   one is a container, which is not compared with what is inside it. *)
RootsKeepApart ==
  \A i, j \in DOMAIN folders :
    /\ i # j
    /\ j \in folders[i].seen
    /\ Within(folders[i].path, folders[j].path) \/ Within(folders[j].path, folders[i].path)
    => folders[i].patterns = "all" /\ Within(folders[j].path, folders[i].path)
=============================================================================
