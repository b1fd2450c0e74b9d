-------------------------------- MODULE Watcher --------------------------------
(***************************************************************************)
(* The folder watcher: what a file system change becomes on its way to the *)
(* files table.  The observer's thread hands raw events to                 *)
(* FolderWatchHandler, the DebouncedEventManager coalesces them by path,   *)
(* and a timer's thread applies them in sub-batches, each a transaction.   *)
(*                                                                         *)
(* One watched folder with directories one level deep.  A path is a pair   *)
(* of a directory and a name; the name Self stands for the directory.  Of  *)
(* a file's content only this matters: whether it changed since it was     *)
(* last read.                                                              *)
(***************************************************************************)
EXTENDS FiniteSets, Naturals, Sequences, SequencesExt, Lists

CONSTANTS
  Dirs,       \* the directories besides the folder itself
  Files,      \* paths of files
  Ignored,    \* paths that the exclusion patterns match
  Root,       \* the folder
  SubBatch,   \* WATCHER_BATCH_SIZE, 200 in the program
  Timers,     \* how many timer threads are at work at once
  Self,
  None

(* A name a file has in one directory it can have in another. *)
ASSUME WatcherAssumption ==
  /\ IsFiniteSet(Files)
  /\ \A p \in Files : p[2] # Self /\ (p[1] \in Dirs => \A d \in Dirs : <<d, p[2]>> \in Files)
  /\ SubBatch \in Nat \ {0}

VARIABLES
  there,     \* the files on disk
  dirs,      \* the directories on disk
  unread,    \* the files that changed after they were last read
  raw,       \* events the observer has not handed over yet
  pending,   \* _pending_events, in the order of the dict
  flushing,  \* what is left of the batches of the timer threads, the oldest first
  rows,      \* the files table: "none", "live", "failed" or "missing"
  jobs,      \* the rows with a job that will read the file
  excused    \* a change was reported in a way the watcher is known to lose

vars == <<there, dirs, unread, raw, pending, flushing, rows, jobs, excused>>
diskVars == <<there, dirs, unread>>

Dir(d) == <<d, Self>>
IsDir(p) == p[2] = Self
Children(d) == {p \in Files : p[1] = d}

(* is_subpath: a path is inside itself. *)
Inside(child, parent) == child = parent \/ (IsDir(parent) /\ child[1] = parent[1])

Event(type, p) == [type |-> type, path |-> p, old |-> None]
Move(old, p) == [type |-> "RENAME", path |-> p, old |-> old]

Init ==
  /\ dirs = Dirs \ {CHOOSE d \in Dirs : TRUE}
  /\ there = {p \in Files : p[1] \in dirs \cup {Root} /\ p \notin Ignored}
  /\ rows = [p \in Files |-> IF p \in there THEN "live" ELSE "none"]
  /\ unread = {}
  /\ raw = <<>> /\ pending = <<>> /\ flushing = <<>>
  /\ jobs = {}
  /\ excused = FALSE

-----------------------------------------------------------------------------
(* FolderWatchHandler: exclusions; a move across their border is a creation or a deletion,
   except that a directory coming from an excluded place is still a move. *)

Normalized(e) ==
  LET from == e.old \in Ignored
      to == e.path \in Ignored
  IN IF e.type # "RENAME" THEN (IF to THEN <<>> ELSE <<e>>)
     ELSE IF from /\ to THEN <<>>
     ELSE IF to THEN <<Event("DELETE", e.old)>>
     ELSE IF from /\ ~IsDir(e.path) THEN <<Event("CREATE", e.path)>>
     ELSE <<e>>

-----------------------------------------------------------------------------
(* DebouncedEventManager.push_event *)

Has(queue, p) == \E i \in DOMAIN queue : queue[i].path = p
HasType(queue, p, type) == \E i \in DOMAIN queue : queue[i].path = p /\ queue[i].type = type

(* Assignment to a key of a dict keeps the key's place. *)
Put(queue, e) ==
  IF Has(queue, e.path)
  THEN [i \in DOMAIN queue |-> IF queue[i].path = e.path THEN e ELSE queue[i]]
  ELSE Append(queue, e)

PurgedUnder(queue, p) == Kept(LAMBDA e : ~Inside(e.path, p), queue)

DeletedWithDir(queue, p) ==
  \E i \in DOMAIN queue :
    IsDir(queue[i].path) /\ queue[i].type = "DELETE" /\ Inside(p, queue[i].path)

MovedWithDir(queue, p) ==
  \E i \in DOMAIN queue :
    IsDir(queue[i].path) /\ queue[i].type = "RENAME" /\ Inside(p, queue[i].old)

PutUnless(covered, queue, e) == IF covered THEN queue ELSE Put(queue, e)

(* A file created and renamed within the window was only created, under its new name. *)
RenameFile(queue, e) ==
  IF HasType(queue, e.old, "CREATE")
  THEN LET rest == Kept(LAMBDA q : q.path # e.old, queue)
       IN PutUnless(MovedWithDir(rest, e.old), rest, Event("CREATE", e.path))
  ELSE PutUnless(MovedWithDir(queue, e.old), queue, e)

M_KeepOldest(queue, e) == IF Has(queue, e.path) THEN queue ELSE Put(queue, e)

(* A write to a file that was just created is still its creation; else the newest event counts. *)
Debounced(queue, e) ==
  IF e.type = "MODIFY" /\ HasType(queue, e.path, "CREATE") THEN queue ELSE Put(queue, e)

Pushed(queue, e) ==
  CASE e.type = "DELETE" /\ IsDir(e.path) ->
         LET rest == PurgedUnder(queue, e.path)
         IN PutUnless(DeletedWithDir(rest, e.path), rest, e)
    [] e.type = "DELETE" /\ ~IsDir(e.path) -> PutUnless(DeletedWithDir(queue, e.path), queue, e)
    [] e.type = "RENAME" /\ IsDir(e.path) -> Put(PurgedUnder(queue, e.old), e)
    [] e.type = "RENAME" /\ ~IsDir(e.path) -> RenameFile(queue, e)
    [] OTHER -> Debounced(queue, e)

(* What the coalescing loses.  A rename is forgotten when anything else happens at its new
   path, when that path is moved on, and when the directory it leads into is removed or moved; a
   row stays behind when its file is replaced by a new one and that is renamed; an event
   takes the place of an earlier one at its path, before a rename that it came after;
   and a directory that is there again takes the place of its deletion. *)
Purged(e) ==
  IF ~IsDir(e.path) THEN {}
  ELSE {q \in ToSet(pending) : \/ e.type = "DELETE" /\ Inside(q.path, e.path)
                               \/ e.type = "RENAME" /\ Inside(q.path, e.old)}

Loses(e) ==
  \/ HasType(pending, e.path, "RENAME")
  \/ e.type = "RENAME" /\ HasType(pending, e.old, "RENAME")
  \/ /\ e.type = "RENAME" /\ HasType(pending, e.old, "CREATE") /\ ~IsDir(e.old)
     /\ rows[e.old] # "none" \/ Has(FlattenSeq(flushing), e.old)
  \/ /\ Has(pending, e.path)
     /\ \E q \in ToSet(pending) : /\ q.type = "RENAME"
                                  /\ \/ Inside(e.path, q.old)
                                     \/ e.type = "RENAME" /\ Inside(e.old, q.path)
  \/ \E q \in Purged(e) : q.type = "RENAME"
  \/ e.type # "DELETE" /\ IsDir(e.path) /\ Has(pending, e.path)

Hand ==
  /\ raw # <<>>
  /\ raw' = Tail(raw)
  /\ LET e == Normalized(Head(raw)) IN
       /\ pending' = IF e = <<>> THEN pending ELSE Pushed(pending, e[1])
       /\ excused' = (excused \/ (e # <<>> /\ Loses(e[1])))
  /\ UNCHANGED <<diskVars, flushing, rows, jobs>>

-----------------------------------------------------------------------------
(* _flush and _handle_flushed_batch *)

(* The pending events are taken, and forgotten, before any of them is applied.  A timer fires
   also while the thread of an earlier one is still at its batch. *)
Flush ==
  /\ pending # <<>> /\ Len(flushing) < Timers
  /\ flushing' = Append(flushing, pending)
  /\ pending' = <<>>
  /\ UNCHANGED <<diskVars, raw, rows, jobs, excused>>

(* A row keeps its status when its path changes; no two rows have the same path. *)
Renamed(table, moves) ==
  [p \in Files |-> IF \E m \in moves : m[2] = p
                   THEN table[(CHOOSE m \in moves : m[2] = p)[1]]
                   ELSE IF \E m \in moves : m[1] = p THEN "none" ELSE table[p]]

Moves(table, e) ==
  IF IsDir(e.path)
  THEN {<<p, <<e.path[1], p[2]>>>> : p \in {q \in Children(e.old[1]) : table[q] # "none"}}
  ELSE IF table[e.old] # "none" THEN {<<e.old, e.path>>} ELSE {}

Clash(table, moves) == \E m \in moves : m[2] # m[1] /\ table[m[2]] # "none"

Moved(set, moves) ==
  (set \ {m[1] : m \in moves}) \cup {m[2] : m \in moves}

Saved(state, p) == [state EXCEPT !.rows[p] = "live", !.jobs = @ \cup {p}]

Gone(state, paths) ==
  [state EXCEPT !.rows = [p \in Files |-> IF p \in paths /\ @[p] # "none" THEN "missing" ELSE @[p]],
                !.jobs = @ \ paths]

(* One event, on a record of the table, the jobs, whether a statement failed, and whether a move
   was skipped because what moved had moved on, a deletion because the directory is back, or a
   rename left a file without a live row, or a changed one without a job to read it.  Deletions
   of INDEXED rows queue a DELETE_CLEANUP too, which changes nothing of this. *)
Applied(state, e) ==
  IF state.failed THEN state ELSE
  CASE e.type \in {"CREATE", "MODIFY"} -> IF e.path \in there THEN Saved(state, e.path) ELSE state
    [] e.type = "DELETE" /\ ~IsDir(e.path) -> Gone(state, {e.path})
    [] e.type = "DELETE" /\ IsDir(e.path) ->
         IF e.path[1] \in dirs
         THEN [state EXCEPT !.missed = @ \/ \E p \in Children(e.path[1]) : state.rows[p] # "none"]
         ELSE Gone(state, Children(e.path[1]))
    [] e.type = "RENAME" ->
         LET moves == Moves(state.rows, e) IN
         IF ~(e.path \in there \/ (IsDir(e.path) /\ e.path[1] \in dirs))
         THEN [state EXCEPT !.missed = @ \/ moves # {}]
         ELSE IF Clash(state.rows, moves) THEN [state EXCEPT !.failed = TRUE]
         ELSE LET renamed == Renamed(state.rows, moves) IN
              [state EXCEPT !.rows = renamed,
                            !.jobs = Moved(@, moves),
                            !.missed = @ \/ \E p \in there \ Ignored :
                                              /\ Inside(p, e.path)
                                              /\ \/ renamed[p] \in {"none", "missing"}
                                                 \/ p \in unread \ Moved(state.jobs, moves)]

Prefix(s) == SubSeq(s, 1, IF Len(s) < SubBatch THEN Len(s) ELSE SubBatch)
Rest(s) == SubSeq(s, SubBatch + 1, Len(s))

(* The creation of a directory is logged and nothing else. *)
Relevant(e) == ~(IsDir(e.path) /\ e.type \in {"CREATE", "MODIFY"})

Left(i, batch) ==
  IF batch = <<>> THEN RemoveAt(flushing, i) ELSE [flushing EXCEPT ![i] = batch]

(* A sub-batch is committed, or rolled back and the rest of the batch dropped with it.  A later
   batch that is first at the write lock overtakes an earlier one. *)
ApplySubBatch(i) ==
  /\ LET start == [rows |-> rows, jobs |-> jobs, failed |-> FALSE, missed |-> FALSE]
         state == FoldLeft(Applied, start, Kept(Relevant, Prefix(flushing[i])))
     IN IF state.failed
        THEN flushing' = Left(i, <<>>) /\ excused' = TRUE /\ UNCHANGED <<rows, jobs>>
        ELSE /\ rows' = state.rows
             /\ jobs' = state.jobs
             /\ flushing' = Left(i, Rest(flushing[i]))
             /\ excused' = (excused \/ state.missed \/ i > 1)
  /\ UNCHANGED <<diskVars, raw, pending>>

(* The database is locked. *)
LoseBatch(i) ==
  /\ flushing' = Left(i, <<>>)
  /\ excused' = TRUE
  /\ UNCHANGED <<diskVars, raw, pending, rows, jobs>>

(* A worker runs the row's job: it reads the file, or fails for want of one. *)
RunJob(p) ==
  /\ p \in jobs
  /\ jobs' = jobs \ {p}
  /\ rows' = [rows EXCEPT ![p] = CASE @ = "missing" -> @
                                   [] @ # "missing" /\ p \in there -> "live"
                                   [] OTHER -> "failed"]
  /\ unread' = IF rows[p] = "missing" THEN unread ELSE unread \ {p}
  /\ UNCHANGED <<there, dirs, raw, pending, flushing, excused>>

-----------------------------------------------------------------------------
(* The file system; what watchdog reports of each change *)

Place(p) == p[1] \in dirs \cup {Root}
Emit(events) == raw' = raw \o events
watcherVars == <<pending, flushing, rows, jobs, excused>>

Create(p) ==
  /\ p \notin there /\ Place(p)
  /\ there' = there \cup {p}
  /\ unread' = unread \cup {p}
  /\ Emit(<<Event("CREATE", p), Event("MODIFY", p)>>)
  /\ UNCHANGED <<dirs, watcherVars>>

Modify(p) ==
  /\ p \in there
  /\ unread' = unread \cup {p}
  /\ Emit(<<Event("MODIFY", p)>>)
  /\ UNCHANGED <<there, dirs, watcherVars>>

Erase(p) ==
  /\ p \in there
  /\ there' = there \ {p}
  /\ unread' = unread \ {p}
  /\ Emit(<<Event("DELETE", p)>>)
  /\ UNCHANGED <<dirs, watcherVars>>

(* Onto a free path, or replacing the file there. *)
Rename(p, q) ==
  /\ p \in there /\ p # q /\ Place(q)
  /\ there' = (there \ {p}) \cup {q}
  /\ unread' = (unread \ {p}) \cup {q}
  /\ Emit(<<Move(p, q)>>)
  /\ UNCHANGED <<dirs, watcherVars>>

MakeDir(d) ==
  /\ d \notin dirs
  /\ dirs' = dirs \cup {d}
  /\ Emit(<<Event("CREATE", Dir(d))>>)
  /\ UNCHANGED <<there, unread, watcherVars>>

RemoveDir(d) ==
  /\ d \in dirs
  /\ dirs' = dirs \ {d}
  /\ there' = there \ Children(d)
  /\ unread' = unread \ Children(d)
  /\ Emit([i \in 1..Len(SetToSeq(Children(d) \cap there)) |->
             Event("DELETE", SetToSeq(Children(d) \cap there)[i])]
          \o <<Event("DELETE", Dir(d))>>)
  /\ UNCHANGED watcherVars

RenameDir(d, e) ==
  /\ d \in dirs /\ e \notin dirs
  /\ dirs' = (dirs \ {d}) \cup {e}
  /\ LET moved == Children(d) \cap there
         order == SetToSeq(moved)
         new(p) == <<e, p[2]>>
     IN /\ there' = (there \ moved) \cup {new(p) : p \in moved}
        /\ unread' = (unread \ moved) \cup {new(p) : p \in moved}
        /\ Emit(<<Move(Dir(d), Dir(e))>> \o [i \in DOMAIN order |-> Move(order[i], new(order[i]))])
  /\ UNCHANGED watcherVars

DiskChange ==
  \/ \E p \in Files : Create(p) \/ Modify(p) \/ Erase(p)
  \/ \E p, q \in Files : Rename(p, q)
  \/ \E d \in Dirs : MakeDir(d) \/ RemoveDir(d)
  \/ \E d, e \in Dirs : RenameDir(d, e)

Next ==
  \/ DiskChange \/ Hand \/ Flush
  \/ \E i \in DOMAIN flushing : ApplySubBatch(i) \/ LoseBatch(i)
  \/ \E p \in Files : RunJob(p)

Spec == Init /\ [][Next]_vars

-----------------------------------------------------------------------------
(* Types; the debouncer keeps one event per path. *)
WatcherTypeOK ==
  /\ there \subseteq Files /\ dirs \subseteq Dirs /\ unread \subseteq there
  /\ rows \in [Files -> {"none", "live", "failed", "missing"}]
  /\ jobs \subseteq {p \in Files : rows[p] # "none"}
  /\ \A i, j \in DOMAIN pending : pending[i].path = pending[j].path => i = j

Quiet == raw = <<>> /\ pending = <<>> /\ flushing = <<>> /\ jobs = {}

Tracked == there \ Ignored

(* Once every event has been applied, the live rows are the files on disk, and every change has
   reached a job. *)
RowsFollowDisk ==
  Quiet => /\ {p \in Files : rows[p] = "live"} = Tracked
           /\ unread \cap Tracked = {}

(* That is so whatever files are created, written, renamed and removed in whatever order, also
   within one window, apart from the patterns Loses and Applied name, a batch lost, rolled back
   or overtaken. *)
RowsFollowUnlessExcused == excused \/ RowsFollowDisk
=============================================================================
