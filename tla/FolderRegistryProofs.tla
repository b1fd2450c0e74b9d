------------------------- MODULE FolderRegistryProofs -------------------------
(***************************************************************************)
(* RootsKeepApart, for any set of directories, any relation between them   *)
(* and any number of requests.  A request decides on the rows it read      *)
(* before; what has to be carried along is that those of them that are     *)
(* still there are as they were, where it matters.  Then the watches that  *)
(* follow the table, and the types of the watcher and of both together.    *)
(***************************************************************************)
EXTENDS MCFolders, TLAPS, FiniteSetTheorems, SequenceTheorems

RowType ==
  [path : Paths, enabled : BOOLEAN, recursive : BOOLEAN, patterns : {"some", "all"},
   seen : SUBSET Nat, replaces : BOOLEAN]

Registration == [what : {"folder", "file"}, path : Paths, seen : SUBSET Nat]
Change == [what : {"update"}, id : Nat, row : RowType]

(* Rows are numbered in the order of their insertion; nobody has seen a row yet to come. *)
Numbered ==
  /\ inserted \in Nat
  /\ DOMAIN folders \subseteq 1..inserted
  /\ folders \in [DOMAIN folders -> RowType]
  /\ asked \in [Requesters -> {Nothing} \cup Registration \cup Change]
  /\ \A i \in DOMAIN folders : folders[i].seen \subseteq 1..inserted

(* What a registration has found out still holds of the rows it saw. *)
StillApart ==
  \A c \in Requesters : asked[c] # Nothing /\ asked[c].what \in {"folder", "file"} =>
    /\ asked[c].seen \subseteq 1..inserted
    /\ \A i \in asked[c].seen \cap DOMAIN folders :
         /\ ~Within(asked[c].path, folders[i].path)
         /\ asked[c].what = "folder" => ~Within(folders[i].path, asked[c].path)

(* The row that a change writes back differs from the table's in its settings at most. *)
StillTheRow ==
  \A c \in Requesters : asked[c] # Nothing /\ asked[c].what = "update" =>
    /\ asked[c].id \in 1..inserted
    /\ asked[c].id \in DOMAIN folders =>
         /\ asked[c].row.path = folders[asked[c].id].path
         /\ asked[c].row.patterns = folders[asked[c].id].patterns
         /\ asked[c].row.seen = folders[asked[c].id].seen

RootsInv == Numbered /\ StillApart /\ StillTheRow /\ RootsKeepApart

LEMMA RootsInitInv == RegistryInit => RootsInv
BY DEF RegistryInit, RootsInv, Numbered, StillApart, StillTheRow, RootsKeepApart

-----------------------------------------------------------------------------
(* Rows that are deleted, and rows that change in other fields, disturb nothing. *)
LEMMA SameRoots ==
  ASSUME RootsInv, inserted' = inserted,
         DOMAIN folders' \subseteq DOMAIN folders, folders' \in [DOMAIN folders' -> RowType],
         \A i \in DOMAIN folders' : /\ folders'[i].path = folders[i].path
                                    /\ folders'[i].patterns = folders[i].patterns
                                    /\ folders'[i].seen = folders[i].seen,
         asked' \in [Requesters -> {Nothing} \cup Registration \cup Change],
         \A c \in Requesters : asked'[c] = asked[c] \/ asked'[c] = Nothing
  PROVE  RootsInv'
<1>1. Numbered'
  BY DEF RootsInv, Numbered
<1>2. StillApart'
  BY DEF RootsInv, Numbered, StillApart, Within
<1>3. StillTheRow'
  BY DEF RootsInv, Numbered, StillTheRow
<1>4. RootsKeepApart'
  BY DEF RootsInv, RootsKeepApart, Within
<1> QED
  BY <1>1, <1>2, <1>3, <1>4 DEF RootsInv

(* A request takes a note of what it reads. *)
LEMMA AskedInv ==
  ASSUME RootsInv, NEW c \in Requesters, NEW note \in Registration \cup Change,
         asked' = [asked EXCEPT ![c] = note], UNCHANGED <<folders, inserted>>,
         note.what \in {"folder", "file"} =>
           /\ note.seen = DOMAIN folders
           /\ \A i \in DOMAIN folders :
                /\ ~Within(note.path, folders[i].path)
                /\ note.what = "folder" => ~Within(folders[i].path, note.path),
         note.what = "update" => note.id \in DOMAIN folders /\ note.row = folders[note.id]
  PROVE  RootsInv'
<1>1. asked'[c] = note /\ \A d \in Requesters \ {c} : asked'[d] = asked[d]
  BY DEF RootsInv, Numbered
<1>2. Numbered'
  BY DEF RootsInv, Numbered
<1>3. StillApart'
  BY <1>1 DEF RootsInv, Numbered, StillApart, Within
<1>4. StillTheRow'
  BY <1>1 DEF RootsInv, Numbered, StillTheRow
<1>5. RootsKeepApart'
  BY DEF RootsInv, RootsKeepApart, Within
<1> QED
  BY <1>2, <1>3, <1>4, <1>5 DEF RootsInv

(* The new row has seen what its request saw, and nobody has seen it. *)
LEMMA InsertInv ==
  ASSUME RootsInv, NEW c \in Requesters, NEW what \in {"folder", "file"},
         NEW enabled \in BOOLEAN, NEW recursive \in BOOLEAN, NEW patterns \in {"some", "all"},
         what = "file" => patterns = "all",
         Insert(c, what, enabled, recursive, patterns)
  PROVE  RootsInv'
<1> DEFINE n == inserted + 1
           new == Row(asked[c].path, enabled, recursive, patterns, asked[c].seen)
<1>1. /\ inserted \in Nat /\ n \notin DOMAIN folders /\ inserted' = n
      /\ asked[c] \in Registration /\ asked[c] # Nothing /\ asked[c].what = what
  BY DEF RootsInv, Numbered, Insert, Registration, Change
<1>2. new \in RowType /\ new.path = asked[c].path /\ new.seen = asked[c].seen
      /\ new.patterns = patterns
  BY <1>1 DEF Row, RowType, Registration, ReplacesWatch
<1>3. /\ DOMAIN folders' = DOMAIN folders \cup {n}
      /\ folders'[n] = new /\ \A i \in DOMAIN folders : folders'[i] = folders[i]
  BY <1>1 DEF Insert
<1>4. asked'[c] = Nothing /\ \A d \in Requesters \ {c} : asked'[d] = asked[d]
  BY DEF Insert, RootsInv, Numbered
<1>5. Numbered'
  <2>1. asked' \in [Requesters -> {Nothing} \cup Registration \cup Change]
    BY DEF Insert, RootsInv, Numbered
  <2>2. folders' \in [DOMAIN folders' -> RowType]
    BY <1>2, <1>3 DEF Insert, RootsInv, Numbered
  <2>3. asked[c].seen \subseteq 1..inserted
    BY <1>1 DEF RootsInv, StillApart
  <2>4. DOMAIN folders' \subseteq 1..inserted'
        /\ \A i \in DOMAIN folders' : folders'[i].seen \subseteq 1..inserted'
    BY <1>1, <1>2, <1>3, <2>3 DEF RootsInv, Numbered
  <2> QED
    BY <1>1, <2>1, <2>2, <2>4 DEF Numbered
<1>6. StillApart'
  BY <1>1, <1>3, <1>4 DEF RootsInv, Numbered, StillApart, Within
<1>7. StillTheRow'
  BY <1>1, <1>3, <1>4 DEF RootsInv, Numbered, StillTheRow
<1>8. RootsKeepApart'
  <2> SUFFICES ASSUME NEW i \in DOMAIN folders', NEW j \in DOMAIN folders', i # j,
                      j \in folders'[i].seen,
                      \/ Within(folders'[i].path, folders'[j].path)
                      \/ Within(folders'[j].path, folders'[i].path)
               PROVE  folders'[i].patterns = "all" /\ Within(folders'[j].path, folders'[i].path)
    BY DEF RootsKeepApart, Within
  <2>1. CASE i = n
    BY <1>1, <1>2, <1>3, <2>1 DEF RootsInv, StillApart
  <2>2. CASE i # n
    <3>1. i \in DOMAIN folders /\ folders'[i] = folders[i] /\ j # n
      BY <1>1, <1>3, <2>2 DEF RootsInv, Numbered
    <3> QED
      BY <1>3, <3>1 DEF RootsInv, RootsKeepApart
  <2> QED
    BY <2>1, <2>2
<1> QED
  BY <1>5, <1>6, <1>7, <1>8 DEF RootsInv

LEMMA WriteRowInv ==
  ASSUME RootsInv, NEW c \in Requesters, NEW enabled \in BOOLEAN, NEW recursive \in BOOLEAN,
         WriteRow(c, enabled, recursive)
  PROVE  RootsInv'
<1>1. asked[c] \in Change /\ asked[c] # Nothing /\ asked[c].what = "update"
      /\ inserted' = inserted /\ asked' = [asked EXCEPT ![c] = Nothing]
  BY DEF WriteRow, RootsInv, Numbered, Registration
<1>2. CASE asked[c].id \notin DOMAIN folders
  BY <1>1, <1>2, SameRoots DEF WriteRow, RootsInv, Numbered
<1>3. CASE asked[c].id \in DOMAIN folders
  <2> DEFINE id == asked[c].id
             written == [asked[c].row EXCEPT !.enabled = enabled, !.recursive = recursive]
  <2>1. folders' = [folders EXCEPT ![id] = written]
    BY <1>3 DEF WriteRow
  <2>2. /\ written \in RowType /\ written.path = asked[c].row.path
        /\ written.patterns = asked[c].row.patterns /\ written.seen = asked[c].row.seen
    BY <1>1 DEF Change, RowType
  <2>3. /\ folders'[id] = written /\ DOMAIN folders' = DOMAIN folders
        /\ \A i \in DOMAIN folders \ {id} : folders'[i] = folders[i]
        /\ folders' \in [DOMAIN folders' -> RowType]
    BY <1>3, <2>1, <2>2 DEF RootsInv, Numbered
  <2>4. \A i \in DOMAIN folders' : /\ folders'[i].path = folders[i].path
                                   /\ folders'[i].patterns = folders[i].patterns
                                   /\ folders'[i].seen = folders[i].seen
    BY <1>1, <1>3, <2>2, <2>3 DEF RootsInv, StillTheRow
  <2> QED
    BY <1>1, <2>3, <2>4, SameRoots DEF RootsInv, Numbered
<1> QED
  BY <1>2, <1>3

LEMMA DeleteRowInv ==
  ASSUME RootsInv, NEW c \in Requesters, NEW i \in DOMAIN folders, DeleteRow(c, i)
  PROVE  RootsInv'
<1>1. /\ DOMAIN folders' = DOMAIN folders \ {i}
      /\ \A j \in DOMAIN folders' : folders'[j] = folders[j]
      /\ UNCHANGED <<inserted, asked>>
  BY DEF DeleteRow
<1>2. folders' \in [DOMAIN folders' -> RowType]
  BY <1>1 DEF DeleteRow, RootsInv, Numbered
<1> QED
  BY <1>1, <1>2, SameRoots DEF RootsInv, Numbered

LEMMA RestartInv ==
  ASSUME RootsInv, RegistryRestart
  PROVE  RootsInv'
<1>1. /\ DOMAIN folders' = DOMAIN folders
      /\ \A j \in DOMAIN folders' : folders'[j] = [folders[j] EXCEPT !.replaces = FALSE]
      /\ folders' = [j \in DOMAIN folders |-> [folders[j] EXCEPT !.replaces = FALSE]]
      /\ inserted' = inserted /\ asked' = [c \in Requesters |-> Nothing]
  BY DEF RegistryRestart
<1>2. \A j \in DOMAIN folders : folders[j] \in RowType
  BY DEF RootsInv, Numbered
<1>3. \A j \in DOMAIN folders' : /\ folders'[j].path = folders[j].path
                                 /\ folders'[j].patterns = folders[j].patterns
                                 /\ folders'[j].seen = folders[j].seen
                                 /\ folders'[j] \in RowType
  BY <1>1, <1>2 DEF RowType
<1>4. folders' \in [DOMAIN folders' -> RowType]
  BY <1>1, <1>3
<1> QED
  BY <1>1, <1>3, <1>4, SameRoots DEF RootsInv, Numbered

-----------------------------------------------------------------------------
LEMMA RootsNextInv ==
  ASSUME RootsInv, [RegistryNext]_registryVars
  PROVE  RootsInv'
<1> DEFINE Same == UNCHANGED <<folders, inserted, asked>>
<1>1. ASSUME Same PROVE RootsInv'
  BY <1>1, SameRoots DEF RootsInv, Numbered
<1>2. ASSUME NEW c \in Requesters, NEW p \in Paths, CheckFolder(c, p)
      PROVE  RootsInv'
  <2> DEFINE note == [what |-> "folder", path |-> p, seen |-> DOMAIN folders]
  <2>1. note \in Registration /\ asked' = [asked EXCEPT ![c] = note]
    BY <1>2 DEF CheckFolder, Registration, RootsInv, Numbered
  <2> QED
    BY <1>2, <2>1, AskedInv DEF CheckFolder, Overlap
<1>3. ASSUME NEW c \in Requesters, NEW p \in Paths, CheckFile(c, p)
      PROVE  RootsInv'
  <2> DEFINE note == [what |-> "file", path |-> p, seen |-> DOMAIN folders]
  <2>1. note \in Registration /\ asked' = [asked EXCEPT ![c] = note]
    BY <1>3 DEF CheckFile, Registration, RootsInv, Numbered
  <2> QED
    BY <1>3, <2>1, AskedInv DEF CheckFile
<1>4. ASSUME NEW c \in Requesters, Taken(c)
      PROVE  RootsInv'
  BY <1>4, SameRoots DEF Taken, RootsInv, Numbered
<1>5. ASSUME NEW c \in Requesters, NEW enabled \in BOOLEAN, NEW recursive \in BOOLEAN,
             InsertFolder(c, enabled, recursive)
      PROVE  RootsInv'
  BY <1>5, InsertInv DEF InsertFolder
<1>6. ASSUME NEW c \in Requesters, InsertContainer(c)
      PROVE  RootsInv'
  BY <1>6, InsertInv DEF InsertContainer
<1>7. ASSUME NEW c \in Requesters, NEW i \in DOMAIN folders, ReadRow(c, i)
      PROVE  RootsInv'
  <2> DEFINE note == [what |-> "update", id |-> i, row |-> folders[i]]
  <2>1. note \in Change /\ asked' = [asked EXCEPT ![c] = note]
    BY <1>7 DEF ReadRow, Change, RootsInv, Numbered
  <2> QED
    BY <1>7, <2>1, AskedInv DEF ReadRow
<1>8. CASE \/ \E i \in DOMAIN folders : Rescan(i)
           \/ \E i \in scanning : ScanEnds(i) \/ ScanRaises(i)
           \/ ScanAll
           \/ \E x \in callers : BeginSync(x)
           \/ EndSync
           \/ UNCHANGED registryVars
  BY <1>1, <1>8 DEF Rescan, ScanEnds, ScanRaises, ScanAll, BeginSync, EndSync, registryVars
<1> QED
  BY <1>2, <1>3, <1>4, <1>5, <1>6, <1>7, <1>8, WriteRowInv, DeleteRowInv, RestartInv
     DEF RegistryNext

(* The rows and what each request has read of them stay in step, whatever the interleaving. *)
THEOREM RootsInvariant == RegistrySpec => []RootsInv
<1>1. RootsInv /\ [RegistryNext]_registryVars => RootsInv'
  BY RootsNextInv
<1> QED
  BY <1>1, RootsInitInv, PTL DEF RegistrySpec

(* Two rows overlap only if neither request saw the other's row, or around a container
   (register_folder, register_individual_files). *)
THEOREM RootsStayApart == RegistrySpec => []RootsKeepApart
<1>1. RootsInv => RootsKeepApart
  BY DEF RootsInv
<1> QED
  BY <1>1, RootsInvariant, PTL

-----------------------------------------------------------------------------
(* The watches *)

(* The numbers of rows, and those who synchronize. *)
WatchesNumbered ==
  /\ scanning \cup missed \cup DOMAIN watches \subseteq 1..inserted
  /\ callers \subseteq Requesters \cup {Program} \cup 1..inserted
  /\ syncing # Nothing =>
       /\ syncing.by \in callers /\ DOMAIN syncing.rows \subseteq 1..inserted
       /\ syncing.by \in DOMAIN folders => syncing.by \in DOMAIN syncing.rows
  /\ \A c \in Requesters : asked[c] # Nothing => c \notin callers

(* A row keeps its path, and no two have the same. *)
PathsDiffer(table) == \A i, j \in DOMAIN table : table[i].path = table[j].path => i = j
SamePaths(a, b) == \A i \in DOMAIN a \cap DOMAIN b : a[i].path = b[i].path

OnePathEach ==
  /\ PathsDiffer(folders)
  /\ SamePaths(watches, folders)
  /\ syncing # Nothing => /\ PathsDiffer(syncing.rows)
                          /\ SamePaths(syncing.rows, folders)
                          /\ SamePaths(watches, syncing.rows)

(* A row whose path is watched, or about to be, for a deleted one is marked; a change that is
   about to be written keeps the mark. *)
Marks(table) ==
  \A i \in DOMAIN folders, j \in DOMAIN table \ DOMAIN folders :
    table[j].path = folders[i].path => folders[i].replaces

ReplacedMarked ==
  /\ Marks(watches)
  /\ syncing # Nothing => Marks(syncing.rows)
  /\ \A c \in Requesters :
       asked[c] # Nothing /\ asked[c].what = "update" /\ asked[c].id \in DOMAIN folders =>
         asked[c].row.replaces = folders[asked[c].id].replaces

(* The observer has the handlers of the watches, but for those taken back with another's. *)
HandlersMatch ==
  /\ \A h \in handlers : h.id \in DOMAIN watches /\ h = Handler(h.id, watches[h.id])
  /\ \A i \in DOMAIN watches :
       Handler(i, watches[i]) \in handlers \/ (i \in DOMAIN folders => folders[i].replaces)

(* Unless someone is still to read the table, what was read last is the table, but for the rows
   that are being scanned or were missed. *)
LastReadHolds ==
  IF syncing = Nothing
  THEN callers = {} =>
         /\ \A i \in DOMAIN watches : i \in Active(folders) /\ watches[i] = Watch(folders[i])
         /\ Active(folders) \subseteq DOMAIN watches \cup scanning \cup missed
  ELSE callers = {syncing.by} =>
         /\ \A i \in DOMAIN syncing.rows :
              /\ i \in DOMAIN folders /\ Watch(syncing.rows[i]) = Watch(folders[i])
              /\ syncing.rows[i].enabled = folders[i].enabled
         /\ Active(folders) \subseteq DOMAIN syncing.rows \cup scanning \cup missed

WatchInv == WatchesNumbered /\ OnePathEach /\ ReplacedMarked /\ HandlersMatch /\ LastReadHolds

LEMMA WatchInitInv == RegistryInit => WatchInv
BY DEF RegistryInit, WatchInv, WatchesNumbered, OnePathEach, PathsDiffer, SamePaths,
       ReplacedMarked, Marks, HandlersMatch, LastReadHolds, Active

(* A request that takes a note is waited for by nobody; the note of a row has its mark. *)
LEMMA AskedWatchInv ==
  ASSUME RootsInv, WatchInv, NEW c \in Requesters, NEW note,
         asked' = [asked EXCEPT ![c] = note],
         note # Nothing => c \notin callers,
         note # Nothing /\ note.what = "update" /\ note.id \in DOMAIN folders =>
           note.row.replaces = folders[note.id].replaces,
         UNCHANGED <<folders, inserted, watches, handlers, scanning, callers, syncing, missed>>
  PROVE  WatchInv'
<1>1. asked'[c] = note /\ \A d \in Requesters \ {c} : asked'[d] = asked[d]
  BY DEF RootsInv, Numbered
<1>2. WatchesNumbered'
  BY <1>1 DEF WatchInv, WatchesNumbered
<1>3. ReplacedMarked'
  <2>1. Marks(watches)' /\ (syncing # Nothing => Marks(syncing.rows))'
    BY DEF WatchInv, ReplacedMarked, Marks
  <2> QED
    BY <1>1, <2>1 DEF WatchInv, ReplacedMarked
<1>4. OnePathEach' /\ HandlersMatch' /\ LastReadHolds'
  BY DEF WatchInv, OnePathEach, PathsDiffer, SamePaths, HandlersMatch, LastReadHolds, Active
<1> QED
  BY <1>2, <1>3, <1>4 DEF WatchInv

(* A new row: nothing of its number is watched; its mark says whether something of its path is. *)
LEMMA InsertWatchInv ==
  ASSUME RootsInv, WatchInv, NEW c \in Requesters, NEW what \in {"folder", "file"},
         NEW enabled \in BOOLEAN, NEW recursive \in BOOLEAN, NEW patterns \in {"some", "all"},
         Insert(c, what, enabled, recursive, patterns),
         UNCHANGED <<watches, handlers, callers, syncing>>,
         scanning \subseteq scanning', scanning' \subseteq scanning \cup {inserted'},
         missed \subseteq missed', missed' \subseteq missed \cup {inserted'},
         enabled => inserted' \in scanning' \cup missed'
  PROVE  WatchInv'
<1> DEFINE n == inserted + 1
           new == Row(asked[c].path, enabled, recursive, patterns, asked[c].seen)
<1>1. /\ inserted \in Nat /\ n \notin DOMAIN folders /\ inserted' = n
      /\ DOMAIN folders \subseteq 1..inserted
  BY DEF RootsInv, Numbered, Insert
<1>2. new.path = asked[c].path /\ new.replaces = ReplacesWatch(asked[c].path) /\ new.enabled = enabled
  BY DEF Row
<1> HIDE DEF new
<1>3. /\ DOMAIN folders' = DOMAIN folders \cup {n}
      /\ folders'[n] = new /\ \A i \in DOMAIN folders : folders'[i] = folders[i]
      /\ \A i \in DOMAIN folders : folders[i].path # new.path
  BY <1>1, <1>2 DEF Insert, new
<1>4. asked'[c] = Nothing /\ \A d \in Requesters \ {c} : asked'[d] = asked[d]
  BY DEF Insert, RootsInv, Numbered
<1>5. n \notin DOMAIN watches /\ (syncing # Nothing => n \notin DOMAIN syncing.rows)
  BY <1>1 DEF WatchInv, WatchesNumbered
<1>6. WatchesNumbered'
  <2>1. /\ 1..inserted \subseteq 1..inserted' /\ inserted' \in 1..inserted'
        /\ n \notin 1..inserted /\ n \in Nat
    BY <1>1
  <2>2. n \notin callers
    BY <2>1, RegistryAssumption DEF WatchInv, WatchesNumbered, RegistryAssumption
  <2>3. syncing # Nothing => syncing.by # n
    BY <2>2 DEF WatchInv, WatchesNumbered
  <2> QED
    BY <1>1, <1>3, <1>4, <2>1, <2>3 DEF WatchInv, WatchesNumbered
<1>7. OnePathEach'
  <2>1. PathsDiffer(folders') /\ SamePaths(watches, folders')
    BY <1>3, <1>5 DEF WatchInv, OnePathEach, PathsDiffer, SamePaths
  <2>2. syncing # Nothing => SamePaths(syncing.rows, folders')
    BY <1>3, <1>5 DEF WatchInv, OnePathEach, SamePaths
  <2> QED
    BY <2>1, <2>2 DEF WatchInv, OnePathEach, PathsDiffer, SamePaths
<1>8. ReplacedMarked'
  <2>1. ASSUME NEW table, Marks(table),
               \A j \in DOMAIN table \ DOMAIN folders :
                 table[j].path = asked[c].path => ReplacesWatch(asked[c].path)
        PROVE  \A i \in DOMAIN folders', j \in DOMAIN table \ DOMAIN folders' :
                 table[j].path = folders'[i].path => folders'[i].replaces
    BY <1>2, <1>3, <2>1 DEF Marks
  <2>2. \A i \in DOMAIN folders', j \in DOMAIN watches \ DOMAIN folders' :
          watches[j].path = folders'[i].path => folders'[i].replaces
    BY <2>1 DEF WatchInv, ReplacedMarked, ReplacesWatch
  <2>3. syncing # Nothing =>
          \A i \in DOMAIN folders', j \in DOMAIN syncing.rows \ DOMAIN folders' :
            syncing.rows[j].path = folders'[i].path => folders'[i].replaces
    BY <2>1 DEF WatchInv, ReplacedMarked, ReplacesWatch
  <2>4. \A d \in Requesters :
          asked'[d] # Nothing /\ asked'[d].what = "update" /\ asked'[d].id \in DOMAIN folders' =>
            asked'[d].row.replaces = folders'[asked'[d].id].replaces
    <3> SUFFICES ASSUME NEW d \in Requesters, asked'[d] # Nothing, asked'[d].what = "update",
                        asked'[d].id \in DOMAIN folders'
                 PROVE  asked'[d].row.replaces = folders'[asked'[d].id].replaces
      OBVIOUS
    <3>1. asked'[d] = asked[d] /\ asked[d].id \in 1..inserted
      BY <1>4 DEF RootsInv, StillTheRow
    <3>2. asked[d].id \in DOMAIN folders
      BY <1>1, <1>3, <3>1
    <3> QED
      BY <1>3, <3>1, <3>2 DEF WatchInv, ReplacedMarked
  <2> QED
    BY <2>2, <2>3, <2>4 DEF ReplacedMarked, Marks
<1>9. HandlersMatch'
  BY <1>3, <1>5 DEF WatchInv, HandlersMatch
<1>10. LastReadHolds'
  <2>1. \A i \in DOMAIN folders : i \in Active(folders)' <=> i \in Active(folders)
    BY <1>3 DEF Active
  <2>2. Active(folders)' \subseteq Active(folders) \cup (IF enabled THEN {n} ELSE {})
    BY <1>2, <1>3 DEF Active
  <2>3. CASE syncing = Nothing
    BY <1>1, <1>3, <2>1, <2>2, <2>3 DEF WatchInv, LastReadHolds, Active
  <2>4. CASE syncing # Nothing
    BY <1>1, <1>3, <2>1, <2>2, <2>4 DEF WatchInv, LastReadHolds
  <2> QED
    BY <2>3, <2>4
<1> QED
  BY <1>6, <1>7, <1>8, <1>9, <1>10 DEF WatchInv

(* A request that has written synchronizes afterwards: until then nothing is promised. *)
LEMMA WriteRowWatchInv ==
  ASSUME RootsInv, WatchInv, NEW c \in Requesters, NEW enabled \in BOOLEAN,
         NEW recursive \in BOOLEAN, WriteRow(c, enabled, recursive)
  PROVE  WatchInv'
<1>1. /\ asked[c] \in Change /\ asked[c] # Nothing /\ asked[c].what = "update"
      /\ asked' = [asked EXCEPT ![c] = Nothing] /\ c \notin callers
      /\ UNCHANGED <<inserted, watches, handlers, scanning, syncing, missed>>
  BY DEF WriteRow, RootsInv, Numbered, Registration, WatchInv, WatchesNumbered
<1>2. CASE asked[c].id \notin DOMAIN folders
  BY <1>1, <1>2, AskedWatchInv DEF WriteRow
<1>3. CASE asked[c].id \in DOMAIN folders
  <2> DEFINE id == asked[c].id
             written == [asked[c].row EXCEPT !.enabled = enabled, !.recursive = recursive]
  <2>1. folders' = [folders EXCEPT ![id] = written] /\ callers' = callers \cup {c}
    BY <1>3 DEF WriteRow
  <2>2. written.path = asked[c].row.path /\ written.replaces = asked[c].row.replaces
    BY <1>1 DEF Change, RowType
  <2>3. /\ DOMAIN folders' = DOMAIN folders
        /\ \A i \in DOMAIN folders : /\ folders'[i].path = folders[i].path
                                     /\ folders'[i].replaces = folders[i].replaces
    BY <1>1, <1>3, <2>1, <2>2 DEF RootsInv, Numbered, StillTheRow, WatchInv, ReplacedMarked
  <2>4. asked'[c] = Nothing /\ \A d \in Requesters \ {c} : asked'[d] = asked[d]
    BY <1>1 DEF RootsInv, Numbered
  <2>5. WatchesNumbered'
    BY <1>1, <2>1, <2>4 DEF WatchInv, WatchesNumbered
  <2>6. OnePathEach'
    BY <1>1, <2>3 DEF WatchInv, OnePathEach, PathsDiffer, SamePaths
  <2>7. ReplacedMarked'
    <3>1. Marks(watches)'
      BY <1>1, <2>3 DEF WatchInv, ReplacedMarked, Marks
    <3>2. (syncing # Nothing => Marks(syncing.rows))'
      BY <1>1, <2>3 DEF WatchInv, ReplacedMarked, Marks
    <3> QED
      BY <2>3, <2>4, <3>1, <3>2 DEF WatchInv, ReplacedMarked
  <2>8. HandlersMatch'
    BY <1>1, <2>3 DEF WatchInv, HandlersMatch
  <2>9. LastReadHolds'
    BY <1>1, <2>1 DEF LastReadHolds, WatchInv, WatchesNumbered
  <2> QED
    BY <2>5, <2>6, <2>7, <2>8, <2>9 DEF WatchInv
<1> QED
  BY <1>2, <1>3

LEMMA DeleteRowWatchInv ==
  ASSUME RootsInv, WatchInv, NEW c \in Requesters, NEW i \in DOMAIN folders, DeleteRow(c, i)
  PROVE  WatchInv'
<1>1. /\ DOMAIN folders' = DOMAIN folders \ {i}
      /\ \A j \in DOMAIN folders' : folders'[j] = folders[j]
      /\ callers' = callers \cup {c} /\ missed' = missed \ {i} /\ c \notin callers
      /\ asked[c] = Nothing
      /\ UNCHANGED <<inserted, watches, handlers, asked, scanning, syncing>>
  BY DEF DeleteRow, Free
<1>2. WatchesNumbered'
  BY <1>1 DEF WatchInv, WatchesNumbered
<1>3. OnePathEach'
  BY <1>1 DEF WatchInv, OnePathEach, PathsDiffer, SamePaths
<1>4. ReplacedMarked'
  <2>1. ASSUME NEW table, Marks(table), SamePaths(table, folders)
        PROVE  \A k \in DOMAIN folders', j \in DOMAIN table \ DOMAIN folders' :
                 table[j].path = folders'[k].path => folders'[k].replaces
    BY <1>1, <2>1 DEF Marks, SamePaths, WatchInv, OnePathEach, PathsDiffer
  <2>2. Marks(watches)'
    BY <1>1, <2>1 DEF WatchInv, ReplacedMarked, OnePathEach, Marks
  <2>3. (syncing # Nothing => Marks(syncing.rows))'
    BY <1>1, <2>1 DEF WatchInv, ReplacedMarked, OnePathEach, Marks
  <2> QED
    BY <1>1, <2>2, <2>3 DEF WatchInv, ReplacedMarked
<1>5. HandlersMatch'
  BY <1>1 DEF WatchInv, HandlersMatch
<1>6. LastReadHolds'
  BY <1>1 DEF LastReadHolds, WatchInv, WatchesNumbered
<1> QED
  BY <1>2, <1>3, <1>4, <1>5, <1>6 DEF WatchInv

LEMMA ScansWatchInv ==
  ASSUME RootsInv, WatchInv,
         \/ \E i \in DOMAIN folders : Rescan(i)
         \/ \E i \in scanning : ScanEnds(i) \/ ScanRaises(i)
         \/ ScanAll
  PROVE  WatchInv'
<1>1. UNCHANGED <<folders, inserted, watches, handlers, asked, syncing>>
  BY DEF Rescan, ScanEnds, ScanRaises, ScanAll
<1>2. DOMAIN folders \subseteq 1..inserted /\ 1..inserted \subseteq Nat
  BY DEF RootsInv, Numbered
<1>3. WatchesNumbered'
  <2>1. CASE \/ \E i \in DOMAIN folders : Rescan(i)
             \/ \E i \in scanning : ScanRaises(i)
    BY <1>1, <1>2, <2>1 DEF Rescan, ScanRaises, WatchInv, WatchesNumbered
  <2>2. CASE \/ \E i \in scanning : ScanEnds(i)
             \/ ScanAll
    BY <1>1, <1>2, <2>2, RegistryAssumption
       DEF ScanEnds, ScanAll, WatchInv, WatchesNumbered, RegistryAssumption
  <2> QED
    BY <2>1, <2>2
<1>4. OnePathEach' /\ HandlersMatch'
  BY <1>1 DEF WatchInv, OnePathEach, PathsDiffer, SamePaths, HandlersMatch
<1>5. ReplacedMarked'
  <2>1. Marks(watches)' /\ (syncing # Nothing => Marks(syncing.rows))'
    BY <1>1 DEF WatchInv, ReplacedMarked, Marks
  <2> QED
    BY <1>1, <2>1 DEF WatchInv, ReplacedMarked
<1>6. LastReadHolds'
  <2>1. Active(folders)' = Active(folders)
    BY <1>1 DEF Active
  <2>2. CASE \E i \in scanning : ScanEnds(i)
    BY <1>1, <2>1, <2>2 DEF ScanEnds, WatchInv, LastReadHolds, WatchesNumbered, Active
  <2>3. CASE ScanAll
    BY <1>1, <2>1, <2>3 DEF ScanAll, WatchInv, LastReadHolds, WatchesNumbered
  <2>4. CASE \/ \E i \in DOMAIN folders : Rescan(i)
             \/ \E i \in scanning : ScanRaises(i)
    <3>1. scanning \cup missed \subseteq scanning' \cup missed' \cup ({} \ DOMAIN folders)
          \/ \E i \in scanning : /\ scanning' = scanning \ {i}
                                 /\ missed' = missed \cup ({i} \cap DOMAIN folders)
      BY <2>4 DEF Rescan, ScanRaises
    <3>2. UNCHANGED callers
      BY <2>4 DEF Rescan, ScanRaises
    <3>3. \A i \in Active(folders) : i \in scanning \cup missed => i \in scanning' \cup missed'
      BY <3>1 DEF Active
    <3> QED
      BY <1>1, <2>1, <3>2, <3>3 DEF WatchInv, LastReadHolds
  <2> QED
    BY <2>2, <2>3, <2>4
<1> QED
  BY <1>3, <1>4, <1>5, <1>6 DEF WatchInv

(* What is read is the table. *)
LEMMA BeginSyncWatchInv ==
  ASSUME RootsInv, WatchInv, NEW x \in callers, BeginSync(x)
  PROVE  WatchInv'
<1>1. /\ syncing = Nothing /\ syncing' = [by |-> x, rows |-> folders]
      /\ UNCHANGED <<folders, inserted, watches, handlers, asked, scanning, callers, missed>>
      /\ syncing'.by = x /\ syncing'.rows = folders
  BY DEF BeginSync
<1>2. DOMAIN folders \subseteq 1..inserted
  BY DEF RootsInv, Numbered
<1>3. WatchesNumbered'
  BY <1>1, <1>2 DEF WatchInv, WatchesNumbered
<1>4. OnePathEach'
  BY <1>1 DEF WatchInv, OnePathEach, PathsDiffer, SamePaths
<1>5. ReplacedMarked'
  BY <1>1 DEF WatchInv, ReplacedMarked, Marks
<1>6. HandlersMatch'
  BY <1>1 DEF WatchInv, HandlersMatch
<1>7. LastReadHolds'
  BY <1>1 DEF LastReadHolds, Active
<1> QED
  BY <1>3, <1>4, <1>5, <1>6, <1>7 DEF WatchInv

(* The watches are what was read; a handler lost to another watch of its path is a marked row's. *)
LEMMA EndSyncWatchInv ==
  ASSUME RootsInv, WatchInv, EndSync
  PROVE  WatchInv'
<1> DEFINE read == syncing.rows
<1>1. /\ syncing # Nothing
      /\ watches' = [i \in Active(read) |-> Watch(read[i])]
      /\ handlers' = HandlersFor(read)
      /\ missed' = missed \ DOMAIN read
      /\ callers' = callers \ {syncing.by} /\ syncing' = Nothing
      /\ UNCHANGED <<folders, inserted, asked, scanning>>
  BY DEF EndSync
<1>2. /\ DOMAIN watches' = Active(read) /\ Active(read) \subseteq DOMAIN read
      /\ \A i \in Active(read) : watches'[i] = Watch(read[i]) /\ watches'[i].path = read[i].path
  BY <1>1 DEF Active, Watch
<1>3. WatchesNumbered'
  BY <1>1, <1>2 DEF WatchInv, WatchesNumbered
<1>4. OnePathEach'
  BY <1>1, <1>2 DEF WatchInv, OnePathEach, PathsDiffer, SamePaths
<1>5. ReplacedMarked'
  <2>1. Marks(watches)'
    BY <1>1, <1>2 DEF WatchInv, ReplacedMarked, Marks
  <2> QED
    BY <1>1, <2>1 DEF WatchInv, ReplacedMarked
<1> DEFINE Replaced == {Observed(watches[i]) : i \in Scheduled(read) \cap DOMAIN watches}
           Removed == {Observed(watches[i]) : i \in Unscheduled(read)}
           New == {Handler(i, Watch(read[i])) : i \in Scheduled(read)}
<1>6. /\ handlers' = {h \in {h \in handlers : h.on \notin Replaced} \cup New : h.on \notin Removed}
      /\ \A i, w : Handler(i, w).on = Observed(w) /\ Handler(i, w).id = i
  BY <1>1 DEF HandlersFor, Handler
<1>7. \A v, w : Observed(v) = Observed(w) => v.path = w.path
  BY DEF Observed
<1>8. ASSUME NEW h \in handlers'
      PROVE  h.id \in DOMAIN watches' /\ h = Handler(h.id, watches'[h.id])
  <2>1. CASE h \in New
    <3>1. PICK i \in Scheduled(read) : h = Handler(i, Watch(read[i]))
      BY <2>1
    <3> QED
      BY <1>2, <1>6, <3>1 DEF Scheduled
  <2>2. CASE h \in handlers /\ h.on \notin Replaced /\ h.on \notin Removed
    <3>1. h.id \in DOMAIN watches /\ h = Handler(h.id, watches[h.id]) /\ h.on = Observed(watches[h.id])
      BY <1>6, <2>2 DEF WatchInv, HandlersMatch
    <3>2. h.id \in Active(read) /\ h.id \notin Scheduled(read)
      BY <2>2, <3>1 DEF Unscheduled
    <3> QED
      BY <1>2, <3>1, <3>2 DEF Scheduled
  <2> QED
    BY <1>6, <2>1, <2>2
<1>9. ASSUME NEW i \in Active(read), Handler(i, Watch(read[i])) \notin handlers',
             i \in DOMAIN folders
      PROVE  folders[i].replaces
  <2> DEFINE h == Handler(i, Watch(read[i]))
  <2>1. h.on = Observed(Watch(read[i])) /\ Watch(read[i]).path = read[i].path
    BY <1>6 DEF Watch
  <2>2. read[i].path = folders[i].path
    BY <1>1, <1>2, <1>9 DEF WatchInv, OnePathEach, SamePaths
  <2>3. CASE h.on \in Removed
    <3>1. PICK j \in DOMAIN watches \ Active(read) : Observed(watches[j]) = h.on
      BY <2>3 DEF Unscheduled
    <3>2. watches[j].path = read[i].path
      BY <1>7, <2>1, <3>1
    <3>3. j # i
      BY <3>1
    <3>4. j \notin DOMAIN folders
      BY <1>9, <2>2, <3>2, <3>3 DEF WatchInv, OnePathEach, PathsDiffer, SamePaths
    <3> QED
      BY <1>9, <2>2, <3>2, <3>4 DEF WatchInv, ReplacedMarked, Marks
  <2>4. CASE h.on \notin Removed
    <3>1. i \notin Scheduled(read) /\ (h \notin handlers \/ h.on \in Replaced)
      BY <1>6, <1>9, <2>4
    <3>2. i \in DOMAIN watches /\ watches[i] = Watch(read[i])
      BY <3>1 DEF Scheduled
    <3>3. h.on \notin Replaced
      <4> SUFFICES ASSUME NEW j \in Scheduled(read) \cap DOMAIN watches,
                          Observed(watches[j]) = h.on
                   PROVE  FALSE
        OBVIOUS
      <4>1. watches[j].path = read[i].path
        BY <1>7, <2>1
      <4>2. j \in DOMAIN read /\ watches[j].path = read[j].path
        BY <1>1, <1>2 DEF WatchInv, OnePathEach, SamePaths, Scheduled
      <4>3. j = i
        BY <1>1, <1>2, <4>1, <4>2 DEF WatchInv, OnePathEach, PathsDiffer
      <4> QED
        BY <3>1, <4>3
    <3> QED
      BY <1>9, <3>1, <3>2, <3>3 DEF WatchInv, HandlersMatch
  <2> QED
    BY <2>3, <2>4
<1>10. HandlersMatch'
  BY <1>1, <1>2, <1>8, <1>9 DEF HandlersMatch
<1>11. LastReadHolds'
  <2>1. callers' = {} => callers = {syncing.by}
    BY <1>1 DEF WatchInv, WatchesNumbered
  <2>2. SUFFICES ASSUME callers = {syncing.by}
        PROVE  /\ \A i \in DOMAIN watches' : i \in Active(folders) /\ watches'[i] = Watch(folders[i])
               /\ Active(folders) \subseteq DOMAIN watches' \cup scanning \cup missed'
    BY <1>1, <2>1 DEF LastReadHolds, Active
  <2>3. /\ \A i \in DOMAIN read : /\ i \in DOMAIN folders /\ Watch(read[i]) = Watch(folders[i])
                                  /\ read[i].enabled = folders[i].enabled
        /\ Active(folders) \subseteq DOMAIN read \cup scanning \cup missed
    BY <1>1, <2>2 DEF WatchInv, LastReadHolds
  <2> QED
    BY <1>1, <1>2, <2>3 DEF Active
<1> QED
  BY <1>3, <1>4, <1>5, <1>10, <1>11 DEF WatchInv

LEMMA RestartWatchInv ==
  ASSUME RootsInv, WatchInv, RegistryRestart
  PROVE  WatchInv'
<1>1. /\ DOMAIN folders' = DOMAIN folders
      /\ \A j \in DOMAIN folders : folders'[j] = [folders[j] EXCEPT !.replaces = FALSE]
      /\ watches' = <<>> /\ handlers' = {} /\ asked' = [c \in Requesters |-> Nothing]
      /\ scanning' = {} /\ missed' = {} /\ syncing' = Nothing /\ callers' = {Program}
      /\ inserted' = inserted
  BY DEF RegistryRestart
<1>2. \A j \in DOMAIN folders : folders'[j].path = folders[j].path
  BY <1>1 DEF RootsInv, Numbered, RowType
<1>3. WatchesNumbered'
  BY <1>1 DEF WatchesNumbered
<1>4. OnePathEach'
  BY <1>1, <1>2 DEF WatchInv, OnePathEach, PathsDiffer, SamePaths
<1>5. ReplacedMarked' /\ HandlersMatch' /\ LastReadHolds'
  BY <1>1 DEF ReplacedMarked, Marks, HandlersMatch, LastReadHolds
<1> QED
  BY <1>3, <1>4, <1>5 DEF WatchInv

LEMMA WatchNextInv ==
  ASSUME RootsInv, WatchInv, [RegistryNext]_registryVars
  PROVE  WatchInv'
<1>1. ASSUME NEW c \in Requesters, NEW p \in Paths, CheckFolder(c, p) \/ CheckFile(c, p)
      PROVE  WatchInv'
  <2>1. PICK what \in {"folder", "file"} :
          asked' = [asked EXCEPT ![c] = [what |-> what, path |-> p, seen |-> DOMAIN folders]]
    BY <1>1 DEF CheckFolder, CheckFile
  <2> DEFINE note == [what |-> what, path |-> p, seen |-> DOMAIN folders]
  <2>2. note.what # "update"
    OBVIOUS
  <2> QED
    BY <1>1, <2>1, <2>2, AskedWatchInv DEF CheckFolder, CheckFile, Free
<1>2. ASSUME NEW c \in Requesters, Taken(c)
      PROVE  WatchInv'
  BY <1>2, AskedWatchInv DEF Taken
<1>3. ASSUME NEW c \in Requesters, NEW enabled \in BOOLEAN, NEW recursive \in BOOLEAN,
             InsertFolder(c, enabled, recursive)
      PROVE  WatchInv'
  BY <1>3, InsertWatchInv DEF InsertFolder
<1>4. ASSUME NEW c \in Requesters, InsertContainer(c)
      PROVE  WatchInv'
  BY <1>4, InsertWatchInv DEF InsertContainer
<1>5. ASSUME NEW c \in Requesters, NEW i \in DOMAIN folders, ReadRow(c, i)
      PROVE  WatchInv'
  <2> DEFINE note == [what |-> "update", id |-> i, row |-> folders[i]]
  <2>1. asked' = [asked EXCEPT ![c] = note] /\ note.id = i /\ note.row = folders[i]
    BY <1>5 DEF ReadRow
  <2> QED
    BY <1>5, <2>1, AskedWatchInv DEF ReadRow, Free
<1>6. CASE UNCHANGED registryVars
  <2>1. Marks(watches)' /\ (syncing # Nothing => Marks(syncing.rows))'
    BY <1>6 DEF registryVars, WatchInv, ReplacedMarked, Marks
  <2>2. ReplacedMarked'
    BY <1>6, <2>1 DEF registryVars, WatchInv, ReplacedMarked
  <2> QED
    BY <1>6, <2>2 DEF registryVars, WatchInv, WatchesNumbered, OnePathEach, PathsDiffer, SamePaths,
                      HandlersMatch, LastReadHolds, Active
<1> QED
  BY <1>1, <1>2, <1>3, <1>4, <1>5, <1>6, WriteRowWatchInv, DeleteRowWatchInv, ScansWatchInv,
     BeginSyncWatchInv, EndSyncWatchInv, RestartWatchInv DEF RegistryNext

(* What the service has read, written down and handed to the observer, and who is still to
   synchronize, whatever the interleaving of requests, scans, synchronizations and restarts. *)
THEOREM WatchesInvariant == RegistrySpec => []WatchInv
<1>1. RootsInv /\ WatchInv /\ [RegistryNext]_registryVars => WatchInv'
  BY WatchNextInv
<1> QED
  BY <1>1, WatchInitInv, RootsInvariant, PTL DEF RegistrySpec

(* With nothing under way the enabled folders are heard and no others, except rows nobody
   followed up and rows inserted while a deleted row's watch of the same path was there
   (sync_watches, update_folder, delete_folder, scan_single_folder). *)
THEOREM WatchesFollowTheTable == RegistrySpec => []WatchesFollowUnlessReplaced
<1>1. WatchInv => WatchesFollowUnlessReplaced
  BY DEF WatchInv, HandlersMatch, LastReadHolds, WatchesFollowUnlessReplaced, Settled, Heard, Active
<1> QED
  BY <1>1, WatchesInvariant, PTL

(* The types of the table and of the watches; no two rows have the same path, and the observer
   has no handler of a watch the service does not know. *)
THEOREM RegistryTypeCorrect == RegistrySpec => []RegistryTypeOK
<1>1. RootsInv /\ WatchInv => RegistryTypeOK
  <2> SUFFICES ASSUME RootsInv, WatchInv PROVE RegistryTypeOK
    OBVIOUS
  <2>1. \A i \in DOMAIN folders :
          /\ i \in 1..inserted
          /\ folders[i].path \in Paths /\ folders[i].patterns \in {"some", "all"}
    BY DEF RootsInv, Numbered, RowType
  <2>2. IsInjective([i \in DOMAIN folders |-> folders[i].path])
    BY DEF IsInjective, WatchInv, OnePathEach, PathsDiffer
  <2> QED
    BY <2>1, <2>2 DEF RegistryTypeOK, WatchInv, WatchesNumbered, HandlersMatch
<1> QED
  BY <1>1, RootsInvariant, WatchesInvariant, PTL

-----------------------------------------------------------------------------
(* What the observer reports of the folder. *)

DirPaths == {Dir(d) : d \in Dirs}

FileEvents == [type : {"CREATE", "MODIFY", "DELETE"}, path : Files, old : {None}]
DirEvents == [type : {"CREATE", "MODIFY", "DELETE"}, path : DirPaths, old : {None}]
FileMoves == [type : {"RENAME"}, path : Files, old : Files]
DirMoves == [type : {"RENAME"}, path : DirPaths, old : DirPaths]

Events == FileEvents \cup DirEvents \cup FileMoves \cup DirMoves

(* A queue of the debouncer: one event per path. *)
OnePerPath(queue) == \A i, j \in DOMAIN queue : queue[i].path = queue[j].path => i = j
Queues == {queue \in Seq(Events) : OnePerPath(queue)}

Statuses == {"none", "live", "failed", "missing"}

(* The table and the jobs, before and within a sub-batch. *)
TableOK(table, queued) ==
  /\ table \in [Files -> Statuses]
  /\ queued \subseteq {p \in Files : table[p] # "none"}

WatcherInv ==
  /\ there \subseteq Files /\ dirs \subseteq Dirs /\ unread \subseteq there
  /\ TableOK(rows, jobs)
  /\ raw \in Seq(Events)
  /\ pending \in Queues
  /\ flushing \in Seq(Seq(Events))

LEMMA PathKinds ==
  /\ \A p \in Files : ~IsDir(p)
  /\ \A p \in DirPaths : IsDir(p) /\ p[1] \in Dirs /\ p \notin Files
BY WatcherAssumption DEF DirPaths, Dir, IsDir

LEMMA EventFacts ==
  ASSUME NEW e \in Events
  PROVE  /\ e.type \in {"CREATE", "MODIFY", "DELETE", "RENAME"}
         /\ e.path \in Files \cup DirPaths
         /\ e.type = "RENAME" => /\ IsDir(e.path) => e.path \in DirPaths /\ e.old \in DirPaths
                                 /\ ~IsDir(e.path) => e.path \in Files /\ e.old \in Files
BY PathKinds DEF Events, FileEvents, DirEvents, FileMoves, DirMoves

LEMMA EventType ==
  ASSUME NEW p \in Files \cup DirPaths, NEW type \in {"CREATE", "MODIFY", "DELETE"}
  PROVE  Event(type, p) \in Events
BY DEF Event, Events, FileEvents, DirEvents

LEMMA MoveType ==
  /\ \A p, q \in Files : Move(p, q) \in Events
  /\ \A d, e \in Dirs : Move(Dir(d), Dir(e)) \in Events
BY DEF Move, Events, FileMoves, DirMoves, DirPaths

LEMMA NormalizedType ==
  ASSUME NEW e \in Events, Normalized(e) # <<>>
  PROVE  Normalized(e)[1] \in Events
<1>1. CASE e.type # "RENAME"
  BY <1>1 DEF Normalized
<1>2. CASE e.type = "RENAME"
  <2>1. e.old \in Files \cup DirPaths /\ e.path \in Files \cup DirPaths
    BY <1>2, EventFacts
  <2>2. Event("DELETE", e.old) \in Events /\ Event("CREATE", e.path) \in Events
    BY <2>1, EventType
  <2> QED
    BY <1>2, <2>2 DEF Normalized
<1> QED
  BY <1>1, <1>2

-----------------------------------------------------------------------------
(* The debouncer's queue *)

LEMMA PutType ==
  ASSUME NEW queue \in Queues, NEW e \in Events
  PROVE  Put(queue, e) \in Queues
<1>1. queue \in Seq(Events) /\ Len(queue) \in Nat /\ DOMAIN queue = 1..Len(queue) /\ OnePerPath(queue)
      /\ \A i \in DOMAIN queue : queue[i] \in Events
  BY DEF Queues
<1>2. CASE Has(queue, e.path)
  <2> DEFINE put == [i \in DOMAIN queue |-> IF queue[i].path = e.path THEN e ELSE queue[i]]
  <2>1. put \in Seq(Events)
    <3>1. put \in [1..Len(queue) -> Events]
      BY <1>1
    <3> QED
      BY <1>1, <3>1, IsASeq
  <2>2. OnePerPath(put)
    BY <1>1 DEF OnePerPath
  <2> QED
    BY <1>2, <2>1, <2>2 DEF Put, Queues
<1>3. CASE ~Has(queue, e.path)
  <2> DEFINE n == Len(queue)
             put == Append(queue, e)
  <2>1. /\ put \in Seq(Events) /\ DOMAIN put = 1..(n + 1) /\ put[n + 1] = e
        /\ \A i \in 1..n : put[i] = queue[i]
    BY <1>1
  <2>2. n \in Nat /\ \A i \in 1..n : queue[i].path # e.path
    BY <1>1, <1>3 DEF Has
  <2>3. \A i, j \in 1..n : queue[i].path = queue[j].path => i = j
    BY <1>1 DEF OnePerPath
  <2> HIDE DEF put, n
  <2>4. \A i \in 1..(n + 1) : i = n + 1 \/ i \in 1..n
    BY <2>2
  <2>5. OnePerPath(put)
    <3> SUFFICES ASSUME NEW i \in 1..(n + 1), NEW j \in 1..(n + 1), put[i].path = put[j].path
                 PROVE  i = j
      BY <2>1 DEF OnePerPath
    <3> QED
      BY <2>1, <2>2, <2>3, <2>4
  <2>6. Put(queue, e) = put
    BY <1>3 DEF Put, put
  <2> QED
    BY <2>1, <2>5, <2>6 DEF Queues
<1> QED
  BY <1>2, <1>3

(* What is left of a queue, filtered in one way or the other, is a queue. *)
Handed == Normalized(Head(raw))[1]

PurgePath == INSTANCE SequenceFolds
  WITH Op <- LAMBDA kept, q : IF ~Inside(q.path, Handed.path) THEN Append(kept, q) ELSE kept
PurgeOld == INSTANCE SequenceFolds
  WITH Op <- LAMBDA kept, q : IF ~Inside(q.path, Handed.old) THEN Append(kept, q) ELSE kept
DropOld == INSTANCE SequenceFolds
  WITH Op <- LAMBDA kept, q : IF q.path # Handed.old THEN Append(kept, q) ELSE kept

LEMMA PickedQueue ==
  ASSUME NEW queue \in Queues, NEW Wanted, NEW kept \in Seq(Events), NEW place,
         DropOld!Picks(place, kept, queue, Len(queue), Wanted)
  PROVE  kept \in Queues
<1>1. queue \in Seq(Events) /\ DOMAIN queue = 1..Len(queue) /\ Len(queue) \in Nat /\ OnePerPath(queue)
      /\ DOMAIN kept = 1..Len(kept) /\ Len(kept) \in Nat
  BY DEF Queues
<1>2. /\ \A i \in 1..Len(kept) : place[i] \in 1..Len(queue) /\ kept[i] = queue[place[i]]
      /\ \A i, j \in 1..Len(kept) : i < j => place[i] < place[j]
  BY DEF DropOld!Picks
<1>3. ASSUME NEW i \in 1..Len(kept), NEW j \in 1..Len(kept), kept[i].path = kept[j].path
      PROVE  i = j
  <2>1. place[i] = place[j]
    BY <1>1, <1>2, <1>3 DEF OnePerPath
  <2>2. place[i] \in Nat /\ ~(i < j) /\ ~(j < i)
    BY <1>1, <1>2, <2>1
  <2> QED
    BY <1>1, <2>2
<1> QED
  BY <1>1, <1>3 DEF Queues, OnePerPath

LEMMA PurgedByPath ==
  ASSUME NEW queue \in Queues
  PROVE  PurgedUnder(queue, Handed.path) \in Queues
<1> DEFINE kept == PurgedUnder(queue, Handed.path)
           Wanted == {q \in Events : ~Inside(q.path, Handed.path)}
<1>1. kept = PurgePath!Folded(<<>>, queue)
  BY DEF PurgedUnder, Kept, PurgePath!Folded, FoldLeft, MapThenFoldSet, Max, PurgePath!Greatest
<1>2. \A acc : \A q \in Events : (IF ~Inside(q.path, Handed.path) THEN Append(acc, q) ELSE acc)
                                   = IF q \in Wanted THEN Append(acc, q) ELSE acc
  OBVIOUS
<1> HIDE DEF kept, Wanted
<1>3. queue \in Seq(Events)
  BY DEF Queues
<1>4. kept \in Seq(Events) /\ \E place : PurgePath!Picks(place, kept, queue, Len(queue), Wanted)
  BY <1>1, <1>2, <1>3, PurgePath!FilterPicks
<1>5. \E place : DropOld!Picks(place, kept, queue, Len(queue), Wanted)
  BY <1>4 DEF PurgePath!Picks, DropOld!Picks
<1> QED
  BY <1>4, <1>5, PickedQueue DEF kept

LEMMA PurgedByOld ==
  ASSUME NEW queue \in Queues
  PROVE  PurgedUnder(queue, Handed.old) \in Queues
<1> DEFINE kept == PurgedUnder(queue, Handed.old)
           Wanted == {q \in Events : ~Inside(q.path, Handed.old)}
<1>1. kept = PurgeOld!Folded(<<>>, queue)
  BY DEF PurgedUnder, Kept, PurgeOld!Folded, FoldLeft, MapThenFoldSet, Max, PurgeOld!Greatest
<1>2. \A acc : \A q \in Events : (IF ~Inside(q.path, Handed.old) THEN Append(acc, q) ELSE acc)
                                   = IF q \in Wanted THEN Append(acc, q) ELSE acc
  OBVIOUS
<1> HIDE DEF kept, Wanted
<1>3. queue \in Seq(Events)
  BY DEF Queues
<1>4. kept \in Seq(Events) /\ \E place : PurgeOld!Picks(place, kept, queue, Len(queue), Wanted)
  BY <1>1, <1>2, <1>3, PurgeOld!FilterPicks
<1>5. \E place : DropOld!Picks(place, kept, queue, Len(queue), Wanted)
  BY <1>4 DEF PurgeOld!Picks, DropOld!Picks
<1> QED
  BY <1>4, <1>5, PickedQueue DEF kept

LEMMA RenamedQueue ==
  ASSUME NEW queue \in Queues, Handed \in Events, Handed.type = "RENAME", ~IsDir(Handed.path)
  PROVE  RenameFile(queue, Handed) \in Queues
<1> DEFINE rest == Kept(LAMBDA q : q.path # Handed.old, queue)
           Wanted == {q \in Events : q.path # Handed.old}
<1>1. rest \in Queues
  <2>1. rest = DropOld!Folded(<<>>, queue)
    BY DEF Kept, DropOld!Folded, FoldLeft, MapThenFoldSet, Max, DropOld!Greatest
  <2>2. \A acc : \A q \in Events : (IF q.path # Handed.old THEN Append(acc, q) ELSE acc)
                                     = IF q \in Wanted THEN Append(acc, q) ELSE acc
    OBVIOUS
  <2> HIDE DEF rest, Wanted
  <2>3. queue \in Seq(Events)
    BY DEF Queues
  <2>4. rest \in Seq(Events) /\ \E place : DropOld!Picks(place, rest, queue, Len(queue), Wanted)
    BY <2>1, <2>2, <2>3, DropOld!FilterPicks
  <2> QED
    BY <2>4, PickedQueue
<1>2. Event("CREATE", Handed.path) \in Events
  BY EventFacts, EventType
<1>3. Put(rest, Event("CREATE", Handed.path)) \in Queues /\ Put(queue, Handed) \in Queues
  <2> HIDE DEF rest
  <2> QED
    BY <1>1, <1>2, PutType
<1>4. RenameFile(queue, Handed) \in {rest, Put(rest, Event("CREATE", Handed.path)), queue, Put(queue, Handed)}
  BY Zenon DEF RenameFile, PutUnless
<1> QED
  BY <1>1, <1>3, <1>4

LEMMA PushedQueue ==
  ASSUME NEW queue \in Queues, Handed \in Events
  PROVE  Pushed(queue, Handed) \in Queues
<1> DEFINE e == Handed
<1>1. Put(queue, e) \in Queues
  BY PutType
<1>2. PurgedUnder(queue, e.path) \in Queues /\ PurgedUnder(queue, e.old) \in Queues
  BY PurgedByPath, PurgedByOld
<1>3. Put(PurgedUnder(queue, e.path), e) \in Queues /\ Put(PurgedUnder(queue, e.old), e) \in Queues
  BY <1>2, PutType
<1>4. Debounced(queue, e) \in Queues
  BY <1>1 DEF Debounced
<1>5. CASE e.type = "DELETE" /\ IsDir(e.path)
  BY <1>2, <1>3, <1>5, Zenon DEF Pushed, PutUnless
<1>6. CASE e.type = "DELETE" /\ ~IsDir(e.path)
  BY <1>1, <1>6 DEF Pushed, PutUnless
<1>7. CASE e.type = "RENAME" /\ IsDir(e.path)
  BY <1>3, <1>7 DEF Pushed
<1>8. CASE e.type = "RENAME" /\ ~IsDir(e.path)
  BY <1>8, RenamedQueue DEF Pushed
<1>9. CASE e.type \notin {"DELETE", "RENAME"}
  BY <1>4, <1>9 DEF Pushed
<1> QED
  BY <1>5, <1>6, <1>7, <1>8, <1>9

-----------------------------------------------------------------------------
(* A sub-batch on the table *)

States ==
  {state \in [rows : [Files -> Statuses], jobs : SUBSET Files, failed : BOOLEAN, missed : BOOLEAN] :
     TableOK(state.rows, state.jobs)}

LEMMA SavedType ==
  ASSUME NEW state \in States, NEW p \in Files
  PROVE  Saved(state, p) \in States
<1>1. state.rows \in [Files -> Statuses] /\ state.jobs \subseteq Files
      /\ \A q \in state.jobs : state.rows[q] # "none"
  BY DEF States, TableOK
<1> DEFINE table == [state.rows EXCEPT ![p] = "live"]
           queued == state.jobs \cup {p}
<1>2. Saved(state, p) = [state EXCEPT !.rows = table, !.jobs = queued]
  BY DEF Saved, States
<1>3. table \in [Files -> Statuses] /\ queued \subseteq Files
  BY <1>1 DEF Statuses
<1>4. \A q \in queued : table[q] # "none"
  BY <1>1
<1> HIDE DEF table, queued
<1> QED
  BY <1>2, <1>3, <1>4 DEF States, TableOK

LEMMA GoneType ==
  ASSUME NEW state \in States, NEW paths
  PROVE  Gone(state, paths) \in States
<1>1. state.rows \in [Files -> Statuses] /\ state.jobs \subseteq Files
      /\ \A q \in state.jobs : state.rows[q] # "none"
  BY DEF States, TableOK
<1> DEFINE table == [p \in Files |-> IF p \in paths /\ state.rows[p] # "none" THEN "missing"
                                     ELSE state.rows[p]]
           queued == state.jobs \ paths
<1>2. Gone(state, paths) = [state EXCEPT !.rows = table, !.jobs = queued]
  BY DEF Gone, States
<1>3. table \in [Files -> Statuses] /\ queued \subseteq Files
  BY <1>1 DEF Statuses
<1>4. \A q \in queued : table[q] # "none"
  BY <1>1
<1> HIDE DEF table, queued
<1> QED
  BY <1>2, <1>3, <1>4 DEF States, TableOK

(* What moves has a row, and goes where a file can be. *)
LEMMA MovesType ==
  ASSUME NEW e \in Events, e.type = "RENAME", NEW table \in [Files -> Statuses]
  PROVE  \A m \in Moves(table, e) : m[1] \in Files /\ m[2] \in Files /\ table[m[1]] # "none"
<1>1. CASE IsDir(e.path)
  <2>1. e.path[1] \in Dirs /\ e.old[1] \in Dirs
    BY <1>1, EventFacts, PathKinds
  <2>2. \A p \in Children(e.old[1]) : p \in Files /\ <<e.path[1], p[2]>> \in Files
    BY <2>1, WatcherAssumption DEF Children
  <2> QED
    BY <1>1, <2>2 DEF Moves
<1>2. CASE ~IsDir(e.path)
  <2>1. e.path \in Files /\ e.old \in Files
    BY <1>2, EventFacts
  <2> QED
    BY <1>2, <2>1 DEF Moves
<1> QED
  BY <1>1, <1>2

LEMMA RenamedType ==
  ASSUME NEW table \in [Files -> Statuses], NEW queued \in SUBSET Files, TableOK(table, queued),
         NEW moves, \A m \in moves : m[1] \in Files /\ m[2] \in Files /\ table[m[1]] # "none"
  PROVE  /\ Renamed(table, moves) \in [Files -> Statuses]
         /\ Moved(queued, moves) \in SUBSET Files
         /\ TableOK(Renamed(table, moves), Moved(queued, moves))
<1> DEFINE onto(p) == CHOOSE m \in moves : m[2] = p
<1>1. \A p : (\E m \in moves : m[2] = p) =>
        onto(p)[1] \in Files /\ table[onto(p)[1]] # "none" /\ table[onto(p)[1]] \in Statuses
  <2> SUFFICES ASSUME NEW p, \E m \in moves : m[2] = p PROVE onto(p) \in moves
    OBVIOUS
  <2> QED
    OBVIOUS
<1>2. Renamed(table, moves) = [p \in Files |-> IF \E m \in moves : m[2] = p THEN table[onto(p)[1]]
                                               ELSE IF \E m \in moves : m[1] = p THEN "none" ELSE table[p]]
  BY DEF Renamed
<1> HIDE DEF onto
<1>3. Renamed(table, moves) \in [Files -> Statuses]
  BY <1>1, <1>2 DEF Statuses
<1>4. Moved(queued, moves) \in SUBSET Files
  BY DEF Moved
<1>5. ASSUME NEW p \in Moved(queued, moves) PROVE Renamed(table, moves)[p] # "none"
  <2>1. p \in Files
    BY <1>4
  <2>2. CASE \E m \in moves : m[2] = p
    BY <1>1, <1>2, <2>1, <2>2
  <2>3. CASE ~\E m \in moves : m[2] = p
    <3>1. p \in queued /\ ~\E m \in moves : m[1] = p
      BY <2>3 DEF Moved
    <3> QED
      BY <1>2, <2>1, <2>3, <3>1 DEF TableOK
  <2> QED
    BY <2>2, <2>3
<1> QED
  BY <1>3, <1>4, <1>5 DEF TableOK

LEMMA AppliedType ==
  ASSUME NEW state \in States, NEW e \in Events, there \subseteq Files
  PROVE  Applied(state, e) \in States
<1>0. state.rows \in [Files -> Statuses] /\ state.jobs \in SUBSET Files /\ TableOK(state.rows, state.jobs)
  BY DEF States
<1>1. CASE state.failed
  BY <1>1 DEF Applied
<1>2. CASE ~state.failed /\ e.type \in {"CREATE", "MODIFY"}
  BY <1>2, SavedType DEF Applied
<1>3. CASE ~state.failed /\ e.type = "DELETE" /\ ~IsDir(e.path)
  <2>1. Applied(state, e) = Gone(state, {e.path})
    BY <1>3 DEF Applied
  <2> QED
    BY <2>1, GoneType
<1>4. CASE ~state.failed /\ e.type = "DELETE" /\ IsDir(e.path)
  <2>1. \/ Applied(state, e) = Gone(state, Children(e.path[1]))
        \/ \E b \in BOOLEAN : Applied(state, e) = [state EXCEPT !.missed = b]
    <3> DEFINE b == state.missed \/ \E p \in Children(e.path[1]) : state.rows[p] # "none"
    <3>1. b \in BOOLEAN
      OBVIOUS
    <3>2. Applied(state, e) = IF e.path[1] \in dirs THEN [state EXCEPT !.missed = b]
                              ELSE Gone(state, Children(e.path[1]))
      BY <1>4 DEF Applied, States
    <3> HIDE DEF b
    <3> QED
      BY <3>1, <3>2
  <2> QED
    BY <2>1, GoneType DEF States
<1>5. CASE ~state.failed /\ e.type = "RENAME"
  <2> DEFINE moves == Moves(state.rows, e)
             renamed == Renamed(state.rows, moves)
             moved == Moved(state.jobs, moves)
  <2>1. \/ \E b \in BOOLEAN : Applied(state, e) = [state EXCEPT !.missed = b]
        \/ Applied(state, e) = [state EXCEPT !.failed = TRUE]
        \/ \E b \in BOOLEAN : Applied(state, e) = [state EXCEPT !.rows = renamed, !.jobs = moved, !.missed = b]
    <3> DEFINE b == state.missed \/ moves # {}
               c == state.missed \/ \E p \in there \ Ignored :
                                      /\ Inside(p, e.path)
                                      /\ \/ renamed[p] \in {"none", "missing"}
                                         \/ p \in unread \ moved
    <3>1. b \in BOOLEAN /\ c \in BOOLEAN
      OBVIOUS
    <3>2. Applied(state, e) =
            IF ~(e.path \in there \/ (IsDir(e.path) /\ e.path[1] \in dirs))
            THEN [state EXCEPT !.missed = b]
            ELSE IF Clash(state.rows, moves) THEN [state EXCEPT !.failed = TRUE]
            ELSE [state EXCEPT !.rows = renamed, !.jobs = moved, !.missed = c]
      BY <1>5 DEF Applied, States
    <3> HIDE DEF b, c, renamed, moved, moves
    <3> QED
      BY <3>1, <3>2
  <2>2. renamed \in [Files -> Statuses] /\ moved \in SUBSET Files /\ TableOK(renamed, moved)
    <3>1. \A m \in moves : m[1] \in Files /\ m[2] \in Files /\ state.rows[m[1]] # "none"
      BY <1>0, <1>5, MovesType
    <3> HIDE DEF moves
    <3> QED
      BY <1>0, <3>1, RenamedType
  <2> HIDE DEF renamed, moved
  <2> QED
    BY <2>1, <2>2 DEF States
<1>6. e.type \in {"CREATE", "MODIFY"} \/ e.type = "DELETE" \/ e.type = "RENAME"
  BY EventFacts
<1> QED
  BY <1>1, <1>2, <1>3, <1>4, <1>5, <1>6, Zenon

AppliedFold == INSTANCE SequenceFolds WITH Op <- Applied
RelevantFold == INSTANCE SequenceFolds
  WITH Op <- LAMBDA kept, e : IF Relevant(e) THEN Append(kept, e) ELSE kept

LEMMA BatchType ==
  ASSUME NEW batch \in Seq(Events), NEW start \in States, there \subseteq Files
  PROVE  FoldLeft(Applied, start, Kept(Relevant, batch)) \in States
<1> DEFINE some == Kept(Relevant, batch)
           Wanted == {e \in Events : Relevant(e)}
<1>1. some = RelevantFold!Folded(<<>>, batch)
  BY DEF Kept, RelevantFold!Folded, FoldLeft, MapThenFoldSet, Max, RelevantFold!Greatest
<1>2. \A acc : \A e \in Events : (IF Relevant(e) THEN Append(acc, e) ELSE acc)
                                   = IF e \in Wanted THEN Append(acc, e) ELSE acc
  OBVIOUS
<1> HIDE DEF some, Wanted
<1>3. some \in Seq(Events)
  BY <1>1, <1>2, RelevantFold!FilterPicks
<1>4. FoldLeft(Applied, start, some) = AppliedFold!Folded(start, some)
  BY DEF AppliedFold!Folded, FoldLeft, MapThenFoldSet, Max, AppliedFold!Greatest
<1> DEFINE n == Len(some)
           I == (0..n) \X States
<1>5. n \in Nat /\ DOMAIN some = 1..n /\ \A k \in 1..n : some[k] \in Events
  BY <1>3
<1> HIDE DEF n
<1>6. <<0, start>> \in I
  BY <1>5
<1>7. ASSUME NEW k \in 1..n, NEW acc, <<k - 1, acc>> \in I PROVE <<k, Applied(acc, some[k])>> \in I
  <2>1. acc \in States /\ k \in 0..n
    BY <1>5, <1>7
  <2> QED
    BY <1>5, <2>1, AppliedType
<1>8. <<n, AppliedFold!Folded(start, some)>> \in I
  <2> HIDE DEF I
  <2> QED
    BY <1>5, <1>6, <1>7, AppliedFold!FoldKeeps
<1>9. AppliedFold!Folded(start, some) \in States
  BY <1>8
<1> QED
  BY <1>4, <1>9 DEF some

-----------------------------------------------------------------------------
(* The steps of the watcher *)

LEMMA WatcherInitInv == Init => WatcherInv
<1> SUFFICES ASSUME Init PROVE WatcherInv
  OBVIOUS
<1>1. there \subseteq Files /\ dirs \subseteq Dirs /\ unread \subseteq there
  BY DEF Init
<1>2. TableOK(rows, jobs)
  BY DEF Init, TableOK, Statuses
<1>3. raw \in Seq(Events) /\ pending \in Queues /\ flushing \in Seq(Seq(Events))
  BY DEF Init, Queues, OnePerPath
<1> QED
  BY <1>1, <1>2, <1>3 DEF WatcherInv

LEMMA HandInv == ASSUME WatcherInv, Hand PROVE WatcherInv'
<1>1. raw \in Seq(Events) /\ raw # <<>> /\ Head(raw) \in Events /\ Tail(raw) \in Seq(Events)
  BY DEF WatcherInv, Hand
<1>2. pending' \in Queues
  <2>1. CASE Normalized(Head(raw)) = <<>>
    BY <2>1 DEF Hand, WatcherInv
  <2>2. CASE Normalized(Head(raw)) # <<>>
    <3>1. Handed \in Events
      BY <1>1, <2>2, NormalizedType DEF Handed
    <3>2. pending' = Pushed(pending, Handed)
      BY <2>2 DEF Hand, Handed
    <3>3. pending \in Queues
      BY DEF WatcherInv
    <3> QED
      BY <3>1, <3>2, <3>3, PushedQueue
  <2> QED
    BY <2>1, <2>2
<1> QED
  BY <1>1, <1>2 DEF WatcherInv, Hand, diskVars, TableOK

LEMMA FlushInv == ASSUME WatcherInv, Flush PROVE WatcherInv'
<1>1. pending \in Seq(Events) /\ flushing \in Seq(Seq(Events))
  BY DEF WatcherInv, Queues
<1>2. flushing' \in Seq(Seq(Events)) /\ pending' \in Queues
  <2>1. Append(flushing, pending) \in Seq(Seq(Events))
    BY <1>1, AppendProperties
  <2> QED
    BY <2>1 DEF Flush, Queues, OnePerPath
<1> QED
  BY <1>2 DEF WatcherInv, Flush, diskVars, TableOK

LEMMA LeftType ==
  ASSUME WatcherInv, NEW i \in DOMAIN flushing, NEW batch \in Seq(Events)
  PROVE  Left(i, batch) \in Seq(Seq(Events))
<1> DEFINE n == Len(flushing)
<1>1. /\ flushing \in Seq(Seq(Events)) /\ n \in Nat /\ DOMAIN flushing = 1..n /\ i \in 1..n
      /\ \A j \in 1..n : flushing[j] \in Seq(Events)
  BY DEF WatcherInv
<1>2. RemoveAt(flushing, i) \in Seq(Seq(Events))
  <2>1. SubSeq(flushing, 1, i - 1) \in Seq(Seq(Events))
    <3>1. \A j \in 1..(i - 1) : flushing[j] \in Seq(Events)
      BY <1>1
    <3> QED
      BY <1>1, <3>1, SubSeqProperties
  <2>2. SubSeq(flushing, i + 1, n) \in Seq(Seq(Events))
    <3>1. \A j \in (i + 1)..n : flushing[j] \in Seq(Events)
      BY <1>1
    <3> QED
      BY <1>1, <3>1, SubSeqProperties
  <2> QED
    BY <2>1, <2>2, ConcatProperties DEF RemoveAt
<1>3. [flushing EXCEPT ![i] = batch] \in Seq(Seq(Events))
  BY <1>1
<1> QED
  BY <1>2, <1>3 DEF Left

LEMMA ApplySubBatchInv ==
  ASSUME WatcherInv, NEW i \in DOMAIN flushing, ApplySubBatch(i)
  PROVE  WatcherInv'
<1> DEFINE batch == flushing[i]
           start == [rows |-> rows, jobs |-> jobs, failed |-> FALSE, missed |-> FALSE]
           state == FoldLeft(Applied, start, Kept(Relevant, Prefix(batch)))
<1>1. batch \in Seq(Events) /\ SubBatch \in Nat
  BY WatcherAssumption DEF WatcherInv
<1>2. Prefix(batch) \in Seq(Events) /\ Rest(batch) \in Seq(Events)
  <2> HIDE DEF batch
  <2> DEFINE m == Len(batch)
             k == IF m < SubBatch THEN m ELSE SubBatch
  <2>1. m \in Nat /\ k \in Nat /\ k <= m /\ \A j \in 1..m : batch[j] \in Events
    BY <1>1
  <2>2. Prefix(batch) = SubSeq(batch, 1, k) /\ Rest(batch) = SubSeq(batch, SubBatch + 1, m)
    BY DEF Prefix, Rest
  <2> HIDE DEF m, k
  <2>3. SubSeq(batch, 1, k) \in Seq(Events)
    <3>1. \A j \in 1..k : batch[j] \in Events
      BY <2>1
    <3> QED
      BY <2>1, <3>1, SubSeqProperties
  <2>4. SubSeq(batch, SubBatch + 1, m) \in Seq(Events)
    <3>1. \A j \in (SubBatch + 1)..m : batch[j] \in Events
      BY <1>1, <2>1
    <3> QED
      BY <1>1, <2>1, <3>1, SubSeqProperties
  <2> QED
    BY <2>2, <2>3, <2>4
<1>3. start \in States /\ there \subseteq Files
  BY DEF WatcherInv, States, TableOK
<1>4. state \in States
  <2> HIDE DEF start, batch
  <2> QED
    BY <1>2, <1>3, BatchType
<1>5. /\ flushing' \in {Left(i, <<>>), Left(i, Rest(batch))}
      /\ \/ rows' = rows /\ jobs' = jobs
         \/ rows' = state.rows /\ jobs' = state.jobs
      /\ UNCHANGED <<there, dirs, unread, raw, pending>>
  <2> HIDE DEF state
  <2>1. IF state.failed
        THEN flushing' = Left(i, <<>>) /\ rows' = rows /\ jobs' = jobs
        ELSE rows' = state.rows /\ jobs' = state.jobs /\ flushing' = Left(i, Rest(batch))
    BY DEF ApplySubBatch, state, start
  <2>2. UNCHANGED <<there, dirs, unread, raw, pending>>
    BY DEF ApplySubBatch, diskVars
  <2> QED
    BY <2>1, <2>2
<1>6. flushing' \in Seq(Seq(Events))
  <2> HIDE DEF batch
  <2>1. <<>> \in Seq(Events)
    OBVIOUS
  <2> QED
    BY <1>2, <1>5, <2>1, LeftType
<1> HIDE DEF state, batch
<1>7. TableOK(rows, jobs)'
  BY <1>4, <1>5 DEF WatcherInv, States, TableOK
<1> QED
  BY <1>5, <1>6, <1>7 DEF WatcherInv

LEMMA LoseBatchInv ==
  ASSUME WatcherInv, NEW i \in DOMAIN flushing, LoseBatch(i)
  PROVE  WatcherInv'
<1>1. flushing' \in Seq(Seq(Events))
  <2>1. <<>> \in Seq(Events)
    OBVIOUS
  <2> QED
    BY <2>1, LeftType DEF LoseBatch
<1> QED
  BY <1>1 DEF WatcherInv, LoseBatch, diskVars, TableOK

LEMMA RunJobInv == ASSUME WatcherInv, NEW p \in Files, RunJob(p) PROVE WatcherInv'
<1>1. rows \in [Files -> Statuses] /\ jobs \subseteq Files /\ \A q \in jobs : rows[q] # "none"
  BY DEF WatcherInv, TableOK
<1> DEFINE now == CASE rows[p] = "missing" -> rows[p]
                    [] rows[p] # "missing" /\ p \in there -> "live"
                    [] OTHER -> "failed"
<1>2. now \in Statuses /\ now # "none"
  BY <1>1 DEF Statuses
<1>3. rows' = [rows EXCEPT ![p] = now] /\ jobs' = jobs \ {p}
  BY DEF RunJob
<1> HIDE DEF now
<1>4. TableOK(rows, jobs)'
  BY <1>1, <1>2, <1>3 DEF TableOK
<1> QED
  BY <1>4 DEF WatcherInv, RunJob

-----------------------------------------------------------------------------
(* The changes on disk *)

LEMMA SomeOrder ==
  ASSUME NEW S, IsFiniteSet(S)
  PROVE  SetToSeq(S) \in [1..Cardinality(S) -> S] /\ Cardinality(S) \in Nat
<1> DEFINE n == Cardinality(S)
<1>1. n \in Nat /\ ExistsBijection(1..n, S)
  BY FS_CardinalityType
<1> HIDE DEF n
<1>2. \E f \in [1..n -> S] : IsInjective(f)
  BY <1>1 DEF ExistsBijection, Bijection, Injection, Surjection, IsInjective
<1>3. SetToSeq(S) = CHOOSE f \in [1..n -> S] : IsInjective(f)
  BY DEF SetToSeq, n
<1> QED
  BY <1>1, <1>2, <1>3 DEF n

LEMMA Emitted ==
  ASSUME WatcherInv, NEW more \in Seq(Events), Emit(more),
         UNCHANGED watcherVars, dirs' \subseteq Dirs, there' \subseteq Files, unread' \subseteq there'
  PROVE  WatcherInv'
<1>1. raw' \in Seq(Events)
  BY ConcatProperties DEF WatcherInv, Emit
<1> QED
  BY <1>1 DEF WatcherInv, watcherVars, TableOK

LEMMA OneFileInv ==
  ASSUME WatcherInv, NEW p \in Files, NEW q \in Files,
         Create(p) \/ Modify(p) \/ Erase(p) \/ Rename(p, q)
  PROVE  WatcherInv'
<1>1. /\ Event("CREATE", p) \in Events /\ Event("MODIFY", p) \in Events
      /\ Event("DELETE", p) \in Events /\ Move(p, q) \in Events
  BY EventType, MoveType
<1>2. there \subseteq Files /\ dirs \subseteq Dirs /\ unread \subseteq there
  BY DEF WatcherInv
<1>3. CASE Create(p)
  <2>1. <<Event("CREATE", p), Event("MODIFY", p)>> \in Seq(Events)
    BY <1>1
  <2> QED
    BY <1>2, <1>3, <2>1, Emitted DEF Create
<1>4. CASE Modify(p)
  <2>1. <<Event("MODIFY", p)>> \in Seq(Events)
    BY <1>1
  <2> QED
    BY <1>2, <1>4, <2>1, Emitted DEF Modify
<1>5. CASE Erase(p)
  <2>1. <<Event("DELETE", p)>> \in Seq(Events)
    BY <1>1
  <2> QED
    BY <1>2, <1>5, <2>1, Emitted DEF Erase
<1>6. CASE Rename(p, q)
  <2>1. <<Move(p, q)>> \in Seq(Events)
    BY <1>1
  <2> QED
    BY <1>2, <1>6, <2>1, Emitted DEF Rename
<1> QED
  BY <1>3, <1>4, <1>5, <1>6

LEMMA OneDirInv ==
  ASSUME WatcherInv, NEW d \in Dirs, NEW e \in Dirs,
         MakeDir(d) \/ RemoveDir(d) \/ RenameDir(d, e)
  PROVE  WatcherInv'
<1> DEFINE moved == Children(d) \cap there
           order == SetToSeq(moved)
           new(p) == <<e, p[2]>>
<1>1. there \subseteq Files /\ dirs \subseteq Dirs /\ unread \subseteq there
  BY DEF WatcherInv
<1>2. /\ Event("CREATE", Dir(d)) \in Events /\ Event("DELETE", Dir(d)) \in Events
      /\ Move(Dir(d), Dir(e)) \in Events
  BY EventType, MoveType DEF DirPaths
<1>3. moved \subseteq Files /\ \A p \in moved : new(p) \in Files
  BY WatcherAssumption DEF Children
<1>4. \E n \in Nat : order \in [1..n -> moved]
  <2>1. IsFiniteSet(moved)
    BY <1>3, WatcherAssumption, FS_Subset
  <2> HIDE DEF moved
  <2> QED
    BY <2>1, SomeOrder
<1> HIDE DEF moved, order
<1>5. CASE MakeDir(d)
  <2>1. <<Event("CREATE", Dir(d))>> \in Seq(Events)
    BY <1>2
  <2> QED
    BY <1>1, <1>5, <2>1, Emitted DEF MakeDir
<1>6. CASE RemoveDir(d)
  <2> DEFINE first == [i \in 1..Len(order) |-> Event("DELETE", order[i])]
  <2>1. first \in Seq(Events) /\ <<Event("DELETE", Dir(d))>> \in Seq(Events)
    <3>1. PICK n \in Nat : order \in [1..n -> moved]
      BY <1>4
    <3>2. Len(order) = n /\ \A i \in 1..n : order[i] \in Files
      BY <1>3, <3>1
    <3>3. \A i \in 1..n : Event("DELETE", order[i]) \in Events
      BY <3>2, EventType
    <3> QED
      BY <1>2, <3>1, <3>2, <3>3
  <2>2. Emit(first \o <<Event("DELETE", Dir(d))>>)
    BY <1>6 DEF RemoveDir, order, moved
  <2> HIDE DEF first
  <2>3. first \o <<Event("DELETE", Dir(d))>> \in Seq(Events)
    BY <2>1, ConcatProperties
  <2>4. /\ dirs' \subseteq Dirs /\ there' \subseteq Files /\ unread' \subseteq there'
        /\ UNCHANGED watcherVars
    BY <1>1, <1>6 DEF RemoveDir
  <2> QED
    BY <2>2, <2>3, <2>4, Emitted
<1>7. CASE RenameDir(d, e)
  <2> DEFINE last == [i \in DOMAIN order |-> Move(order[i], new(order[i]))]
  <2>1. last \in Seq(Events) /\ <<Move(Dir(d), Dir(e))>> \in Seq(Events)
    <3>1. PICK n \in Nat : order \in [1..n -> moved]
      BY <1>4
    <3>2. DOMAIN order = 1..n /\ \A i \in 1..n : order[i] \in Files /\ new(order[i]) \in Files
      BY <1>3, <3>1
    <3>3. \A i \in 1..n : Move(order[i], new(order[i])) \in Events
      BY <3>2, MoveType
    <3> QED
      BY <1>2, <3>1, <3>2, <3>3
  <2>2. Emit(<<Move(Dir(d), Dir(e))>> \o last)
    BY <1>7 DEF RenameDir, order, moved
  <2> HIDE DEF last
  <2>3. <<Move(Dir(d), Dir(e))>> \o last \in Seq(Events)
    BY <2>1, ConcatProperties
  <2>4. /\ dirs' \subseteq Dirs /\ there' \subseteq Files /\ unread' \subseteq there'
        /\ UNCHANGED watcherVars
    <3>1. /\ there' = (there \ moved) \cup {new(p) : p \in moved}
          /\ unread' = (unread \ moved) \cup {new(p) : p \in moved}
          /\ dirs' = (dirs \ {d}) \cup {e}
      BY <1>7 DEF RenameDir, moved
    <3>2. UNCHANGED watcherVars
      BY <1>7 DEF RenameDir
    <3> QED
      BY <1>1, <1>3, <3>1, <3>2
  <2> QED
    BY <2>2, <2>3, <2>4, Emitted
<1> QED
  BY <1>5, <1>6, <1>7

LEMMA WatcherNextInv == WatcherInv /\ [Next]_vars => WatcherInv'
<1> SUFFICES ASSUME WatcherInv, [Next]_vars PROVE WatcherInv'
  OBVIOUS
<1>1. CASE DiskChange
  BY <1>1, OneFileInv, OneDirInv DEF DiskChange
<1>2. CASE Hand
  BY <1>2, HandInv
<1>3. CASE Flush
  BY <1>3, FlushInv
<1>4. CASE \E i \in DOMAIN flushing : ApplySubBatch(i) \/ LoseBatch(i)
  BY <1>4, ApplySubBatchInv, LoseBatchInv
<1>5. CASE \E p \in Files : RunJob(p)
  BY <1>5, RunJobInv
<1>6. CASE UNCHANGED vars
  BY <1>6 DEF WatcherInv, vars, diskVars, TableOK
<1> QED
  BY <1>1, <1>2, <1>3, <1>4, <1>5, <1>6 DEF Next

(* The watcher's data are well formed whatever happens on disk and whenever its timers fire:
   the debouncer keeps one event per path, only rows have jobs, and what a sub-batch makes of
   the table is a table. *)
THEOREM WatcherInvariant == Spec => []WatcherInv
BY WatcherInitInv, WatcherNextInv, PTL DEF Spec

LEMMA WatcherTypes == WatcherInv => WatcherTypeOK
BY DEF WatcherInv, WatcherTypeOK, Queues, OnePerPath, TableOK, Statuses

(* FoldersTypeOK: the types of the two modules, when they move together. *)
THEOREM FoldersTypeCorrect == MCSpec => []FoldersTypeOK
<1>1. MCSpec => Spec
  <2>1. MCInit => Init
    BY DEF MCInit
  <2>2. [MCNext]_mcvars => [Next]_vars
    BY DEF MCNext, WatcherMoves, RegistryMoves, mcvars, Next
  <2> QED
    BY <2>1, <2>2, PTL DEF MCSpec, Spec
<1>2. MCSpec => RegistrySpec
  <2>1. MCInit => RegistryInit
    BY DEF MCInit
  <2>2. [MCNext]_mcvars => [RegistryNext]_registryVars
    <3>1. WatcherMoves => UNCHANGED registryVars
      BY DEF WatcherMoves
    <3>2. RegistryMoves => RegistryNext
      BY DEF RegistryMoves, RequestBegins, RequestEnds, RegistryNext
    <3> QED
      BY <3>1, <3>2 DEF MCNext, mcvars
  <2> QED
    BY <2>1, <2>2, PTL DEF MCSpec, RegistrySpec
<1>3. WatcherTypeOK /\ RegistryTypeOK => FoldersTypeOK
  BY DEF FoldersTypeOK
<1> QED
  BY <1>1, <1>2, <1>3, WatcherInvariant, WatcherTypes, RegistryTypeCorrect, PTL
=============================================================================
