---------------------------- MODULE RequestsProofs ----------------------------
(***************************************************************************)
(* What the threads that serve requests share, for any number of threads   *)
(* and requests.  First the query cache: its keys stay apart, what it      *)
(* gives comes from every arm that was asked for, and is out of date only  *)
(* after an overlap.  Then the pooled connections: sessions are atomic     *)
(* while each keeps its thread to itself, and depth is never lost.         *)
(***************************************************************************)
EXTENDS MCRequests, TLAPS, FiniteSetTheorems, SequenceTheorems

-----------------------------------------------------------------------------
(* The cache as a sequence *)

Entries == [key : Kinds, answer : AnswerType, overlap : BOOLEAN]

KeysApart(rows) == \A i, j \in DOMAIN rows : rows[i].key = rows[j].key => i = j

(* Without one of its elements a sequence is one shorter, in the old order. *)
LEMMA RemovedAt ==
  ASSUME NEW S, NEW s \in Seq(S), NEW i \in 1..Len(s)
  PROVE  /\ RemoveAt(s, i) \in Seq(S)
         /\ Len(RemoveAt(s, i)) = Len(s) - 1
         /\ \A j \in 1..(Len(s) - 1) : RemoveAt(s, i)[j] = IF j < i THEN s[j] ELSE s[j + 1]
<1> DEFINE before == SubSeq(s, 1, i - 1)
           after == SubSeq(s, i + 1, Len(s))
<1>1. Len(s) \in Nat /\ i \in Int /\ \A j \in 1..Len(s) : s[j] \in S
  BY LenProperties, ElementOfSeq
<1>2. /\ before \in Seq(S) /\ Len(before) = i - 1
      /\ \A j \in 1..(i - 1) : before[j] = s[j]
  <2>1. \A j \in 1..(i - 1) : s[j] \in S
    BY <1>1
  <2>2. Len(before) = (IF 1 <= i - 1 THEN (i - 1) - 1 + 1 ELSE 0) /\ before \in Seq(S)
        /\ \A j \in 1..((i - 1) - 1 + 1) : before[j] = s[1 + j - 1]
    BY <1>1, <2>1, SubSeqProperties
  <2> HIDE DEF before
  <2> QED
    BY <1>1, <2>2
<1>3. /\ after \in Seq(S) /\ Len(after) = Len(s) - i
      /\ \A j \in 1..(Len(s) - i) : after[j] = s[i + j]
  <2>1. \A j \in (i + 1)..Len(s) : s[j] \in S
    BY <1>1
  <2>2. Len(after) = (IF i + 1 <= Len(s) THEN Len(s) - (i + 1) + 1 ELSE 0) /\ after \in Seq(S)
        /\ \A j \in 1..(Len(s) - (i + 1) + 1) : after[j] = s[i + 1 + j - 1]
    BY <1>1, <2>1, SubSeqProperties
  <2> HIDE DEF after
  <2> QED
    BY <1>1, <2>2
<1>4. RemoveAt(s, i) = before \o after
  BY DEF RemoveAt
<1> HIDE DEF before, after
<1>5. /\ before \o after \in Seq(S) /\ Len(before \o after) = Len(before) + Len(after)
      /\ \A j \in 1..(Len(before) + Len(after)) :
           (before \o after)[j] = IF j <= Len(before) THEN before[j] ELSE after[j - Len(before)]
  BY <1>2, <1>3, ConcatProperties
<1>6. Len(before) + Len(after) = Len(s) - 1
  BY <1>1, <1>2, <1>3
<1>7. ASSUME NEW j \in 1..(Len(s) - 1)
      PROVE  (before \o after)[j] = IF j < i THEN s[j] ELSE s[j + 1]
  <2>1. CASE j < i
    BY <1>1, <1>2, <1>5, <1>6, <2>1
  <2>2. CASE ~(j < i)
    <3>1. j - (i - 1) \in 1..(Len(s) - i) /\ i + (j - (i - 1)) = j + 1 /\ ~(j <= i - 1)
      BY <1>1, <2>2
    <3>2. after[j - (i - 1)] = s[j + 1]
      BY <1>3, <3>1
    <3> QED
      BY <1>2, <1>5, <1>6, <2>2, <3>1, <3>2
  <2> QED
    BY <2>1, <2>2
<1> QED
  BY <1>4, <1>5, <1>6, <1>7
(* A key's entry, and the others. *)
LEMMA EntryFound ==
  ASSUME cache \in Seq(Entries), NEW key \in Keys
  PROVE  Position(key) \in 1..Len(cache) /\ Entry(key) \in Entries /\ Entry(key).key = key
<1>1. DOMAIN cache = 1..Len(cache) /\ \A i \in 1..Len(cache) : cache[i] \in Entries
  BY LenProperties, ElementOfSeq
<1>2. \E i \in DOMAIN cache : cache[i].key = key
  BY DEF Keys
<1>3. Position(key) \in DOMAIN cache /\ cache[Position(key)].key = key
  BY <1>2 DEF Position
<1> QED
  BY <1>1, <1>3 DEF Entry

LEMMA OthersKept ==
  ASSUME cache \in Seq(Entries), KeysApart(cache), NEW key
  PROVE  /\ Others(key) \in Seq(Entries) /\ KeysApart(Others(key))
         /\ Len(Others(key)) \in Nat
         /\ Len(Others(key)) = IF key \in Keys THEN Len(cache) - 1 ELSE Len(cache)
         /\ \A j \in DOMAIN Others(key) :
              Others(key)[j].key # key /\ \E i \in DOMAIN cache : Others(key)[j] = cache[i]
<1>1. Len(cache) \in Nat /\ DOMAIN cache = 1..Len(cache)
  BY LenProperties
<1>2. CASE key \notin Keys
  BY <1>1, <1>2 DEF Others, Keys
<1>3. CASE key \in Keys
  <2> DEFINE i == Position(key)
             rest == RemoveAt(cache, i)
  <2>1. Others(key) = rest
    BY <1>3 DEF Others
  <2>2. i \in 1..Len(cache) /\ cache[i].key = key
    BY <1>3, EntryFound DEF Entry
  <2> HIDE DEF i
  <2>3. /\ rest \in Seq(Entries) /\ Len(rest) = Len(cache) - 1
        /\ \A j \in 1..(Len(cache) - 1) : rest[j] = IF j < i THEN cache[j] ELSE cache[j + 1]
    BY <2>2, RemovedAt
  <2>4. DOMAIN rest = 1..(Len(cache) - 1)
    BY <2>3, LenProperties
  <2> HIDE DEF rest
  <2>5. ASSUME NEW j \in DOMAIN rest
        PROVE  \E k \in DOMAIN cache : /\ k # i /\ rest[j] = cache[k]
                                       /\ k = (IF j < i THEN j ELSE j + 1)
    <3> DEFINE k == IF j < i THEN j ELSE j + 1
    <3>1. k \in DOMAIN cache /\ k # i /\ rest[j] = cache[k]
      BY <1>1, <2>2, <2>3, <2>4
    <3> QED
      BY <3>1
  <2>6. \A j \in DOMAIN rest : rest[j].key # key
    BY <1>1, <2>2, <2>5 DEF KeysApart
  <2>7. ASSUME NEW j \in DOMAIN rest, NEW l \in DOMAIN rest, rest[j].key = rest[l].key
        PROVE  j = l
    <3>1. PICK k \in DOMAIN cache : rest[j] = cache[k] /\ k = (IF j < i THEN j ELSE j + 1)
      BY <2>5
    <3>2. PICK m \in DOMAIN cache : rest[l] = cache[m] /\ m = (IF l < i THEN l ELSE l + 1)
      BY <2>5
    <3>3. k = m
      BY <2>7, <3>1, <3>2 DEF KeysApart
    <3> QED
      BY <1>1, <2>2, <2>4, <3>1, <3>2, <3>3
  <2> QED
    BY <1>1, <1>3, <2>1, <2>3, <2>4, <2>5, <2>6, <2>7 DEF KeysApart
<1> QED
  BY <1>2, <1>3

(* The entry of a key put last. *)
LEMMA PutLast ==
  ASSUME cache \in Seq(Entries), KeysApart(cache), NEW e \in Entries
  PROVE  LET all == Append(Others(e.key), e)
         IN  /\ all \in Seq(Entries) /\ KeysApart(all) /\ all # <<>>
             /\ Len(all) = IF e.key \in Keys THEN Len(cache) ELSE Len(cache) + 1
             /\ \A j \in DOMAIN all : all[j] = e \/ \E i \in DOMAIN cache : all[j] = cache[i]
<1> DEFINE others == Others(e.key)
           all == Append(others, e)
           n == Len(others)
<1>1. /\ others \in Seq(Entries) /\ KeysApart(others) /\ n \in Nat
      /\ n = IF e.key \in Keys THEN Len(cache) - 1 ELSE Len(cache)
      /\ \A j \in DOMAIN others :
           others[j].key # e.key /\ \E i \in DOMAIN cache : others[j] = cache[i]
  BY OthersKept
<1>2. Len(cache) \in Nat
  BY LenProperties
<1> HIDE DEF others
<1>3. /\ all \in Seq(Entries) /\ all # <<>> /\ Len(all) = n + 1
      /\ DOMAIN all = 1..(n + 1) /\ DOMAIN others = 1..n
      /\ \A j \in 1..n : all[j] = others[j]
      /\ all[n + 1] = e
  BY <1>1, AppendProperties, LenProperties
<1> HIDE DEF all, n
<1>4. \A j \in 1..(n + 1) : j \in 1..n \/ j = n + 1
  BY <1>1
<1>5. KeysApart(all)
  BY <1>1, <1>3, <1>4 DEF KeysApart
<1>6. \A j \in DOMAIN all : all[j] = e \/ \E i \in DOMAIN cache : all[j] = cache[i]
  BY <1>1, <1>3, <1>4
<1>7. Len(all) = IF e.key \in Keys THEN Len(cache) ELSE Len(cache) + 1
  BY <1>1, <1>2, <1>3
<1> QED
  BY <1>3, <1>5, <1>6, <1>7 DEF all, others

(* Evicting the oldest entry leaves the rest as it is. *)
LEMMA Evicted ==
  ASSUME NEW all \in Seq(Entries), KeysApart(all), all # <<>>
  PROVE  /\ Tail(all) \in Seq(Entries) /\ KeysApart(Tail(all)) /\ Len(Tail(all)) = Len(all) - 1
         /\ \A j \in DOMAIN Tail(all) : \E i \in DOMAIN all : Tail(all)[j] = all[i]
<1> DEFINE rest == Tail(all)
<1>1. /\ rest \in Seq(Entries) /\ Len(rest) = Len(all) - 1 /\ Len(all) \in Nat
      /\ DOMAIN all = 1..Len(all) /\ DOMAIN rest = 1..Len(rest)
      /\ \A i \in 1..Len(rest) : rest[i] = all[i + 1]
  BY HeadTailProperties, LenProperties
<1> HIDE DEF rest
<1>2. \A j \in DOMAIN rest : j + 1 \in DOMAIN all /\ rest[j] = all[j + 1]
  BY <1>1
<1>3. KeysApart(rest)
  BY <1>1, <1>2 DEF KeysApart
<1> QED
  BY <1>1, <1>2, <1>3 DEF rest

-----------------------------------------------------------------------------
(* Searches and what they leave in the cache *)

Stages == {"idle", "lexical", "embed", "fuse", "rerank", "store", "answered", "raised"}
Rows == [stage : Stages, kind : Kinds \cup {Absent}, began : 0..MaxChanges, answer : AnswerType]

RetrievalTypes ==
  /\ version \in 0..MaxChanges /\ settled \in 0..version
  /\ cache \in Seq(Entries)
  /\ search \in [Searchers -> Rows]

(* What a search has gathered by each of its stages; now is the last version announced. *)
Progress(row, now) ==
  /\ row.stage # "idle" => row.kind \in Kinds
  /\ row.began <= now
  /\ row.stage = "lexical" => row.answer = Nothing
  /\ row.stage \in {"embed", "fuse", "rerank", "store"} =>
       /\ ~OlderThan(row.answer, row.began)
       /\ UsesLexical(row.kind) => row.answer.lexical # Absent \/ row.answer.degraded
  /\ row.stage \in {"fuse", "rerank", "store"} =>
       (UsesDense(row.kind) => row.answer.dense # Absent \/ row.answer.degraded)
  /\ row.stage = "store" /\ row.kind = "quality" => row.answer.reranked \/ row.answer.degraded
  /\ row.stage = "answered" =>
       row.answer = Nothing \/ row.answer.degraded \/ Complete(row.kind, row.answer)

(* What the cache keeps is complete, and current unless its search overlapped an announcement. *)
Kept(e, now) == Complete(e.key, e.answer) /\ (e.overlap \/ ~OlderThan(e.answer, now))

CacheInv ==
  /\ Len(cache) <= CacheSize
  /\ KeysApart(cache)
  /\ \A i \in DOMAIN cache : Kept(cache[i], settled)

RetrievalInv == RetrievalTypes /\ CacheInv /\ \A s \in Searchers : Progress(search[s], settled)

(* The two arms of OlderThan. *)
LEMMA Older ==
  ASSUME NEW answer, NEW v
  PROVE  OlderThan(answer, v) <=> \/ answer.lexical # Absent /\ answer.lexical < v
                                  \/ answer.dense # Absent /\ answer.dense < v
  BY DEF OlderThan

LEMMA NothingTyped ==
  /\ Nothing \in AnswerType /\ \A v : ~OlderThan(Nothing, v)
  /\ Nothing.lexical = Absent /\ Nothing.dense = Absent /\ ~Nothing.degraded
  BY Older DEF Nothing, AnswerType

(* A search moves on by itself. *)
LEMMA Moved ==
  ASSUME RetrievalInv, NEW s \in Searchers, NEW row \in Rows, Progress(row, settled),
         search' = [search EXCEPT ![s] = row], UNCHANGED <<version, settled, cache>>
  PROVE  RetrievalInv'
<1>1. RetrievalTypes'
  BY DEF RetrievalInv, RetrievalTypes
<1>2. CacheInv'
  BY DEF RetrievalInv, CacheInv
<1>3. ASSUME NEW t \in Searchers PROVE Progress(search'[t], settled)
  BY DEF RetrievalInv, RetrievalTypes
<1> QED
  BY <1>1, <1>2, <1>3 DEF RetrievalInv

(* A search moves on and the cache gets or keeps entries that are as they should be. *)
LEMMA MovedWithCache ==
  ASSUME RetrievalInv, NEW s \in Searchers, NEW row \in Rows, Progress(row, settled),
         search' = [search EXCEPT ![s] = row], UNCHANGED <<version, settled>>,
         NEW e \in Entries, Kept(e, settled),
         LET all == Append(Others(e.key), e)
         IN  cache' = IF Len(all) > CacheSize THEN Tail(all) ELSE all
  PROVE  RetrievalInv'
<1> DEFINE all == Append(Others(e.key), e)
<1>1. /\ all \in Seq(Entries) /\ KeysApart(all) /\ all # <<>>
      /\ Len(all) = IF e.key \in Keys THEN Len(cache) ELSE Len(cache) + 1
      /\ \A j \in DOMAIN all : all[j] = e \/ \E i \in DOMAIN cache : all[j] = cache[i]
  BY PutLast DEF RetrievalInv, RetrievalTypes, CacheInv
<1>2. cache' = IF Len(all) > CacheSize THEN Tail(all) ELSE all
  OBVIOUS
<1> HIDE DEF all
<1>3. Len(cache) \in Nat /\ Len(cache) <= CacheSize /\ CacheSize \in Nat
  BY LenProperties, CacheAssumption DEF RetrievalInv, RetrievalTypes, CacheInv
<1>4. \A j \in DOMAIN all : Kept(all[j], settled)
  BY <1>1 DEF RetrievalInv, CacheInv
<1>5. /\ cache' \in Seq(Entries) /\ KeysApart(cache') /\ Len(cache') <= CacheSize
      /\ \A j \in DOMAIN cache' : Kept(cache'[j], settled)
  <2>1. CASE Len(all) > CacheSize
    <3>1. /\ Tail(all) \in Seq(Entries) /\ KeysApart(Tail(all)) /\ Len(Tail(all)) = Len(all) - 1
          /\ \A j \in DOMAIN Tail(all) : \E i \in DOMAIN all : Tail(all)[j] = all[i]
      BY <1>1, Evicted
    <3>2. cache' = Tail(all)
      BY <1>2, <2>1
    <3>3. Len(cache') <= CacheSize
      BY <1>1, <1>3, <3>1, <3>2
    <3> QED
      BY <1>4, <3>1, <3>2, <3>3
  <2>2. CASE ~(Len(all) > CacheSize)
    <3>1. cache' = all /\ Len(all) \in Nat
      BY <1>1, <1>2, <1>3, <2>2
    <3>2. Len(all) <= CacheSize
      BY <1>3, <2>2, <3>1
    <3> QED
      BY <1>1, <1>4, <3>1, <3>2
  <2> QED
    BY <2>1, <2>2
<1>6. search' \in [Searchers -> Rows] /\ \A t \in Searchers : Progress(search'[t], settled)
  BY DEF RetrievalInv, RetrievalTypes
<1>7. RetrievalTypes'
  BY <1>5, <1>6 DEF RetrievalInv, RetrievalTypes
<1>8. CacheInv'
  BY <1>5 DEF CacheInv
<1> QED
  BY <1>6, <1>7, <1>8 DEF RetrievalInv

(* A search as a row of its own. *)
LEMMA RowTyped ==
  ASSUME RetrievalInv, NEW s \in Searchers
  PROVE  /\ search[s] \in Rows /\ Progress(search[s], settled)
         /\ version \in 0..MaxChanges /\ settled \in 0..version
  BY DEF RetrievalInv, RetrievalTypes

(* The early returns, and the lookup. *)
LEMMA AskKeeps ==
  ASSUME RetrievalInv, NEW s \in Searchers, Ask(s)
  PROVE  RetrievalInv'
<1>1. PICK kind \in Kinds :
       IF kind \in Keys
       THEN /\ search' = [search EXCEPT ![s] = [stage |-> "answered", kind |-> kind,
                            began |-> settled, answer |-> Entry(kind).answer]]
            /\ cache' = Touched(kind)
       ELSE /\ \E stage \in {"answered", IF UsesLexical(kind) THEN "lexical" ELSE "embed"} :
                 search' = [search EXCEPT ![s] = [stage |-> stage, kind |-> kind,
                              began |-> settled, answer |-> Nothing]]
            /\ UNCHANGED cache
  BY DEF Ask
<1>2. UNCHANGED <<version, settled>> /\ settled \in 0..MaxChanges
  BY CacheAssumption DEF Ask, RetrievalInv, RetrievalTypes
<1>3. CASE kind \in Keys
  <2> DEFINE e == Entry(kind)
             row == [stage |-> "answered", kind |-> kind, began |-> settled, answer |-> e.answer]
             all == Append(Others(kind), e)
  <2>1. e \in Entries /\ e.key = kind /\ Position(kind) \in 1..Len(cache)
    BY <1>3, EntryFound DEF RetrievalInv, RetrievalTypes
  <2>2. Kept(e, settled)
    BY <2>1, LenProperties DEF RetrievalInv, RetrievalTypes, CacheInv, Entry
  <2>3. row \in Rows /\ Progress(row, settled)
    BY <1>2, <2>1, <2>2 DEF Rows, Stages, Entries, Progress, Kept
  <2>4. search' = [search EXCEPT ![s] = row] /\ cache' = all
    BY <1>1, <1>3 DEF Touched
  <2>5. Len(all) <= CacheSize
    <3>1. Len(all) = Len(cache)
      BY <1>3, <2>1, PutLast DEF RetrievalInv, RetrievalTypes, CacheInv
    <3> QED
      BY <3>1 DEF RetrievalInv, CacheInv
  <2>6. Len(all) \in Nat /\ CacheSize \in Nat
    <3>1. all \in Seq(Entries)
      BY <2>1, PutLast DEF RetrievalInv, RetrievalTypes, CacheInv
    <3> QED
      BY <3>1, LenProperties, CacheAssumption
  <2> HIDE DEF e, row
  <2>7. cache' = IF Len(all) > CacheSize THEN Tail(all) ELSE all
    BY <2>4, <2>5, <2>6
  <2> QED
    BY <1>2, <2>1, <2>2, <2>3, <2>4, <2>7, MovedWithCache
<1>4. CASE kind \notin Keys
  <2>1. PICK stage \in {"answered", IF UsesLexical(kind) THEN "lexical" ELSE "embed"} :
          search' = [search EXCEPT ![s] = [stage |-> stage, kind |-> kind,
                       began |-> settled, answer |-> Nothing]]
    BY <1>1, <1>4
  <2> DEFINE row == [stage |-> stage, kind |-> kind, began |-> settled, answer |-> Nothing]
  <2>2. row \in Rows
    BY <1>2, <2>1, NothingTyped DEF Rows, Stages
  <2>3. Progress(row, settled)
    BY <1>2, <2>1, NothingTyped DEF Progress
  <2> HIDE DEF row
  <2> QED
    BY <1>1, <1>2, <1>4, <2>1, <2>2, <2>3, Moved DEF row
<1> QED
  BY <1>3, <1>4

(* A search that fails has nothing more to keep. *)
LEMMA FailKeeps ==
  ASSUME RetrievalInv, NEW s \in Searchers, Fails(s), search[s].stage # "idle",
         UNCHANGED <<version, settled, cache>>
  PROVE  RetrievalInv'
<1> DEFINE row == [search[s] EXCEPT !.stage = "raised"]
<1>1. row \in Rows /\ Progress(row, settled)
  BY RowTyped DEF Rows, Stages, Progress
<1>2. search' = [search EXCEPT ![s] = row]
  BY DEF Fails, Goto
<1> QED
  BY <1>1, <1>2, Moved

LEMMA LexicalKeeps ==
  ASSUME RetrievalInv, NEW s \in Searchers, Lexical(s)
  PROVE  RetrievalInv'
<1> DEFINE old == search[s]
<1>1. /\ old \in Rows /\ Progress(old, settled) /\ old.stage = "lexical"
      /\ old.answer = Nothing /\ old.kind \in Kinds
      /\ version \in 0..MaxChanges /\ settled \in 0..version
      /\ UNCHANGED <<version, settled, cache>>
  BY RowTyped DEF Lexical, At, Progress
<1>2. CASE search' = [search EXCEPT ![s].answer.lexical = version, ![s].stage = AfterLexical(s)]
  <2> DEFINE row == [old EXCEPT !.answer.lexical = version, !.stage = AfterLexical(s)]
  <2>1. search' = [search EXCEPT ![s] = row]
    BY <1>1, <1>2 DEF RetrievalInv, RetrievalTypes
  <2>2. row \in Rows
    BY <1>1 DEF Rows, Stages, AnswerType, AfterLexical
  <2>3. /\ row.stage = AfterLexical(s) /\ row.kind = old.kind /\ row.began = old.began
        /\ row.answer.lexical = version /\ row.answer.dense = Absent
    BY <1>1, NothingTyped DEF Rows, AnswerType
  <2>4. row.stage = IF UsesDense(row.kind) THEN "embed" ELSE "fuse"
    BY <2>3 DEF AfterLexical, Kind
  <2>5. version # Absent /\ old.began <= settled /\ old.began \in Nat
        /\ ~(version < old.began)
    BY <1>1, CacheAssumption DEF Progress, Rows
  <2> HIDE DEF row
  <2>6. ~OlderThan(row.answer, row.began)
    BY <2>3, <2>5, Older
  <2>7. Progress(row, settled)
    BY <1>1, <2>3, <2>4, <2>5, <2>6 DEF Progress
  <2> QED
    BY <1>1, <2>1, <2>2, <2>7, Moved
<1>3. CASE Kind(s) = "bm25" /\ Fails(s)
  BY <1>1, <1>3, FailKeeps
<1>4. CASE search' = [search EXCEPT ![s].answer.degraded = TRUE, ![s].stage = "embed"]
  <2> DEFINE row == [old EXCEPT !.answer.degraded = TRUE, !.stage = "embed"]
  <2>1. search' = [search EXCEPT ![s] = row]
    BY <1>1, <1>4 DEF RetrievalInv, RetrievalTypes
  <2>2. row \in Rows
    BY <1>1 DEF Rows, Stages, AnswerType
  <2>3. /\ row.stage = "embed" /\ row.kind = old.kind /\ row.began = old.began
        /\ row.answer.lexical = Absent /\ row.answer.dense = Absent /\ row.answer.degraded
    BY <1>1, NothingTyped DEF Rows, AnswerType
  <2> HIDE DEF row
  <2>4. Progress(row, settled)
    BY <1>1, <2>3, Older DEF Progress
  <2> QED
    BY <1>1, <2>1, <2>2, <2>4, Moved
<1> QED
  BY <1>2, <1>3, <1>4 DEF Lexical

LEMMA DenseKeeps ==
  ASSUME RetrievalInv, NEW s \in Searchers, Dense(s)
  PROVE  RetrievalInv'
<1> DEFINE old == search[s]
<1>1. /\ old \in Rows /\ Progress(old, settled) /\ old.stage = "embed" /\ old.kind \in Kinds
      /\ version \in 0..MaxChanges /\ settled \in 0..version
      /\ UNCHANGED <<version, settled, cache>>
  BY RowTyped DEF Dense, At, Progress
<1>2. CASE search' = [search EXCEPT ![s].answer.dense = version, ![s].stage = "fuse"]
  <2> DEFINE row == [old EXCEPT !.answer.dense = version, !.stage = "fuse"]
  <2>1. search' = [search EXCEPT ![s] = row]
    BY <1>1, <1>2 DEF RetrievalInv, RetrievalTypes
  <2>2. row \in Rows
    BY <1>1 DEF Rows, Stages, AnswerType
  <2>3. /\ row.stage = "fuse" /\ row.kind = old.kind /\ row.began = old.began
        /\ row.answer.dense = version /\ row.answer.lexical = old.answer.lexical
        /\ row.answer.degraded = old.answer.degraded
    BY <1>1 DEF Rows, AnswerType
  <2>4. version # Absent /\ old.began <= settled /\ old.began \in Nat
        /\ ~(version < old.began)
    BY <1>1, CacheAssumption DEF Progress, Rows
  <2> HIDE DEF row
  <2>5. ~OlderThan(row.answer, row.began)
    BY <1>1, <2>3, <2>4, Older DEF Progress
  <2>6. Progress(row, settled)
    BY <1>1, <2>3, <2>4, <2>5 DEF Progress
  <2> QED
    BY <1>1, <2>1, <2>2, <2>6, Moved
<1>3. CASE Fails(s)
  BY <1>1, <1>3, FailKeeps
<1>4. CASE search' = [search EXCEPT ![s].answer.degraded = TRUE, ![s].stage = "fuse"]
  <2> DEFINE row == [old EXCEPT !.answer.degraded = TRUE, !.stage = "fuse"]
  <2>1. search' = [search EXCEPT ![s] = row]
    BY <1>1, <1>4 DEF RetrievalInv, RetrievalTypes
  <2>2. row \in Rows
    BY <1>1 DEF Rows, Stages, AnswerType
  <2>3. /\ row.stage = "fuse" /\ row.kind = old.kind /\ row.began = old.began
        /\ row.answer.lexical = old.answer.lexical /\ row.answer.dense = old.answer.dense
        /\ row.answer.degraded
    BY <1>1 DEF Rows, AnswerType
  <2> HIDE DEF row
  <2>4. Progress(row, settled)
    BY <1>1, <2>3, Older DEF Progress
  <2> QED
    BY <1>1, <2>1, <2>2, <2>4, Moved
<1> QED
  BY <1>2, <1>3, <1>4 DEF Dense, DenseFails

(* From the gathered arms to the stage before the cache: only the two flags may rise. *)
LEMMA FlagsKeep ==
  ASSUME RetrievalInv, NEW s \in Searchers, search[s].stage \in {"fuse", "rerank"},
         NEW stage \in {"rerank", "store"}, NEW reranked \in BOOLEAN, NEW degraded \in BOOLEAN,
         search[s].answer.degraded => degraded,
         stage = "store" /\ search[s].kind = "quality" => reranked \/ degraded,
         search' = [search EXCEPT ![s] = [search[s] EXCEPT !.stage = stage,
                      !.answer = [search[s].answer EXCEPT !.reranked = reranked,
                                                          !.degraded = degraded]]],
         UNCHANGED <<version, settled, cache>>
  PROVE  RetrievalInv'
<1> DEFINE old == search[s]
           row == [old EXCEPT !.stage = stage,
                     !.answer = [old.answer EXCEPT !.reranked = reranked, !.degraded = degraded]]
<1>1. old \in Rows /\ Progress(old, settled)
  BY RowTyped
<1>2. row \in Rows
  BY <1>1 DEF Rows, Stages, AnswerType
<1>3. /\ row.stage = stage /\ row.kind = old.kind /\ row.began = old.began
      /\ row.answer.lexical = old.answer.lexical /\ row.answer.dense = old.answer.dense
      /\ row.answer.reranked = reranked /\ row.answer.degraded = degraded
  BY <1>1 DEF Rows, AnswerType
<1>4. search' = [search EXCEPT ![s] = row]
  OBVIOUS
<1> HIDE DEF row
<1>5. ~OlderThan(row.answer, row.began)
  BY <1>1, <1>3, Older DEF Progress
<1>6. Progress(row, settled)
  BY <1>1, <1>3, <1>5 DEF Progress
<1> QED
  BY <1>2, <1>4, <1>6, Moved

LEMMA FuseKeeps ==
  ASSUME RetrievalInv, NEW s \in Searchers, Fuse(s)
  PROVE  RetrievalInv'
<1> DEFINE old == search[s]
           flags == old.answer
<1>1. /\ old \in Rows /\ Progress(old, settled) /\ old.stage = "fuse" /\ flags \in AnswerType
      /\ UNCHANGED <<version, settled, cache>>
  BY RowTyped DEF Fuse, At, Rows
<1>2. flags.reranked \in BOOLEAN /\ flags.degraded \in BOOLEAN
      /\ flags = [flags EXCEPT !.reranked = flags.reranked, !.degraded = flags.degraded]
  BY <1>1 DEF AnswerType
<1>3. CASE Kind(s) = "quality" /\ ~flags.degraded /\ Goto(s, "rerank")
  <2>1. search' = [search EXCEPT ![s] = [old EXCEPT !.stage = "rerank",
          !.answer = [flags EXCEPT !.reranked = flags.reranked, !.degraded = flags.degraded]]]
    BY <1>1, <1>2, <1>3 DEF Goto, RetrievalInv, RetrievalTypes, Rows
  <2> QED
    BY <1>1, <1>2, <2>1, FlagsKeep
<1>4. CASE search' = [search EXCEPT ![s].answer.degraded = TRUE, ![s].stage = "store"]
  <2>1. search' = [search EXCEPT ![s] = [old EXCEPT !.stage = "store",
          !.answer = [flags EXCEPT !.reranked = flags.reranked, !.degraded = TRUE]]]
    BY <1>1, <1>2, <1>4 DEF RetrievalInv, RetrievalTypes, Rows, AnswerType
  <2> QED
    BY <1>1, <1>2, <2>1, FlagsKeep
<1>5. CASE ~(Kind(s) = "quality" /\ ~flags.degraded) /\ Goto(s, "store")
  <2>1. search' = [search EXCEPT ![s] = [old EXCEPT !.stage = "store",
          !.answer = [flags EXCEPT !.reranked = flags.reranked, !.degraded = flags.degraded]]]
    BY <1>1, <1>2, <1>5 DEF Goto, RetrievalInv, RetrievalTypes, Rows
  <2>2. old.kind = "quality" => flags.degraded
    BY <1>5 DEF Kind
  <2> QED
    BY <1>1, <1>2, <2>1, <2>2, FlagsKeep
<1> QED
  BY <1>3, <1>4, <1>5 DEF Fuse

LEMMA RerankKeeps ==
  ASSUME RetrievalInv, NEW s \in Searchers, Rerank(s)
  PROVE  RetrievalInv'
<1> DEFINE old == search[s]
           flags == old.answer
<1>1. /\ old \in Rows /\ Progress(old, settled) /\ old.stage = "rerank" /\ flags \in AnswerType
      /\ UNCHANGED <<version, settled, cache>>
  BY RowTyped DEF Rerank, At, Rows
<1>2. flags.reranked \in BOOLEAN /\ flags.degraded \in BOOLEAN
  BY <1>1 DEF AnswerType
<1>3. CASE search' = [search EXCEPT ![s].answer.reranked = TRUE, ![s].stage = "store"]
  <2>1. search' = [search EXCEPT ![s] = [old EXCEPT !.stage = "store",
          !.answer = [flags EXCEPT !.reranked = TRUE, !.degraded = flags.degraded]]]
    <3>1. [flags EXCEPT !.reranked = TRUE, !.degraded = flags.degraded]
            = [flags EXCEPT !.reranked = TRUE]
      BY <1>1 DEF AnswerType
    <3>2. search' = [search EXCEPT ![s] = [old EXCEPT !.stage = "store",
            !.answer = [flags EXCEPT !.reranked = TRUE]]]
      BY <1>1, <1>3 DEF RetrievalInv, RetrievalTypes, Rows
    <3> QED
      BY <3>1, <3>2
  <2> QED
    BY <1>1, <1>2, <2>1, FlagsKeep
<1>4. CASE search' = [search EXCEPT ![s].answer.degraded = TRUE, ![s].stage = "store"]
  <2>1. search' = [search EXCEPT ![s] = [old EXCEPT !.stage = "store",
          !.answer = [flags EXCEPT !.reranked = flags.reranked, !.degraded = TRUE]]]
    <3>1. [flags EXCEPT !.reranked = flags.reranked, !.degraded = TRUE]
            = [flags EXCEPT !.degraded = TRUE]
      BY <1>1 DEF AnswerType
    <3>2. search' = [search EXCEPT ![s] = [old EXCEPT !.stage = "store",
            !.answer = [flags EXCEPT !.degraded = TRUE]]]
      BY <1>1, <1>4 DEF RetrievalInv, RetrievalTypes, Rows
    <3> QED
      BY <3>1, <3>2
  <2> QED
    BY <1>1, <1>2, <2>1, FlagsKeep
<1>5. CASE Fails(s)
  BY <1>1, <1>5, FailKeeps
<1> QED
  BY <1>3, <1>4, <1>5 DEF Rerank

(* An answer without a reservation is complete by the time it is stored, and began with the
   last announcement unless it is marked. *)
LEMMA StoreKeeps ==
  ASSUME RetrievalInv, NEW s \in Searchers, Store(s)
  PROVE  RetrievalInv'
<1> DEFINE old == search[s]
           row == [old EXCEPT !.stage = "answered"]
           e == [key |-> old.kind, answer |-> old.answer, overlap |-> old.began # settled]
<1>1. /\ old \in Rows /\ Progress(old, settled) /\ old.stage = "store" /\ old.kind \in Kinds
      /\ UNCHANGED <<version, settled>>
  BY RowTyped DEF Store, At, Progress
<1>2. search' = [search EXCEPT ![s] = row]
  BY DEF Store, Goto
<1>3. old.answer.degraded \/ Complete(old.kind, old.answer)
  BY <1>1 DEF Progress, Complete
<1>4. row \in Rows /\ Progress(row, settled)
  <2>1. row \in Rows /\ row.stage = "answered" /\ row.kind = old.kind
        /\ row.began = old.began /\ row.answer = old.answer
    BY <1>1 DEF Rows, Stages
  <2> HIDE DEF row
  <2> QED
    BY <1>1, <1>3, <2>1 DEF Progress
<1>5. CASE old.answer.degraded
  <2>1. cache' = cache
    BY <1>5 DEF Store
  <2> HIDE DEF row
  <2> QED
    BY <1>1, <1>2, <1>4, <2>1, Moved
<1>6. CASE ~old.answer.degraded
  <2>1. e \in Entries
    BY <1>1 DEF Entries, Rows
  <2>2. Kept(e, settled)
    BY <1>1, <1>3, <1>6 DEF Kept, Progress
  <2>3. e.key = old.kind
    OBVIOUS
  <2>4. cache' = IF Len(Append(Others(old.kind), e)) > CacheSize
                 THEN Tail(Append(Others(old.kind), e)) ELSE Append(Others(old.kind), e)
    BY <1>6 DEF Store, Put, Kind
  <2> HIDE DEF row, e
  <2> QED
    BY <1>1, <1>2, <1>4, <2>1, <2>2, <2>3, <2>4, MovedWithCache
<1> QED
  BY <1>5, <1>6

LEMMA RespondKeeps ==
  ASSUME RetrievalInv, NEW s \in Searchers, Respond(s)
  PROVE  RetrievalInv'
<1>1. settled \in Nat
  BY RowTyped
<1>2. Idle \in Rows /\ Progress(Idle, settled)
  BY <1>1, NothingTyped, CacheAssumption DEF Idle, Rows, Stages, Progress
<1>3. search' = [search EXCEPT ![s] = Idle] /\ UNCHANGED <<version, settled, cache>>
  BY DEF Respond
<1> QED
  BY <1>2, <1>3, Moved

(* The corpus changes: what is cached is older now, but no older than the last announcement. *)
LEMMA ChangeKeeps ==
  ASSUME RetrievalInv, version < MaxChanges, version' = version + 1, UNCHANGED <<settled, searchVars>>
  PROVE  RetrievalInv'
<1>1. RetrievalTypes'
  <2>1. version' \in 0..MaxChanges /\ settled' \in 0..version'
    BY CacheAssumption DEF RetrievalInv, RetrievalTypes
  <2> QED
    BY <2>1 DEF RetrievalInv, RetrievalTypes, searchVars
<1>2. CacheInv'
  BY DEF RetrievalInv, CacheInv, searchVars
<1>3. \A s \in Searchers : Progress(search[s], settled)'
  BY DEF RetrievalInv, searchVars
<1> QED
  BY <1>1, <1>2, <1>3 DEF RetrievalInv

(* An announcement clears the cache, so that what was found before it is gone. *)
LEMMA InvalidateKeeps ==
  ASSUME RetrievalInv, NEW i \in Indexers, Invalidate(i)
  PROVE  RetrievalInv'
<1>1. /\ version \in 0..MaxChanges /\ settled \in 0..version /\ search \in [Searchers -> Rows]
      /\ version' = version /\ settled' = version /\ search' = search /\ cache' = <<>>
  BY DEF Invalidate, RetrievalInv, RetrievalTypes
<1>2. cache' \in Seq(Entries) /\ Len(cache') = 0 /\ DOMAIN cache' = {}
  BY <1>1, EmptySeq
<1>3. settled' \in 0..version'
  <2>1. version \in Nat
    BY <1>1, CacheAssumption
  <2>2. \A n \in Nat : n \in 0..n
    OBVIOUS
  <2> QED
    BY <1>1, <2>1, <2>2
<1>4. RetrievalTypes'
  BY <1>1, <1>2, <1>3 DEF RetrievalTypes
<1>5. CacheInv'
  BY <1>2, CacheAssumption DEF CacheInv, KeysApart
<1>6. ASSUME NEW s \in Searchers PROVE Progress(search'[s], settled')
  BY <1>1, RowTyped, CacheAssumption DEF Progress, Rows
<1> QED
  BY <1>4, <1>5, <1>6 DEF RetrievalInv

LEMMA RetrievalInit ==
  ASSUME Init PROVE RetrievalInv
<1>1. RetrievalTypes
  <2>1. Idle \in Rows
    BY NothingTyped, CacheAssumption DEF Idle, Rows, Stages
  <2>2. version \in 0..MaxChanges /\ settled \in 0..version
    BY CacheAssumption DEF Init
  <2>3. cache \in Seq(Entries)
    BY EmptySeq DEF Init
  <2> QED
    BY <2>1, <2>2, <2>3 DEF Init, RetrievalTypes
<1>2. CacheInv
  BY EmptySeq, CacheAssumption DEF Init, CacheInv, KeysApart
<1>3. \A s \in Searchers : Progress(search[s], settled)
  BY DEF Init, Idle, Progress
<1> QED
  BY <1>1, <1>2, <1>3 DEF RetrievalInv

LEMMA RetrievalStep ==
  ASSUME RetrievalInv, [Next]_vars PROVE RetrievalInv'
<1>1. CASE UNCHANGED vars
  <2>1. RetrievalTypes'
    BY <1>1 DEF RetrievalInv, RetrievalTypes, vars
  <2>2. CacheInv'
    BY <1>1 DEF RetrievalInv, CacheInv, vars
  <2> QED
    BY <1>1, <2>1, <2>2 DEF RetrievalInv, vars
<1>2. ASSUME NEW s \in Searchers, Ask(s) \/ SearchStep(s) PROVE RetrievalInv'
  BY <1>2, AskKeeps, LexicalKeeps, DenseKeeps, FuseKeeps, RerankKeeps, StoreKeeps, RespondKeeps
     DEF SearchStep
<1>3. ASSUME NEW i \in Indexers, Commit(i) \/ Invalidate(i) PROVE RetrievalInv'
  BY <1>3, ChangeKeeps, InvalidateKeeps DEF Commit
<1>4. CASE ChangeUnannounced
  BY <1>4, ChangeKeeps DEF ChangeUnannounced
<1> QED
  BY <1>1, <1>2, <1>3, <1>4 DEF Next

LEMMA RetrievalImplies ==
  ASSUME RetrievalInv
  PROVE  RetrievalTypeOK /\ HonestAnswers /\ StaleNeedsOverlap
<1>1. \A i \in DOMAIN cache : cache[i] \in Entries /\ Kept(cache[i], settled)
  BY LenProperties, ElementOfSeq DEF RetrievalInv, RetrievalTypes, CacheInv
<1>2. RetrievalTypeOK
  BY <1>1 DEF RetrievalInv, RetrievalTypes, CacheInv, KeysApart, RetrievalTypeOK, Entries, Rows
<1>3. HonestAnswers
  BY <1>1 DEF RetrievalInv, Progress, Kept, HonestAnswers, At, Kind
<1>4. StaleNeedsOverlap
  BY <1>1 DEF StaleNeedsOverlap, Kept
<1> QED
  BY <1>2, <1>3, <1>4

(* The inductive invariant of the search threads, the workers and the cache between them. *)
THEOREM RetrievalInvariant == Spec => []RetrievalInv
<1>1. Init => RetrievalInv
  BY RetrievalInit
<1>2. RetrievalInv /\ [Next]_vars => RetrievalInv'
  BY RetrievalStep
<1> QED
  BY <1>1, <1>2, PTL DEF Spec

(* The cache has one entry for a key and never more than its size, in every order of lookups,
   stores and evictions; the corpus is never behind what was announced of it. *)
THEOREM RetrievalTypeCorrect == Spec => []RetrievalTypeOK
  BY RetrievalInvariant, RetrievalImplies, PTL

(* An answer without a reservation has every arm that was asked for; so has every cached one. *)
THEOREM AnswersAreHonest == Spec => []HonestAnswers
  BY RetrievalInvariant, RetrievalImplies, PTL

(* After an announcement the cache is out of date only by a search that overlapped one. *)
THEOREM StalenessIsExplained == Spec => []StaleNeedsOverlap
  BY RetrievalInvariant, RetrievalImplies, PTL

-----------------------------------------------------------------------------
(* The pooled connections.  As long as no session has shared a connection or left its thread,
   each open session is alone on its connection, and so the outermost one, and the open
   transaction holds nothing but its writes. *)

SessionStages == {"new", "open", "running", "returned", "raised", "ended", "failed"}

PoolTypes ==
  /\ depth \in [PoolThreads -> Nat]
  /\ unsaved \in [PoolThreads -> SUBSET Clients]
  /\ saved \subseteq Clients
  /\ session \in [Clients -> [stage : SessionStages, home : PoolThreads \cup {Nobody}, outer : Nat,
                              wrote : BOOLEAN]]
  /\ job \in [PoolThreads -> Clients \cup {Nobody}]
  /\ crossed \in BOOLEAN
  /\ \A r \in Clients : Stage(r, "new") \/ session[r].home \in PoolThreads
  /\ \A r \in Clients : Stage(r, "new") => ~session[r].wrote

(* Its own connection, counted once. *)
Alone ==
  /\ \A r, s \in Open : session[r].home = session[s].home => r = s
  /\ \A r \in Open : session[r].outer = 0
  /\ \A t \in PoolThreads : OpenOn(t) = {} => depth[t] = 0
  /\ \A t \in PoolThreads : OpenOn(t) # {} => depth[t] = 1

(* Its own writes. *)
OwnWrites ==
  /\ \A t \in PoolThreads : unsaved[t] \subseteq OpenOn(t)
  /\ \A r \in Open : session[r].wrote => r \in saved \cup unsaved[session[r].home]
  /\ \A r \in Clients : Stage(r, "ended") /\ session[r].wrote => r \in saved
  /\ \A r \in Services : r \in saved => Stage(r, "ended")

PoolInv == PoolTypes /\ (~crossed => Alone /\ OwnWrites)

USE PoolAssumption DEF Clients, Stage, Works, Open, OpenOn, SessionStages

LEMMA PoolInitInv ==
  ASSUME PoolInit
  PROVE  PoolInv
<1>1. \A r \in Clients : session[r].stage = "new" /\ ~session[r].wrote /\ session[r] = Closed
  BY DEF PoolInit, Closed
<1>2. Open = {} /\ \A t \in PoolThreads : OpenOn(t) = {} /\ depth[t] = 0 /\ unsaved[t] = {}
  BY <1>1 DEF PoolInit
<1>3. PoolTypes
  <2>1. Closed \in [stage : SessionStages, home : PoolThreads \cup {Nobody}, outer : Nat,
                    wrote : BOOLEAN]
    BY DEF Closed
  <2> QED
    BY <1>1, <2>1 DEF PoolInit, PoolTypes
<1>4. Alone
  BY <1>2 DEF Alone
<1>5. OwnWrites
  BY <1>1, <1>2 DEF OwnWrites, PoolInit
<1> QED
  BY <1>3, <1>4, <1>5 DEF PoolInv

-----------------------------------------------------------------------------
LEMMA OpenedInv ==
  ASSUME PoolInv, NEW r \in Clients, NEW t \in PoolThreads, NEW stage \in {"open", "running"},
         Opened(r, t, stage), job' \in [PoolThreads -> Clients \cup {Nobody}]
  PROVE  PoolInv'
<1> DEFINE begun == [stage |-> stage, home |-> t, outer |-> depth[t], wrote |-> FALSE]
<1>0. /\ session' = [session EXCEPT ![r] = begun] /\ session'[r] = begun
      /\ \A s \in Clients \ {r} : session'[s] = session[s]
      /\ depth[t] \in Nat /\ depth' = [depth EXCEPT ![t] = @ + 1]
      /\ UNCHANGED <<unsaved, saved>>
      /\ crossed' = (crossed \/ OpenOn(t) # {})
      /\ session[r].stage = "new"
  BY DEF Opened, PoolInv, PoolTypes
<1>1. PoolTypes'
  <2>1. begun \in [stage : SessionStages, home : PoolThreads \cup {Nobody}, outer : Nat,
                   wrote : BOOLEAN]
    BY <1>0
  <2>2. depth' \in [PoolThreads -> Nat]
    BY <1>0 DEF PoolInv, PoolTypes
  <2>3. crossed' \in BOOLEAN
    BY <1>0
  <2> QED
    BY <1>0, <2>1, <2>2, <2>3 DEF PoolInv, PoolTypes
<1>2. ASSUME ~crossed' PROVE Alone' /\ OwnWrites'
  <2>0. ~crossed /\ OpenOn(t) = {}
    BY <1>0, <1>2
  <2>1. /\ Alone /\ OwnWrites /\ PoolTypes /\ depth[t] = 0
        /\ Open' = Open \cup {r} /\ session'[r].home = t /\ session'[r].outer = 0
        /\ session'[r].stage = stage /\ ~session'[r].wrote
        /\ \A s \in Clients \ {r} : session'[s] = session[s]
    BY <1>0, <2>0 DEF PoolInv, Alone
  <2>2. Alone'
    <3>1. OpenOn(t)' = {r} /\ depth'[t] = 1
      BY <1>0, <2>0, <2>1 DEF PoolTypes
    <3>2. \A u \in PoolThreads \ {t} : OpenOn(u)' = OpenOn(u) /\ depth'[u] = depth[u]
      BY <1>0, <2>1 DEF PoolTypes
    <3>3. \A s \in Open' : session'[s].outer = 0
      BY <2>1 DEF Alone
    <3>4. \A s, u \in Open' : session'[s].home = session'[u].home => s = u
      BY <2>0, <2>1 DEF Alone
    <3> QED
      BY <2>1, <3>1, <3>2, <3>3, <3>4 DEF Alone
  <2>3. OwnWrites'
    BY <1>0, <2>0, <2>1 DEF OwnWrites, PoolTypes
  <2> QED
    BY <2>2, <2>3
<1> QED
  BY <1>1, <1>2 DEF PoolInv

(* A session ends, on its own thread or on another one. *)
LEMMA EndedInv ==
  ASSUME PoolInv, NEW r \in Open, NEW t \in PoolThreads, Commits(r, t) \/ RollsBack(r, t),
         job' \in [PoolThreads -> Clients \cup {Nobody}]
  PROVE  PoolInv'
<1> DEFINE h == session[r].home
<1>0. h \in PoolThreads
  BY DEF PoolInv, PoolTypes
<1>1. PoolTypes'
  <2>1. depth' \in [PoolThreads -> Nat]
    BY DEF PoolInv, PoolTypes, Commits, RollsBack, CountedDown
  <2>2. crossed' \in BOOLEAN
    BY DEF Commits, RollsBack
  <2>3. /\ saved' \subseteq Clients
        /\ unsaved' \in [PoolThreads -> SUBSET Clients]
    BY <1>0 DEF PoolInv, PoolTypes, Commits, RollsBack, Outermost
  <2>4. \/ session' = [session EXCEPT ![r].stage = "ended"]
        \/ session' = [session EXCEPT ![r].stage = "failed"]
    BY DEF Commits, RollsBack
  <2> QED
    BY <1>0, <2>1, <2>2, <2>3, <2>4 DEF PoolInv, PoolTypes
<1>2. ASSUME ~crossed' PROVE Alone' /\ OwnWrites'
  <2>1. ~crossed /\ t = h /\ Alone /\ OwnWrites /\ PoolTypes
    BY <1>2 DEF PoolInv, Commits, RollsBack, PoolTypes
  <2>2. OpenOn(h) = {r} /\ depth[h] = 1 /\ session[r].outer = 0
    BY <1>0, <2>1 DEF Alone
  <2>3. /\ Open' = Open \ {r} /\ r \notin Open'
        /\ \A s \in Clients \ {r} : session'[s] = session[s]
        /\ session'[r].stage \in {"ended", "failed"} /\ session'[r].wrote = session[r].wrote
    BY <2>1 DEF Commits, RollsBack, PoolTypes
  <2>4. depth' = [depth EXCEPT ![h] = 0] /\ unsaved' = [unsaved EXCEPT ![h] = {}]
    BY <1>0, <2>1, <2>2 DEF Commits, RollsBack, CountedDown, Outermost, PoolTypes
  <2>5. unsaved[h] \subseteq {r}
    BY <1>0, <2>1, <2>2 DEF OwnWrites
  <2>6. \/ saved' = saved \cup unsaved[h] /\ session'[r].stage = "ended"
        \/ saved' = saved /\ session'[r].stage = "failed"
    BY <2>1, <2>2 DEF Commits, RollsBack, Outermost, PoolTypes
  <2>7. Alone'
    BY <1>0, <2>1, <2>2, <2>3, <2>4 DEF Alone, PoolTypes
  <2>8. OwnWrites'
    <3>1. \A u \in PoolThreads : unsaved'[u] \subseteq OpenOn(u)'
      BY <1>0, <2>1, <2>2, <2>3, <2>4 DEF OwnWrites, PoolTypes
    <3>2. \A s \in Open' : session'[s].wrote => s \in saved' \cup unsaved'[session'[s].home]
      BY <1>0, <2>1, <2>2, <2>3, <2>4, <2>6 DEF OwnWrites, PoolTypes
    <3>3. \A s \in Clients : session'[s].stage = "ended" /\ session'[s].wrote => s \in saved'
      BY <1>0, <2>1, <2>2, <2>3, <2>6 DEF OwnWrites, PoolTypes
    <3>4. \A s \in Services : s \in saved' => session'[s].stage = "ended"
      BY <2>1, <2>3, <2>5, <2>6 DEF OwnWrites, PoolTypes
    <3> QED
      BY <3>1, <3>2, <3>3, <3>4 DEF OwnWrites
  <2> QED
    BY <2>7, <2>8
<1> QED
  BY <1>1, <1>2 DEF PoolInv

LEMMA WriteInv ==
  ASSUME PoolInv, NEW r \in Clients, Write(r)
  PROVE  PoolInv'
<1> DEFINE h == session[r].home
<1>0. h \in PoolThreads /\ r \in Open
  BY DEF Write, PoolInv, PoolTypes
<1>1. /\ Open' = Open /\ \A s \in Clients \ {r} : session'[s] = session[s]
      /\ session'[r] = [session[r] EXCEPT !.wrote = TRUE]
      /\ unsaved'[h] = unsaved[h] \cup {r}
      /\ \A t \in PoolThreads \ {h} : unsaved'[t] = unsaved[t]
      /\ \A s \in Clients : session'[s].stage = session[s].stage
      /\ \A s \in Clients : session'[s].home = session[s].home
      /\ \A s \in Clients : session'[s].outer = session[s].outer
  BY <1>0 DEF Write, PoolInv, PoolTypes
<1>2. PoolTypes'
  BY <1>0 DEF Write, PoolInv, PoolTypes
<1>3. ASSUME ~crossed' PROVE Alone' /\ OwnWrites'
  <2>1. ~crossed /\ Alone /\ OwnWrites /\ PoolTypes /\ UNCHANGED <<depth, saved>>
    BY <1>3 DEF Write, PoolInv
  <2>2. Alone'
    BY <1>1, <2>1 DEF Alone
  <2>3. OwnWrites'
    BY <1>0, <1>1, <2>1 DEF OwnWrites, PoolTypes, Write
  <2> QED
    BY <2>2, <2>3
<1> QED
  BY <1>2, <1>3 DEF PoolInv

LEMMA CommitHereInv ==
  ASSUME PoolInv, NEW r \in Clients, CommitHere(r)
  PROVE  PoolInv'
<1> DEFINE h == session[r].home
<1>0. h \in PoolThreads /\ r \in Open /\ r \notin Services
  BY DEF CommitHere, PoolInv, PoolTypes
<1>1. PoolTypes'
  BY <1>0 DEF CommitHere, PoolInv, PoolTypes
<1>2. ASSUME ~crossed' PROVE Alone' /\ OwnWrites'
  <2>1. /\ ~crossed /\ Alone /\ OwnWrites /\ PoolTypes /\ UNCHANGED <<depth, session>>
        /\ saved' = saved \cup unsaved[h] /\ unsaved' = [unsaved EXCEPT ![h] = {}]
    BY <1>2 DEF CommitHere, PoolInv
  <2>2. Alone'
    BY <2>1 DEF Alone
  <2>3. unsaved[h] \subseteq {r}
    BY <1>0, <2>1 DEF Alone, OwnWrites
  <2>4. OwnWrites'
    BY <1>0, <2>1, <2>3 DEF OwnWrites, PoolTypes
  <2> QED
    BY <2>2, <2>4
<1> QED
  BY <1>1, <1>2 DEF PoolInv

(* The endpoint begins and returns or raises: the session stays open, where it is. *)
LEMMA EndpointInv ==
  ASSUME PoolInv, NEW r \in Open, NEW stage \in {"running", "returned", "raised"},
         session' = [session EXCEPT ![r].stage = stage],
         job' \in [PoolThreads -> Clients \cup {Nobody}],
         UNCHANGED <<depth, unsaved, saved, crossed>>
  PROVE  PoolInv'
<1>1. /\ Open' = Open /\ \A s \in Clients \ {r} : session'[s] = session[s]
      /\ session'[r].stage = stage /\ session'[r].home = session[r].home
      /\ session'[r].outer = session[r].outer /\ session'[r].wrote = session[r].wrote
  BY DEF PoolInv, PoolTypes
<1>2. PoolTypes'
  BY DEF PoolInv, PoolTypes
<1>3. ASSUME ~crossed' PROVE Alone' /\ OwnWrites'
  <2>1. ~crossed /\ Alone /\ OwnWrites /\ PoolTypes
    BY <1>3 DEF PoolInv
  <2>2. Alone'
    BY <1>1, <2>1 DEF Alone
  <2>3. OwnWrites'
    BY <1>1, <2>1 DEF OwnWrites, PoolTypes
  <2> QED
    BY <2>2, <2>3
<1> QED
  BY <1>2, <1>3 DEF PoolInv

-----------------------------------------------------------------------------
LEMMA PoolNextInv ==
  ASSUME PoolInv, [PoolNext]_poolVars
  PROVE  PoolInv'
<1>0. CASE UNCHANGED poolVars
  BY <1>0 DEF poolVars, PoolInv, PoolTypes, Alone, OwnWrites
<1>1. ASSUME NEW t \in PoolThreads, NEW r \in Services, Serve(r, t) PROVE PoolInv'
  <2>1. job' \in [PoolThreads -> Clients \cup {Nobody}]
    BY <1>1 DEF Serve, PoolInv, PoolTypes
  <2> QED
    BY <1>1, <2>1, OpenedInv DEF Serve
<1>2. ASSUME NEW t \in PoolThreads, NEW r \in Services, ServiceEnds(r, t) PROVE PoolInv'
  <2>1. r \in Open /\ job' \in [PoolThreads -> Clients \cup {Nobody}]
    BY <1>2 DEF ServiceEnds, PoolInv, PoolTypes
  <2> QED
    BY <1>2, <2>1, EndedInv DEF ServiceEnds
<1>3. ASSUME NEW t \in PoolThreads, NEW r \in Dependents, BeginDependency(r, t) PROVE PoolInv'
  BY <1>3, OpenedInv DEF BeginDependency, PoolInv, PoolTypes
<1>4. ASSUME NEW t \in PoolThreads, NEW r \in Dependents, BeginEndpoint(r, t) PROVE PoolInv'
  <2>1. r \in Open /\ job' \in [PoolThreads -> Clients \cup {Nobody}]
    BY <1>4 DEF BeginEndpoint, PoolInv, PoolTypes
  <2> QED
    BY <1>4, <2>1, EndpointInv DEF BeginEndpoint
<1>5. ASSUME NEW t \in PoolThreads, NEW r \in Dependents, EndEndpoint(r, t) PROVE PoolInv'
  <2>1. r \in Open /\ job' \in [PoolThreads -> Clients \cup {Nobody}]
    BY <1>5 DEF EndEndpoint, PoolInv, PoolTypes
  <2> QED
    BY <1>5, <2>1, EndpointInv DEF EndEndpoint
<1>6. ASSUME NEW t \in PoolThreads, NEW r \in Dependents, EndDependency(r, t) PROVE PoolInv'
  <2>1. r \in Open /\ job' \in [PoolThreads -> Clients \cup {Nobody}]
    BY <1>6 DEF EndDependency, PoolInv, PoolTypes
  <2> QED
    BY <1>6, <2>1, EndedInv DEF EndDependency
<1> QED
  BY <1>0, <1>1, <1>2, <1>3, <1>4, <1>5, <1>6, WriteInv, CommitHereInv DEF PoolNext

(* An unshared session is alone on its connection, with its own writes. *)
THEOREM PoolInvariant == PoolSpec => []PoolInv
<1>1. PoolInv /\ [PoolNext]_poolVars => PoolInv'
  BY PoolNextInv
<1> QED
  BY <1>1, PoolInitInv, PTL DEF PoolSpec

(* Sessions are atomic as long as each has a thread to itself (DatabaseManager.session). *)
THEOREM SessionsAreAtomic == PoolSpec => []AtomicWhileConfined
<1>1. PoolInv => AtomicWhileConfined
  BY DEF PoolInv, OwnWrites, AtomicWhileConfined
<1> QED
  BY <1>1, PoolInvariant, PTL

-----------------------------------------------------------------------------
(* How much the threads have counted *)

CountInv ==
  /\ IsFiniteSet(Counted) /\ IsFiniteSet(Begun)
  /\ Cardinality(Open) <= Cardinality(Counted) /\ Cardinality(Counted) <= Cardinality(Begun)
  /\ \A t, u \in PoolThreads : unsaved[t] # {} /\ unsaved[u] # {} => t = u

(* The pairs that Counted holds. *)
LEMMA CountedPairs ==
  /\ Counted \subseteq PoolThreads \X Int
  /\ \A t \in PoolThreads : \A n \in Int : <<t, n>> \in Counted <=> n \in 1..depth[t]
  BY DEF Counted

LEMMA OpenFinite ==
  ASSUME CountInv
  PROVE  /\ IsFiniteSet(Open) /\ Cardinality(Open) \in Nat /\ Cardinality(Counted) \in Nat
         /\ Cardinality(Begun) \in Nat
<1>1. Open \subseteq Begun
  BY DEF Begun
<1> QED
  BY <1>1, FS_Subset, FS_CardinalityType DEF CountInv

(* What moves neither a depth nor a session across its begin or end moves no count. *)
LEMMA CountSame ==
  ASSUME PoolInv, CountInv, depth' = depth,
         \A r \in Clients : (session'[r].stage = "new") = (session[r].stage = "new"),
         \A r \in Clients : (session'[r].stage \in {"new", "ended", "failed"})
                               = (session[r].stage \in {"new", "ended", "failed"}),
         \A t, u \in PoolThreads : unsaved'[t] # {} /\ unsaved'[u] # {} => t = u
  PROVE  CountInv'
<1>1. Counted' = Counted /\ Begun' = Begun /\ Open' = Open
  BY DEF Counted, Begun
<1> QED
  BY <1>1 DEF CountInv

LEMMA OpenedCount ==
  ASSUME PoolInv, CountInv, NEW r \in Clients, NEW t \in PoolThreads,
         NEW stage \in {"open", "running"}, Opened(r, t, stage)
  PROVE  CountInv'
<1> DEFINE unit == <<t, depth[t] + 1>>
<1>1. /\ depth \in [PoolThreads -> Nat] /\ depth[t] \in Nat /\ session[r].stage = "new"
      /\ depth' = [depth EXCEPT ![t] = depth[t] + 1] /\ unsaved' = unsaved
      /\ session'[r].stage = stage /\ \A s \in Clients \ {r} : session'[s] = session[s]
  BY DEF Opened, PoolInv, PoolTypes
<1>2. Counted' = Counted \cup {unit} /\ unit \notin Counted
  <2>1. \A u \in PoolThreads \ {t} : 1..depth'[u] = 1..depth[u]
    BY <1>1
  <2>2. 1..depth'[t] = (1..depth[t]) \cup {depth[t] + 1} /\ depth[t] + 1 \notin 1..depth[t]
    BY <1>1
  <2>3. /\ Counted' \subseteq PoolThreads \X Int
        /\ \A u \in PoolThreads : \A n \in Int : <<u, n>> \in Counted' <=> n \in 1..depth'[u]
    BY DEF Counted
  <2>4. \A u \in PoolThreads : \A n \in Int :
          <<u, n>> \in Counted' <=> <<u, n>> \in Counted \/ <<u, n>> = unit
    BY <1>1, <2>1, <2>2, <2>3, CountedPairs
  <2>5. unit \in PoolThreads \X Int /\ unit \notin Counted
    BY <1>1, <2>2, CountedPairs
  <2> QED
    BY <2>3, <2>4, <2>5, CountedPairs
<1>3. /\ Begun' = Begun \cup {r} /\ r \notin Begun
      /\ Open' = Open \cup {r} /\ r \notin Open
  BY <1>1 DEF Begun
<1> HIDE DEF unit
<1>4. /\ IsFiniteSet(Counted') /\ Cardinality(Counted') = Cardinality(Counted) + 1
      /\ IsFiniteSet(Begun') /\ Cardinality(Begun') = Cardinality(Begun) + 1
      /\ Cardinality(Open') = Cardinality(Open) + 1
  BY <1>2, <1>3, OpenFinite, FS_AddElement DEF CountInv
<1> QED
  BY <1>1, <1>4, OpenFinite DEF CountInv

LEMMA EndedCount ==
  ASSUME PoolInv, CountInv, NEW r \in Open, NEW t \in PoolThreads, Commits(r, t) \/ RollsBack(r, t)
  PROVE  CountInv'
<1> DEFINE unit == <<t, depth[t]>>
<1>1. /\ depth \in [PoolThreads -> Nat] /\ depth[t] \in Nat
      /\ depth' = [depth EXCEPT ![t] = IF depth[t] = 0 THEN 0 ELSE depth[t] - 1]
      /\ session'[r].stage \in {"ended", "failed"} /\ session[r].stage # "new"
      /\ \A s \in Clients \ {r} : session'[s] = session[s]
      /\ session[r].home \in PoolThreads /\ unsaved \in [PoolThreads -> SUBSET Clients]
  BY DEF Commits, RollsBack, CountedDown, PoolInv, PoolTypes
<1>2. Begun' = Begun /\ Open' = Open \ {r}
  BY <1>1 DEF Begun
<1>3. Cardinality(Open') = Cardinality(Open) - 1
  BY <1>2, OpenFinite, FS_RemoveElement
<1>4. \A u \in PoolThreads : unsaved'[u] # {} => unsaved[u] # {}
  BY <1>1 DEF Commits, RollsBack, Outermost
<1>5. /\ Counted' \subseteq PoolThreads \X Int
      /\ \A u \in PoolThreads : \A n \in Int : <<u, n>> \in Counted' <=> n \in 1..depth'[u]
  BY DEF Counted
<1>6. \A u \in PoolThreads \ {t} : 1..depth'[u] = 1..depth[u]
  BY <1>1
<1>7. CASE depth[t] = 0
  <2>1. Counted' = Counted
    BY <1>1, <1>7 DEF Counted
  <2> QED
    BY <1>2, <1>3, <1>4, <2>1, OpenFinite DEF CountInv
<1>8. CASE depth[t] # 0
  <2>1. 1..depth'[t] = (1..depth[t]) \ {depth[t]} /\ depth[t] \in 1..depth[t]
    BY <1>1, <1>8
  <2>2. Counted' = Counted \ {unit} /\ unit \in Counted
    <3>1. \A u \in PoolThreads : \A n \in Int :
            <<u, n>> \in Counted' <=> <<u, n>> \in Counted /\ <<u, n>> # unit
      BY <1>5, <1>6, <2>1, CountedPairs
    <3>2. unit \in Counted
      BY <1>1, <2>1, CountedPairs
    <3> QED
      BY <1>5, <3>1, <3>2, CountedPairs
  <2> HIDE DEF unit
  <2>3. IsFiniteSet(Counted') /\ Cardinality(Counted') = Cardinality(Counted) - 1
    BY <2>2, FS_RemoveElement DEF CountInv
  <2> QED
    BY <1>2, <1>3, <1>4, <2>3, OpenFinite DEF CountInv
<1> QED
  BY <1>7, <1>8

LEMMA CountNext ==
  ASSUME PoolInv, CountInv, [PoolNext]_poolVars
  PROVE  CountInv'
<1>1. CASE UNCHANGED poolVars
  BY <1>1, CountSame DEF poolVars, CountInv
<1>2. ASSUME NEW t \in PoolThreads, NEW r \in Clients,
             Serve(r, t) \/ BeginDependency(r, t) PROVE CountInv'
  BY <1>2, OpenedCount DEF Serve, BeginDependency
<1>3. ASSUME NEW t \in PoolThreads, NEW r \in Clients,
             ServiceEnds(r, t) \/ EndDependency(r, t) PROVE CountInv'
  <2>1. r \in Open
    BY <1>3 DEF ServiceEnds, EndDependency
  <2> QED
    BY <1>3, <2>1, EndedCount DEF ServiceEnds, EndDependency
<1>4. ASSUME NEW t \in PoolThreads, NEW r \in Clients,
             BeginEndpoint(r, t) \/ EndEndpoint(r, t) PROVE CountInv'
  <2>1. /\ depth' = depth /\ unsaved' = unsaved
        /\ session[r].stage \in {"open", "running"}
        /\ session'[r].stage \in {"running", "returned", "raised"}
        /\ \A s \in Clients \ {r} : session'[s] = session[s]
    BY <1>4 DEF BeginEndpoint, EndEndpoint, PoolInv, PoolTypes
  <2> QED
    BY <2>1, CountSame DEF CountInv
<1>5. ASSUME NEW r \in Clients, Write(r) PROVE CountInv'
  <2>1. /\ depth' = depth /\ \A s \in Clients : session'[s].stage = session[s].stage
        /\ unsaved' = [unsaved EXCEPT ![session[r].home] = @ \cup {r}]
        /\ unsaved \in [PoolThreads -> SUBSET Clients]
        /\ \A u \in PoolThreads : unsaved[u] # {} => u = session[r].home
    BY <1>5 DEF Write, Writable, PoolInv, PoolTypes
  <2>2. \A u \in PoolThreads : unsaved'[u] # {} => u = session[r].home
    BY <2>1
  <2> QED
    BY <2>1, <2>2, CountSame
<1>6. ASSUME NEW r \in Clients, CommitHere(r) PROVE CountInv'
  <2>1. /\ depth' = depth /\ session' = session
        /\ unsaved' = [unsaved EXCEPT ![session[r].home] = {}]
        /\ unsaved \in [PoolThreads -> SUBSET Clients]
    BY <1>6 DEF CommitHere, PoolInv, PoolTypes
  <2>2. \A u \in PoolThreads : unsaved'[u] # {} => unsaved[u] # {}
    BY <2>1
  <2> QED
    BY <2>1, <2>2, CountSame DEF CountInv
<1> QED
  BY <1>1, <1>2, <1>3, <1>4, <1>5, <1>6 DEF PoolNext

LEMMA CountInit ==
  ASSUME PoolInit PROVE CountInv
<1>1. \A r \in Clients : session[r].stage = "new"
  BY DEF PoolInit, Closed
<1>2. Open = {} /\ Begun = {} /\ Counted = {}
  BY <1>1 DEF Begun, Counted, PoolInit
<1> QED
  BY <1>2, FS_EmptySet DEF CountInv, PoolInit

(* The threads' counts together never fall short of the sessions that are open, nor exceed
   those begun, whichever thread counts a session's end. *)
THEOREM PoolTypeCorrect == PoolSpec => []PoolTypeOK
<1>1. PoolInit => CountInv
  BY CountInit
<1>2. PoolInv /\ CountInv /\ [PoolNext]_poolVars => CountInv'
  BY CountNext
<1>3. PoolInv /\ CountInv => PoolTypeOK
  BY OpenFinite DEF PoolInv, PoolTypes, CountInv, PoolTypeOK
<1> QED
  BY <1>1, <1>2, <1>3, PoolInvariant, PTL DEF PoolSpec

-----------------------------------------------------------------------------
(* The two together: each moves while the other stands still. *)

LEMMA PartsOfMC == MCSpec => Spec /\ PoolSpec
<1>1. MCInit => Init /\ PoolInit
  BY DEF MCInit
<1>2. [MCNext]_mcvars => [Next]_vars /\ [PoolNext]_poolVars
  BY DEF MCNext, mcvars
<1> QED
  BY <1>1, <1>2, PTL DEF MCSpec, Spec, PoolSpec

(* Both parts keep their types next to each other. *)
THEOREM RequestsTypeCorrect == MCSpec => []RequestsTypeOK
<1>1. RetrievalTypeOK /\ PoolTypeOK => RequestsTypeOK
  BY DEF RequestsTypeOK
<1> QED
  BY <1>1, PartsOfMC, RetrievalTypeCorrect, PoolTypeCorrect, PTL
=============================================================================
