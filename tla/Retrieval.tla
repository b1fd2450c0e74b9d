------------------------------- MODULE Retrieval -------------------------------
(***************************************************************************)
(* Hybrid search (HybridRetriever.search) with its query cache, next to    *)
(* the worker threads that change the corpus and clear the cache.          *)
(*                                                                         *)
(* The corpus is a version number: every committed change raises it.  What *)
(* an arm of the search returns is the version it read, so an answer is    *)
(* out of date when it holds an older one.  How the dense arm finds its    *)
(* chunks is the subject of VectorSearch; how a search waits for a model   *)
(* to be loaded, of ModelLoader: here the wait ends with the model or with *)
(* an error.                                                               *)
(***************************************************************************)
EXTENDS Naturals, Sequences, SequencesExt

CONSTANTS
  Searchers,   \* threads that serve search requests
  Indexers,    \* indexing threads
  Kinds,       \* the searches that are asked: a subset of AllKinds
  CacheSize,
  MaxChanges,  \* bound on the corpus versions
  Absent

ASSUME CacheAssumption ==
  /\ CacheSize \in Nat \ {0} /\ MaxChanges \in Nat
  /\ Absent \notin Nat

VARIABLES
  version,   \* of the corpus
  settled,   \* the version at the end of the last announced change
  cache,     \* global_query_cache, the oldest entry first
  search,    \* what each search has done so far
  indexer

searchVars == <<search, cache>>
vars == <<version, settled, cache, search, indexer>>

(* mode and quality: BM25 only, dense only, hybrid without and with reranking *)
AllKinds == {"bm25", "dense", "fast", "quality"}
UsesLexical(kind) == kind # "dense"
UsesDense(kind) == kind # "bm25"

Nothing == [lexical |-> Absent, dense |-> Absent, reranked |-> FALSE, degraded |-> FALSE]
Idle == [stage |-> "idle", kind |-> Absent, began |-> 0, answer |-> Nothing]

Init ==
  /\ version = 0 /\ settled = 0
  /\ cache = <<>>
  /\ search = [s \in Searchers |-> Idle]
  /\ indexer = [i \in Indexers |-> "idle"]

-----------------------------------------------------------------------------
(* QueryCache: an LRU map from keys to copies of answers *)

Keys == {cache[i].key : i \in DOMAIN cache}
Position(key) == CHOOSE i \in DOMAIN cache : cache[i].key = key
Entry(key) == cache[Position(key)]
Others(key) == IF key \in Keys THEN RemoveAt(cache, Position(key)) ELSE cache

(* get: a hit becomes the most recent entry. *)
Touched(key) == Append(Others(key), Entry(key))

(* put, with the eviction of the least recently used entry. *)
Put(key, answer, overlap) ==
  LET all == Append(Others(key), [key |-> key, answer |-> answer, overlap |-> overlap])
  IN IF Len(all) > CacheSize THEN Tail(all) ELSE all

-----------------------------------------------------------------------------
(* HybridRetriever.search *)

At(s, stage) == search[s].stage = stage
Kind(s) == search[s].kind
Goto(s, stage) == search' = [search EXCEPT ![s].stage = stage]
Fails(s) == Goto(s, "raised")

(* Cache lookup; then the early returns: a query that normalises to nothing, and a file name
   that no indexed file has.  Neither is cached. *)
Ask(s) ==
  /\ At(s, "idle")
  /\ \E kind \in Kinds :
       IF kind \in Keys
       THEN /\ search' = [search EXCEPT ![s] = [stage |-> "answered", kind |-> kind,
                            began |-> settled, answer |-> Entry(kind).answer]]
            /\ cache' = Touched(kind)
       ELSE /\ \E stage \in {"answered", IF UsesLexical(kind) THEN "lexical" ELSE "embed"} :
                 search' = [search EXCEPT ![s] = [stage |-> stage, kind |-> kind,
                              began |-> settled, answer |-> Nothing]]
            /\ UNCHANGED cache
  /\ UNCHANGED <<version, settled, indexer>>

AfterLexical(s) == IF UsesDense(Kind(s)) THEN "embed" ELSE "fuse"

(* Stage B.  Only a hybrid search survives the failure of an arm. *)
Lexical(s) ==
  /\ At(s, "lexical")
  /\ \/ search' = [search EXCEPT ![s].answer.lexical = version, ![s].stage = AfterLexical(s)]
     \/ IF Kind(s) = "bm25" THEN Fails(s)
        ELSE search' = [search EXCEPT ![s].answer.degraded = TRUE, ![s].stage = "embed"]
  /\ UNCHANGED <<version, settled, cache, indexer>>

DenseFails(s) ==
  IF Kind(s) = "dense" \/ search[s].answer.lexical = Absent THEN Fails(s)
  ELSE search' = [search EXCEPT ![s].answer.degraded = TRUE, ![s].stage = "fuse"]

(* Stages C and D: the embedding engine loads its model if it must, embeds the query, and the
   vectors are searched.  Whatever that raises degrades a hybrid search to its lexical arm, or
   ends it when that arm failed too. *)
Dense(s) ==
  /\ At(s, "embed")
  /\ \/ search' = [search EXCEPT ![s].answer.dense = version, ![s].stage = "fuse"]
     \/ DenseFails(s)
  /\ UNCHANGED <<version, settled, cache, indexer>>

(* Stage E.  A degraded answer skips fusion and reranking; a quality search without candidates
   is flagged degraded. *)
Fuse(s) ==
  /\ At(s, "fuse")
  /\ LET answer == search[s].answer IN
       IF Kind(s) = "quality" /\ ~answer.degraded
       THEN \/ Goto(s, "rerank")
            \/ search' = [search EXCEPT ![s].answer.degraded = TRUE, ![s].stage = "store"]
       ELSE Goto(s, "store")
  /\ UNCHANGED <<version, settled, cache, indexer>>

(* A time-out or an error of the reranker falls back to the fused order; an exception that
   search does not list ends the request. *)
Rerank(s) ==
  /\ At(s, "rerank")
  /\ \/ search' = [search EXCEPT ![s].answer.reranked = TRUE, ![s].stage = "store"]
     \/ search' = [search EXCEPT ![s].answer.degraded = TRUE, ![s].stage = "store"]
     \/ Fails(s)
  /\ UNCHANGED <<version, settled, cache, indexer>>

M_StoreAll(s) ==
  /\ At(s, "store")
  /\ Goto(s, "answered")
  /\ cache' = Put(Kind(s), search[s].answer, search[s].began # settled)
  /\ UNCHANGED <<version, settled, indexer>>

(* An answer that is not degraded is remembered, however old what it read has become. *)
Store(s) ==
  /\ At(s, "store")
  /\ Goto(s, "answered")
  /\ cache' = IF search[s].answer.degraded THEN cache
              ELSE Put(Kind(s), search[s].answer, search[s].began # settled)
  /\ UNCHANGED <<version, settled, indexer>>

(* The response is sent; the thread serves the next request. *)
Respond(s) ==
  /\ search[s].stage \in {"answered", "raised"}
  /\ search' = [search EXCEPT ![s] = Idle]
  /\ UNCHANGED <<version, settled, cache, indexer>>

SearchStep(s) ==
  Lexical(s) \/ Dense(s) \/ Fuse(s) \/ Rerank(s) \/ Store(s) \/ Respond(s)

-----------------------------------------------------------------------------
(* Changes of the corpus *)

IndexerAt(i, stage, next) == indexer[i] = stage /\ indexer' = [indexer EXCEPT ![i] = next]

(* A worker commits the index of a file, or its deletion, and clears the cache after that. *)
Commit(i) ==
  /\ IndexerAt(i, "idle", "committed")
  /\ version < MaxChanges
  /\ version' = version + 1
  /\ UNCHANGED <<settled, searchVars>>

(* The cache is not cleared. *)
M_Forget(i) ==
  /\ IndexerAt(i, "committed", "idle")
  /\ settled' = version
  /\ UNCHANGED <<version, cache, search>>

Invalidate(i) ==
  /\ IndexerAt(i, "committed", "idle")
  /\ cache' = <<>>
  /\ settled' = version
  /\ UNCHANGED <<version, search>>

(* Removing a folder, marking files missing and renaming them change what a search finds
   without a word to the cache. *)
ChangeUnannounced ==
  /\ version < MaxChanges
  /\ version' = version + 1
  /\ UNCHANGED <<settled, searchVars, indexer>>

Next ==
  \/ \E s \in Searchers : Ask(s) \/ SearchStep(s)
  \/ \E i \in Indexers : Commit(i) \/ Invalidate(i)
  \/ ChangeUnannounced

Spec == Init /\ [][Next]_vars

-----------------------------------------------------------------------------
AnswerType == [lexical : (0..MaxChanges) \cup {Absent}, dense : (0..MaxChanges) \cup {Absent},
               reranked : BOOLEAN, degraded : BOOLEAN]

(* Every variable has its type; the cache keeps one entry per key, at most CacheSize. *)
RetrievalTypeOK ==
  /\ version \in 0..MaxChanges /\ settled \in 0..version
  /\ Len(cache) <= CacheSize
  /\ \A i, j \in DOMAIN cache : cache[i].key = cache[j].key => i = j
  /\ \A i \in DOMAIN cache : cache[i].key \in Kinds /\ cache[i].answer \in AnswerType
  /\ \A s \in Searchers : search[s].answer \in AnswerType

Complete(kind, answer) ==
  /\ UsesLexical(kind) => answer.lexical # Absent
  /\ UsesDense(kind) => answer.dense # Absent
  /\ kind = "quality" => answer.reranked

(* An answer that does not say it is degraded comes from every arm its mode asks for, the
   reranker included; the cache gives such answers only, also to later requests (search's last
   lines). *)
HonestAnswers ==
  /\ \A s \in Searchers : At(s, "answered") =>
       \/ search[s].answer = Nothing
       \/ search[s].answer.degraded
       \/ Complete(Kind(s), search[s].answer)
  /\ \A i \in DOMAIN cache : Complete(cache[i].key, cache[i].answer)

OlderThan(answer, v) ==
  \E arm \in {"lexical", "dense"} : answer[arm] # Absent /\ answer[arm] < v

(* Once a worker's change is announced, the cache holds an answer from before it only if the
   search that stored it overlapped an announcement (invalidate_query_cache after the commit). *)
StaleNeedsOverlap ==
  \A i \in DOMAIN cache : cache[i].overlap \/ ~OlderThan(cache[i].answer, settled)

(* When no search runs and no worker is between its commit and its invalidation, the cache
   holds nothing older than the corpus (invalidate_query_cache's docstring). *)
CacheIsCurrent ==
  (\A s \in Searchers : At(s, "idle")) /\ (\A i \in Indexers : indexer[i] # "committed") =>
    \A i \in DOMAIN cache : ~OlderThan(cache[i].answer, version)
=============================================================================
