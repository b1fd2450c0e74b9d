------------------------------ MODULE VectorSearch ------------------------------
(***************************************************************************)
(* SqliteVecStore.search: the nearest chunks that pass the filters, out of *)
(* an index that knows distances and no filters.  The vector table is      *)
(* asked for ever more of its nearest vectors, and each answer is matched  *)
(* against the chunk and file rows.  Chunks are numbered by their distance *)
(* from the query, chunk_id breaking ties.                                 *)
(*                                                                         *)
(* Each statement sees the database as it is then: workers index and purge *)
(* files between two statements.                                           *)
(***************************************************************************)
EXTENDS Naturals, FiniteSets, FiniteSetsExt

CONSTANTS
  Chunks,       \* 1..n, by distance
  K,            \* top_k
  MinFetch,     \* 10 in the program
  Growth,       \* 4 in the program
  Stride,       \* 10 in the program
  MaxRounds,    \* MAX_ADAPTIVE_ITERATIONS, 10 in the program
  MaxFetch,     \* the largest k the vector table accepts, 4096 in sqlite-vec
  MaxWrites     \* bound: transactions that overlap the search

ASSUME VectorAssumption ==
  /\ Chunks \subseteq Nat /\ IsFiniteSet(Chunks)
  /\ {K, MinFetch, Growth, Stride, MaxRounds, MaxFetch, MaxWrites} \subseteq Nat

VARIABLES
  vectors,   \* chunks with a row in chunk_vectors
  visible,   \* chunks whose row exists and whose file is not MISSING
  matches,   \* chunks that pass the filters
  filtered,  \* has_filters
  search,    \* step, total, fetch, rows, matched, round
  steady,    \* history: chunks that were to be found all the time
  writes

vectorVars == <<vectors, visible, matches, filtered, search, steady, writes>>

Candidates == vectors \cap visible \cap matches

VectorInit ==
  /\ vectors \in SUBSET Chunks /\ visible \in SUBSET Chunks
  /\ filtered \in BOOLEAN
  /\ matches \in IF filtered THEN SUBSET Chunks ELSE {Chunks}
  /\ search = [step |-> "probe", total |-> 0, fetch |-> 0, rows |-> {}, matched |-> {}, round |-> 0]
  /\ steady = Candidates
  /\ writes = 0

Nearest(n, set) == {c \in set : Cardinality({d \in set : d < c}) < n}

Step(step) == search.step = step
Statement == UNCHANGED <<vectors, visible, matches, filtered, steady, writes>>

(* An empty index has no nearest vectors. *)
ProbeIndex ==
  /\ Step("probe")
  /\ search' = [search EXCEPT !.step = IF vectors = {} THEN "done" ELSE "count"]
  /\ Statement

(* The count under the filters, and the first size. *)
CountChunks ==
  /\ Step("count")
  /\ LET total == Cardinality(visible \cap matches)
         first == IF filtered THEN Max({Min({2 * K, total}), MinFetch}) ELSE K
     IN search' = IF filtered /\ total = 0
                  THEN [search EXCEPT !.step = "done"]
                  ELSE [search EXCEPT !.step = "fetch", !.total = total, !.fetch = first]
  /\ Statement

FetchRows ==
  /\ Step("fetch")
  /\ search.fetch <= MaxFetch
  /\ LET rows == Nearest(search.fetch, vectors)
     IN search' = [search EXCEPT !.rows = rows, !.step = IF rows = {} THEN "done" ELSE "match"]
  /\ Statement

(* The vector table refuses a size beyond its limit, and the search ends with an exception. *)
FetchRefused ==
  /\ Step("fetch")
  /\ search.fetch > MaxFetch
  /\ search' = [search EXCEPT !.step = "raised"]
  /\ Statement

M_EnoughRows(found) == Cardinality(search.rows) >= Min({K, search.total})

(* Enough is found, or there is no more to find, or the last round is over. *)
Enough(found) ==
  \/ ~filtered
  \/ Cardinality(found) >= Min({K, search.total})
  \/ Cardinality(search.rows) < search.fetch
  \/ search.round + 1 >= MaxRounds

(* Only rows that are new are matched; what was matched before stays. *)
MatchRows ==
  /\ Step("match")
  /\ LET found == search.matched \cup (search.rows \cap visible \cap matches)
     IN search' = [search EXCEPT
          !.matched = found,
          !.round = IF filtered THEN @ + 1 ELSE @,
          !.step = IF Enough(found) THEN "done" ELSE "fetch",
          !.fetch = IF Enough(found) THEN @ ELSE Max({Growth * @, @ + Stride * K})]
  /\ Statement

Found == Nearest(K, search.matched)

(* What a worker or the watcher commits meanwhile: a chunk is purged, its file becomes MISSING,
   or it is indexed. *)
Meanwhile ==
  /\ search.step \in {"count", "fetch", "match"}
  /\ writes < MaxWrites /\ writes' = writes + 1
  /\ \E c \in Chunks :
       \/ vectors' = vectors \ {c} /\ visible' = visible \ {c}
       \/ visible' = visible \ {c} /\ UNCHANGED vectors
       \/ vectors' = vectors \cup {c} /\ visible' = visible \cup {c}
  /\ steady' = steady \cap vectors' \cap visible'
  /\ UNCHANGED <<matches, filtered, search>>

VectorNext == ProbeIndex \/ CountChunks \/ FetchRows \/ FetchRefused \/ MatchRows \/ Meanwhile

VectorSpec == VectorInit /\ [][VectorNext]_vectorVars

-----------------------------------------------------------------------------
(* In a search that completes, a chunk that could be found all the time is not passed over for
   a farther one, whatever is indexed or purged between the statements.  With filters there are
   as many results as such chunks, up to top_k, unless the rounds ran out: the widening never
   stops too early.  Without filters one fetch is all, and vectors of MISSING files can take
   the place of results. *)
NearestFound ==
  Step("done") =>
    /\ \A c \in steady, d \in Found : c < d => c \in Found
    /\ Cardinality(Found) < Min({K, Cardinality(steady)}) =>
         IF filtered THEN search.round >= MaxRounds /\ ~(steady \subseteq search.rows)
         ELSE ~(search.rows \subseteq Found)
=============================================================================
