---------------------------- MODULE FunctionsProofs ----------------------------
(***************************************************************************)
(* The sequential algorithms, for every input and every setting.           *)
(***************************************************************************)
EXTENDS MCFunctions, TLAPS, FiniteSetTheorems, SequenceTheorems, WellFoundedInduction

(* A set of numbers has a least one. *)
LEMMA LeastOne ==
  ASSUME NEW S \in SUBSET Nat, S # {}
  PROVE  \E m \in S : \A k \in S : m <= k
<1>1. PICK m \in S : \A k \in S : ~(<<k, m>> \in OpToRel(<, Nat))
  BY NatLessThanWellFounded, WFMin
<1>2. \A k \in S : ~(k < m)
  BY <1>1 DEF OpToRel
<1> QED
  BY <1>2

LEMMA MaxOfTwo ==
  ASSUME NEW a \in Nat, NEW b \in Nat
  PROVE  Max({a, b}) = IF a >= b THEN a ELSE b
BY DEF Max

LEMMA MinOfTwo ==
  ASSUME NEW a \in Nat, NEW b \in Nat
  PROVE  Min({a, b}) = IF a <= b THEN a ELSE b
BY DEF Min

-----------------------------------------------------------------------------
(* SqliteVecStore.search *)

NearerThan(c, S) == {d \in S : d < c}

LEMMA NearestMember ==
  ASSUME NEW S, NEW n, NEW c \in S
  PROVE  c \in Nearest(n, S) <=> Cardinality(NearerThan(c, S)) < n
BY DEF Nearest, NearerThan

(* The nearest of a set are as many as were asked for, or all. *)
LEMMA NearestAll ==
  ASSUME NEW S \in SUBSET Nat, IsFiniteSet(S), NEW n \in Nat,
         Cardinality(Nearest(n, S)) < n
  PROVE  Nearest(n, S) = S
<1> SUFFICES ASSUME S \ Nearest(n, S) # {} PROVE FALSE
  BY DEF Nearest
<1> DEFINE Left == S \ Nearest(n, S)
<1>1. PICK c \in Left : \A k \in Left : c <= k
  <2>1. Left \in SUBSET Nat /\ Left # {}
    OBVIOUS
  <2> HIDE DEF Left
  <2> QED
    BY <2>1, LeastOne
<1> DEFINE Nearer == NearerThan(c, S)
<1>2. Nearer \subseteq Nearest(n, S)
  <2> SUFFICES ASSUME NEW d \in Nearer PROVE d \in Nearest(n, S)
    OBVIOUS
  <2>1. d \in S /\ d < c
    BY DEF NearerThan
  <2>2. d \in Nat /\ c \in Nat
    BY <2>1
  <2>3. ~(c <= d)
    BY <2>1, <2>2
  <2> QED
    BY <1>1, <2>1, <2>3
<1>3. ~(Cardinality(Nearer) < n)
  BY <1>1, NearestMember
<1>4. IsFiniteSet(Nearest(n, S)) /\ Nearest(n, S) \in SUBSET S
  <2>1. Nearest(n, S) \in SUBSET S
    BY DEF Nearest
  <2> QED
    BY <2>1, FS_Subset
<1>5. Cardinality(Nearer) <= Cardinality(Nearest(n, S))
  BY <1>2, <1>4, FS_Subset
<1>6. Cardinality(Nearer) \in Nat /\ Cardinality(Nearest(n, S)) \in Nat
  <2>1. IsFiniteSet(Nearer)
    BY FS_Subset DEF NearerThan
  <2> QED
    BY <1>4, <2>1, FS_CardinalityType
<1> HIDE DEF Nearer
<1> QED
  BY <1>3, <1>5, <1>6

(* What is nearer than one of the nearest is one of them. *)
LEMMA NearestClosed ==
  ASSUME NEW S \in SUBSET Nat, IsFiniteSet(S), NEW n \in Nat,
         NEW d \in Nearest(n, S), NEW c \in S, c < d
  PROVE  c \in Nearest(n, S)
<1> DEFINE ToC == NearerThan(c, S)
           ToD == NearerThan(d, S)
<1>1. d \in S /\ Cardinality(ToD) < n
  <2>1. d \in S
    BY DEF Nearest
  <2> QED
    BY <2>1, NearestMember
<1>2. ToC \subseteq ToD /\ ToD \subseteq S
  <2>1. ASSUME NEW e \in ToC PROVE e \in S /\ e < d
    <3>1. e \in S /\ e < c
      BY DEF NearerThan
    <3>2. e \in Nat /\ c \in Nat /\ d \in Nat
      BY <1>1, <3>1
    <3> QED
      BY <3>1, <3>2
  <2> QED
    BY <2>1 DEF NearerThan
<1>3. IsFiniteSet(ToD) /\ IsFiniteSet(ToC) /\ Cardinality(ToC) <= Cardinality(ToD)
  BY <1>2, FS_Subset
<1>4. Cardinality(ToC) \in Nat /\ Cardinality(ToD) \in Nat
  BY <1>3, FS_CardinalityType
<1>5. Cardinality(ToC) < n
  <2> HIDE DEF ToC, ToD
  <2> QED
    BY <1>1, <1>3, <1>4
<1> QED
  BY <1>5, NearestMember

(* A set of chunks: it and its nearest are finite. *)
LEMMA ChunkSets ==
  ASSUME NEW S \in SUBSET Chunks, NEW n \in Nat
  PROVE  /\ S \subseteq Nat /\ IsFiniteSet(S) /\ Cardinality(S) \in Nat
         /\ Nearest(n, S) \in SUBSET S /\ Cardinality(Nearest(n, S)) \in Nat
<1>1. S \subseteq Nat /\ IsFiniteSet(S) /\ Nearest(n, S) \in SUBSET S
  BY VectorAssumption, FS_Subset DEF VectorAssumption, Nearest
<1>2. IsFiniteSet(Nearest(n, S))
  BY <1>1, FS_Subset
<1> QED
  BY <1>1, <1>2, FS_CardinalityType

(* Of a set that holds those to be found, the nearest are enough. *)
LEMMA NearestEnough ==
  ASSUME NEW S \in SUBSET Chunks, NEW T \in SUBSET Chunks, T \subseteq S, NEW n \in Nat
  PROVE  ~(Cardinality(Nearest(n, S)) < Min({n, Cardinality(T)}))
<1>1. /\ S \subseteq Nat /\ IsFiniteSet(S) /\ Cardinality(S) \in Nat /\ Cardinality(T) \in Nat
      /\ Cardinality(Nearest(n, S)) \in Nat
  BY ChunkSets
<1>2. Cardinality(T) <= Cardinality(S)
  BY <1>1, FS_Subset
<1>3. Cardinality(Nearest(n, S)) < n => Cardinality(Nearest(n, S)) = Cardinality(S)
  BY <1>1, NearestAll
<1> QED
  BY <1>1, <1>2, <1>3, MinOfTwo

-----------------------------------------------------------------------------
SearchSteps == {"probe", "count", "fetch", "match", "done", "raised"}

VectorTypes ==
  /\ vectors \in SUBSET Chunks /\ visible \in SUBSET Chunks /\ matches \in SUBSET Chunks
  /\ filtered \in BOOLEAN
  /\ search \in [step : SearchSteps, total : Nat, fetch : Nat, rows : SUBSET Chunks,
                 matched : SUBSET Chunks, round : Nat]

(* The chunks that could be found all the time are no more than were counted, and are in what
   the vector table answered from; and what is matched has no gap where one of them would be. *)
SearchSound ==
  /\ steady \subseteq Candidates
  /\ search.step \in {"probe", "count"} => search.matched = {}
  /\ search.step \in {"fetch", "match"} =>
       /\ Cardinality(steady) <= search.total
       /\ K > 0 => search.fetch > 0
       /\ ~filtered => search.fetch = K
  /\ search.step = "match" =>
       \E S \in SUBSET Chunks : steady \subseteq S /\ search.rows = Nearest(search.fetch, S)
  /\ \A c \in steady, d \in search.matched : c < d => c \in search.matched
  /\ search.step = "done" /\ Cardinality(Found) < Min({K, Cardinality(steady)}) =>
       IF filtered THEN search.round >= MaxRounds /\ ~(steady \subseteq search.rows)
       ELSE ~(search.rows \subseteq Found)

VectorInv == VectorTypes /\ SearchSound

LEMMA VectorInitInv == VectorInit => VectorInv
BY DEF VectorInit, VectorInv, VectorTypes, SearchSound, SearchSteps, Candidates

(* No result is missing when there is nothing to be found. *)
LEMMA NothingToFind ==
  ASSUME NEW F \in SUBSET Chunks, NEW k \in Nat, NEW T \in SUBSET Chunks, k = 0 \/ T = {}
  PROVE  ~(Cardinality(Nearest(k, F)) < Min({k, Cardinality(T)}))
<1>1. Cardinality(Nearest(k, F)) \in Nat
  BY ChunkSets
<1>2. Cardinality(T) \in Nat /\ (T = {} => Cardinality(T) = 0)
  BY ChunkSets, FS_EmptySet
<1> QED
  BY <1>1, <1>2, MinOfTwo

LEMMA ProbeIndexInv ==
  ASSUME VectorInv, ProbeIndex
  PROVE  VectorInv'
<1>1. /\ search.step = "probe"
      /\ search' = [search EXCEPT !.step = IF vectors = {} THEN "done" ELSE "count"]
      /\ UNCHANGED <<vectors, visible, matches, filtered, steady, writes>>
  BY DEF ProbeIndex, Step, Statement
<1>2. VectorTypes /\ SearchSound /\ search.matched = {}
  BY <1>1 DEF VectorInv, SearchSound
<1>3. /\ VectorTypes' /\ search'.matched = {}
      /\ search'.step = IF vectors = {} THEN "done" ELSE "count"
  BY <1>1, <1>2 DEF VectorTypes, SearchSteps
<1>4. vectors = {} => steady = {}
  BY <1>2 DEF SearchSound, Candidates
<1>5. K \in Nat /\ steady \in SUBSET Chunks
  BY <1>2, VectorAssumption DEF VectorAssumption, VectorTypes, SearchSound, Candidates
<1>6. vectors = {} => ~(Cardinality(Found)' < Min({K, Cardinality(steady)}))
  BY <1>3, <1>4, <1>5, NothingToFind DEF Found
<1> QED
  BY <1>1, <1>2, <1>3, <1>6 DEF VectorInv, SearchSound, Candidates

LEMMA CountChunksInv ==
  ASSUME VectorInv, CountChunks
  PROVE  VectorInv'
<1> DEFINE total == Cardinality(visible \cap matches)
           first == IF filtered THEN Max({Min({2 * K, total}), MinFetch}) ELSE K
<1>1. /\ search.step = "count"
      /\ search' = IF filtered /\ total = 0
                   THEN [search EXCEPT !.step = "done"]
                   ELSE [search EXCEPT !.step = "fetch", !.total = total, !.fetch = first]
      /\ UNCHANGED <<vectors, visible, matches, filtered, steady, writes>>
  BY DEF CountChunks, Step, Statement
<1>2. VectorTypes /\ SearchSound /\ search.matched = {}
  BY <1>1 DEF VectorInv, SearchSound
<1>3. K \in Nat /\ MinFetch \in Nat
  BY VectorAssumption DEF VectorAssumption
<1>4. /\ steady \in SUBSET Chunks /\ visible \cap matches \in SUBSET Chunks
      /\ steady \subseteq visible \cap matches /\ steady \subseteq vectors
  BY <1>2 DEF VectorTypes, SearchSound, Candidates
<1>5. /\ total \in Nat /\ Cardinality(steady) \in Nat /\ Cardinality(steady) <= total
      /\ total = 0 => visible \cap matches = {}
  BY <1>4, ChunkSets, FS_Subset, FS_EmptySet
<1>6. /\ first \in Nat /\ (~filtered => first = K)
      /\ K > 0 /\ ~(filtered /\ total = 0) => first > 0
  <2>1. CASE ~filtered
    BY <1>3, <2>1
  <2>2. CASE filtered
    <3> DEFINE few == Min({2 * K, total})
    <3>1. few = IF 2 * K <= total THEN 2 * K ELSE total
      <4>1. 2 * K \in Nat /\ total \in Nat
        BY <1>3, <1>5
      <4> HIDE DEF total
      <4> QED
        BY <4>1, MinOfTwo, Zenon
    <3>2. few \in Nat /\ (K > 0 /\ total # 0 => few > 0)
      BY <1>3, <1>5, <3>1
    <3> HIDE DEF few
    <3>3. first = IF few >= MinFetch THEN few ELSE MinFetch
      BY <1>3, <2>2, <3>2, MaxOfTwo DEF few
    <3> QED
      BY <1>3, <2>2, <3>2, <3>3
  <2> QED
    BY <2>1, <2>2
<1> HIDE DEF total, first
<1>7. CASE filtered /\ total = 0
  <2>1. search' = [search EXCEPT !.step = "done"]
    BY <1>1, <1>7
  <2>2. VectorTypes' /\ search'.step = "done" /\ search'.matched = {}
    BY <1>1, <1>2, <2>1 DEF VectorTypes, SearchSteps
  <2>3. steady = {}
    BY <1>4, <1>5, <1>7
  <2>4. ~(Cardinality(Found)' < Min({K, Cardinality(steady)}))
    BY <1>3, <1>4, <2>2, <2>3, NothingToFind DEF Found
  <2> QED
    BY <1>1, <1>2, <2>2, <2>4 DEF VectorInv, SearchSound, Candidates
<1>8. CASE ~(filtered /\ total = 0)
  <2>1. search' = [search EXCEPT !.step = "fetch", !.total = total, !.fetch = first]
    BY <1>1, <1>8
  <2>2. /\ VectorTypes' /\ search'.step = "fetch" /\ search'.matched = {}
        /\ search'.total = total /\ search'.fetch = first
    BY <1>1, <1>2, <1>5, <1>6, <2>1 DEF VectorTypes, SearchSteps
  <2> QED
    BY <1>1, <1>2, <1>5, <1>6, <1>8, <2>2 DEF VectorInv, SearchSound, Candidates
<1> QED
  BY <1>7, <1>8

(* A refused fetch ends the search without a result. *)
LEMMA FetchRefusedInv ==
  ASSUME VectorInv, FetchRefused
  PROVE  VectorInv'
<1>1. /\ search' = [search EXCEPT !.step = "raised"]
      /\ UNCHANGED <<vectors, visible, matches, filtered, steady, writes>>
  BY DEF FetchRefused, Step, Statement
<1>2. VectorTypes /\ SearchSound
  BY DEF VectorInv
<1>3. /\ VectorTypes' /\ search'.matched = search.matched /\ search'.step = "raised"
  BY <1>1, <1>2 DEF VectorTypes, SearchSteps
<1> QED
  BY <1>1, <1>2, <1>3 DEF VectorInv, SearchSound, Candidates

LEMMA FetchRowsInv ==
  ASSUME VectorInv, FetchRows
  PROVE  VectorInv'
<1> DEFINE rows == Nearest(search.fetch, vectors)
<1>1. /\ search.step = "fetch"
      /\ search' = [search EXCEPT !.rows = rows, !.step = IF rows = {} THEN "done" ELSE "match"]
      /\ UNCHANGED <<vectors, visible, matches, filtered, steady, writes>>
  BY DEF FetchRows, Step, Statement
<1>2. VectorTypes /\ SearchSound
  BY DEF VectorInv
<1>3. K \in Nat /\ search.fetch \in Nat /\ vectors \in SUBSET Chunks
  BY <1>2, VectorAssumption DEF VectorAssumption, VectorTypes
<1>4. rows \in SUBSET Chunks /\ steady \in SUBSET Chunks /\ steady \subseteq vectors
  BY <1>2, <1>3, ChunkSets DEF VectorTypes, SearchSound, Candidates
<1> HIDE DEF rows
<1>5. /\ VectorTypes' /\ search'.matched = search.matched /\ search'.rows = rows
      /\ search'.fetch = search.fetch /\ search'.total = search.total
      /\ search'.step = IF rows = {} THEN "done" ELSE "match"
  BY <1>1, <1>2, <1>4 DEF VectorTypes, SearchSteps
<1>6. rows = {} => K = 0 \/ steady = {}
  <2> SUFFICES ASSUME rows = {}, K # 0 PROVE vectors = {}
    BY <1>4
  <2>1. search.fetch > 0
    BY <1>1, <1>2, <1>3 DEF SearchSound
  <2>2. Cardinality(rows) = 0
    BY FS_EmptySet
  <2> QED
    BY <1>3, <2>1, <2>2, ChunkSets, NearestAll DEF rows
<1>7. search.matched \in SUBSET Chunks
  BY <1>2 DEF VectorTypes
<1>8. rows = {} => ~(Cardinality(Found)' < Min({K, Cardinality(steady)}))
  BY <1>3, <1>4, <1>5, <1>6, <1>7, NothingToFind DEF Found
<1>9. \E S \in SUBSET Chunks : steady \subseteq S /\ rows = Nearest(search.fetch, S)
  BY <1>3, <1>4 DEF rows
<1> QED
  BY <1>1, <1>2, <1>5, <1>8, <1>9 DEF VectorInv, SearchSound, Candidates

(* A statement of another process between two of the search's. *)
LEMMA MeanwhileInv ==
  ASSUME VectorInv, Meanwhile
  PROVE  VectorInv'
<1>1. /\ search.step \in {"count", "fetch", "match"} /\ UNCHANGED <<matches, filtered, search>>
      /\ steady' = steady \cap vectors' \cap visible'
  BY DEF Meanwhile
<1>2. VectorTypes'
  BY <1>1 DEF Meanwhile, VectorInv, VectorTypes
<1>3. steady' \subseteq steady /\ steady \in SUBSET Chunks
  BY <1>1 DEF VectorInv, VectorTypes, SearchSound, Candidates
<1>4. /\ Cardinality(steady) \in Nat /\ Cardinality(steady)' \in Nat
      /\ Cardinality(steady)' <= Cardinality(steady)
  BY <1>3, ChunkSets, FS_Subset
<1>5. search.total \in Nat
  BY DEF VectorInv, VectorTypes
<1> QED
  BY <1>1, <1>2, <1>3, <1>4, <1>5 DEF VectorInv, SearchSound, Candidates

LEMMA MatchRowsInv ==
  ASSUME VectorInv, MatchRows
  PROVE  VectorInv'
<1> DEFINE found == search.matched \cup (search.rows \cap visible \cap matches)
           more == Max({Growth * search.fetch, search.fetch + Stride * K})
           rounds == IF filtered THEN search.round + 1 ELSE search.round
<1>1. /\ search.step = "match"
      /\ search' = [search EXCEPT
            !.matched = found,
            !.round = rounds,
            !.step = IF Enough(found) THEN "done" ELSE "fetch",
            !.fetch = IF Enough(found) THEN search.fetch ELSE more]
      /\ UNCHANGED <<vectors, visible, matches, filtered, steady, writes>>
  BY DEF MatchRows, Step, Statement
<1>2. VectorTypes /\ SearchSound
  BY DEF VectorInv
<1>3. /\ {K, Growth, Stride, MaxRounds} \subseteq Nat
      /\ search.fetch \in Nat /\ search.round \in Nat /\ search.total \in Nat
      /\ search.rows \in SUBSET Chunks /\ search.matched \in SUBSET Chunks
      /\ steady \in SUBSET Chunks /\ steady \subseteq visible \cap matches
      /\ Chunks \subseteq Nat
  BY <1>2, VectorAssumption DEF VectorAssumption, VectorTypes, SearchSound, Candidates
<1>4. found \in SUBSET Chunks /\ rounds \in Nat
  BY <1>3
<1>5. more \in Nat /\ more >= search.fetch
  <2> DEFINE a == Growth * search.fetch
             b == search.fetch + Stride * K
  <2>1. a \in Nat
    BY <1>3
  <2>2. Stride * K \in Nat
    BY <1>3
  <2>3. b \in Nat /\ b >= search.fetch
    BY <1>3, <2>2
  <2> HIDE DEF a, b
  <2>4. Max({a, b}) = IF a >= b THEN a ELSE b
    BY <2>1, <2>3, MaxOfTwo
  <2>5. Max({a, b}) \in Nat /\ Max({a, b}) >= search.fetch
    BY <1>3, <2>1, <2>3, <2>4
  <2> QED
    BY <2>5 DEF a, b
<1>6. PICK S \in SUBSET Chunks : steady \subseteq S /\ search.rows = Nearest(search.fetch, S)
  BY <1>1, <1>2 DEF SearchSound
<1>7. \A c \in steady, d \in found : c < d => c \in found
  <2> SUFFICES ASSUME NEW c \in steady, NEW d \in search.rows, c < d PROVE c \in search.rows
    BY <1>2, <1>3 DEF SearchSound
  <2>1. S \in SUBSET Nat /\ IsFiniteSet(S)
    BY ChunkSets, <1>3
  <2>2. c \in S /\ d \in Nearest(search.fetch, S) /\ search.fetch \in Nat
    BY <1>3, <1>6
  <2>3. c \in Nearest(search.fetch, S)
    BY <2>1, <2>2, NearestClosed
  <2> QED
    BY <1>6, <2>3
<1> HIDE DEF found, more, rounds
<1>8. /\ VectorTypes' /\ search'.matched = found /\ search'.rows = search.rows
      /\ search'.total = search.total /\ search'.round = rounds
      /\ search'.step = IF Enough(found) THEN "done" ELSE "fetch"
      /\ search'.fetch = IF Enough(found) THEN search.fetch ELSE more
  BY <1>1, <1>2, <1>3, <1>4, <1>5 DEF VectorTypes, SearchSteps
<1>9. CASE ~Enough(found)
  <2>1. filtered
    BY <1>9 DEF Enough
  <2> QED
    BY <1>1, <1>2, <1>3, <1>5, <1>7, <1>8, <1>9, <2>1 DEF VectorInv, SearchSound, Candidates
<1>10. CASE Enough(found)
  <2>1. steady \subseteq found => ~(Cardinality(Nearest(K, found)) < Min({K, Cardinality(steady)}))
    BY <1>3, <1>4, NearestEnough
  <2>2. steady \subseteq search.rows => steady \subseteq found
    BY <1>3 DEF found
  <2>3. Cardinality(search.rows) < search.fetch => steady \subseteq search.rows
    <3>1. S \in SUBSET Nat /\ IsFiniteSet(S)
      BY ChunkSets, <1>3
    <3> QED
      BY <1>3, <1>6, <3>1, NearestAll
  <2>4. /\ Cardinality(found) \in Nat /\ Cardinality(steady) \in Nat
        /\ Cardinality(Nearest(K, found)) \in Nat
        /\ ~(Cardinality(Nearest(K, found)) < Min({K, Cardinality(found)}))
    BY <1>3, <1>4, ChunkSets, NearestEnough
  <2>5. Cardinality(steady) <= search.total
    BY <1>1, <1>2 DEF SearchSound
  <2>6. Cardinality(found) >= Min({K, search.total}) =>
          ~(Cardinality(Nearest(K, found)) < Min({K, Cardinality(steady)}))
    BY <1>3, <2>4, <2>5, MinOfTwo
  <2>7. filtered /\ Cardinality(Nearest(K, found)) < Min({K, Cardinality(steady)}) =>
          rounds >= MaxRounds /\ ~(steady \subseteq search.rows)
    BY <1>10, <2>1, <2>2, <2>3, <2>6 DEF Enough, rounds
  <2>8. ~filtered /\ Cardinality(Nearest(K, found)) < Min({K, Cardinality(steady)}) =>
          ~(search.rows \subseteq Nearest(K, found))
    <3> SUFFICES ASSUME ~filtered, search.rows \subseteq Nearest(K, found)
                 PROVE  ~(Cardinality(Nearest(K, found)) < Min({K, Cardinality(steady)}))
      OBVIOUS
    <3>1. search.rows = Nearest(K, S)
      BY <1>1, <1>2, <1>6 DEF SearchSound
    <3>2. ~(Cardinality(search.rows) < Min({K, Cardinality(steady)}))
      BY <1>3, <1>6, <3>1, NearestEnough
    <3>3. Nearest(K, found) \in SUBSET Chunks /\ IsFiniteSet(Nearest(K, found))
      BY <1>3, <1>4, ChunkSets
    <3>4. Cardinality(search.rows) <= Cardinality(Nearest(K, found)) /\ Cardinality(search.rows) \in Nat
      BY <1>3, <3>3, ChunkSets, FS_Subset
    <3> QED
      BY <1>3, <2>4, <3>2, <3>4, MinOfTwo
  <2>9. Found' = Nearest(K, found)
    BY <1>8 DEF Found
  <2> QED
    BY <1>1, <1>2, <1>3, <1>7, <1>8, <1>10, <2>7, <2>8, <2>9 DEF VectorInv, SearchSound, Candidates
<1> QED
  BY <1>9, <1>10

(* What the search keeps of the chunks that can be found all the time. *)
THEOREM VectorInvariant == VectorSpec => []VectorInv
<1>1. VectorInv /\ [VectorNext]_vectorVars => VectorInv'
  <2>1. VectorInv /\ UNCHANGED vectorVars => VectorInv'
    BY DEF VectorInv, VectorTypes, SearchSound, Candidates, Found, vectorVars
  <2> QED
    BY <2>1, ProbeIndexInv, CountChunksInv, FetchRowsInv, FetchRefusedInv, MatchRowsInv,
       MeanwhileInv DEF VectorNext
<1> QED
  BY <1>1, VectorInitInv, PTL DEF VectorSpec

(* For every top_k, fetch size and number of rounds, and whatever is committed between the
   statements of the search: no result is passed over for a farther one, and none is missing
   unless the rounds ran out (SqliteVecStore.search). *)
THEOREM SearchFindsNearest == VectorSpec => []NearestFound
<1>1. VectorInv => NearestFound
  <2> SUFFICES ASSUME VectorInv, search.step = "done",
                      NEW c \in steady, NEW d \in Found, c < d
               PROVE  c \in Found
    BY DEF NearestFound, Step, VectorInv, SearchSound
  <2>1. search.matched \in SUBSET Chunks /\ K \in Nat
    BY VectorAssumption DEF VectorAssumption, VectorInv, VectorTypes
  <2>2. d \in search.matched
    BY DEF Found, Nearest
  <2>3. c \in search.matched
    BY <2>2 DEF VectorInv, SearchSound
  <2> QED
    BY <2>1, <2>3, ChunkSets, NearestClosed DEF Found
<1> QED
  BY <1>1, VectorInvariant, PTL

-----------------------------------------------------------------------------
(* Lists: sums, and a list through a function. *)

SumFold == INSTANCE SequenceFolds WITH Op <- LAMBDA a, b : a + b

LEMMA SumIsFold == ASSUME NEW s PROVE SumOf(s) = SumFold!Folded(0, s)
BY DEF SumOf, SumFold!Folded, FoldLeft, MapThenFoldSet, Max, SumFold!Greatest

LEMMA SumEmpty == SumOf(<<>>) = 0
BY SumIsFold, SumFold!FoldEmpty

LEMMA SumType == ASSUME NEW s \in Seq(Nat) PROVE SumOf(s) \in Nat
<1>1. SumFold!Folded(0, s) \in Nat
  BY SumFold!SumIsNat
<1> QED
  BY <1>1, SumIsFold

LEMMA SumAppend ==
  ASSUME NEW s \in Seq(Nat), NEW x \in Nat
  PROVE  SumOf(Append(s, x)) = SumOf(s) + x
<1>1. SumFold!Folded(0, Append(s, x)) = SumFold!Folded(0, s) + x
  BY SumFold!FoldAppend
<1> QED
  BY <1>1, SumIsFold

Over(w, s) == [i \in DOMAIN s |-> w[s[i]]]

LEMMA OverType ==
  ASSUME NEW S, NEW w \in [S -> Nat], NEW s \in Seq(S)
  PROVE  Over(w, s) \in Seq(Nat) /\ Len(Over(w, s)) = Len(s)
BY DEF Over

LEMMA OverAppend ==
  ASSUME NEW S, NEW w \in [S -> Nat], NEW s \in Seq(S), NEW e \in S
  PROVE  Over(w, Append(s, e)) = Append(Over(w, s), w[e])
BY DEF Over

LEMMA OverEmpty == ASSUME NEW w PROVE Over(w, <<>>) = <<>>
BY DEF Over

LEMMA SumOverAppend ==
  ASSUME NEW S, NEW w \in [S -> Nat], NEW s \in Seq(S), NEW e \in S
  PROVE  /\ SumOf(Over(w, s)) \in Nat
         /\ SumOf(Over(w, Append(s, e))) = SumOf(Over(w, s)) + w[e]
<1>1. Over(w, s) \in Seq(Nat)
  BY OverType, Zenon
<1>2. w[e] \in Nat
  OBVIOUS
<1>3. Over(w, Append(s, e)) = Append(Over(w, s), w[e])
  BY OverAppend
<1> QED
  BY <1>1, <1>2, <1>3, SumType, SumAppend

-----------------------------------------------------------------------------
(* build_context: what is included *)

IncludedFold == INSTANCE SequenceFolds
  WITH Op <- LAMBDA kept, i : IF fates[i] = "included" THEN Append(kept, i) ELSE kept
NextFold == INSTANCE SequenceFolds
  WITH Op <- LAMBDA kept, i : IF fates'[i] = "included" THEN Append(kept, i) ELSE kept

LEMMA IncludedIsFold ==
  Included = IncludedFold!Folded(<<>>, [i \in DOMAIN fates |-> i])
BY DEF Included, Kept, IncludedFold!Folded, FoldLeft, MapThenFoldSet, Max, IncludedFold!Greatest

LEMMA IncludedNextIsFold ==
  Included' = NextFold!Folded(<<>>, [i \in DOMAIN fates' |-> i])
BY DEF Included, Kept, NextFold!Folded, FoldLeft, MapThenFoldSet, Max, NextFold!Greatest

LEMMA IncludedSame == ASSUME fates' = fates PROVE Included' = Included
<1>1. ASSUME NEW s PROVE NextFold!Folded(<<>>, s) = IncludedFold!Folded(<<>>, s)
  BY Zenon DEF NextFold!Folded, IncludedFold!Folded, NextFold!Greatest, IncludedFold!Greatest
<1>2. [i \in DOMAIN fates' |-> i] = [i \in DOMAIN fates |-> i]
  OBVIOUS
<1> QED
  BY <1>1, <1>2, IncludedIsFold, IncludedNextIsFold, Zenon

(* One candidate more: its position is included, if it is. *)
LEMMA IncludedGrows ==
  ASSUME NEW S, fates \in Seq(S), NEW f \in S, fates' = Append(fates, f)
  PROVE  Included' = IF f = "included" THEN Append(Included, Len(fates) + 1) ELSE Included
<1> DEFINE n == Len(fates)
           before == [i \in DOMAIN fates |-> i]
           after == [i \in DOMAIN fates' |-> i]
<1>1. /\ n \in Nat /\ DOMAIN fates = 1..n /\ DOMAIN fates' = 1..(n + 1)
      /\ fates'[n + 1] = f /\ \A i \in 1..n : fates'[i] = fates[i]
  OBVIOUS
<1> HIDE DEF n
<1>2. /\ DOMAIN before = 1..n /\ DOMAIN after = 1..(n + 1)
      /\ \A i \in 1..n : before[i] = i /\ after[i] = i
      /\ after[n + 1] = n + 1
  BY <1>1
<1>a. Included = IncludedFold!Folded(<<>>, before) /\ Included' = NextFold!Folded(<<>>, after)
  BY IncludedIsFold, IncludedNextIsFold
<1> HIDE DEF before, after
<1>3. PICK old : /\ old[0] = <<>> /\ old[n] = Included
                 /\ \A k \in 1..n : old[k] = IF fates[before[k]] = "included"
                                              THEN Append(old[k - 1], before[k]) ELSE old[k - 1]
  <2>1. n \in Nat /\ DOMAIN before = 1..n
    BY <1>1, <1>2
  <2>2. PICK run : IncludedFold!Runs(run, <<>>, before, n)
    BY <2>1, IncludedFold!FoldHasRun
  <2> QED
    BY <1>a, <2>2 DEF IncludedFold!Runs
<1>4. PICK new : /\ new[0] = <<>> /\ new[n + 1] = Included'
                 /\ \A k \in 1..(n + 1) : new[k] = IF fates'[after[k]] = "included"
                                                    THEN Append(new[k - 1], after[k]) ELSE new[k - 1]
  <2>1. n + 1 \in Nat /\ DOMAIN after = 1..(n + 1)
    BY <1>1, <1>2
  <2>2. PICK run : NextFold!Runs(run, <<>>, after, n + 1)
    BY <2>1, NextFold!FoldHasRun
  <2> QED
    BY <1>a, <2>2 DEF NextFold!Runs
<1> DEFINE Bad == {k \in Nat : k <= n /\ new[k] # old[k]}
<1>5. Bad = {}
  <2> SUFFICES ASSUME Bad # {} PROVE FALSE
    OBVIOUS
  <2>1. PICK k \in Bad : \A m \in Bad : k <= m
    BY LeastOne
  <2>2. k # 0
    BY <1>3, <1>4
  <2>3. k - 1 \in Nat /\ k \in 1..n /\ k \in 1..(n + 1) /\ k - 1 <= n /\ k - 1 \notin Bad
    BY <1>1, <2>1, <2>2
  <2>4. new[k - 1] = old[k - 1]
    BY <2>3
  <2> QED
    BY <1>1, <1>2, <1>3, <1>4, <2>1, <2>3, <2>4
<1>6. new[n] = old[n]
  BY <1>1, <1>5
<1>7. n + 1 \in 1..(n + 1) /\ (n + 1) - 1 = n
  BY <1>1
<1> QED
  BY <1>1, <1>2, <1>3, <1>4, <1>6, <1>7 DEF n

(* The positions included are those whose fate says so, in their order. *)
LEMMA IncludedIs ==
  ASSUME NEW S, fates \in Seq(S)
  PROVE  /\ Included \in Seq(DOMAIN fates)
         /\ \A k \in DOMAIN Included : fates[Included[k]] = "included"
         /\ \A j, k \in DOMAIN Included : j < k => Included[j] < Included[k]
         /\ \A i \in DOMAIN fates : fates[i] = "included" => \E k \in DOMAIN Included : Included[k] = i
<1> DEFINE n == Len(fates)
           all == [i \in DOMAIN fates |-> i]
           T == {i \in 1..n : fates[i] = "included"}
<1>1. n \in Nat /\ DOMAIN fates = 1..n /\ all \in Seq(1..n) /\ Len(all) = n /\ \A i \in 1..n : all[i] = i
  OBVIOUS
<1>2. \A acc : \A e \in 1..n :
        (IF fates[e] = "included" THEN Append(acc, e) ELSE acc) = IF e \in T THEN Append(acc, e) ELSE acc
  OBVIOUS
<1> HIDE DEF n, all, T
<1>3. /\ Included \in Seq(1..n)
      /\ \E place : IncludedFold!Picks(place, Included, all, n, T)
  BY <1>1, <1>2, IncludedFold!FilterPicks, IncludedIsFold DEF all
<1>4. PICK place : IncludedFold!Picks(place, Included, all, n, T)
  BY <1>3
<1>5. DOMAIN Included = 1..Len(Included)
  BY <1>3
<1>6. \A k \in DOMAIN Included : place[k] \in 1..n /\ Included[k] = place[k] /\ Included[k] \in T
  BY <1>1, <1>4, <1>5 DEF IncludedFold!Picks
<1>7. \A i \in 1..n : i \in T => \E k \in DOMAIN Included : place[k] = i
  BY <1>1, <1>4, <1>5 DEF IncludedFold!Picks
<1>8. \A j, k \in DOMAIN Included : j < k => place[j] < place[k]
  BY <1>4, <1>5 DEF IncludedFold!Picks
<1> QED
  BY <1>1, <1>3, <1>6, <1>7, <1>8 DEF T

Candidate == [id : Nat, cost : Nat]
FateNames == {"included", "invalid_empty_content", "duplicate_chunk", "max_chunks_reached",
              "oversized_single_chunk", "budget_exceeded"}

CostsOf(list, places) == [k \in DOMAIN places |-> list[places[k]].cost]

SeenIn(list, places, id) == \E k \in DOMAIN places : list[places[k]].id = id

EvidenceTypes ==
  /\ considered \in Seq(Candidate) /\ fates \in Seq(FateNames) /\ Len(fates) = Len(considered)
  /\ used \in Nat /\ talk \in Seq(Nat)

(* BudgetKept, with the ids of what is included compared one by one. *)
BudgetInv ==
  /\ used = SumOf(CostsOf(considered, Included))
  /\ used <= EvidenceBudget /\ Len(Included) <= MaxChunks
  /\ \A j, k \in DOMAIN Included :
       considered[Included[j]].id = considered[Included[k]].id => j = k
  /\ \A i \in DOMAIN considered :
       \/ considered[i].id = 0 \/ considered[i].cost = 0
       \/ SeenIn(considered, Included, considered[i].id)
       \/ Len(Included) = MaxChunks
       \/ used + considered[i].cost > EvidenceBudget

LEMMA EvidenceConstants ==
  /\ {MaxRetrieved, ContextTokens, SystemTokens, OutputTokens, MaxChunks, ListLimit, Window,
      MaxHistory, SystemPrompt, PerToken} \subseteq Nat
  /\ Retrieved \subseteq Candidate /\ Conversations \subseteq Seq(Nat)
  /\ EvidenceBudget \in Nat
<1>1. /\ ContextTokens \in Nat /\ SystemTokens \in Nat /\ OutputTokens \in Nat
  BY EvidenceAssumption DEF EvidenceAssumption
<1>2. EvidenceBudget \in Nat
  BY <1>1 DEF EvidenceBudget
<1> QED
  BY <1>2, EvidenceAssumption DEF EvidenceAssumption, Candidate

LEMMA CostsAppend ==
  ASSUME NEW list \in Seq(Candidate), NEW places \in Seq(DOMAIN list), NEW c \in Candidate
  PROVE  /\ CostsOf(list, places) \in Seq(Nat)
         /\ CostsOf(Append(list, c), places) = CostsOf(list, places)
         /\ CostsOf(Append(list, c), Append(places, Len(list) + 1)) = Append(CostsOf(list, places), c.cost)
<1> DEFINE n == Len(list)
           m == Len(places)
           more == Append(list, c)
           further == Append(places, n + 1)
<1>1. /\ n \in Nat /\ m \in Nat /\ DOMAIN list = 1..n /\ DOMAIN places = 1..m
      /\ \A k \in 1..m : places[k] \in 1..n
      /\ \A i \in 1..n : list[i].cost \in Nat /\ more[i] = list[i]
      /\ more[n + 1] = c /\ c.cost \in Nat
  <2>1. n \in Nat /\ m \in Nat /\ DOMAIN list = 1..n /\ DOMAIN places = 1..m
    OBVIOUS
  <2>2. \A k \in 1..m : places[k] \in 1..n
    <3>1. \A k \in DOMAIN places : places[k] \in DOMAIN list
      OBVIOUS
    <3> QED
      BY <2>1, <3>1
  <2>3. \A i \in 1..n : list[i] \in Candidate /\ more[i] = list[i]
    OBVIOUS
  <2>4. more[n + 1] = c
    OBVIOUS
  <2>5. \A x \in Candidate : x.cost \in Nat
    BY DEF Candidate
  <2> QED
    BY <2>1, <2>2, <2>3, <2>4, <2>5
<1>2. /\ DOMAIN further = 1..(m + 1) /\ further[m + 1] = n + 1
      /\ \A k \in 1..m : further[k] = places[k]
  BY <1>1
<1> HIDE DEF n, m, more, further
<1>3. CostsOf(list, places) \in Seq(Nat) /\ Len(CostsOf(list, places)) = m
  BY <1>1 DEF CostsOf
<1>4. CostsOf(more, places) = CostsOf(list, places)
  BY <1>1 DEF CostsOf
<1>5. CostsOf(more, further) = Append(CostsOf(list, places), c.cost)
  <2> DEFINE a == CostsOf(more, further)
             b == Append(CostsOf(list, places), c.cost)
  <2>1. a = [k \in 1..(m + 1) |-> more[further[k]].cost]
    BY <1>2 DEF CostsOf
  <2>2. /\ b \in Seq(Nat) /\ Len(b) = m + 1 /\ b[m + 1] = c.cost
        /\ \A k \in 1..m : b[k] = list[places[k]].cost
    BY <1>1, <1>3 DEF CostsOf
  <2>3. ASSUME NEW k \in 1..(m + 1) PROVE a[k] = b[k] /\ a[k] \in Nat
    <3>1. CASE k = m + 1
      BY <1>1, <1>2, <2>1, <2>2, <3>1
    <3>2. CASE k # m + 1
      <4>1. k \in 1..m
        BY <1>1, <3>2
      <4>2. a[k] = more[further[k]].cost /\ further[k] = places[k] /\ places[k] \in 1..n
        BY <1>1, <1>2, <2>1, <4>1
      <4> QED
        BY <1>1, <2>2, <4>1, <4>2
    <3> QED
      BY <3>1, <3>2
  <2>4. a \in Seq(Nat) /\ Len(a) = m + 1
    <3>1. m + 1 \in Nat
      BY <1>1
    <3> QED
      BY <2>1, <2>3, <3>1
  <2> HIDE DEF a, b
  <2>5. a = b
    BY <2>2, <2>3, <2>4, SeqEqual
  <2> QED
    BY <2>5 DEF a, b
<1> QED
  BY <1>3, <1>4, <1>5 DEF more, further, n

LEMMA SeenIs == ASSUME NEW id PROVE Seen(id) <=> SeenIn(considered, Included, id)
BY DEF Seen, Ids, ToSet, SeenIn

LEMMA ConsiderTypes ==
  ASSUME EvidenceTypes, Consider
  PROVE  EvidenceTypes'
<1>1. PICK chunk \in Retrieved :
        /\ considered' = Append(considered, chunk)
        /\ fates' = Append(fates, Fate(chunk))
        /\ used' = IF Fate(chunk) = "included" THEN used + chunk.cost ELSE used
  BY DEF Consider
<1>2. chunk \in Candidate /\ chunk.cost \in Nat
  BY EvidenceConstants DEF Candidate
<1>3. Fate(chunk) \in FateNames
  BY DEF Fate, FateNames
<1> QED
  BY <1>1, <1>2, <1>3 DEF EvidenceTypes, Consider

LEMMA ConsiderBudget ==
  ASSUME EvidenceTypes, BudgetInv, Consider
  PROVE  BudgetInv'
<1>1. PICK chunk \in Retrieved :
        /\ considered' = Append(considered, chunk)
        /\ fates' = Append(fates, Fate(chunk))
        /\ used' = IF Fate(chunk) = "included" THEN used + chunk.cost ELSE used
  BY DEF Consider
<1> DEFINE n == Len(considered)
           m == Len(Included)
<1>2. /\ chunk \in Candidate /\ chunk.cost \in Nat /\ Fate(chunk) \in FateNames
      /\ EvidenceBudget \in Nat /\ used \in Nat /\ MaxChunks \in Nat
  <2>1. chunk \in Candidate
    BY EvidenceConstants
  <2> QED
    BY <2>1, EvidenceConstants DEF Candidate, EvidenceTypes, Fate, FateNames
<1>3. /\ n \in Nat /\ DOMAIN considered = 1..n /\ DOMAIN considered' = 1..(n + 1)
      /\ considered'[n + 1] = chunk /\ \A i \in 1..n : considered'[i] = considered[i]
      /\ DOMAIN fates = 1..n /\ Len(fates) = n
  BY <1>1 DEF EvidenceTypes
<1>4. /\ Included \in Seq(1..n) /\ m \in Nat /\ DOMAIN Included = 1..m
      /\ \A k \in 1..m : Included[k] \in 1..n
  <2>1. fates \in Seq(FateNames)
    BY DEF EvidenceTypes
  <2>2. Included \in Seq(1..n)
    BY <1>3, <2>1, IncludedIs
  <2> QED
    BY <2>2
<1>5. Included' = IF Fate(chunk) = "included" THEN Append(Included, n + 1) ELSE Included
  <2>1. fates \in Seq(FateNames)
    BY DEF EvidenceTypes
  <2> QED
    BY <1>1, <1>2, <1>3, <2>1, IncludedGrows
<1>6. \A i \in 1..n : considered[i].cost \in Nat
  <2>1. \A i \in 1..n : considered[i] \in Candidate
    BY <1>3 DEF EvidenceTypes
  <2> QED
    BY <2>1 DEF Candidate
<1>7. /\ CostsOf(considered, Included) \in Seq(Nat)
      /\ CostsOf(considered', Included) = CostsOf(considered, Included)
      /\ CostsOf(considered', Append(Included, n + 1)) = Append(CostsOf(considered, Included), chunk.cost)
  BY <1>1, <1>2, <1>3, <1>4, CostsAppend DEF EvidenceTypes
<1>8. EvidenceBudget' = EvidenceBudget
  BY DEF EvidenceBudget
<1> HIDE DEF n, m
<1>9. CASE Fate(chunk) # "included"
  <2>1. Included' = Included /\ used' = used
    BY <1>1, <1>5, <1>9
  <2>2. used' = SumOf(CostsOf(considered', Included'))
    BY <1>7, <2>1 DEF BudgetInv
  <2>3. \A k \in 1..m : considered'[Included'[k]] = considered[Included[k]]
    BY <1>3, <1>4, <2>1
  <2>4. ASSUME NEW id PROVE SeenIn(considered', Included', id) <=> SeenIn(considered, Included, id)
    BY <1>4, <2>1, <2>3 DEF SeenIn
  <2>5. \/ chunk.id = 0 \/ chunk.cost = 0 \/ SeenIn(considered, Included, chunk.id) \/ m = MaxChunks
        \/ used + chunk.cost > EvidenceBudget
    <3>1. m <= MaxChunks
      BY DEF BudgetInv, m
    <3>2. m >= MaxChunks => m = MaxChunks
      BY <1>2, <1>4, <3>1
    <3>3. chunk.cost > EvidenceBudget \/ ~(used + chunk.cost <= EvidenceBudget) =>
            used + chunk.cost > EvidenceBudget
      BY <1>2
    <3> QED
      BY <1>9, <3>2, <3>3, SeenIs DEF Fate, Blank, Fits, m
  <2>6. ASSUME NEW i \in DOMAIN considered'
        PROVE  \/ considered'[i].id = 0 \/ considered'[i].cost = 0
               \/ SeenIn(considered', Included', considered'[i].id)
               \/ Len(Included') = MaxChunks
               \/ used' + considered'[i].cost > EvidenceBudget
    <3>1. CASE i = n + 1
      BY <1>3, <2>1, <2>4, <2>5, <3>1 DEF m
    <3>2. CASE i # n + 1
      <4>1. i \in DOMAIN considered /\ considered'[i] = considered[i]
        BY <1>3, <3>2
      <4> QED
        BY <2>1, <2>4, <4>1 DEF BudgetInv
    <3> QED
      BY <3>1, <3>2
  <2>7. \A j, k \in DOMAIN Included' :
          considered'[Included'[j]].id = considered'[Included'[k]].id => j = k
    BY <1>4, <2>1, <2>3 DEF BudgetInv
  <2> QED
    BY <1>8, <2>1, <2>2, <2>6, <2>7 DEF BudgetInv
<1>10. CASE Fate(chunk) = "included"
  <2>1. Included' = Append(Included, n + 1) /\ used' = used + chunk.cost
    BY <1>1, <1>5, <1>10
  <2>2. /\ chunk.id # 0 /\ ~SeenIn(considered, Included, chunk.id) /\ ~(m >= MaxChunks)
        /\ used + chunk.cost <= EvidenceBudget
    BY <1>10, SeenIs DEF Fate, Fits, m
  <2>3. /\ Len(Included') = m + 1 /\ DOMAIN Included' = 1..(m + 1)
        /\ Included'[m + 1] = n + 1 /\ \A k \in 1..m : Included'[k] = Included[k]
    BY <1>3, <1>4, <2>1
  <2>4. used' = SumOf(CostsOf(considered', Included'))
    BY <1>2, <1>7, <2>1, SumAppend DEF BudgetInv
  <2>5. \A k \in 1..m : considered'[Included'[k]] = considered[Included[k]]
    BY <1>3, <1>4, <2>3
  <2>6. considered'[Included'[m + 1]] = chunk
    BY <1>3, <2>3
  <2>7. ASSUME NEW id, SeenIn(considered, Included, id) PROVE SeenIn(considered', Included', id)
    <3>1. PICK k \in 1..m : considered[Included[k]].id = id
      BY <1>4, <2>7 DEF SeenIn
    <3>2. k \in DOMAIN Included'
      BY <1>4, <2>3
    <3> QED
      BY <2>5, <3>1, <3>2 DEF SeenIn
  <2>8. ASSUME NEW j \in 1..(m + 1), NEW k \in 1..(m + 1),
               considered'[Included'[j]].id = considered'[Included'[k]].id
        PROVE  j = k
    <3>1. \A i \in 1..m : considered[Included[i]].id # chunk.id
      BY <1>4, <2>2 DEF SeenIn
    <3>2. \A i \in 1..(m + 1) : i = m + 1 \/ i \in 1..m
      BY <1>4
    <3>3. CASE j = m + 1
      BY <2>5, <2>6, <2>8, <3>1, <3>2, <3>3
    <3>4. CASE k = m + 1
      BY <2>5, <2>6, <2>8, <3>1, <3>2, <3>4
    <3>5. CASE j \in 1..m /\ k \in 1..m
      BY <1>4, <2>5, <2>8, <3>5 DEF BudgetInv
    <3> QED
      BY <3>2, <3>3, <3>4, <3>5
  <2>9. ASSUME NEW i \in DOMAIN considered'
        PROVE  \/ considered'[i].id = 0 \/ considered'[i].cost = 0
               \/ SeenIn(considered', Included', considered'[i].id)
               \/ Len(Included') = MaxChunks
               \/ used' + considered'[i].cost > EvidenceBudget
    <3>1. CASE i = n + 1
      <4>1. m + 1 \in DOMAIN Included'
        BY <1>4, <2>3
      <4> QED
        BY <1>3, <2>6, <3>1, <4>1 DEF SeenIn
    <3>2. CASE i # n + 1
      <4>1. i \in DOMAIN considered /\ considered'[i] = considered[i] /\ considered[i].cost \in Nat
        BY <1>3, <1>6, <3>2
      <4>2. m # MaxChunks
        BY <1>2, <1>4, <2>2
      <4>3. CASE used + considered[i].cost > EvidenceBudget
        BY <1>2, <2>1, <4>1, <4>3
      <4>4. \/ considered[i].id = 0 \/ considered[i].cost = 0
            \/ SeenIn(considered, Included, considered[i].id)
            \/ used + considered[i].cost > EvidenceBudget
        BY <4>1, <4>2 DEF BudgetInv, m
      <4> QED
        BY <2>7, <4>1, <4>3, <4>4
    <3> QED
      BY <3>1, <3>2
  <2>10. used' <= EvidenceBudget /\ Len(Included') <= MaxChunks
    BY <1>2, <1>4, <2>1, <2>2, <2>3
  <2> QED
    BY <1>8, <2>3, <2>4, <2>8, <2>9, <2>10 DEF BudgetInv
<1> QED
  BY <1>9, <1>10

-----------------------------------------------------------------------------
(* extract_and_validate *)

DistinctFold == INSTANCE SequenceFolds
  WITH Op <- LAMBDA seen, mark : IF mark \in ToSet(seen) THEN seen ELSE Append(seen, mark)
GoodFold == INSTANCE SequenceFolds
  WITH Op <- LAMBDA kept, mark : IF Resolves(mark) THEN Append(kept, mark) ELSE kept
BadFold == INSTANCE SequenceFolds
  WITH Op <- LAMBDA kept, mark : IF ~Resolves(mark) THEN Append(kept, mark) ELSE kept

LEMMA ToSetAppend ==
  ASSUME NEW S, NEW s \in Seq(S), NEW e \in S
  PROVE  /\ ToSet(Append(s, e)) = ToSet(s) \cup {e} /\ ToSet(s) \subseteq S
         /\ IsInjective(s) /\ e \notin ToSet(s) => IsInjective(Append(s, e))
<1> DEFINE n == Len(s)
           t == Append(s, e)
<1>1. /\ n \in Nat /\ DOMAIN s = 1..n /\ DOMAIN t = 1..(n + 1) /\ t[n + 1] = e
      /\ \A i \in 1..n : t[i] = s[i] /\ s[i] \in S
  OBVIOUS
<1> HIDE DEF n, t
<1>2. \A i \in 1..(n + 1) : i = n + 1 \/ i \in 1..n
  BY <1>1
<1>3. n + 1 \in 1..(n + 1) /\ \A i \in 1..n : i \in 1..(n + 1)
  BY <1>1
<1>4. ToSet(t) = ToSet(s) \cup {e}
  BY <1>1, <1>2, <1>3 DEF ToSet
<1>5. ASSUME IsInjective(s), e \notin ToSet(s) PROVE IsInjective(t)
  <2> SUFFICES ASSUME NEW i \in 1..(n + 1), NEW j \in 1..(n + 1), t[i] = t[j] PROVE i = j
    BY <1>1 DEF IsInjective
  <2>1. \A k \in 1..n : s[k] # e
    BY <1>1, <1>5 DEF ToSet
  <2>2. CASE i \in 1..n /\ j \in 1..n
    BY <1>1, <1>5, <2>2 DEF IsInjective
  <2>3. CASE i = n + 1 \/ j = n + 1
    BY <1>1, <1>2, <2>1, <2>3
  <2> QED
    BY <1>2, <2>2, <2>3
<1> QED
  BY <1>1, <1>4, <1>5 DEF ToSet, t

(* Each mark once. *)
LEMMA DistinctIs ==
  ASSUME NEW S, NEW marks \in Seq(S)
  PROVE  /\ Distinct(marks) \in Seq(S) /\ IsInjective(Distinct(marks))
         /\ ToSet(Distinct(marks)) = ToSet(marks)
<1> DEFINE n == Len(marks)
           first(k) == {marks[i] : i \in 1..k}
           I == {x \in (0..n) \X Seq(S) : IsInjective(x[2]) /\ ToSet(x[2]) = first(x[1])}
<1>1. n \in Nat /\ DOMAIN marks = 1..n /\ \A k \in 1..n : marks[k] \in S
  OBVIOUS
<1>2. Distinct(marks) = DistinctFold!Folded(<<>>, marks)
  BY DEF Distinct, DistinctFold!Folded, FoldLeft, MapThenFoldSet, Max, DistinctFold!Greatest
<1> HIDE DEF n
<1>3. <<0, <<>>>> \in I
  <2>1. <<>> \in Seq(S) /\ IsInjective(<<>>) /\ ToSet(<<>>) = {} /\ first(0) = {}
    BY DEF IsInjective, ToSet
  <2>2. 0 \in 0..n
    BY <1>1
  <2>3. <<0, <<>>>> \in (0..n) \X Seq(S)
    BY <2>1, <2>2
  <2> HIDE DEF first
  <2> QED
    BY <2>1, <2>3
<1>4. ASSUME NEW k \in 1..n, NEW acc, <<k - 1, acc>> \in I
      PROVE  <<k, IF marks[k] \in ToSet(acc) THEN acc ELSE Append(acc, marks[k])>> \in I
  <2> DEFINE c == k - 1
             longer == IF marks[k] \in ToSet(acc) THEN acc ELSE Append(acc, marks[k])
  <2>1. acc \in Seq(S) /\ IsInjective(acc) /\ ToSet(acc) = first(c)
    BY <1>4
  <2>2. marks[k] \in S /\ k \in 0..n /\ c \in Nat
    BY <1>1
  <2>3. first(k) = first(c) \cup {marks[k]}
    <3>1. \A i : i \in 1..k <=> i \in 1..c \/ i = k
      BY <2>2
    <3> HIDE DEF c
    <3> QED
      BY <3>1
  <2> HIDE DEF first, c
  <2>4. longer \in Seq(S) /\ IsInjective(longer) /\ ToSet(longer) = first(k)
    <3>1. CASE marks[k] \in ToSet(acc)
      BY <2>1, <2>3, <3>1
    <3>2. CASE marks[k] \notin ToSet(acc)
      <4>1. longer = Append(acc, marks[k])
        BY <3>2
      <4>2. longer \in Seq(S)
        BY <2>1, <2>2, <4>1
      <4> QED
        BY <2>1, <2>2, <2>3, <3>2, <4>1, <4>2, ToSetAppend
    <3> QED
      BY <3>1, <3>2
  <2> HIDE DEF longer
  <2>5. <<k, longer>> \in I
    BY <2>2, <2>4
  <2> QED
    BY <2>5 DEF longer
<1>5. <<n, Distinct(marks)>> \in I
  <2> HIDE DEF I
  <2> QED
    BY <1>1, <1>2, <1>3, <1>4, DistinctFold!FoldKeeps
<1>6. first(n) = ToSet(marks)
  BY <1>1 DEF ToSet
<1> QED
  BY <1>5, <1>6

(* What Picks says, in the words of this module. *)
LEMMA KeptSet ==
  ASSUME NEW S, NEW T, NEW list \in Seq(S), NEW kept \in Seq(S), NEW place,
         GoodFold!Picks(place, kept, list, Len(list), T)
  PROVE  /\ ToSet(kept) = ToSet(list) \cap T
         /\ IsInjective(list) => IsInjective(kept)
<1> DEFINE n == Len(list)
           m == Len(kept)
<1>1. n \in Nat /\ m \in Nat /\ DOMAIN list = 1..n /\ DOMAIN kept = 1..m
  OBVIOUS
<1>2. /\ \A i \in 1..m : place[i] \in 1..n /\ kept[i] = list[place[i]] /\ kept[i] \in T
      /\ \A i, j \in 1..m : i < j => place[i] < place[j]
      /\ \A k \in 1..n : list[k] \in T => \E i \in 1..m : place[i] = k
  BY DEF GoodFold!Picks
<1> HIDE DEF n, m
<1>3. ToSet(kept) = ToSet(list) \cap T
  <2>1. ASSUME NEW e \in ToSet(kept) PROVE e \in ToSet(list) /\ e \in T
    BY <1>1, <1>2 DEF ToSet
  <2>2. ASSUME NEW e \in ToSet(list), e \in T PROVE e \in ToSet(kept)
    <3>1. PICK k \in 1..n : list[k] = e
      BY <1>1 DEF ToSet
    <3>2. PICK i \in 1..m : place[i] = k
      BY <1>2, <2>2, <3>1
    <3>3. kept[i] = e
      BY <1>2, <3>1, <3>2
    <3> QED
      BY <1>1, <3>3 DEF ToSet
  <2> QED
    BY <2>1, <2>2
<1>4. ASSUME IsInjective(list), NEW i \in 1..m, NEW j \in 1..m, kept[i] = kept[j]
      PROVE  i = j
  <2>1. place[i] = place[j]
    BY <1>1, <1>2, <1>4 DEF IsInjective
  <2>2. place[i] \in Nat /\ ~(i < j) /\ ~(j < i)
    BY <1>1, <1>2, <2>1
  <2> QED
    BY <1>1, <2>2
<1> QED
  BY <1>1, <1>3, <1>4 DEF IsInjective

LEMMA GoodIs ==
  ASSUME NEW list \in Seq(Nat)
  PROVE  /\ Kept(Resolves, list) \in Seq(Nat)
         /\ ToSet(Kept(Resolves, list)) = ToSet(list) \cap DOMAIN Included
         /\ IsInjective(list) => IsInjective(Kept(Resolves, list))
<1>1. Kept(Resolves, list) = GoodFold!Folded(<<>>, list)
  BY DEF Kept, GoodFold!Folded, FoldLeft, MapThenFoldSet, Max, GoodFold!Greatest
<1>2. \A acc : \A e \in Nat : (IF Resolves(e) THEN Append(acc, e) ELSE acc)
                                = IF e \in DOMAIN Included THEN Append(acc, e) ELSE acc
  BY DEF Resolves
<1>3. /\ Kept(Resolves, list) \in Seq(Nat)
      /\ \E place : GoodFold!Picks(place, Kept(Resolves, list), list, Len(list), DOMAIN Included)
  BY <1>1, <1>2, GoodFold!FilterPicks
<1> QED
  BY <1>3, KeptSet

LEMMA UnresolvedIs ==
  ASSUME NEW list \in Seq(Nat)
  PROVE  ToSet(Kept(LAMBDA mark : ~Resolves(mark), list)) = ToSet(list) \ DOMAIN Included
<1> DEFINE left == Kept(LAMBDA mark : ~Resolves(mark), list)
           T == Nat \ DOMAIN Included
<1>1. left = BadFold!Folded(<<>>, list)
  BY DEF Kept, BadFold!Folded, FoldLeft, MapThenFoldSet, Max, BadFold!Greatest
<1>2. \A acc : \A e \in Nat : (IF ~Resolves(e) THEN Append(acc, e) ELSE acc)
                                = IF e \in T THEN Append(acc, e) ELSE acc
  BY DEF Resolves
<1> HIDE DEF left, T
<1>3. left \in Seq(Nat) /\ \E place : BadFold!Picks(place, left, list, Len(list), T)
  BY <1>1, <1>2, BadFold!FilterPicks
<1>4. \E place : GoodFold!Picks(place, left, list, Len(list), T)
  BY <1>3 DEF BadFold!Picks, GoodFold!Picks
<1>5. ToSet(left) = ToSet(list) \cap T
  BY <1>3, <1>4, KeptSet
<1>6. ToSet(list) \subseteq Nat
  BY DEF ToSet
<1> QED
  BY <1>5, <1>6 DEF left, T

Phases == {"context", "no evidence", "ask", "answered"}

PromptTypes == DOMAIN prompt = {"phase", "history", "tokens"} /\ prompt.phase \in Phases

EvidenceInv ==
  /\ EvidenceTypes /\ PromptTypes /\ BudgetInv
  /\ prompt.phase \in {"ask", "answered"} => Included # <<>>
  /\ CitationsGrounded

LEMMA EvidenceInitInv == EvidenceInit => EvidenceInv
<1> SUFFICES ASSUME EvidenceInit PROVE EvidenceInv
  OBVIOUS
<1>1. /\ considered = <<>> /\ fates = <<>> /\ used = 0 /\ talk \in Seq(Nat)
      /\ prompt = [phase |-> "context", history |-> <<>>, tokens |-> 0]
  BY EvidenceConstants DEF EvidenceInit
<1>2. EvidenceTypes /\ PromptTypes
  BY <1>1 DEF EvidenceTypes, PromptTypes, Phases
<1>3. Included = <<>>
  <2>1. [i \in DOMAIN fates |-> i] = <<>>
    BY <1>1
  <2> QED
    BY <2>1, IncludedIsFold, IncludedFold!FoldEmpty
<1>4. CostsOf(considered, Included) = <<>> /\ DOMAIN Included = {} /\ Len(Included) = 0
  BY <1>3 DEF CostsOf
<1>5. MaxChunks \in Nat /\ EvidenceBudget \in Nat
  BY EvidenceConstants
<1>6. BudgetInv
  BY <1>1, <1>3, <1>4, <1>5, SumEmpty DEF BudgetInv
<1> QED
  BY <1>1, <1>2, <1>6 DEF EvidenceInv, CitationsGrounded

(* Nothing else is included or spent. *)
LEMMA BudgetSame ==
  ASSUME EvidenceTypes, BudgetInv, considered' = considered, fates' = fates, used' = used, talk' = talk
  PROVE  EvidenceTypes' /\ BudgetInv' /\ Included' = Included
<1>1. Included' = Included
  BY IncludedSame
<1>2. EvidenceBudget' = EvidenceBudget
  BY DEF EvidenceBudget
<1> QED
  BY <1>1, <1>2 DEF EvidenceTypes, BudgetInv

LEMMA AnswerGrounded ==
  ASSUME EvidenceInv, Answer
  PROVE  CitationsGrounded'
<1>1. PICK marks \in UNION {[1..n -> 0..MaxRetrieved] : n \in 0..2} :
        answer' = [marks |-> marks,
                   citations |-> [i \in DOMAIN Kept(Resolves, Distinct(marks)) |->
                                    considered[Included[Kept(Resolves, Distinct(marks))[i]]].id],
                   unresolved |-> Kept(LAMBDA mark : ~Resolves(mark), Distinct(marks))]
  BY DEF Answer
<1> DEFINE good == Kept(Resolves, Distinct(marks))
           left == Kept(LAMBDA mark : ~Resolves(mark), Distinct(marks))
           ids == [i \in DOMAIN good |-> considered[Included[good[i]]].id]
<1>2. marks \in Seq(Nat)
  <2>1. PICK n \in 0..2 : marks \in [1..n -> 0..MaxRetrieved]
    OBVIOUS
  <2>2. n \in Nat /\ \A i \in 1..n : marks[i] \in Nat
    BY <2>1, EvidenceConstants
  <2> QED
    BY <2>1, <2>2
<1>3. /\ Distinct(marks) \in Seq(Nat) /\ IsInjective(Distinct(marks))
      /\ ToSet(Distinct(marks)) = ToSet(marks)
  BY <1>2, DistinctIs
<1>4. /\ good \in Seq(Nat) /\ IsInjective(good)
      /\ ToSet(good) = ToSet(marks) \cap DOMAIN Included
  BY <1>3, GoodIs
<1>5. ToSet(left) = ToSet(marks) \ DOMAIN Included
  BY <1>3, UnresolvedIs
<1>6. answer'.marks = marks /\ answer'.citations = ids /\ answer'.unresolved = left
  BY <1>1
<1> HIDE DEF good, left
<1>7. \A i \in DOMAIN good : good[i] \in DOMAIN Included
  BY <1>4 DEF ToSet
<1>8. IsInjective(ids)
  <2> SUFFICES ASSUME NEW i \in DOMAIN good, NEW j \in DOMAIN good, ids[i] = ids[j] PROVE i = j
    BY DEF IsInjective
  <2>1. good[i] = good[j]
    BY <1>7 DEF EvidenceInv, BudgetInv
  <2> QED
    BY <1>4, <2>1 DEF IsInjective
<1>9. ToSet(ids) = {considered[Included[m]].id : m \in ToSet(marks) \cap DOMAIN Included}
  BY <1>4 DEF ToSet
<1>10. Included' = Included /\ considered' = considered /\ Included # <<>>
  BY IncludedSame DEF Answer, EvidenceInv
<1> HIDE DEF ids
<1> QED
  BY <1>5, <1>6, <1>8, <1>9, <1>10 DEF CitationsGrounded

LEMMA EvidenceStep == EvidenceInv /\ [EvidenceNext]_evidenceVars => EvidenceInv'
<1> SUFFICES ASSUME EvidenceInv, [EvidenceNext]_evidenceVars PROVE EvidenceInv'
  OBVIOUS
<1>1. CASE Consider
  <2>1. EvidenceTypes' /\ BudgetInv' /\ prompt' = prompt /\ prompt.phase = "context"
    BY <1>1, ConsiderTypes, ConsiderBudget DEF EvidenceInv, Consider
  <2> QED
    BY <2>1 DEF EvidenceInv, PromptTypes, CitationsGrounded
<1>2. CASE BuildPrompt
  <2>1. EvidenceTypes' /\ BudgetInv' /\ Included' = Included
    BY <1>2, BudgetSame DEF EvidenceInv, BuildPrompt
  <2>2. /\ PromptTypes' /\ prompt'.phase \in {"no evidence", "ask"}
        /\ prompt'.phase = "ask" => Included # <<>>
    <3>1. PICK query \in QueryTokens :
            prompt' = IF Included = <<>> THEN [prompt EXCEPT !.phase = "no evidence"]
                      ELSE [phase |-> "ask", history |-> History,
                            tokens |-> SystemPrompt + CharsOf(History) \div PerToken + used + query]
      BY <1>2 DEF BuildPrompt
    <3>2. CASE Included = <<>>
      BY <3>1, <3>2 DEF EvidenceInv, PromptTypes, Phases
    <3>3. CASE Included # <<>>
      <4> DEFINE tokens == SystemPrompt + CharsOf(History) \div PerToken + used + query
      <4>1. prompt' = [phase |-> "ask", history |-> History, tokens |-> tokens]
        BY <3>1, <3>3
      <4> HIDE DEF tokens
      <4> QED
        BY <3>3, <4>1 DEF PromptTypes, Phases
    <3> QED
      BY <3>2, <3>3
  <2> QED
    BY <2>1, <2>2 DEF EvidenceInv, CitationsGrounded
<1>3. CASE Answer
  <2>1. EvidenceTypes' /\ BudgetInv' /\ Included' = Included
    BY <1>3, BudgetSame DEF EvidenceInv, Answer
  <2>2. PromptTypes' /\ prompt.phase = "ask"
    BY <1>3 DEF EvidenceInv, Answer, PromptTypes, Phases
  <2> QED
    BY <1>3, <2>1, <2>2, AnswerGrounded DEF EvidenceInv
<1>4. CASE UNCHANGED evidenceVars
  <2>1. EvidenceTypes' /\ BudgetInv' /\ Included' = Included
    BY <1>4, BudgetSame DEF EvidenceInv, evidenceVars
  <2> QED
    BY <1>4, <2>1 DEF EvidenceInv, PromptTypes, CitationsGrounded, evidenceVars
<1> QED
  BY <1>1, <1>2, <1>3, <1>4 DEF EvidenceNext

(* What the budget keeps of the candidates, and the answer of what is included. *)
THEOREM EvidenceInvariant == EvidenceSpec => []EvidenceInv
BY EvidenceInitInv, EvidenceStep, PTL DEF EvidenceSpec

(* As many ids as places. *)
LEMMA IdsCounted ==
  ASSUME EvidenceTypes, BudgetInv
  PROVE  Cardinality(Ids(Included)) = Len(Included)
<1> DEFINE m == Len(Included)
           id == [k \in 1..m |-> considered[Included[k]].id]
<1>1. fates \in Seq(FateNames)
  BY DEF EvidenceTypes
<1>2. Included \in Seq(DOMAIN fates)
  BY <1>1, IncludedIs
<1>3. m \in Nat /\ DOMAIN Included = 1..m
  BY <1>2
<1> HIDE DEF m
<1>4. id \in Bijection(1..m, Ids(Included))
  <2>1. Ids(Included) = {id[k] : k \in 1..m}
    BY <1>3 DEF Ids, ToSet
  <2>2. id \in [1..m -> Ids(Included)]
    BY <2>1
  <2>3. \A j, k \in 1..m : id[j] = id[k] => j = k
    BY <1>3 DEF BudgetInv
  <2> HIDE DEF id
  <2> QED
    BY <2>1, <2>2, <2>3 DEF Bijection, Injection, Surjection, IsInjective
<1>5. ExistsBijection(1..m, Ids(Included))
  BY <1>4 DEF ExistsBijection
<1>6. Cardinality(Ids(Included)) = m
  BY <1>3, <1>5, FS_CountingElements
<1> QED
  BY <1>6 DEF m

(* For every setting and whatever is retrieved: the budget is kept, nothing is included twice,
   and nothing that has content and would fit is left out (build_context). *)
THEOREM BudgetIsKept == EvidenceSpec => []BudgetKept
<1>1. EvidenceInv => BudgetKept
  <2> SUFFICES ASSUME EvidenceInv PROVE BudgetKept
    OBVIOUS
  <2>1. Cardinality(Ids(Included)) = Len(Included)
    BY IdsCounted DEF EvidenceInv
  <2>2. used = SumOf([k \in DOMAIN Included |-> considered[Included[k]].cost])
    BY DEF EvidenceInv, BudgetInv, CostsOf
  <2> QED
    BY <2>1, <2>2, SeenIs DEF EvidenceInv, BudgetInv, BudgetKept
<1> QED
  BY <1>1, EvidenceInvariant, PTL

(* For every setting, whatever is retrieved and whatever marks the model writes: what the answer
   cites was in its prompt, and every mark is resolved or reported (extract_and_validate). *)
THEOREM CitationsAreGrounded == EvidenceSpec => []CitationsGrounded
<1>1. EvidenceInv => CitationsGrounded
  BY DEF EvidenceInv
<1> QED
  BY <1>1, EvidenceInvariant, PTL

-----------------------------------------------------------------------------
(* The history part of build_prompt *)

(* A bounded set of numbers has a greatest one. *)
LEMMA GreatestOne ==
  ASSUME NEW w \in Nat, NEW S \in SUBSET (0..w), S # {}
  PROVE  \E m \in S : \A k \in S : k <= m
<1> DEFINE R == {w - k : k \in S}
<1>1. \A k \in S : k \in Nat /\ k <= w
  OBVIOUS
<1>2. R \in SUBSET Nat /\ R # {}
  <2>1. \A k \in S : w - k \in Nat
    BY <1>1
  <2>2. PICK k \in S : TRUE
    OBVIOUS
  <2> QED
    BY <2>1, <2>2
<1>3. PICK r \in R : \A k \in R : r <= k
  <2> HIDE DEF R
  <2> QED
    BY <1>2, LeastOne
<1>4. PICK m \in S : r = w - m
  BY <1>3
<1>5. ASSUME NEW k \in S PROVE k <= m
  <2>1. w - m <= w - k
    BY <1>3, <1>4
  <2> QED
    BY <1>1, <2>1
<1> QED
  BY <1>5

(* The newest n of the conversation, and their characters. *)
LEMMA NewestIs ==
  ASSUME talk \in Seq(Nat), NEW n \in 0..Len(talk)
  PROVE  /\ Newest(n) \in Seq(Nat) /\ Len(Newest(n)) = n
         /\ \A i \in 1..n : Newest(n)[i] = Len(talk) - n + i
         /\ CharsOf(Newest(n)) \in Nat
<1> DEFINE L == Len(talk)
           id == [i \in DOMAIN talk |-> i]
<1>1. L \in Nat /\ DOMAIN talk = 1..L /\ n \in Nat /\ n <= L
  OBVIOUS
<1> HIDE DEF L
<1>2. id \in Seq(Nat) /\ Len(id) = L /\ \A i \in 1..L : id[i] = i
  BY <1>1
<1> HIDE DEF id
<1>3. L - n + 1 \in Int /\ \A i \in (L - n + 1)..L : id[i] \in Nat
  BY <1>1, <1>2
<1>4. Newest(n) = SubSeq(id, L - n + 1, L)
  BY DEF Newest, L, id
<1>5. /\ Newest(n) \in Seq(Nat)
      /\ Len(Newest(n)) = IF L - n + 1 <= L THEN L - (L - n + 1) + 1 ELSE 0
      /\ \A i \in 1..(L - (L - n + 1) + 1) : Newest(n)[i] = id[(L - n + 1) + i - 1]
  BY <1>1, <1>3, <1>4, SubSeqProperties
<1>6. Len(Newest(n)) = n /\ \A i \in 1..n : Newest(n)[i] = L - n + i
  BY <1>1, <1>2, <1>5
<1>7. CharsOf(Newest(n)) \in Nat
  <2> DEFINE sizes == [k \in DOMAIN Newest(n) |-> talk[Newest(n)[k]]]
  <2>1. DOMAIN Newest(n) = 1..n
    BY <1>5, <1>6
  <2>2. \A k \in 1..n : Newest(n)[k] \in 1..L
    BY <1>1, <1>6
  <2>3. sizes \in Seq(Nat)
    BY <1>1, <2>1, <2>2
  <2> HIDE DEF sizes
  <2>4. SumOf(sizes) \in Nat
    BY <2>3, SumType
  <2> QED
    BY <2>4 DEF CharsOf, sizes
<1> QED
  BY <1>5, <1>6, <1>7 DEF L

(* In a conversation that is listed whole, History is the newest messages: as many as fit. *)
LEMMA HistoryIs ==
  ASSUME talk \in Seq(Nat), Len(talk) <= ListLimit
  PROVE  \E g \in 0..Min({Window, Len(talk)}) :
           /\ History = Newest(g) /\ CharsOf(Newest(g)) <= MaxHistory
           /\ \A n \in (g + 1)..Min({Window, Len(talk)}) : CharsOf(Newest(n)) > MaxHistory
<1> DEFINE L == Len(talk)
           from == Max({1, Len(Listed) - Window + 1})
           last == SubSeq(Listed, from, Len(Listed))
           w == Len(last)
           newest(n) == SubSeq(last, Len(last) - n + 1, Len(last))
           Fit(n) == /\ CharsOf(newest(n)) <= MaxHistory
                     /\ \A m \in (n + 1)..Len(last) : CharsOf(newest(m)) > MaxHistory
<1>1. /\ L \in Nat /\ DOMAIN talk = 1..L /\ ListLimit \in Nat /\ Window \in Nat /\ MaxHistory \in Nat
      /\ L <= ListLimit
  BY EvidenceConstants
<1> HIDE DEF L
<1>2. Listed \in Seq(Nat) /\ Len(Listed) = L /\ \A i \in 1..L : Listed[i] = i
  <2>1. Min({ListLimit, L}) = L
    BY <1>1, MinOfTwo
  <2>2. Listed = [i \in 1..L |-> i]
    BY <2>1 DEF Listed, L
  <2> QED
    BY <1>1, <2>2
<1>3. /\ from \in Nat /\ from = IF Window <= L THEN L - Window + 1 ELSE 1
  <2>1. Max({1, L - Window + 1}) = IF 1 >= L - Window + 1 THEN 1 ELSE L - Window + 1
    <3>1. L - Window + 1 \in Int
      BY <1>1
    <3> QED
      BY <3>1 DEF Max
  <2>2. from = Max({1, L - Window + 1})
    BY <1>2
  <2> QED
    BY <1>1, <2>1, <2>2
<1>4. /\ Min({Window, L}) = IF Window <= L THEN Window ELSE L
  BY <1>1, MinOfTwo
<1> HIDE DEF from
<1>5. /\ last \in Seq(Nat) /\ w = Min({Window, L}) /\ w \in 0..L
      /\ \A i \in 1..w : last[i] = L - w + i
  <2>1. \A i \in from..L : Listed[i] \in Nat
    BY <1>1, <1>2, <1>3
  <2>2. /\ last \in Seq(Nat)
        /\ w = IF from <= L THEN L - from + 1 ELSE 0
        /\ \A i \in 1..(L - from + 1) : last[i] = Listed[from + i - 1]
    <3>1. last = SubSeq(Listed, from, L)
      BY <1>2
    <3> QED
      BY <1>1, <1>3, <2>1, <3>1, SubSeqProperties
  <2> HIDE DEF last, w
  <2>3. CASE Window <= L
    <3>1. from = L - Window + 1 /\ w = Window /\ L - from + 1 = w
      BY <1>1, <1>3, <2>2, <2>3
    <3>2. ASSUME NEW i \in 1..w PROVE last[i] = L - w + i
      <4>1. from + i - 1 = L - w + i /\ from + i - 1 \in 1..L /\ i \in 1..(L - from + 1)
        BY <1>1, <2>3, <3>1
      <4> QED
        BY <1>2, <2>2, <4>1
    <3> QED
      BY <1>1, <1>4, <2>2, <2>3, <3>1, <3>2
  <2>4. CASE ~(Window <= L)
    <3>1. from = 1 /\ w = L /\ L - from + 1 = L
      BY <1>1, <1>3, <2>2, <2>4
    <3>2. ASSUME NEW i \in 1..w PROVE last[i] = L - w + i
      <4>1. from + i - 1 = i /\ L - w + i = i /\ i \in 1..L
        BY <1>1, <3>1
      <4> QED
        BY <1>2, <2>2, <3>1, <4>1
    <3> QED
      BY <1>1, <1>4, <2>2, <2>4, <3>1, <3>2
  <2> QED
    BY <2>3, <2>4
<1> HIDE DEF last, w
<1>6. ASSUME NEW n \in 0..w PROVE newest(n) = Newest(n)
  <2>1. w - n + 1 \in Int /\ w \in Int /\ \A i \in (w - n + 1)..w : last[i] \in Nat
    <3>1. w \in Nat /\ n \in Nat /\ n <= w /\ w <= L
      BY <1>1, <1>5
    <3>2. \A i \in (w - n + 1)..w : i \in 1..w
      BY <3>1
    <3>3. \A i \in 1..w : L - w + i \in Nat
      BY <1>1, <3>1
    <3>4. \A i \in 1..w : last[i] \in Nat
      BY <1>5, <3>3
    <3>5. w - n + 1 \in Int /\ w \in Int
      BY <3>1
    <3> HIDE DEF newest
    <3> QED
      BY <3>2, <3>4, <3>5
  <2>2. /\ newest(n) \in Seq(Nat)
        /\ Len(newest(n)) = IF w - n + 1 <= w THEN w - (w - n + 1) + 1 ELSE 0
        /\ \A i \in 1..(w - (w - n + 1) + 1) : newest(n)[i] = last[(w - n + 1) + i - 1]
    <3>1. newest(n) = SubSeq(last, w - n + 1, w)
      BY DEF w
    <3> HIDE DEF newest
    <3>2. SubSeq(last, w - n + 1, w) \in Seq(Nat)
      BY <1>5, <2>1, SubSeqProperties
    <3>3. Len(SubSeq(last, w - n + 1, w)) = IF w - n + 1 <= w THEN w - (w - n + 1) + 1 ELSE 0
      BY <1>5, <2>1, SubSeqProperties
    <3>4. \A i \in 1..(w - (w - n + 1) + 1) :
            SubSeq(last, w - n + 1, w)[i] = last[(w - n + 1) + i - 1]
      <4>1. \A j \in Int : SubSeq(last, j, w) = [i \in 1..(w - j + 1) |-> last[j + i - 1]]
        BY <2>1
      <4> DEFINE j == w - n + 1
      <4>2. j \in Int
        BY <2>1
      <4> HIDE DEF j
      <4>3. \A i \in 1..(w - j + 1) : SubSeq(last, j, w)[i] = last[j + i - 1]
        BY <4>1, <4>2
      <4> QED
        BY <4>3 DEF j
    <3> QED
      BY <3>1, <3>2, <3>3, <3>4
  <2> DEFINE a == newest(n)
  <2> HIDE DEF newest
  <2>3. a \in Seq(Nat) /\ Len(a) = n /\ \A i \in 1..n : a[i] = L - n + i
    <3>1. w \in Nat /\ n \in Nat /\ n <= w /\ w <= L
      BY <1>1, <1>5
    <3>2. Len(a) = n /\ w - (w - n + 1) + 1 = n
      BY <2>2, <3>1
    <3>3. ASSUME NEW i \in 1..n PROVE a[i] = L - n + i
      <4>1. (w - n + 1) + i - 1 \in 1..w /\ (w - n + 1) + i - 1 = w - n + i
        BY <3>1
      <4>2. a[i] = last[w - n + i]
        BY <2>2, <3>2, <4>1
      <4>3. last[w - n + i] = L - w + (w - n + i)
        BY <1>5, <4>1
      <4> QED
        BY <1>1, <3>1, <4>2, <4>3
    <3> QED
      BY <2>2, <3>2, <3>3
  <2> HIDE DEF a
  <2>4. n \in 0..Len(talk)
    BY <1>1, <1>5 DEF L
  <2>5. /\ Newest(n) \in Seq(Nat) /\ Len(Newest(n)) = n
        /\ \A i \in 1..n : Newest(n)[i] = L - n + i
    BY <2>4, NewestIs DEF L
  <2>6. a = Newest(n)
    BY <2>3, <2>5, SeqEqual
  <2> QED
    BY <2>6 DEF a
<1>7. ASSUME NEW n \in 0..w PROVE CharsOf(newest(n)) = CharsOf(Newest(n)) /\ CharsOf(Newest(n)) \in Nat
  <2>1. n \in 0..Len(talk)
    BY <1>1, <1>5 DEF L
  <2> HIDE DEF newest
  <2> QED
    BY <1>6, <2>1, NewestIs
<1>8. \E n \in 0..w : Fit(n)
  <2> DEFINE S == {n \in 0..w : CharsOf(newest(n)) <= MaxHistory}
  <2> HIDE DEF newest
  <2>1. 0 \in S
    <3>1. 0 \in 0..w /\ 0 \in 0..Len(talk)
      BY <1>1, <1>5 DEF L
    <3>2. Newest(0) = <<>>
      BY <3>1, NewestIs
    <3>3. CharsOf(<<>>) = 0
      <4>1. [k \in DOMAIN <<>> |-> talk[<<>>[k]]] = <<>>
        OBVIOUS
      <4> QED
        BY <4>1, SumEmpty DEF CharsOf
    <3> QED
      BY <1>1, <1>7, <3>1, <3>2, <3>3
  <2>2. w \in Nat
    BY <1>5
  <2>3. PICK g \in S : \A k \in S : k <= g
    <3>1. S \in SUBSET (0..w) /\ S # {}
      BY <2>1
    <3> HIDE DEF S
    <3> QED
      BY <2>2, <3>1, GreatestOne
  <2>4. ASSUME NEW m \in (g + 1)..w PROVE CharsOf(newest(m)) > MaxHistory
    <3>1. m \in 0..w /\ ~(m <= g)
      BY <2>2, <2>3
    <3>2. m \notin S
      BY <2>3, <3>1
    <3> QED
      BY <1>1, <1>7, <3>1, <3>2
  <2> QED
    BY <2>3, <2>4 DEF w
<1> DEFINE most == CHOOSE n \in 0..Len(last) : Fit(n)
<1>9. most \in 0..w /\ Fit(most)
  <2> HIDE DEF Fit
  <2> QED
    BY <1>8 DEF w
<1>10. History = newest(most)
  BY DEF History, last, from
<1> HIDE DEF most
<1>11. \A m \in (most + 1)..w : m \in 0..w
  BY <1>5, <1>9
<1>12. History = Newest(most) /\ CharsOf(Newest(most)) <= MaxHistory
  BY <1>6, <1>7, <1>9, <1>10
<1>13. ASSUME NEW n \in (most + 1)..w PROVE CharsOf(Newest(n)) > MaxHistory
  <2>1. CharsOf(newest(n)) > MaxHistory
    BY <1>9 DEF w
  <2> HIDE DEF newest
  <2> QED
    BY <1>7, <1>11, <2>1
<1> QED
  BY <1>5, <1>9, <1>12, <1>13 DEF L

(* What the prompt is built with is not older than anything that would fit. *)
LEMMA PromptRemembers ==
  ASSUME EvidenceInv, BuildPrompt
  PROVE  ShortTalkRemembered'
<1> SUFFICES ASSUME prompt'.phase = "ask", Len(talk') <= ListLimit
             PROVE  NewestRemembered' /\ CharsOf(prompt.history)'  <= MaxHistory
  BY DEF ShortTalkRemembered
<1>1. talk' = talk /\ talk \in Seq(Nat)
  BY DEF BuildPrompt, EvidenceInv, EvidenceTypes
<1>2. prompt'.history = History
  <2>1. PICK query \in QueryTokens :
          prompt' = IF Included = <<>> THEN [prompt EXCEPT !.phase = "no evidence"]
                    ELSE [phase |-> "ask", history |-> History,
                          tokens |-> SystemPrompt + CharsOf(History) \div PerToken + used + query]
    BY DEF BuildPrompt
  <2>2. Included # <<>>
    BY <2>1 DEF EvidenceInv, PromptTypes
  <2> DEFINE tokens == SystemPrompt + CharsOf(History) \div PerToken + used + query
  <2>3. prompt' = [phase |-> "ask", history |-> History, tokens |-> tokens]
    BY <2>1, <2>2
  <2> HIDE DEF tokens
  <2> QED
    BY <2>3
<1> DEFINE most == Min({Window, Len(talk)})
<1>3. PICK g \in 0..most :
        /\ History = Newest(g) /\ CharsOf(Newest(g)) <= MaxHistory
        /\ \A n \in (g + 1)..most : CharsOf(Newest(n)) > MaxHistory
  BY <1>1, HistoryIs
<1>4. most \in Nat /\ most <= Len(talk) /\ MaxHistory \in Nat
  <2>1. Len(talk) \in Nat /\ Window \in Nat /\ MaxHistory \in Nat
    BY <1>1, EvidenceConstants
  <2>2. most = IF Window <= Len(talk) THEN Window ELSE Len(talk)
    BY <2>1, MinOfTwo
  <2> HIDE DEF most
  <2> QED
    BY <2>1, <2>2
<1> HIDE DEF most
<1>5. ASSUME NEW n \in 1..most, CharsOf(Newest(n)) <= MaxHistory
      PROVE  ToSet(Newest(n)) \subseteq ToSet(Newest(g))
  <2>1. n \in 0..Len(talk) /\ g \in 0..Len(talk) /\ n \in Nat /\ g \in Nat
    BY <1>1, <1>4
  <2>2. CharsOf(Newest(n)) \in Nat
    BY <1>1, <2>1, NewestIs
  <2>3. n <= g
    <3> SUFFICES ASSUME ~(n <= g) PROVE FALSE
      OBVIOUS
    <3>1. n \in (g + 1)..most
      BY <1>4, <2>1
    <3>2. CharsOf(Newest(n)) > MaxHistory
      BY <1>3, <3>1
    <3> QED
      BY <1>4, <1>5, <2>2, <3>2
  <2>4. /\ DOMAIN Newest(n) = 1..n /\ \A i \in 1..n : Newest(n)[i] = Len(talk) - n + i
        /\ DOMAIN Newest(g) = 1..g /\ \A i \in 1..g : Newest(g)[i] = Len(talk) - g + i
    BY <1>1, <2>1, NewestIs
  <2>5. ASSUME NEW i \in 1..n PROVE Newest(n)[i] = Newest(g)[g - n + i] /\ g - n + i \in 1..g
    <3>1. g - n + i \in 1..g
      BY <2>1, <2>3
    <3> QED
      BY <1>1, <2>1, <2>4, <3>1
  <2>6. /\ ToSet(Newest(n)) = {Newest(n)[i] : i \in 1..n}
        /\ ToSet(Newest(g)) = {Newest(g)[i] : i \in 1..g}
    BY <2>4 DEF ToSet
  <2> HIDE DEF Newest
  <2> QED
    BY <2>5, <2>6
<1>6. \A n : CharsOf(Newest(n))' = CharsOf(Newest(n)) /\ Newest(n)' = Newest(n)
  BY <1>1 DEF CharsOf, Newest
<1>7. CharsOf(prompt.history)' = CharsOf(Newest(g))
  BY <1>1, <1>2, <1>3 DEF CharsOf
<1>8. Min({Window, Len(talk')}) = most
  BY <1>1 DEF most
<1>9. NewestRemembered'
  BY <1>2, <1>3, <1>5, <1>6, <1>8 DEF NewestRemembered
<1> QED
  BY <1>3, <1>7, <1>9

(* For every window and allowance: in a conversation that is listed whole, the model sees the
   newest messages, as many as fit, and none is skipped (build_prompt). *)
THEOREM ShortTalkIsRemembered == EvidenceSpec => []ShortTalkRemembered
<1>1. EvidenceInit => ShortTalkRemembered
  BY DEF EvidenceInit, ShortTalkRemembered
<1>2. ASSUME EvidenceInv, ShortTalkRemembered, [EvidenceNext]_evidenceVars
      PROVE  ShortTalkRemembered'
  <2>1. CASE Consider
    BY <1>2, <2>1 DEF Consider, ShortTalkRemembered, NewestRemembered, CharsOf, Newest
  <2>2. CASE BuildPrompt
    BY <1>2, <2>2, PromptRemembers
  <2>3. CASE Answer
    <3>1. prompt'.phase = "answered"
      BY <1>2, <2>3 DEF Answer, EvidenceInv, PromptTypes
    <3> QED
      BY <3>1 DEF ShortTalkRemembered
  <2>4. CASE UNCHANGED evidenceVars
    BY <1>2, <2>4 DEF evidenceVars, ShortTalkRemembered, NewestRemembered, CharsOf, Newest
  <2> QED
    BY <1>2, <2>1, <2>2, <2>3, <2>4 DEF EvidenceNext
<1> QED
  BY <1>1, <1>2, EvidenceInvariant, PTL DEF EvidenceSpec

-----------------------------------------------------------------------------
(* Chunker: the headings an element stands under *)

LEMMA ChunkerConstants ==
  /\ Target \in Nat /\ Maximum \in Nat /\ Overlap \in Nat /\ MinSlice \in Nat
  /\ \A d \in Documents : d \in Seq(DocumentElement)
BY ChunkerAssumption

(* The last of the types between from and i is one of them, or there is none. *)
LEMMA LastOfIs ==
  ASSUME NEW T, NEW from \in Nat, NEW i \in Nat
  PROVE  LastOf(T, from, i) \in 0..i
<1> DEFINE found == {j \in (from + 1)..i : doc[j].type \in T}
<1>1. CASE found = {}
  BY <1>1 DEF LastOf
<1>2. CASE found # {}
  <2>1. found \in SUBSET (0..i)
    OBVIOUS
  <2> HIDE DEF found
  <2>2. \E j \in found : \A k \in found : k <= j
    BY <1>2, <2>1, GreatestOne
  <2>3. (CHOOSE j \in found : \A k \in found : k <= j) \in found
    BY <2>2
  <2>4. LastOf(T, from, i) = CHOOSE j \in found : \A k \in found : k <= j
    BY <1>2 DEF LastOf, found
  <2> QED
    BY <2>1, <2>3, <2>4
<1> QED
  BY <1>1, <1>2

LEMMA LastOfHere ==
  ASSUME NEW T, NEW from \in Nat, NEW i \in Nat, from < i, doc[i].type \in T
  PROVE  LastOf(T, from, i) = i
<1> DEFINE found == {j \in (from + 1)..i : doc[j].type \in T}
           P(j) == j \in found /\ \A k \in found : k <= j
<1>1. P(i)
  OBVIOUS
<1>2. ASSUME NEW j, P(j) PROVE j = i
  BY <1>1, <1>2
<1>3. LastOf(T, from, i) = CHOOSE j : P(j)
  BY <1>1 DEF LastOf
<1> HIDE DEF P
<1> QED
  BY <1>1, <1>2, <1>3

LEMMA LastOfSame ==
  ASSUME NEW T, NEW from \in Nat, NEW i \in Nat, i # 0, doc[i].type \notin T
  PROVE  LastOf(T, from, i) = LastOf(T, from, i - 1)
<1> DEFINE found(k) == {j \in (from + 1)..k : doc[j].type \in T}
<1>1. found(i) = found(i - 1)
  OBVIOUS
<1>2. \A k : LastOf(T, from, k) = IF found(k) = {} THEN 0
                                 ELSE CHOOSE j \in found(k) : \A m \in found(k) : m <= j
  BY DEF LastOf
<1> HIDE DEF found
<1> QED
  BY <1>1, <1>2

LEMMA LastOfNone == ASSUME NEW T, NEW i \in Nat PROVE LastOf(T, i, i) = 0
<1>1. {j \in (i + 1)..i : doc[j].type \in T} = {}
  OBVIOUS
<1> QED
  BY <1>1 DEF LastOf

(* The heading FiledRight asks of an element. *)
HeadingsAt(i) ==
  LET h1 == LastOf({"h1"}, 0, i) IN
  [h1 |-> h1, h2 |-> LastOf({"h2"}, h1, i), last |-> LastOf(Headings, 0, i)]

LEMMA HeadingsNone == HeadingsAt(0) = NoHeading
BY LastOfNone DEF HeadingsAt, NoHeading

LEMMA HeadingsEntered ==
  ASSUME NEW i \in Nat, i # 0, doc[i].type \in Headings, heading = HeadingsAt(i - 1)
  PROVE  EnterHeading(i) = HeadingsAt(i)
<1> DEFINE h1 == LastOf({"h1"}, 0, i - 1)
<1>1. i - 1 \in Nat /\ 0 < i /\ h1 \in Nat /\ h1 < i
  <2>1. i - 1 \in Nat
    OBVIOUS
  <2>2. h1 \in 0..(i - 1)
    BY <2>1, LastOfIs
  <2> QED
    BY <2>1, <2>2
<1>2. heading = [h1 |-> h1, h2 |-> LastOf({"h2"}, h1, i - 1), last |-> LastOf(Headings, 0, i - 1)]
  BY DEF HeadingsAt
<1>3. LastOf(Headings, 0, i) = i
  BY <1>1, LastOfHere
<1> HIDE DEF h1
<1>4. CASE doc[i].type = "h1"
  <2>1. LastOf({"h1"}, 0, i) = i
    BY <1>1, <1>4, LastOfHere
  <2>2. LastOf({"h2"}, i, i) = 0
    BY LastOfNone
  <2>3. EnterHeading(i) = [h1 |-> i, h2 |-> 0, last |-> i]
    BY <1>4 DEF EnterHeading
  <2> QED
    BY <1>3, <2>1, <2>2, <2>3 DEF HeadingsAt
<1>5. CASE doc[i].type = "h2"
  <2>1. LastOf({"h1"}, 0, i) = h1
    BY <1>5, LastOfSame DEF h1
  <2>2. LastOf({"h2"}, h1, i) = i
    BY <1>1, <1>5, LastOfHere
  <2>3. EnterHeading(i) = [h1 |-> heading.h1, h2 |-> i, last |-> i]
    BY <1>5 DEF EnterHeading
  <2>4. EnterHeading(i) = [h1 |-> h1, h2 |-> i, last |-> i]
    BY <1>2, <2>3
  <2> QED
    BY <1>3, <2>1, <2>2, <2>4 DEF HeadingsAt
<1>6. CASE doc[i].type = "h3"
  <2>1. LastOf({"h1"}, 0, i) = h1
    BY <1>6, LastOfSame DEF h1
  <2>2. LastOf({"h2"}, h1, i) = LastOf({"h2"}, h1, i - 1)
    BY <1>1, <1>6, LastOfSame
  <2>3. EnterHeading(i) = [heading EXCEPT !.last = i]
    BY <1>6 DEF EnterHeading
  <2>4. EnterHeading(i) = [h1 |-> h1, h2 |-> LastOf({"h2"}, h1, i - 1), last |-> i]
    BY <1>2, <2>3
  <2> QED
    BY <1>3, <2>1, <2>2, <2>4 DEF HeadingsAt
<1> QED
  BY <1>4, <1>5, <1>6 DEF Headings

LEMMA HeadingsKept ==
  ASSUME NEW i \in Nat, i # 0, doc[i].type \notin Headings
  PROVE  HeadingsAt(i) = HeadingsAt(i - 1)
<1> DEFINE h1 == LastOf({"h1"}, 0, i - 1)
<1>1. i - 1 \in Nat /\ h1 \in Nat
  <2>1. i - 1 \in Nat
    OBVIOUS
  <2>2. h1 \in 0..(i - 1)
    BY <2>1, LastOfIs
  <2> QED
    BY <2>1, <2>2
<1>2. LastOf({"h1"}, 0, i) = h1
  BY LastOfSame DEF Headings
<1> HIDE DEF h1
<1>3. LastOf({"h2"}, h1, i) = LastOf({"h2"}, h1, i - 1)
  BY <1>1, LastOfSame DEF Headings
<1>4. LastOf(Headings, 0, i) = LastOf(Headings, 0, i - 1)
  BY LastOfSame
<1> QED
  BY <1>2, <1>3, <1>4 DEF HeadingsAt, h1

-----------------------------------------------------------------------------
(* split_oversized_table *)

JoinFold == INSTANCE SequenceFolds WITH Op <- LAMBDA all, list : all \o list
SliceFold == INSTANCE SequenceFolds WITH Op <- LAMBDA state, row : Sliced(state, row)

LEMMA JoinedIsFold == ASSUME NEW s PROVE Joined(s) = JoinFold!Folded(<<>>, s)
BY DEF Joined, JoinFold!Folded, FoldLeft, MapThenFoldSet, Max, JoinFold!Greatest

LEMMA JoinedEmpty == Joined(<<>>) = <<>>
BY JoinedIsFold, JoinFold!FoldEmpty

LEMMA JoinedAppend ==
  ASSUME NEW S, NEW s \in Seq(S), NEW e \in S
  PROVE  Joined(Append(s, e)) = Joined(s) \o e
<1>1. JoinFold!Folded(<<>>, Append(s, e)) = JoinFold!Folded(<<>>, s) \o e
  BY JoinFold!FoldAppend
<1> QED
  BY <1>1, JoinedIsFold

LEMMA AppendConcat ==
  ASSUME NEW S, NEW s \in Seq(S), NEW t \in Seq(S), NEW e \in S
  PROVE  s \o Append(t, e) = Append(s \o t, e)
<1>1. s \o Append(t, e) \in Seq(S) /\ Append(s \o t, e) \in Seq(S)
  BY ConcatProperties
<1>2. Len(s \o Append(t, e)) = Len(Append(s \o t, e))
  OBVIOUS
<1>3. ASSUME NEW i \in 1..Len(s \o Append(t, e)) PROVE (s \o Append(t, e))[i] = Append(s \o t, e)[i]
  OBVIOUS
<1> QED
  BY <1>1, <1>2, <1>3, SeqEqual

LEMMA ChargeAppend ==
  ASSUME NEW r \in Seq(Nat), NEW x \in Nat
  PROVE  Charge(r) \in Nat /\ Charge(Append(r, x)) = Charge(r) + x + 1
<1>1. SumOf(r) \in Nat /\ SumOf(Append(r, x)) = SumOf(r) + x
  BY SumType, SumAppend
<1>2. Len(r) \in Nat /\ Len(Append(r, x)) = Len(r) + 1
  OBVIOUS
<1> QED
  BY <1>1, <1>2 DEF Charge

LEMMA TableSizes ==
  ASSUME NEW header \in Nat, NEW rows \in Seq(Nat)
  PROVE  TableSize(header, rows) \in Nat /\ TableSize(header, rows) <= header + Charge(rows)
<1>1. SumOf(rows) \in Nat /\ Len(rows) \in Nat /\ (rows # <<>> => Len(rows) >= 1)
  BY SumType
<1>2. Charge(rows) \in Nat /\ (rows # <<>> => Charge(rows) >= 1)
  BY <1>1 DEF Charge
<1> QED
  BY <1>2 DEF TableSize

TableElement == [type : {"table"}, header : Nat, rows : Seq(Nat)]

(* A slice is within the maximum with its header, or it cannot be cut further. *)
Bounded(table, rows) == Len(rows) <= 1 \/ TableSize(table.header, rows) <= Maximum

(* A row more. *)
LEMMA SliceGrows ==
  ASSUME NEW table \in TableElement, NEW rows \in Seq(Nat), NEW row \in Nat,
         ~CutBefore(table, rows, row)
  PROVE  Bounded(table, Append(rows, row))
<1>1. CASE rows = <<>>
  BY <1>1 DEF Bounded
<1>2. CASE rows # <<>>
  <2>1. ~(table.header + Charge(rows) + row + 1 > Maximum)
    BY <1>2 DEF CutBefore
  <2>2. /\ Charge(rows) \in Nat /\ Charge(Append(rows, row)) = Charge(rows) + row + 1
        /\ table.header \in Nat /\ Maximum \in Nat
    BY ChargeAppend, ChunkerConstants DEF TableElement
  <2>3. /\ TableSize(table.header, Append(rows, row)) \in Nat
        /\ TableSize(table.header, Append(rows, row)) <= table.header + Charge(Append(rows, row))
    <3>1. Append(rows, row) \in Seq(Nat)
      OBVIOUS
    <3> QED
      BY <2>2, <3>1, TableSizes
  <2> QED
    BY <2>1, <2>2, <2>3 DEF Bounded
<1> QED
  BY <1>1, <1>2

(* The slices hold the rows, each once and in their order. *)
LEMMA SlicesAre ==
  ASSUME NEW table \in TableElement
  PROVE  /\ SlicesOf(table) \in Seq(Seq(Nat))
         /\ Joined(SlicesOf(table)) = table.rows
         /\ \A s \in DOMAIN SlicesOf(table) : Bounded(table, SlicesOf(table)[s])
<1> DEFINE G == {r \in Seq(Nat) : Bounded(table, r)}
           n == Len(table.rows)
           States == [table : {table}, done : Seq(G), rows : G]
           Whole(k, st) == Joined(st.done) \o st.rows = SubSeq(table.rows, 1, k)
           I == {x \in (0..n) \X States : Whole(x[1], x[2])}
           start == [table |-> table, done |-> <<>>, rows |-> <<>>]
           end == SliceFold!Folded(start, table.rows)
<1>1. /\ table.rows \in Seq(Nat) /\ table.header \in Nat /\ n \in Nat
      /\ DOMAIN table.rows = 1..n /\ \A k \in 1..n : table.rows[k] \in Nat
  BY DEF TableElement
<1>2. \A st \in States : /\ st.table = table /\ st.done \in Seq(G) /\ st.rows \in G
                         /\ st.rows \in Seq(Nat) /\ Bounded(table, st.rows)
  OBVIOUS
<1>3. <<>> \in G
  BY DEF Bounded
<1>4. \A s \in Seq(G) : s \in Seq(Seq(Nat)) /\ \A i \in DOMAIN s : Bounded(table, s[i])
  OBVIOUS
<1>5. ASSUME NEW s \in Seq(G), NEW r \in G PROVE Joined(Append(s, r)) = Joined(s) \o r
  BY JoinedAppend
<1>6. \A s \in Seq(G) : Joined(s) \in Seq(Nat)
  <2> SUFFICES ASSUME NEW s \in Seq(G) PROVE Joined(s) \in Seq(Nat)
    OBVIOUS
  <2> DEFINE J == {x \in (0..Len(s)) \X Seq(Nat) : TRUE}
  <2>1. Len(s) \in Nat /\ DOMAIN s = 1..Len(s) /\ \A k \in 1..Len(s) : s[k] \in Seq(Nat)
    OBVIOUS
  <2>2. <<0, <<>>>> \in J
    <3>1. 0 \in 0..Len(s) /\ <<>> \in Seq(Nat)
      BY <2>1
    <3> QED
      BY <3>1
  <2>3. ASSUME NEW k \in 1..Len(s), NEW all, <<k - 1, all>> \in J PROVE <<k, all \o s[k]>> \in J
    <3>1. all \in Seq(Nat) /\ s[k] \in Seq(Nat) /\ k \in 0..Len(s)
      BY <2>1, <2>3
    <3>2. all \o s[k] \in Seq(Nat)
      BY <3>1, ConcatProperties
    <3> QED
      BY <3>1, <3>2
  <2> HIDE DEF J
  <2>4. <<Len(s), JoinFold!Folded(<<>>, s)>> \in J
    BY <2>1, <2>2, <2>3, JoinFold!FoldKeeps
  <2> QED
    BY <2>4, JoinedIsFold DEF J
<1> HIDE DEF G, n
<1>7. <<0, start>> \in I
  <2>1. 0 \in 0..n /\ start \in States
    BY <1>1, <1>3
  <2>2. SubSeq(table.rows, 1, 0) = <<>>
    BY <1>1
  <2>3. Whole(0, start)
    <3>1. start.done = <<>> /\ start.rows = <<>> /\ <<>> \o <<>> = <<>>
      OBVIOUS
    <3> HIDE DEF start
    <3> QED
      BY <2>2, <3>1, JoinedEmpty
  <2> QED
    BY <2>1, <2>3
<1>8. ASSUME NEW k \in 1..n, NEW st, <<k - 1, st>> \in I
      PROVE  <<k, Sliced(st, table.rows[k])>> \in I
  <2> DEFINE row == table.rows[k]
             next1 == Sliced(st, row)
             before == SubSeq(table.rows, 1, k - 1)
  <2>1. st \in States /\ Whole(k - 1, st) /\ row \in Nat /\ k \in 0..n
    <3>1. row \in Nat /\ k \in 0..n
      BY <1>1
    <3> HIDE DEF Whole, States
    <3> QED
      BY <1>8, <3>1
  <2>2. SubSeq(table.rows, 1, k) = Append(before, row) /\ before \in Seq(Nat)
    <3>1. k - 1 \in 0..n /\ k \in Nat
      BY <1>1
    <3> QED
      BY <1>1, <3>1
  <2>3. st.table = table /\ st.done \in Seq(G) /\ st.rows \in G /\ st.rows \in Seq(Nat)
    BY <1>2, <2>1
  <2>4. Joined(st.done) \in Seq(Nat) /\ before = Joined(st.done) \o st.rows
    BY <1>6, <2>1, <2>3
  <2> HIDE DEF row, before
  <2>5. CASE CutBefore(table, st.rows, row)
    <3>1. next1 = [table |-> st.table, done |-> Append(st.done, st.rows), rows |-> <<row>>]
      BY <2>3, <2>5 DEF Sliced
    <3>2. <<row>> \in G
      BY <2>1 DEF G, Bounded
    <3>3. Append(st.done, st.rows) \in Seq(G)
      BY <2>3
    <3>4. next1 \in States
      BY <2>3, <3>1, <3>2, <3>3
    <3>5. Joined(Append(st.done, st.rows)) = before
      BY <1>5, <2>3, <2>4
    <3>6. before \o <<row>> = Append(before, row)
      BY <2>1, <2>2
    <3>7. Whole(k, next1)
      BY <2>2, <3>1, <3>5, <3>6 DEF row, before
    <3> QED
      BY <2>1, <3>4, <3>7 DEF row
  <2>6. CASE ~CutBefore(table, st.rows, row)
    <3>1. next1 = [st EXCEPT !.rows = Append(@, row)]
      BY <2>3, <2>6 DEF Sliced
    <3>2. Append(st.rows, row) \in G
      BY <2>1, <2>3, <2>6, SliceGrows DEF G
    <3>3. next1 \in States /\ next1.done = st.done /\ next1.rows = Append(st.rows, row)
      BY <2>1, <3>1, <3>2
    <3>4. Joined(st.done) \o Append(st.rows, row) = Append(Joined(st.done) \o st.rows, row)
      <4>1. \A s, t \in Seq(Nat) : s \o Append(t, row) = Append(s \o t, row)
        BY <2>1, AppendConcat
      <4> QED
        BY <2>3, <2>4, <4>1, Zenon
    <3>5. Whole(k, next1)
      BY <2>2, <2>4, <3>3, <3>4 DEF row, before
    <3> QED
      BY <2>1, <3>3, <3>5 DEF row
  <2> QED
    BY <2>5, <2>6
<1>9. <<n, end>> \in I
  <2> HIDE DEF I, start
  <2> QED
    BY <1>1, <1>7, <1>8, SliceFold!FoldKeeps
<1>10. end = FoldLeft(Sliced, start, table.rows)
  BY DEF SliceFold!Folded, FoldLeft, MapThenFoldSet, Max, SliceFold!Greatest
<1> HIDE DEF end
<1>11. end \in States /\ Joined(end.done) \o end.rows = table.rows
  <2>1. SubSeq(table.rows, 1, n) = table.rows
    BY <1>1 DEF n
  <2> QED
    BY <1>9, <2>1
<1>12. end.done \in Seq(G) /\ end.rows \in G /\ Joined(end.done) \in Seq(Nat) /\ end.rows \in Seq(Nat)
  BY <1>2, <1>6, <1>11
<1>13. CASE TableSize(table.header, table.rows) <= Maximum
  <2>1. SlicesOf(table) = <<table.rows>>
    BY <1>13 DEF SlicesOf
  <2>2. Joined(<<table.rows>>) = table.rows
    <3>1. <<>> \in Seq(Seq(Nat)) /\ <<table.rows>> = Append(<<>>, table.rows)
      OBVIOUS
    <3>2. Joined(<<table.rows>>) = <<>> \o table.rows
      BY <1>1, <3>1, JoinedAppend, JoinedEmpty
    <3> QED
      BY <1>1, <3>2
  <2>3. Bounded(table, table.rows)
    BY <1>13 DEF Bounded
  <2> QED
    BY <1>1, <2>1, <2>2, <2>3
<1>14. CASE ~(TableSize(table.header, table.rows) <= Maximum)
  <2>1. SlicesOf(table) = IF end.rows # <<>> \/ end.done = <<>> THEN Append(end.done, end.rows) ELSE end.done
    BY <1>10, <1>14 DEF SlicesOf, start
  <2>2. CASE end.rows # <<>> \/ end.done = <<>>
    <3>1. SlicesOf(table) = Append(end.done, end.rows)
      BY <2>1, <2>2
    <3>2. Append(end.done, end.rows) \in Seq(G)
      BY <1>12
    <3> QED
      BY <1>4, <1>5, <1>11, <1>12, <3>1, <3>2
  <2>3. CASE ~(end.rows # <<>> \/ end.done = <<>>)
    <3>1. SlicesOf(table) = end.done
      BY <2>1, <2>3
    <3>2. Joined(end.done) \o <<>> = Joined(end.done)
      BY <1>12
    <3> QED
      BY <1>4, <1>11, <1>12, <2>3, <3>1, <3>2
  <2> QED
    BY <2>2, <2>3
<1> QED
  BY <1>13, <1>14

-----------------------------------------------------------------------------
(* flush_accumulator: the pieces, their sizes and the text among them *)

Valid == UNION {Pieces(i) : i \in DOMAIN doc}
Sized == {p \in Valid : PieceSize(p) > 0}

LEMMA ValidIs ==
  ASSUME doc \in Seq(DocumentElement), NEW p \in Valid
  PROVE  /\ p[1] \in DOMAIN doc /\ p[1] \in Nat /\ p[2] \in Nat /\ p = <<p[1], p[2]>>
         /\ p \in Pieces(p[1])
         /\ PieceSize(p) \in Nat
<1>1. PICK i \in DOMAIN doc : p \in Pieces(i)
  BY DEF Valid
<1>2. i \in Nat /\ doc[i] \in DocumentElement
  OBVIOUS
<1>3. CASE doc[i].type = "table"
  <2>1. doc[i] \in TableElement
    BY <1>2, <1>3 DEF DocumentElement, TableElement, Headings
  <2>2. PICK s \in DOMAIN SlicesOf(doc[i]) : p = <<i, s>>
    BY <1>1, <1>3 DEF Pieces
  <2>3. SlicesOf(doc[i]) \in Seq(Seq(Nat))
    BY <2>1, SlicesAre
  <2>4. s \in Nat /\ SlicesOf(doc[i])[s] \in Seq(Nat)
    BY <2>3
  <2>5. TableSize(doc[i].header, SlicesOf(doc[i])[s]) \in Nat
    BY <2>1, <2>4, TableSizes DEF TableElement
  <2>6. PieceSize(p) = TableSize(doc[i].header, SlicesOf(doc[i])[s])
    BY <1>3, <2>2 DEF PieceSize
  <2> QED
    BY <1>1, <1>2, <2>2, <2>4, <2>5, <2>6
<1>4. CASE doc[i].type # "table"
  <2>1. p = <<i, 1>> /\ doc[i].size \in Nat
    BY <1>1, <1>2, <1>4 DEF Pieces, DocumentElement
  <2> QED
    BY <1>1, <1>2, <1>4, <2>1 DEF PieceSize
<1> QED
  BY <1>3, <1>4

Weights == [p \in Valid |-> PieceSize(p)]

LEMMA SizeOver ==
  ASSUME NEW s \in Seq(Valid)
  PROVE  SizeOf(s) = SumOf(Over(Weights, s))
<1>1. [i \in DOMAIN s |-> PieceSize(s[i])] = [i \in DOMAIN s |-> Weights[s[i]]]
  BY DEF Weights
<1> QED
  BY <1>1 DEF SizeOf, Over

LEMMA SizeAppend ==
  ASSUME doc \in Seq(DocumentElement), NEW s \in Seq(Valid), NEW p \in Valid
  PROVE  SizeOf(s) \in Nat /\ SizeOf(Append(s, p)) = SizeOf(s) + PieceSize(p)
<1>1. Weights \in [Valid -> Nat]
  BY ValidIs DEF Weights
<1>2. Append(s, p) \in Seq(Valid) /\ Weights[p] = PieceSize(p)
  BY DEF Weights
<1>3. SizeOf(s) = SumOf(Over(Weights, s)) /\ SizeOf(Append(s, p)) = SumOf(Over(Weights, Append(s, p)))
  BY <1>2, SizeOver
<1>4. /\ SumOf(Over(Weights, s)) \in Nat
      /\ SumOf(Over(Weights, Append(s, p))) = SumOf(Over(Weights, s)) + Weights[p]
  BY <1>1, SumOverAppend
<1> QED
  BY <1>2, <1>3, <1>4

LEMMA SizeEmpty == SizeOf(<<>>) = 0
<1>1. <<>> \in Seq(Valid)
  OBVIOUS
<1> QED
  BY <1>1, SizeOver, OverEmpty, SumEmpty

LEMMA SizeOne ==
  ASSUME doc \in Seq(DocumentElement), NEW p \in Valid
  PROVE  SizeOf(<<p>>) = PieceSize(p)
<1>1. <<>> \in Seq(Valid) /\ <<p>> = Append(<<>>, p)
  OBVIOUS
<1>2. SizeOf(Append(<<>>, p)) = 0 + PieceSize(p) /\ PieceSize(p) \in Nat
  BY <1>1, SizeAppend, SizeEmpty, ValidIs
<1> QED
  BY <1>1, <1>2

TextFold == INSTANCE SequenceFolds
  WITH Op <- LAMBDA kept, piece : IF PieceSize(piece) > 0 THEN Append(kept, piece) ELSE kept

LEMMA TextIsFold == ASSUME NEW s PROVE Text(s) = TextFold!Folded(<<>>, s)
BY DEF Text, Kept, TextFold!Folded, FoldLeft, MapThenFoldSet, Max, TextFold!Greatest

LEMMA TextPicks ==
  ASSUME NEW s \in Seq(Valid)
  PROVE  Text(s) \in Seq(Valid) /\ \E place : GoodFold!Picks(place, Text(s), s, Len(s), Sized)
<1>1. \A kept : \A p \in Valid : (IF PieceSize(p) > 0 THEN Append(kept, p) ELSE kept)
                                = IF p \in Sized THEN Append(kept, p) ELSE kept
  BY DEF Sized
<1>2. Text(s) \in Seq(Valid) /\ \E place : TextFold!Picks(place, Text(s), s, Len(s), Sized)
  BY <1>1, TextIsFold, TextFold!FilterPicks
<1> QED
  BY <1>2 DEF TextFold!Picks, GoodFold!Picks

Ordered(s) == \A i, j \in DOMAIN s : i < j => Before(s[i], s[j])

(* The text among the pieces: in their order, the last of them last. *)
LEMMA TextIs ==
  ASSUME NEW s \in Seq(Valid)
  PROVE  /\ Text(s) \in Seq(Valid)
         /\ ToSet(Text(s)) = ToSet(s) \cap Sized
         /\ Ordered(s) => Ordered(Text(s))
         /\ Len(s) = 1 => Len(Text(s)) <= 1
         /\ s # <<>> /\ Last(s) \in Sized => Text(s) # <<>> /\ Last(Text(s)) = Last(s)
<1> DEFINE t == Text(s)
           n == Len(s)
           m == Len(t)
<1>1. t \in Seq(Valid)
  BY TextPicks
<1>2. PICK place : GoodFold!Picks(place, t, s, n, Sized)
  BY TextPicks
<1>3. ToSet(t) = ToSet(s) \cap Sized
  BY <1>1, <1>2, KeptSet
<1>4. n \in Nat /\ m \in Nat /\ DOMAIN s = 1..n /\ DOMAIN t = 1..m
  BY <1>1
<1>5. /\ \A i \in 1..m : place[i] \in 1..n /\ t[i] = s[place[i]]
      /\ \A i, j \in 1..m : i < j => place[i] < place[j]
      /\ \A k \in 1..n : s[k] \in Sized => \E i \in 1..m : place[i] = k
  BY <1>2 DEF GoodFold!Picks
<1> HIDE DEF t, n, m
<1>6. Ordered(s) => Ordered(t)
  BY <1>4, <1>5 DEF Ordered
<1>7. n = 1 => m <= 1
  <2> SUFFICES ASSUME n = 1, ~(m <= 1) PROVE FALSE
    OBVIOUS
  <2>1. 1 \in 1..m /\ 2 \in 1..m
    BY <1>4
  <2>2. place[1] < place[2] /\ place[1] \in 1..1 /\ place[2] \in 1..1
    BY <1>5, <2>1
  <2> QED
    BY <2>2
<1>8. ASSUME s # <<>>, s[n] \in Sized PROVE t # <<>> /\ t[m] = s[n]
  <2>1. n \in 1..n
    BY <1>4, <1>8 DEF n
  <2>2. PICK i \in 1..m : place[i] = n
    BY <1>5, <1>8, <2>1
  <2>3. m \in 1..m /\ t # <<>>
    <3>1. m # 0
      BY <1>4, <2>2
    <3> QED
      BY <1>4, <3>1
  <2>4. ~(i < m)
    <3> SUFFICES ASSUME i < m PROVE FALSE
      OBVIOUS
    <3>1. place[i] < place[m] /\ place[m] \in 1..n
      BY <1>5, <2>2, <2>3
    <3> QED
      BY <1>4, <2>2, <3>1
  <2>5. i = m
    BY <1>4, <2>4
  <2> QED
    BY <1>5, <2>2, <2>3, <2>5
<1> QED
  BY <1>1, <1>3, <1>6, <1>7, <1>8 DEF t, n, m, Last

(* Blank pieces have no size. *)
LEMMA TextSize ==
  ASSUME doc \in Seq(DocumentElement), NEW s \in Seq(Valid)
  PROVE  SizeOf(Text(s)) = SizeOf(s)
<1> DEFINE n == Len(s)
           I == {x \in (0..n) \X Seq(Valid) : SizeOf(x[2]) = SizeOf(SubSeq(s, 1, x[1]))}
<1>1. n \in Nat /\ DOMAIN s = 1..n /\ \A k \in 1..n : s[k] \in Valid
  OBVIOUS
<1> HIDE DEF n
<1>2. <<0, <<>>>> \in I
  <2>1. 0 \in 0..n /\ <<>> \in Seq(Valid) /\ SubSeq(s, 1, 0) = <<>>
    BY <1>1
  <2> QED
    BY <2>1
<1>3. ASSUME NEW k \in 1..n, NEW kept, <<k - 1, kept>> \in I
      PROVE  <<k, IF PieceSize(s[k]) > 0 THEN Append(kept, s[k]) ELSE kept>> \in I
  <2> DEFINE before == SubSeq(s, 1, k - 1)
             p == s[k]
  <2>1. kept \in Seq(Valid) /\ SizeOf(kept) = SizeOf(before) /\ k \in 0..n /\ p \in Valid
    BY <1>1, <1>3
  <2>2. before \in Seq(Valid) /\ SubSeq(s, 1, k) = Append(before, p)
    <3>1. k - 1 \in 0..n /\ k \in Nat
      BY <1>1
    <3> QED
      BY <1>1, <3>1
  <2> HIDE DEF before, p
  <2>3. /\ SizeOf(before) \in Nat /\ PieceSize(p) \in Nat
        /\ SizeOf(Append(before, p)) = SizeOf(before) + PieceSize(p)
        /\ SizeOf(Append(kept, p)) = SizeOf(kept) + PieceSize(p)
    BY <2>1, <2>2, SizeAppend, ValidIs
  <2> DEFINE more == IF PieceSize(p) > 0 THEN Append(kept, p) ELSE kept
  <2>4. more \in Seq(Valid) /\ SizeOf(more) = SizeOf(SubSeq(s, 1, k))
    <3>1. CASE PieceSize(p) > 0
      <4>1. more = Append(kept, p) /\ Append(kept, p) \in Seq(Valid)
        BY <2>1, <3>1
      <4> HIDE DEF more
      <4> QED
        BY <2>1, <2>2, <2>3, <4>1, Zenon
    <3>2. CASE ~(PieceSize(p) > 0)
      <4>1. PieceSize(p) = 0 /\ more = kept
        BY <2>3, <3>2
      <4> HIDE DEF more
      <4>2. SizeOf(SubSeq(s, 1, k)) = SizeOf(before) + 0
        BY <2>2, <2>3, <4>1
      <4> QED
        BY <2>1, <2>3, <4>1, <4>2
    <3> QED
      BY <3>1, <3>2
  <2> HIDE DEF more
  <2>5. <<k, more>> \in I
    BY <2>1, <2>4
  <2> QED
    BY <2>5 DEF more, p
<1>4. <<n, TextFold!Folded(<<>>, s)>> \in I
  <2> HIDE DEF I
  <2> QED
    BY <1>1, <1>2, <1>3, TextFold!FoldKeeps
<1>5. SizeOf(TextFold!Folded(<<>>, s)) = SizeOf(SubSeq(s, 1, n))
  BY <1>4
<1>6. SubSeq(s, 1, n) = s
  BY <1>1 DEF n
<1> QED
  BY <1>5, <1>6, TextIsFold

(* What is kept as an overlap: a tail, never the whole, of neither headings nor tables. *)
LEMMA RetainedIs ==
  ASSUME NEW s \in Seq(Valid)
  PROVE  \E n \in 0..Len(s) :
           /\ n # 0 => n < Len(s) /\ Text(s) # <<>>
           /\ Retained(s) \in Seq(Valid) /\ Len(Retained(s)) = n
           /\ \A i \in 1..n : /\ Retained(s)[i] = s[Len(s) - n + i]
                             /\ Type(Retained(s)[i]) \notin Headings \cup {"table"}
<1> DEFINE L == Len(s)
           effective == Min({Overlap, Maximum \div 2})
           tail(n) == SubSeq(s, Len(s) - n + 1, Len(s))
           fits(n) == /\ \A i \in DOMAIN tail(n) : Type(tail(n)[i]) \notin Headings \cup {"table"}
                      /\ n <= 1 \/ SizeOf(tail(n)) <= effective
           Fit(n) == fits(n) /\ \A m \in (n + 1)..(Len(s) - 1) : ~fits(m)
           top == Max({Len(s), 1}) - 1
           most == CHOOSE n \in 0..top : Fit(n)
<1>1. L \in Nat /\ DOMAIN s = 1..L /\ \A i \in 1..L : s[i] \in Valid
  OBVIOUS
<1>2. top = (IF L >= 1 THEN L ELSE 1) - 1 /\ top \in Nat
  BY <1>1, MaxOfTwo
<1>3. ASSUME NEW n \in 0..L
      PROVE  tail(n) \in Seq(Valid) /\ Len(tail(n)) = n /\ \A i \in 1..n : tail(n)[i] = s[L - n + i]
  <2> DEFINE j == L - n + 1
  <2>1. j \in Int /\ n \in Nat /\ n <= L /\ \A i \in j..L : s[i] \in Valid
    BY <1>1
  <2>2. SubSeq(s, j, L) = [i \in 1..(L - j + 1) |-> s[j + i - 1]]
    BY <2>1
  <2>3. L - j + 1 = n /\ \A i \in 1..n : j + i - 1 = L - n + i /\ j + i - 1 \in 1..L
    BY <1>1, <2>1
  <2> HIDE DEF j, L
  <2>4. SubSeq(s, j, L) = [i \in 1..n |-> s[j + i - 1]]
    BY <2>2, <2>3
  <2>5. tail(n) = SubSeq(s, j, L)
    BY DEF j, L
  <2>6. \A i \in 1..n : s[j + i - 1] \in Valid
    BY <1>1, <2>3
  <2> HIDE DEF tail
  <2>7. tail(n) \in [1..n -> Valid]
    BY <2>4, <2>5, <2>6
  <2>8. tail(n) \in Seq(Valid) /\ Len(tail(n)) = n
    BY <2>1, <2>7
  <2>9. ASSUME NEW i \in 1..n PROVE tail(n)[i] = s[L - n + i]
    BY <2>3, <2>4, <2>5
  <2> QED
    BY <2>8, <2>9
<1> HIDE DEF L, tail, top
<1>4. \E n \in 0..top : Fit(n)
  <2> DEFINE S == {n \in 0..top : fits(n)}
  <2>1. 0 \in 0..top /\ 0 \in 0..L /\ 0 <= 1
    BY <1>1, <1>2
  <2>2. DOMAIN tail(0) = {}
    BY <1>3, <2>1
  <2>3. fits(0)
    BY <2>1, <2>2
  <2> HIDE DEF fits
  <2>4. PICK g \in S : \A k \in S : k <= g
    <3>1. S \in SUBSET (0..top) /\ S # {}
      BY <2>1, <2>3
    <3> HIDE DEF S
    <3> QED
      BY <1>2, <3>1, GreatestOne
  <2>5. ASSUME NEW m \in (g + 1)..(Len(s) - 1) PROVE ~fits(m)
    <3>1. m \in 0..top /\ ~(m <= g)
      BY <1>1, <1>2, <2>4 DEF L
    <3> QED
      BY <2>4, <3>1
  <2> QED
    BY <2>4, <2>5
<1>5. most \in 0..top /\ Fit(most)
  <2> HIDE DEF Fit
  <2> QED
    BY <1>4
<1>6. Retained(s) = IF effective = 0 \/ Text(s) = <<>> THEN <<>> ELSE tail(most)
  BY DEF Retained, tail, top
<1> HIDE DEF most, effective
<1>7. CASE effective = 0 \/ Text(s) = <<>>
  <2>1. Retained(s) = <<>> /\ 0 \in 0..Len(s) /\ Len(<<>>) = 0 /\ <<>> \in Seq(Valid)
    BY <1>6, <1>7
  <2> QED
    BY <2>1
<1>8. CASE ~(effective = 0 \/ Text(s) = <<>>)
  <2>1. Retained(s) = tail(most) /\ Text(s) # <<>>
    BY <1>6, <1>8
  <2>2. most \in 0..L /\ (most # 0 => most < L)
    BY <1>1, <1>2, <1>5
  <2>3. DOMAIN tail(most) = 1..most
    BY <1>3, <2>2
  <2>4. \A i \in 1..most : Type(tail(most)[i]) \notin Headings \cup {"table"}
    BY <1>5, <2>3
  <2> HIDE DEF Fit, fits
  <2> QED
    BY <1>3, <2>1, <2>2, <2>4 DEF L
<1> QED
  BY <1>7, <1>8

-----------------------------------------------------------------------------
(* What holds of what is accumulated, of the chunks and of the pieces seen so far. *)

Heads == {HeadingsAt(i) : i \in 0..Len(doc)}
ChunkRecord == [pieces : Seq(Valid), heading : Heads]
Held(done) == UNION {ToSet(done[c].pieces) : c \in DOMAIN done}

Typed(acc, done, hd) == acc \in Seq(Valid) /\ done \in Seq(ChunkRecord) /\ hd \in Heads

Covered(acc, done, seen) ==
  /\ ToSet(acc) \subseteq seen /\ Held(done) \subseteq seen \cap Sized
  /\ seen \cap Sized \subseteq ToSet(acc) \cup Held(done)

Filed(acc, done, hd) ==
  /\ \A p \in ToSet(acc) : HeadingsAt(p[1]) = hd
  /\ \A c \in DOMAIN done : \A p \in ToSet(done[c].pieces) : done[c].heading = HeadingsAt(p[1])

InOrder(acc, done) == Ordered(acc) /\ \A c \in DOMAIN done : Ordered(done[c].pieces)

Repeated(acc, done) ==
  /\ \A c \in DOMAIN done : \A p \in ToSet(done[c].pieces) \cap ToSet(acc) :
       Type(p) = "text" /\ \A d \in c..Len(done) : p \in ToSet(done[d].pieces)
  /\ \A b, c \in DOMAIN done : b < c => \A p \in ToSet(done[b].pieces) \cap ToSet(done[c].pieces) :
       Type(p) = "text" /\ \A d \in b..c : p \in ToSet(done[d].pieces)

Sound(acc, done, seen, hd) ==
  /\ Typed(acc, done, hd) /\ Covered(acc, done, seen) /\ Filed(acc, done, hd)
  /\ InOrder(acc, done) /\ Repeated(acc, done)

LEMMA FlushIs ==
  ASSUME NEW s \in Seq(Valid), NEW done \in Seq(ChunkRecord), heading \in Heads
  PROVE  /\ Flushed(s, done) \in Seq(ChunkRecord)
         /\ \A c \in 1..Len(done) : Flushed(s, done)[c] = done[c]
         /\ Text(s) = <<>> => Flushed(s, done) = done
         /\ Text(s) # <<>> => /\ Len(Flushed(s, done)) = Len(done) + 1
                              /\ Flushed(s, done)[Len(done) + 1].pieces = Text(s)
                              /\ Flushed(s, done)[Len(done) + 1].heading = heading
<1> DEFINE t == Text(s)
           new == [pieces |-> t, heading |-> heading]
<1>1. t \in Seq(Valid)
  BY TextIs
<1>2. new \in ChunkRecord /\ new.pieces = t /\ new.heading = heading
  BY <1>1 DEF ChunkRecord
<1>3. Flushed(s, done) = IF t = <<>> THEN done ELSE Append(done, new)
  BY DEF Flushed
<1> HIDE DEF new, t
<1>4. CASE t = <<>>
  BY <1>3, <1>4 DEF t
<1>5. CASE t # <<>>
  <2>1. /\ Append(done, new) \in Seq(ChunkRecord) /\ Len(Append(done, new)) = Len(done) + 1
        /\ Append(done, new)[Len(done) + 1] = new
        /\ \A c \in 1..Len(done) : Append(done, new)[c] = done[c]
    BY <1>2
  <2> QED
    BY <1>2, <1>3, <1>5, <2>1 DEF t
<1> QED
  BY <1>4, <1>5

(* A chunk of what is accumulated, some of the text of which may be kept. *)
LEMMA SoundFlush ==
  ASSUME NEW s, NEW done, NEW seen, Sound(s, done, seen, heading),
         NEW kept \in Seq(Valid), ToSet(kept) \subseteq ToSet(s), Ordered(kept),
         \A p \in ToSet(kept) : Type(p) = "text"
  PROVE  Sound(kept, Flushed(s, done), seen, heading)
<1> DEFINE more == Flushed(s, done)
           n == Len(done)
           t == Text(s)
<1>1. /\ s \in Seq(Valid) /\ done \in Seq(ChunkRecord) /\ heading \in Heads
      /\ n \in Nat /\ DOMAIN done = 1..n
  BY DEF Sound, Typed
<1>2. /\ ToSet(t) = ToSet(s) \cap Sized /\ (Ordered(s) => Ordered(t))
      /\ t = <<>> => ToSet(t) = {}
  <2>1. ToSet(t) = ToSet(s) \cap Sized /\ (Ordered(s) => Ordered(t))
    BY <1>1, TextIs
  <2> QED
    BY <2>1 DEF ToSet
<1>3. /\ more \in Seq(ChunkRecord) /\ \A c \in 1..n : more[c] = done[c]
      /\ t = <<>> => more = done
      /\ t # <<>> => Len(more) = n + 1 /\ more[n + 1].pieces = t /\ more[n + 1].heading = heading
  BY <1>1, FlushIs
<1> HIDE DEF more, n, t
<1>4. CASE t = <<>>
  <2>1. more = done /\ ToSet(s) \cap Sized = {}
    BY <1>2, <1>3, <1>4
  <2>2. Covered(kept, more, seen)
    BY <2>1 DEF Sound, Covered
  <2>3. Filed(kept, more, heading) /\ InOrder(kept, more) /\ Repeated(kept, more)
    BY <2>1 DEF Sound, Filed, InOrder, Repeated
  <2>4. Typed(kept, more, heading)
    BY <1>1, <2>1 DEF Typed
  <2> QED
    BY <2>2, <2>3, <2>4 DEF Sound, more
<1>5. CASE t # <<>>
  <2>1. /\ Len(more) = n + 1 /\ DOMAIN more = 1..(n + 1)
        /\ more[n + 1].pieces = t /\ more[n + 1].heading = heading
        /\ \A c \in 1..n : more[c] = done[c] /\ n + 1 \in DOMAIN more
        /\ \A c \in DOMAIN more : c \in 1..n \/ c = n + 1
    BY <1>1, <1>3, <1>5
  <2>2. Held(more) = Held(done) \cup ToSet(t)
    <3>1. Held(done) \cup ToSet(t) \subseteq Held(more)
      BY <1>1, <2>1 DEF Held
    <3>2. Held(more) \subseteq Held(done) \cup ToSet(t)
      BY <1>1, <2>1 DEF Held
    <3> QED
      BY <3>1, <3>2
  <2>3. Covered(kept, more, seen)
    <3>1. ToSet(s) \subseteq seen /\ Held(done) \subseteq seen \cap Sized
      BY DEF Sound, Covered
    <3>2. seen \cap Sized \subseteq ToSet(s) \cup Held(done)
      BY DEF Sound, Covered
    <3> QED
      BY <1>2, <2>2, <3>1, <3>2 DEF Covered
  <2>4. Filed(kept, more, heading)
    <3>1. /\ \A p \in ToSet(s) : HeadingsAt(p[1]) = heading
          /\ \A c \in 1..n : \A p \in ToSet(done[c].pieces) : done[c].heading = HeadingsAt(p[1])
      BY <1>1 DEF Sound, Filed
    <3> QED
      BY <1>2, <2>1, <3>1 DEF Filed
  <2>5. InOrder(kept, more)
    <3>1. Ordered(s) /\ \A c \in 1..n : Ordered(done[c].pieces)
      BY <1>1 DEF Sound, InOrder
    <3> QED
      BY <1>2, <2>1, <3>1 DEF InOrder
  <2>6. Repeated(kept, more)
    <3>1. /\ \A c \in 1..n : \A p \in ToSet(done[c].pieces) \cap ToSet(s) :
               Type(p) = "text" /\ \A d \in c..n : p \in ToSet(done[d].pieces)
          /\ \A b, c \in 1..n : b < c => \A p \in ToSet(done[b].pieces) \cap ToSet(done[c].pieces) :
               Type(p) = "text" /\ \A d \in b..c : p \in ToSet(done[d].pieces)
      BY <1>1 DEF Sound, Repeated, n
    <3>2. Held(done) \subseteq Sized
      BY DEF Sound, Covered
    <3>3. ASSUME NEW c \in DOMAIN more, NEW p \in ToSet(more[c].pieces) \cap ToSet(kept)
          PROVE  Type(p) = "text" /\ \A d \in c..Len(more) : p \in ToSet(more[d].pieces)
      <4>1. Type(p) = "text" /\ p \in ToSet(s)
        OBVIOUS
      <4>2. CASE c = n + 1
        <5>1. \A d \in c..Len(more) : d = c
          BY <1>1, <2>1, <4>2
        <5> QED
          BY <4>1, <5>1
      <4>3. CASE c \in 1..n
        <5>1. p \in ToSet(done[c].pieces)
          BY <2>1, <4>3
        <5>2. p \in Sized
          BY <1>1, <3>2, <4>3, <5>1 DEF Held
        <5>3. p \in ToSet(t)
          BY <1>2, <4>1, <5>2
        <5>4. \A d \in c..Len(more) : d = n + 1 \/ (d \in c..n /\ d \in 1..n)
          BY <1>1, <2>1, <4>3
        <5> QED
          BY <2>1, <3>1, <4>1, <4>3, <5>1, <5>3, <5>4
      <4> QED
        BY <2>1, <4>2, <4>3
    <3>4. ASSUME NEW b \in DOMAIN more, NEW c \in DOMAIN more, b < c,
                 NEW p \in ToSet(more[b].pieces) \cap ToSet(more[c].pieces)
          PROVE  Type(p) = "text" /\ \A d \in b..c : p \in ToSet(more[d].pieces)
      <4>1. b \in 1..n /\ p \in ToSet(done[b].pieces)
        BY <1>1, <2>1, <3>4
      <4>2. CASE c = n + 1
        <5>1. p \in ToSet(t) /\ p \in ToSet(s)
          BY <1>2, <2>1, <4>2
        <5>2. Type(p) = "text" /\ \A d \in b..n : p \in ToSet(done[d].pieces)
          BY <3>1, <4>1, <5>1
        <5>3. \A d \in b..c : d = n + 1 \/ (d \in b..n /\ d \in 1..n)
          BY <1>1, <4>1, <4>2
        <5> QED
          BY <2>1, <5>1, <5>2, <5>3
      <4>3. CASE c \in 1..n
        <5>1. p \in ToSet(done[c].pieces)
          BY <2>1, <4>3
        <5>2. Type(p) = "text" /\ \A d \in b..c : p \in ToSet(done[d].pieces)
          BY <3>1, <3>4, <4>1, <4>3, <5>1
        <5>3. \A d \in b..c : d \in 1..n
          BY <1>1, <4>1, <4>3
        <5> QED
          BY <2>1, <5>2, <5>3
      <4> QED
        BY <2>1, <4>2, <4>3
    <3> QED
      BY <3>3, <3>4 DEF Repeated
  <2>7. Typed(kept, more, heading)
    BY <1>1, <1>3 DEF Typed
  <2> QED
    BY <2>3, <2>4, <2>5, <2>6, <2>7 DEF Sound, more
<1> QED
  BY <1>4, <1>5

(* One piece more, behind all that were seen. *)
LEMMA SoundAdd ==
  ASSUME NEW s, NEW done, NEW seen, NEW hd, Sound(s, done, seen, hd),
         NEW p \in Valid, \A q \in seen : Before(q, p), ~Before(p, p), HeadingsAt(p[1]) = hd
  PROVE  Sound(Append(s, p), done, seen \cup {p}, hd)
<1> DEFINE more == Append(s, p)
           n == Len(s)
<1>1. s \in Seq(Valid) /\ n \in Nat /\ DOMAIN s = 1..n
  BY DEF Sound, Typed
<1>2. /\ more \in Seq(Valid) /\ Len(more) = n + 1 /\ DOMAIN more = 1..(n + 1)
      /\ more[n + 1] = p /\ \A i \in 1..n : more[i] = s[i]
  BY <1>1
<1>3. p \notin seen
  OBVIOUS
<1>4. ToSet(more) = ToSet(s) \cup {p}
  BY <1>1, ToSetAppend
<1> HIDE DEF more, n
<1>5. Typed(more, done, hd)
  BY <1>2 DEF Sound, Typed
<1>6. Covered(more, done, seen \cup {p})
  BY <1>4 DEF Sound, Covered
<1>7. Filed(more, done, hd)
  BY <1>4 DEF Sound, Filed
<1>8. Ordered(more)
  <2>1. Ordered(s) /\ ToSet(s) \subseteq seen
    BY DEF Sound, InOrder, Covered
  <2> SUFFICES ASSUME NEW i \in 1..(n + 1), NEW j \in 1..(n + 1), i < j
               PROVE  Before(more[i], more[j])
    BY <1>2 DEF Ordered
  <2>2. CASE j = n + 1
    <3>1. i \in 1..n /\ more[i] = s[i] /\ s[i] \in ToSet(s)
      BY <1>1, <1>2, <2>2 DEF ToSet
    <3> QED
      BY <1>2, <2>1, <2>2, <3>1
  <2>3. CASE j # n + 1
    <3>1. i \in 1..n /\ j \in 1..n
      BY <1>1, <2>3
    <3> QED
      BY <1>1, <1>2, <2>1, <3>1 DEF Ordered
  <2> QED
    BY <2>2, <2>3
<1>9. InOrder(more, done)
  BY <1>8 DEF Sound, InOrder
<1>10. Repeated(more, done)
  <2>1. \A c \in DOMAIN done : p \notin ToSet(done[c].pieces)
    BY <1>3 DEF Sound, Covered, Held
  <2> QED
    BY <1>4, <2>1 DEF Sound, Repeated
<1> QED
  BY <1>5, <1>6, <1>7, <1>9, <1>10 DEF Sound, more

(* SizeExplained, of any chunks. *)
ChunkExplained(done, c) ==
  LET pieces == done[c].pieces
      overlap == {p \in ToSet(pieces) : c > 1 /\ p \in ToSet(done[c - 1].pieces)}
      slice == SlicesOf(doc[pieces[1][1]])[pieces[1][2]]
  IN \/ SizeOf(pieces) <= Maximum
     \/ Len(pieces) = 1 /\ (Type(pieces[1]) = "table" => Len(slice) <= 1)
     \/ overlap # {} /\ ToSet(pieces) = overlap \cup {Last(pieces)}

Explained(done) == \A c \in DOMAIN done : ChunkExplained(done, c)

Alone(p) == Type(p) = "table" => Len(SlicesOf(doc[p[1]])[p[2]]) <= 1

(* Why what is accumulated may be as large as it is. *)
Excused(s, done) ==
  \/ SizeOf(s) <= Maximum
  \/ Len(s) = 1 /\ Alone(s[1])
  \/ /\ Len(s) # 0 /\ Len(done) # 0 /\ Type(Last(s)) # "table"
     /\ \A i \in 1..(Len(s) - 1) : s[i] \in Sized => s[i] \in ToSet(done[Len(done)].pieces)

LEMMA NotBefore ==
  ASSUME doc \in Seq(DocumentElement), NEW p \in Valid
  PROVE  ~Before(p, p)
BY ValidIs DEF Before

LEMMA SizeFlush ==
  ASSUME NEW s, NEW done, NEW seen, Sound(s, done, seen, heading), doc \in Seq(DocumentElement),
         Explained(done), Excused(s, done)
  PROVE  Explained(Flushed(s, done))
<1> DEFINE more == Flushed(s, done)
           n == Len(done)
           t == Text(s)
           L == Len(s)
<1>1. /\ s \in Seq(Valid) /\ done \in Seq(ChunkRecord) /\ heading \in Heads /\ Ordered(s)
      /\ n \in Nat /\ DOMAIN done = 1..n /\ L \in Nat /\ DOMAIN s = 1..L
  BY DEF Sound, Typed, InOrder
<1>2. /\ t \in Seq(Valid) /\ ToSet(t) = ToSet(s) \cap Sized /\ Ordered(t)
      /\ L = 1 => Len(t) <= 1
      /\ s # <<>> /\ Last(s) \in Sized => t # <<>> /\ Last(t) = Last(s)
      /\ SizeOf(t) = SizeOf(s)
  BY <1>1, TextIs, TextSize
<1>3. /\ more \in Seq(ChunkRecord) /\ \A c \in 1..n : more[c] = done[c]
      /\ t = <<>> => more = done
      /\ t # <<>> => Len(more) = n + 1 /\ more[n + 1].pieces = t
  BY <1>1, FlushIs
<1> HIDE DEF more, n, t, L
<1>4. CASE t = <<>>
  BY <1>3, <1>4 DEF more
<1>5. CASE t # <<>>
  <2>1. /\ DOMAIN more = 1..(n + 1) /\ more[n + 1].pieces = t
        /\ \A c \in DOMAIN more : c \in 1..n \/ c = n + 1
    BY <1>1, <1>3, <1>5
  <2>2. ASSUME NEW c \in 1..n PROVE ChunkExplained(more, c)
    <3>1. ChunkExplained(done, c) /\ more[c] = done[c]
      BY <1>1, <1>3 DEF Explained
    <3>2. c > 1 => more[c - 1] = done[c - 1]
      <4> SUFFICES ASSUME c > 1 PROVE more[c - 1] = done[c - 1]
        OBVIOUS
      <4>1. c - 1 \in 1..n
        BY <1>1
      <4> QED
        BY <1>3, <4>1
    <3>3. {p \in ToSet(more[c].pieces) : c > 1 /\ p \in ToSet(more[c - 1].pieces)}
            = {p \in ToSet(done[c].pieces) : c > 1 /\ p \in ToSet(done[c - 1].pieces)}
      BY <3>1, <3>2
    <3> QED
      BY <3>1, <3>3 DEF ChunkExplained
  <2>3. ChunkExplained(more, n + 1)
    <3>1. Len(t) \in Nat /\ Len(t) # 0 /\ DOMAIN t = 1..Len(t)
      BY <1>2, <1>5
    <3>2. CASE SizeOf(s) <= Maximum
      BY <1>2, <2>1, <3>2 DEF ChunkExplained
    <3>3. CASE L = 1 /\ Alone(s[1])
      <4>1. Len(t) = 1
        BY <1>2, <3>1, <3>3
      <4>2. t[1] \in ToSet(s) /\ ToSet(s) = {s[1]}
        BY <1>1, <1>2, <3>1, <3>3, <4>1 DEF ToSet
      <4>3. t[1] = s[1]
        BY <4>2
      <4> QED
        BY <2>1, <3>3, <4>1, <4>3 DEF ChunkExplained, Alone
    <3>4. CASE /\ L # 0 /\ n # 0 /\ Type(Last(s)) # "table"
               /\ \A i \in 1..(L - 1) : s[i] \in Sized => s[i] \in ToSet(done[n].pieces)
      <4> DEFINE overlap == {p \in ToSet(t) : n + 1 > 1 /\ p \in ToSet(more[(n + 1) - 1].pieces)}
      <4>1. n + 1 > 1 /\ more[(n + 1) - 1] = done[n]
        <5>1. n \in 1..n /\ (n + 1) - 1 = n
          BY <1>1, <3>4
        <5> QED
          BY <1>1, <1>3, <5>1
      <4>2. \A p \in ToSet(t) : p = Last(s) \/ p \in overlap
        <5> SUFFICES ASSUME NEW p \in ToSet(t), p # Last(s) PROVE p \in ToSet(done[n].pieces)
          BY <4>1
        <5>1. PICK i \in 1..L : p = s[i]
          BY <1>1, <1>2 DEF ToSet
        <5>2. i # L
          BY <5>1 DEF Last, L
        <5>3. i \in 1..(L - 1)
          BY <1>1, <5>2
        <5> QED
          BY <1>2, <3>4, <5>1, <5>3
      <4>3. Last(t) \in ToSet(t)
        BY <3>1 DEF Last, ToSet
      <4>4. CASE overlap = {}
        <5>1. \A i \in 1..Len(t) : t[i] = Last(s)
          BY <3>1, <4>2, <4>4 DEF ToSet
        <5>2. Len(t) = 1
          <6> SUFFICES ASSUME Len(t) # 1 PROVE FALSE
            OBVIOUS
          <6>1. 1 \in 1..Len(t) /\ 2 \in 1..Len(t)
            BY <3>1
          <6>2. Before(t[1], t[2])
            BY <1>2, <3>1, <6>1 DEF Ordered
          <6>3. t[1] = t[2] /\ t[1] \in Valid
            BY <1>2, <5>1, <6>1
          <6> QED
            BY <6>2, <6>3, NotBefore
        <5>3. t[1] = Last(s)
          BY <5>1, <5>2
        <5> QED
          BY <2>1, <3>4, <5>2, <5>3 DEF ChunkExplained
      <4>5. CASE overlap # {}
        <5>1. ToSet(t) = overlap \cup {Last(t)}
          <6>1. CASE Last(s) \in Sized
            <7>1. Last(t) = Last(s)
              BY <1>1, <1>2, <3>4, <6>1 DEF L
            <7> QED
              BY <4>2, <4>3, <7>1
          <6>2. CASE Last(s) \notin Sized
            <7>1. \A p \in ToSet(t) : p \in overlap
              BY <1>2, <4>2, <6>2
            <7> QED
              BY <4>3, <7>1
          <6> QED
            BY <6>1, <6>2
        <5> QED
          BY <2>1, <4>5, <5>1 DEF ChunkExplained
      <4> QED
        BY <4>4, <4>5
    <3> QED
      BY <3>2, <3>3, <3>4 DEF Excused, L, n
  <2> QED
    BY <2>1, <2>2, <2>3 DEF Explained, more
<1> QED
  BY <1>4, <1>5

-----------------------------------------------------------------------------
(* chunk_document: the invariant and its steps *)

SeenTo(i) == UNION {Pieces(j) : j \in 1..(i - 1) \cap DOMAIN doc}

ClipsAlone(s) == \A i \in DOMAIN s : Type(s[i]) # "table" /\ (Type(s[i]) = "clip" => i = 1)

ChunkerInv ==
  /\ doc \in Seq(DocumentElement) /\ next \in 1..(Len(doc) + 2)
  /\ next <= Len(doc) + 1 => heading = HeadingsAt(next - 1)
  /\ Sound(accum, chunks, SeenTo(next), heading)
  /\ ClipsAlone(accum) /\ Excused(accum, chunks) /\ Explained(chunks)

(* The next element: its pieces come behind all that were seen. *)
LEMMA NextElement ==
  ASSUME ChunkerInv, next <= Len(doc)
  PROVE  /\ next \in Nat /\ next # 0 /\ next \in DOMAIN doc /\ doc[next] \in DocumentElement
         /\ next + 1 \in 1..(Len(doc) + 2) /\ next + 1 <= Len(doc) + 1
         /\ SeenTo(next + 1) = SeenTo(next) \cup Pieces(next)
         /\ \A q \in SeenTo(next) : q[1] \in Nat /\ q[1] < next
         /\ \A p \in Pieces(next) : p \in Valid
         /\ HeadingsAt(next) \in Heads
<1>1. /\ next \in Nat /\ next # 0 /\ next \in DOMAIN doc /\ doc[next] \in DocumentElement
      /\ next + 1 \in 1..(Len(doc) + 2) /\ next + 1 <= Len(doc) + 1 /\ Len(doc) \in Nat
      /\ DOMAIN doc = 1..Len(doc)
  BY DEF ChunkerInv
<1>2. SeenTo(next + 1) = SeenTo(next) \cup Pieces(next)
  <2>1. 1..((next + 1) - 1) \cap DOMAIN doc = (1..(next - 1) \cap DOMAIN doc) \cup {next}
    BY <1>1
  <2> QED
    BY <2>1 DEF SeenTo
<1>3. ASSUME NEW q \in SeenTo(next) PROVE q[1] \in Nat /\ q[1] < next
  <2>1. PICK j \in 1..(next - 1) \cap DOMAIN doc : q \in Pieces(j)
    BY DEF SeenTo
  <2>2. q[1] = j
    BY <2>1 DEF Pieces
  <2> QED
    BY <1>1, <2>1, <2>2
<1>4. \A p \in Pieces(next) : p \in Valid
  BY <1>1 DEF Valid
<1>5. HeadingsAt(next) \in Heads
  BY <1>1 DEF Heads
<1> QED
  BY <1>1, <1>2, <1>3, <1>4, <1>5

LEMMA NothingKept ==
  /\ <<>> \in Seq(Valid) /\ ToSet(<<>>) = {} /\ Ordered(<<>>) /\ ClipsAlone(<<>>)
BY DEF ToSet, Ordered, ClipsAlone

LEMMA ChunkerInitInv == ChunkerInit => ChunkerInv
<1> SUFFICES ASSUME ChunkerInit PROVE ChunkerInv
  OBVIOUS
<1>1. /\ doc \in Seq(DocumentElement) /\ next = 1 /\ accum = <<>> /\ chunks = <<>> /\ heading = NoHeading
  BY ChunkerConstants DEF ChunkerInit
<1>2. Len(doc) \in Nat /\ next \in 1..(Len(doc) + 2) /\ heading = HeadingsAt(next - 1)
  BY <1>1, HeadingsNone
<1>3. SeenTo(next) = {} /\ Held(chunks) = {} /\ heading \in Heads
  <2>1. 1..(next - 1) = {} /\ DOMAIN chunks = {} /\ next - 1 = 0 /\ 0 \in 0..Len(doc)
    BY <1>1, <1>2
  <2> QED
    BY <1>2, <2>1 DEF SeenTo, Held, Heads
<1>4. Sound(accum, chunks, SeenTo(next), heading)
  <2>1. Typed(accum, chunks, heading) /\ DOMAIN chunks = {} /\ ToSet(accum) = {}
    BY <1>1, <1>3 DEF Typed, ToSet
  <2>2. Covered(accum, chunks, SeenTo(next))
    BY <1>3, <2>1 DEF Covered
  <2> QED
    BY <1>1, <2>1, <2>2, NothingKept DEF Sound, Filed, InOrder, Repeated
<1>5. Excused(accum, chunks) /\ Explained(chunks)
  BY <1>1, SizeEmpty, ChunkerConstants DEF Excused, Explained
<1> QED
  BY <1>1, <1>2, <1>4, <1>5, NothingKept DEF ChunkerInv

(* The chunks with everything of accum in them. *)
LEMMA AllFlushed ==
  ASSUME ChunkerInv
  PROVE  /\ Sound(<<>>, Flushed(accum, chunks), SeenTo(next), heading)
         /\ Explained(Flushed(accum, chunks))
         /\ \A done : Excused(<<>>, done)
<1>1. Sound(<<>>, Flushed(accum, chunks), SeenTo(next), heading)
  BY NothingKept, SoundFlush DEF ChunkerInv
<1>2. Explained(Flushed(accum, chunks))
  BY SizeFlush DEF ChunkerInv
<1> QED
  BY <1>1, <1>2, SizeEmpty, ChunkerConstants DEF Excused

(* A piece that starts the next chunk. *)
LEMMA Begun ==
  ASSUME NEW done, NEW hd, NEW hd2 \in Heads, ChunkerInv, next <= Len(doc),
         NEW seen, Sound(<<>>, done, seen, hd), NEW p \in Valid,
         \A q \in seen : Before(q, p), HeadingsAt(p[1]) = hd2
  PROVE  Sound(<<p>>, done, seen \cup {p}, hd2)
<1>1. Sound(<<>>, done, seen, hd2)
  <2>1. Typed(<<>>, done, hd2)
    BY DEF Sound, Typed
  <2>2. Filed(<<>>, done, hd2)
    BY NothingKept DEF Sound, Filed
  <2> QED
    BY <2>1, <2>2 DEF Sound
<1>2. ~Before(p, p) /\ Append(<<>>, p) = <<p>>
  BY NotBefore DEF ChunkerInv
<1>3. Sound(Append(<<>>, p), done, seen \cup {p}, hd2)
  BY <1>1, <1>2, SoundAdd
<1> QED
  BY <1>2, <1>3

(* The invariant of the next state, in terms of this one's document. *)
NextInv ==
  /\ doc' = doc /\ doc \in Seq(DocumentElement) /\ next' \in 1..(Len(doc) + 2)
  /\ next' <= Len(doc) + 1 => heading' = HeadingsAt(next' - 1)
  /\ Sound(accum', chunks', SeenTo(next'), heading')
  /\ ClipsAlone(accum') /\ Excused(accum', chunks') /\ Explained(chunks')

LEMMA HeadingStep == ASSUME ChunkerInv, Heading PROVE NextInv
<1> DEFINE p == <<next, 1>>
<1>1. /\ next <= Len(doc) /\ doc[next].type \in Headings /\ doc' = doc /\ next' = next + 1
      /\ chunks' = Flushed(accum, chunks) /\ heading' = EnterHeading(next) /\ accum' = <<p>>
  BY DEF Heading
<1>2. heading' = HeadingsAt(next) /\ next' - 1 = next
  BY <1>1, NextElement, HeadingsEntered DEF ChunkerInv
<1>3. Pieces(next) = {p} /\ p \in Valid
  <2>1. Pieces(next) = {p}
    BY <1>1 DEF Pieces, Headings
  <2> QED
    BY <1>1, <2>1, NextElement
<1>4. \A q \in SeenTo(next) : Before(q, p)
  BY <1>1, NextElement DEF Before
<1>5. Sound(<<p>>, chunks', SeenTo(next) \cup {p}, heading')
  <2>1. heading' \in Heads /\ HeadingsAt(p[1]) = heading'
    BY <1>1, <1>2, NextElement
  <2>2. Sound(<<>>, chunks', SeenTo(next), heading)
    BY <1>1, AllFlushed
  <2> HIDE DEF p
  <2> QED
    BY <1>1, <1>3, <1>4, <2>1, <2>2, Begun
<1>6. Type(p) \in Headings /\ Len(<<p>>) = 1 /\ <<p>>[1] = p /\ DOMAIN <<p>> = {1}
  BY <1>1 DEF Type
<1> HIDE DEF p
<1>7. ClipsAlone(<<p>>) /\ Excused(<<p>>, chunks')
  BY <1>6 DEF ClipsAlone, Excused, Alone, Headings
<1>8. Explained(chunks')
  BY <1>1, AllFlushed
<1>9. SeenTo(next') = SeenTo(next) \cup {p}
  BY <1>1, <1>3, NextElement
<1> QED
  BY <1>1, <1>2, <1>5, <1>7, <1>8, <1>9, NextElement DEF NextInv, ChunkerInv

LEMMA EndStep == ASSUME ChunkerInv, End PROVE NextInv
<1>1. /\ next = Len(doc) + 1 /\ doc' = doc /\ next' = next + 1 /\ heading' = heading
      /\ chunks' = Flushed(accum, chunks) /\ accum' = <<>>
  BY DEF End
<1>2. doc \in Seq(DocumentElement) /\ Len(doc) \in Nat /\ DOMAIN doc = 1..Len(doc)
  BY DEF ChunkerInv
<1>3. SeenTo(next') = SeenTo(next)
  <2>1. 1..(next' - 1) \cap DOMAIN doc = 1..(next - 1) \cap DOMAIN doc
    BY <1>1, <1>2
  <2> QED
    BY <2>1 DEF SeenTo
<1>4. next' \in 1..(Len(doc) + 2) /\ ~(next' <= Len(doc) + 1)
  BY <1>1, <1>2
<1> QED
  BY <1>1, <1>2, <1>3, <1>4, AllFlushed, NothingKept DEF NextInv

SlicesFold == INSTANCE SequenceFolds
  WITH Op <- LAMBDA done, slice : Flushed(<<<<next, slice>>>>, done)

LEMMA TableStep == ASSUME ChunkerInv, Table PROVE NextInv
<1> DEFINE table == doc[next]
           n == Len(SlicesOf(table))
           places == [i \in DOMAIN SlicesOf(table) |-> i]
           Slices(k) == {<<next, i>> : i \in 1..k}
           Fine(k, done) == Sound(<<>>, done, SeenTo(next) \cup Slices(k), heading) /\ Explained(done)
           I == {x \in (0..n) \X Seq(ChunkRecord) : Fine(x[1], x[2])}
           base == Flushed(accum, chunks)
<1>1. /\ next <= Len(doc) /\ table.type = "table" /\ doc' = doc /\ next' = next + 1
      /\ heading' = heading /\ accum' = <<>>
  BY DEF Table
<1>2. chunks' = SlicesFold!Folded(base, places)
  BY DEF Table, SlicesFold!Folded, FoldLeft, MapThenFoldSet, Max, SlicesFold!Greatest
<1>3. /\ next \in Nat /\ next # 0 /\ table \in TableElement /\ doc \in Seq(DocumentElement)
      /\ SlicesOf(table) \in Seq(Seq(Nat))
      /\ \A k \in DOMAIN SlicesOf(table) : Bounded(table, SlicesOf(table)[k])
  <2>1. table \in TableElement
    BY <1>1, NextElement DEF DocumentElement, TableElement, Headings
  <2> HIDE DEF table
  <2> QED
    BY <1>1, <2>1, NextElement, SlicesAre DEF ChunkerInv
<1>4. n \in Nat /\ DOMAIN SlicesOf(table) = 1..n /\ DOMAIN places = 1..n /\ \A k \in 1..n : places[k] = k
  BY <1>3
<1>5. Pieces(next) = Slices(n)
  BY <1>1, <1>4 DEF Pieces
<1>6. heading = HeadingsAt(next)
  <2>1. doc[next].type \notin Headings /\ next \in Nat /\ next # 0
    BY <1>1, <1>3 DEF Headings
  <2>2. heading = HeadingsAt(next - 1)
    <3>1. Len(doc) \in Nat /\ next <= Len(doc) + 1
      BY <1>1, <1>3
    <3> QED
      BY <3>1 DEF ChunkerInv
  <2> QED
    BY <2>1, <2>2, HeadingsKept
<1> HIDE DEF places, n, table
<1>7. <<0, base>> \in I
  <2>1. Slices(0) = {} /\ 0 \in 0..n
    BY <1>4
  <2>2. Sound(<<>>, base, SeenTo(next), heading) /\ Explained(base)
    BY AllFlushed
  <2>3. base \in Seq(ChunkRecord)
    BY <2>2 DEF Sound, Typed
  <2> HIDE DEF base, Slices
  <2>4. Fine(0, base)
    BY <2>1, <2>2
  <2> HIDE DEF Fine
  <2> QED
    BY <2>1, <2>3, <2>4
<1>8. ASSUME NEW k \in 1..n, NEW done, <<k - 1, done>> \in I
      PROVE  <<k, Flushed(<<<<next, places[k]>>>>, done)>> \in I
  <2> DEFINE p == <<next, k>>
             more == Flushed(<<p>>, done)
  <2>1. Fine(k - 1, done) /\ k \in 0..n /\ places[k] = k /\ k \in Nat /\ k - 1 \in Nat
    <3>1. k \in 0..n /\ places[k] = k /\ k \in Nat /\ k - 1 \in Nat
      BY <1>4
    <3> HIDE DEF Fine
    <3> QED
      BY <1>8, <3>1
  <2>2. p \in Valid /\ p[1] = next /\ p[2] = k
    BY <1>1, <1>5, <2>1, NextElement
  <2>3. ASSUME NEW q \in SeenTo(next) \cup Slices(k - 1) PROVE Before(q, p)
    <3>1. CASE q \in SeenTo(next)
      BY <1>1, <3>1, NextElement DEF Before
    <3>2. CASE q \in Slices(k - 1)
      <4>1. PICK i \in 1..(k - 1) : q = <<next, i>>
        BY <3>2
      <4> QED
        BY <2>1, <4>1 DEF Before
    <3> QED
      BY <2>3, <3>1, <3>2
  <2>4. Slices(k) = Slices(k - 1) \cup {p}
    <3>1. 1..k = 1..(k - 1) \cup {k}
      BY <2>1
    <3> QED
      BY <3>1
  <2>5. Alone(p) \/ PieceSize(p) <= Maximum
    <3>1. Bounded(table, SlicesOf(table)[k]) /\ doc[p[1]] = table
      BY <1>3, <1>4, <2>2 DEF table
    <3>2. PieceSize(p) = TableSize(table.header, SlicesOf(table)[k])
      BY <1>1, <2>2, <3>1 DEF PieceSize
    <3> QED
      BY <2>2, <3>1, <3>2 DEF Bounded, Alone
  <2> HIDE DEF p, Slices
  <2>6. heading \in Heads /\ HeadingsAt(p[1]) = heading
    BY <1>1, <1>6, <2>2, NextElement
  <2>7. Sound(<<p>>, done, (SeenTo(next) \cup Slices(k - 1)) \cup {p}, heading) /\ Explained(done)
    BY <1>1, <2>1, <2>2, <2>3, <2>6, Begun
  <2>8. Excused(<<p>>, done)
    <3>1. Len(<<p>>) = 1 /\ <<p>>[1] = p
      OBVIOUS
    <3> QED
      BY <1>3, <2>2, <2>5, <3>1, SizeOne DEF Excused
  <2>9. Sound(<<>>, more, (SeenTo(next) \cup Slices(k - 1)) \cup {p}, heading)
    BY <2>7, NothingKept, SoundFlush
  <2>10. Explained(more)
    BY <1>3, <2>7, <2>8, SizeFlush
  <2>11. more \in Seq(ChunkRecord)
    BY <2>9 DEF Sound, Typed
  <2> HIDE DEF more
  <2>12. Fine(k, more)
    <3>1. SeenTo(next) \cup Slices(k) = (SeenTo(next) \cup Slices(k - 1)) \cup {p}
      BY <2>4
    <3> QED
      BY <2>9, <2>10, <3>1
  <2> HIDE DEF Fine
  <2>13. <<k, more>> \in I
    BY <2>1, <2>11, <2>12
  <2> QED
    BY <2>1, <2>13 DEF more, p
<1>9. <<n, chunks'>> \in I
  <2> HIDE DEF I, base
  <2> QED
    BY <1>2, <1>4, <1>7, <1>8, SlicesFold!FoldKeeps
<1>10. Fine(n, chunks')
  <2> HIDE DEF Fine
  <2> QED
    BY <1>9
<1>11. SeenTo(next') = SeenTo(next) \cup Slices(n)
  BY <1>1, <1>5, NextElement
<1>12. Sound(accum', chunks', SeenTo(next'), heading') /\ Explained(chunks')
  BY <1>1, <1>10, <1>11
<1>13. next' - 1 = next /\ next' \in 1..(Len(doc) + 2)
  BY <1>1, <1>3, NextElement
<1> QED
  BY <1>1, <1>3, <1>6, <1>12, <1>13, AllFlushed, NothingKept DEF NextInv

LEMMA ParagraphStep == ASSUME ChunkerInv, Paragraph PROVE NextInv
<1> DEFINE p == <<next, 1>>
           border == accum # <<>> /\ (doc[next].type = "clip" \/ Type(accum[1]) = "clip")
           full == /\ accum # <<>> /\ ~border
                   /\ \/ SizeOf(accum) + doc[next].size > Maximum
                      \/ SizeOf(accum) >= Target
           kept == IF border THEN <<>> ELSE IF full THEN Retained(accum) ELSE accum
           n == Len(accum)
<1>1. /\ next <= Len(doc) /\ doc[next].type \in {"text", "clip"} /\ doc' = doc /\ next' = next + 1
      /\ heading' = heading
      /\ chunks' = IF border \/ full THEN Flushed(accum, chunks) ELSE chunks
      /\ accum' = Append(kept, p)
  BY DEF Paragraph
<1>2. /\ accum \in Seq(Valid) /\ n \in Nat /\ DOMAIN accum = 1..n /\ doc \in Seq(DocumentElement)
      /\ Ordered(accum) /\ ClipsAlone(accum) /\ (accum # <<>> <=> n # 0) /\ Explained(chunks)
      /\ Sound(accum, chunks, SeenTo(next), heading) /\ chunks \in Seq(ChunkRecord)
  BY DEF ChunkerInv, Sound, Typed, InOrder
<1>3. Pieces(next) = {p} /\ p \in Valid /\ p[1] = next /\ Type(p) \in {"text", "clip"} /\ Type(p) = doc[next].type
  <2>1. Pieces(next) = {p}
    BY <1>1 DEF Pieces
  <2> QED
    BY <1>1, <2>1, NextElement DEF Type
<1>4. \A q \in SeenTo(next) : Before(q, p)
  BY <1>1, NextElement DEF Before
<1>5. heading = HeadingsAt(next)
  BY <1>1, <1>3, NextElement, HeadingsKept DEF ChunkerInv, Headings
<1>6. PieceSize(p) = doc[next].size
  BY <1>1, <1>3 DEF PieceSize
<1>7. ~Before(p, p)
  BY <1>2, <1>3, NotBefore
<1>8. SeenTo(next') = SeenTo(next) \cup {p} /\ next' - 1 = next /\ next' \in 1..(Len(doc) + 2)
  BY <1>1, <1>3, NextElement
<1>9. \A s \in Seq(Valid) : Len(s) = 0 => Append(s, p) = <<p>>
  BY <1>3
<1> HIDE DEF p
<1> SUFFICES /\ Sound(kept, chunks', SeenTo(next), heading)
             /\ ClipsAlone(accum') /\ Excused(accum', chunks') /\ Explained(chunks')
  <2> HIDE DEF kept
  <2>1. ASSUME Sound(kept, chunks', SeenTo(next), heading)
        PROVE  Sound(accum', chunks', SeenTo(next'), heading')
    <3>1. Sound(Append(kept, p), chunks', SeenTo(next) \cup {p}, heading)
      BY <1>3, <1>4, <1>5, <1>7, <2>1, SoundAdd
    <3> QED
      BY <1>1, <1>8, <3>1
  <2> QED
    BY <1>1, <1>2, <1>5, <1>8, <2>1 DEF NextInv
<1>10. \A done : ClipsAlone(<<p>>) /\ Excused(<<p>>, done)
  <2>1. Len(<<p>>) = 1 /\ <<p>>[1] = p /\ DOMAIN <<p>> = {1}
    OBVIOUS
  <2> QED
    BY <1>3, <2>1 DEF ClipsAlone, Excused, Alone
<1>11. CASE border
  <2>1. kept = <<>> /\ chunks' = Flushed(accum, chunks) /\ accum' = <<p>>
    <3>1. kept = <<>> /\ chunks' = Flushed(accum, chunks) /\ accum' = Append(<<>>, p)
      BY <1>1, <1>11
    <3> HIDE DEF kept, border, full
    <3> QED
      BY <1>9, <3>1, NothingKept
  <2> HIDE DEF kept, border, full
  <2> QED
    BY <1>10, <2>1, AllFlushed
<1>12. CASE full
  <2>1. kept = Retained(accum) /\ chunks' = Flushed(accum, chunks) /\ doc[next].type # "clip"
    BY <1>1, <1>12
  <2> HIDE DEF kept, border, full
  <2>2. PICK m \in 0..n :
          /\ m # 0 => m < n /\ Text(accum) # <<>>
          /\ kept \in Seq(Valid) /\ Len(kept) = m
          /\ \A i \in 1..m : kept[i] = accum[n - m + i] /\ Type(kept[i]) \notin Headings \cup {"table"}
    BY <1>2, <2>1, RetainedIs
  <2>3. m \in Nat /\ DOMAIN kept = 1..m /\ m <= n
    BY <1>2, <2>2
  <2>4. ASSUME NEW i \in 1..m
        PROVE  /\ n - m + i \in 1..n /\ n - m + i # 1 /\ kept[i] = accum[n - m + i]
               /\ kept[i] \in ToSet(accum) /\ kept[i] \in Valid /\ Type(kept[i]) = "text"
    <3>1. n - m + i \in 1..n /\ n - m + i # 1
      BY <1>2, <2>2, <2>3
    <3>2. kept[i] = accum[n - m + i] /\ kept[i] \in Valid
      BY <2>2, <2>3
    <3>3. Type(kept[i]) # "clip" /\ Type(kept[i]) \notin Headings \cup {"table"}
      BY <1>2, <2>2, <3>1, <3>2 DEF ClipsAlone
    <3>4. doc[kept[i][1]] \in DocumentElement
      <4>1. kept[i][1] \in DOMAIN doc
        BY <1>2, <3>2, ValidIs
      <4> QED
        BY <1>2, <4>1
    <3>5. Type(kept[i]) \in Headings \cup {"text", "clip", "table"}
      BY <3>4 DEF Type, DocumentElement
    <3> QED
      BY <1>2, <3>1, <3>2, <3>3, <3>5 DEF ToSet
  <2>5. ToSet(kept) \subseteq ToSet(accum) /\ \A q \in ToSet(kept) : Type(q) = "text"
    BY <2>3, <2>4 DEF ToSet
  <2>6. Ordered(kept)
    <3> SUFFICES ASSUME NEW i \in 1..m, NEW j \in 1..m, i < j PROVE Before(kept[i], kept[j])
      BY <2>3 DEF Ordered
    <3>1. n - m + i < n - m + j
      BY <1>2, <2>3
    <3> QED
      BY <1>2, <2>4, <3>1 DEF Ordered
  <2>7. Sound(kept, chunks', SeenTo(next), heading)
    BY <1>2, <2>1, <2>2, <2>5, <2>6, SoundFlush
  <2>8. Explained(chunks')
    BY <2>1, AllFlushed
  <2> DEFINE more == Append(kept, p)
  <2>9. /\ Len(more) = m + 1 /\ DOMAIN more = 1..(m + 1) /\ more[m + 1] = p
        /\ \A i \in 1..m : more[i] = kept[i]
    BY <1>3, <2>2, <2>3
  <2> HIDE DEF more
  <2>10. ClipsAlone(more)
    <3>1. \A i \in 1..m : Type(more[i]) = "text"
      BY <2>4, <2>9
    <3>2. Type(more[m + 1]) = "text"
      BY <1>1, <1>3, <2>1, <2>9
    <3>3. \A i \in 1..(m + 1) : i \in 1..m \/ i = m + 1
      BY <2>3
    <3> QED
      BY <2>9, <3>1, <3>2, <3>3 DEF ClipsAlone
  <2>11. Excused(more, chunks')
    <3>1. CASE m = 0
      BY <1>3, <1>9, <1>10, <2>2, <3>1 DEF more
    <3>2. CASE m # 0
      <4>1. /\ Len(chunks') = Len(chunks) + 1 /\ chunks'[Len(chunks) + 1].pieces = Text(accum)
            /\ Len(chunks) \in Nat
        <5>1. heading \in Heads
          BY <1>2 DEF Sound, Typed
        <5>2. Text(accum) # <<>>
          BY <2>2, <3>2
        <5> QED
          BY <1>2, <2>1, <5>1, <5>2, FlushIs
      <4>2. ToSet(Text(accum)) = ToSet(accum) \cap Sized
        BY <1>2, TextIs
      <4>3. \A i \in 1..m : more[i] \in Sized => more[i] \in ToSet(Text(accum))
        BY <2>4, <2>9, <4>2
      <4>4. Len(more) - 1 = m /\ Last(more) = p /\ Len(more) # 0 /\ Len(chunks') # 0
        BY <2>3, <2>9, <4>1 DEF Last
      <4> QED
        BY <1>3, <4>1, <4>3, <4>4 DEF Excused
    <3> QED
      BY <3>1, <3>2
  <2> QED
    BY <1>1, <2>7, <2>8, <2>10, <2>11 DEF more
<1>13. CASE ~border /\ ~full
  <2>1. kept = accum /\ chunks' = chunks
    BY <1>1, <1>13
  <2>2. Sound(kept, chunks', SeenTo(next), heading) /\ Explained(chunks') /\ accum' = Append(accum, p)
    <3> HIDE DEF kept, border, full
    <3> QED
      BY <1>1, <1>2, <2>1
  <2>3. CASE accum = <<>>
    <3>1. accum' = <<p>>
      BY <1>2, <1>9, <2>2, <2>3
    <3> HIDE DEF kept, border, full
    <3> QED
      BY <1>10, <2>2, <3>1
  <2>4. CASE accum # <<>>
    <3>1. doc[next].type # "clip" /\ ~(SizeOf(accum) + doc[next].size > Maximum)
      BY <1>13, <2>4
    <3> HIDE DEF kept, border, full
    <3> DEFINE more == Append(accum, p)
    <3>2. /\ DOMAIN more = 1..(n + 1) /\ more[n + 1] = p /\ \A i \in 1..n : more[i] = accum[i]
          /\ \A i \in 1..(n + 1) : i \in 1..n \/ i = n + 1
      BY <1>2, <1>3
    <3> HIDE DEF more
    <3>3. ClipsAlone(more)
      BY <1>2, <1>3, <3>1, <3>2 DEF ClipsAlone
    <3>4. /\ SizeOf(more) = SizeOf(accum) + PieceSize(p) /\ SizeOf(accum) \in Nat /\ PieceSize(p) \in Nat
          /\ Maximum \in Nat
      BY <1>2, <1>3, SizeAppend, ValidIs, ChunkerConstants DEF more
    <3>5. Excused(more, chunks')
      BY <1>6, <3>1, <3>4 DEF Excused
    <3> QED
      BY <2>2, <3>3, <3>5 DEF more
  <2> QED
    BY <2>3, <2>4
<1> QED
  BY <1>11, <1>12, <1>13

(* The document stays what it is, and with it all that is said of its pieces. *)
LEMMA DocumentStays == NextInv => ChunkerInv'
<1> SUFFICES ASSUME NextInv PROVE ChunkerInv'
  OBVIOUS
<1>1. doc' = doc
  BY DEF NextInv
<1>2. \A p : PieceSize(p)' = PieceSize(p) /\ Type(p)' = Type(p) /\ Alone(p)' = Alone(p)
  BY <1>1 DEF PieceSize, Type, Alone
<1>3. \A i : HeadingsAt(i)' = HeadingsAt(i) /\ Pieces(i)' = Pieces(i)
  BY <1>1 DEF HeadingsAt, LastOf, Pieces
<1>4. Valid' = Valid /\ Heads' = Heads
  BY <1>1, <1>3 DEF Valid, Heads
<1>5. Sized' = Sized /\ ChunkRecord' = ChunkRecord
  BY <1>2, <1>4 DEF Sized, ChunkRecord
<1>6. SeenTo(next)' = SeenTo(next')
  BY <1>1, <1>3 DEF SeenTo
<1>7. \A s : SizeOf(s)' = SizeOf(s)
  BY <1>2 DEF SizeOf
<1>8. Typed(accum, chunks, heading)' = Typed(accum', chunks', heading')
  BY <1>4, <1>5 DEF Typed
<1>9. Covered(accum, chunks, SeenTo(next))' = Covered(accum', chunks', SeenTo(next'))
  BY <1>5, <1>6 DEF Covered, Held
<1>10. Filed(accum, chunks, heading)' = Filed(accum', chunks', heading')
  BY <1>3 DEF Filed
<1>11. /\ InOrder(accum, chunks)' = InOrder(accum', chunks')
       /\ Repeated(accum, chunks)' = Repeated(accum', chunks')
       /\ ClipsAlone(accum)' = ClipsAlone(accum')
  BY <1>2 DEF InOrder, Repeated, ClipsAlone, Ordered, Before
<1>12. Excused(accum, chunks)' = Excused(accum', chunks')
  BY <1>2, <1>5, <1>7 DEF Excused
<1>13. Explained(chunks)' = Explained(chunks')
  BY <1>1, <1>2, <1>7 DEF Explained, ChunkExplained
<1>14. Sound(accum, chunks, SeenTo(next), heading)'
  BY <1>8, <1>9, <1>10, <1>11 DEF NextInv, Sound
<1>15. (next <= Len(doc) + 1 => heading = HeadingsAt(next - 1))'
  BY <1>1, <1>3 DEF NextInv
<1> QED
  BY <1>1, <1>11, <1>12, <1>13, <1>14, <1>15 DEF NextInv, ChunkerInv

LEMMA ChunkerStep == ChunkerInv /\ [ChunkerNext]_chunkerVars => ChunkerInv'
<1> SUFFICES ASSUME ChunkerInv, [ChunkerNext]_chunkerVars PROVE NextInv
  BY DocumentStays
<1>1. CASE UNCHANGED chunkerVars
  BY <1>1 DEF chunkerVars, ChunkerInv, NextInv
<1> QED
  BY <1>1, HeadingStep, TableStep, ParagraphStep, EndStep DEF ChunkerNext

(* What holds of the chunks and of what is accumulated, after every element. *)
THEOREM ChunkerInvariant == ChunkerSpec => []ChunkerInv
BY ChunkerInitInv, ChunkerStep, PTL DEF ChunkerSpec

(* For every document and every setting: each piece that has text is in a chunk or accumulated,
   a table's slices hold its rows, and chunks keep the document's order (chunk_document). *)
THEOREM NothingIsLost == ChunkerSpec => []NothingLost
<1>1. ChunkerInv => NothingLost
  <2> SUFFICES ASSUME ChunkerInv PROVE NothingLost
    OBVIOUS
  <2>1. ASSUME NEW i \in DOMAIN doc, doc[i].type = "table"
        PROVE  Joined(SlicesOf(doc[i])) = doc[i].rows
    <3>1. doc[i] \in TableElement
      BY <2>1 DEF ChunkerInv, DocumentElement, TableElement, Headings
    <3> QED
      BY <3>1, SlicesAre
  <2>2. ASSUME NEW i \in 1..(next - 1) \cap DOMAIN doc, NEW p \in Pieces(i), PieceSize(p) > 0
        PROVE  p \in ToSet(accum) \cup UNION {ToSet(chunks[c].pieces) : c \in DOMAIN chunks}
    <3>1. p \in SeenTo(next) /\ p \in Sized
      BY <2>2 DEF SeenTo, Sized, Valid
    <3> QED
      BY <3>1 DEF ChunkerInv, Sound, Covered, Held
  <2>3. \A c \in DOMAIN chunks : Ordered(chunks[c].pieces)
    BY DEF ChunkerInv, Sound, InOrder
  <2> QED
    BY <2>1, <2>2, <2>3 DEF NothingLost, Ordered
<1> QED
  BY <1>1, ChunkerInvariant, PTL

(* For every document and every setting: what two chunks share is text, stands in all the chunks
   between them and under one heading (flush_accumulator, retain_overlap). *)
THEOREM OverlapStaysLocal == ChunkerSpec => []OverlapIsLocal
<1>1. ChunkerInv => OverlapIsLocal
  BY DEF ChunkerInv, Sound, Repeated, Filed, OverlapIsLocal
<1> QED
  BY <1>1, ChunkerInvariant, PTL

(* For every document: a chunk is filed under the headings its pieces stand under. *)
THEOREM ChunksFiledRight == ChunkerSpec => []FiledRight
<1>1. ChunkerInv => FiledRight
  BY DEF ChunkerInv, Sound, Filed, FiledRight, HeadingsAt
<1> QED
  BY <1>1, ChunkerInvariant, PTL

(* For every document and every setting: a chunk larger than the maximum is one element, or the
   overlap and one element more, and a slice of a table only when it cannot be cut. *)
THEOREM SizesExplained == ChunkerSpec => []SizeExplained
<1>1. ChunkerInv => SizeExplained
  BY DEF ChunkerInv, Explained, ChunkExplained, SizeExplained
<1> QED
  BY <1>1, ChunkerInvariant, PTL
=============================================================================
