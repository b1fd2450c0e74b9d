------------------------------ MODULE MCRequests ------------------------------
(***************************************************************************)
(* What the threads that serve requests share: the query cache with the    *)
(* corpus behind it (Retrieval), and the pooled database connections       *)
(* (SessionPool).  The two share no state, so a behaviour moves one of     *)
(* them.                                                                   *)
(***************************************************************************)
EXTENDS Retrieval, SessionPool, TLC

CONSTANT Parts    \* which of them

VARIABLE part     \* the one that moves

mcvars == <<vars, poolVars, part>>

MCInit == Init /\ PoolInit /\ part \in Parts

MCNext ==
  /\ UNCHANGED part
  /\ \/ part = "retrieval" /\ Next /\ UNCHANGED poolVars
     \/ part = "sessions" /\ PoolNext /\ UNCHANGED vars

MCSpec == MCInit /\ [][MCNext]_mcvars

(* The types of the two modules. *)
RequestsTypeOK == RetrievalTypeOK /\ PoolTypeOK

Both == {"retrieval", "sessions"}

ThreadSymmetry ==
  UNION {Permutations(s) : s \in {Searchers, Indexers, PoolThreads, Services, Dependents}}
=============================================================================
