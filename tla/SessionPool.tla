------------------------------ MODULE SessionPool ------------------------------
(***************************************************************************)
(* DatabaseManager.session with pooled connections: one connection for     *)
(* each thread, and a depth, kept by the thread, that tells the outermost  *)
(* session, the one that commits or rolls back.                            *)
(*                                                                         *)
(* Two kinds of request use it.  A service call opens a session and ends   *)
(* it on the thread it runs on.  A request that depends on get_repo has    *)
(* its session begun, its endpoint run, and its session ended by three     *)
(* jobs for the framework's thread pool, each on whichever thread is free. *)
(*                                                                         *)
(* A write is the identity of the request that makes it.                   *)
(***************************************************************************)
EXTENDS FiniteSets, Naturals

CONSTANTS
  PoolThreads,  \* the framework's threads
  Services,     \* requests with a session of their own
  Dependents,   \* requests with the session of get_repo
  Nobody

ASSUME PoolAssumption == Services \cap Dependents = {} /\ Nobody \notin PoolThreads

VARIABLES
  depth,    \* tx_depth, by thread
  unsaved,  \* the writes in the open transaction of each thread's connection
  saved,    \* the writes committed
  session,  \* where the session of each request is
  job,      \* the request that a thread is working for
  crossed   \* a session has left its thread, or shared it with another request's

poolVars == <<depth, unsaved, saved, session, job, crossed>>

Clients == Services \cup Dependents

Closed == [stage |-> "new", home |-> Nobody, outer |-> 0, wrote |-> FALSE]

PoolInit ==
  /\ depth = [t \in PoolThreads |-> 0]
  /\ unsaved = [t \in PoolThreads |-> {}]
  /\ saved = {}
  /\ session = [r \in Clients |-> Closed]
  /\ job = [t \in PoolThreads |-> Nobody]
  /\ crossed = FALSE

Stage(r, s) == session[r].stage = s
Works(t, r) == job[t] = r
Open == {r \in Clients : session[r].stage \notin {"new", "ended", "failed"}}
OpenOn(t) == {r \in Open : session[r].home = t}

-----------------------------------------------------------------------------
(* session() *)

(* The thread's connection is taken and its depth counted up; the depth found is kept in the
   frame of the generator. *)
Opened(r, t, stage) ==
  /\ Stage(r, "new")
  /\ job[t] = Nobody
  /\ session' = [session EXCEPT ![r] = [stage |-> stage, home |-> t, outer |-> depth[t],
                                        wrote |-> FALSE]]
  /\ depth' = [depth EXCEPT ![t] = @ + 1]
  /\ crossed' = (crossed \/ OpenOn(t) # {})
  /\ UNCHANGED <<unsaved, saved>>

(* Counted down, on the thread that is at work now. *)
M_KeepDepth(t) == depth
M_ResetDepth(t) == [depth EXCEPT ![t] = 0]
CountedDown(t) == [depth EXCEPT ![t] = IF @ = 0 THEN 0 ELSE @ - 1]

Outermost(r) == session[r].outer = 0

(* The block ended: the outermost session commits whatever the connection has written. *)
Commits(r, t) ==
  /\ depth' = CountedDown(t)
  /\ crossed' = (crossed \/ t # session[r].home)
  /\ session' = [session EXCEPT ![r].stage = "ended"]
  /\ IF Outermost(r)
     THEN /\ saved' = saved \cup unsaved[session[r].home]
          /\ unsaved' = [unsaved EXCEPT ![session[r].home] = {}]
     ELSE UNCHANGED <<saved, unsaved>>

(* The block raised: the outermost session rolls it all back. *)
RollsBack(r, t) ==
  /\ depth' = CountedDown(t)
  /\ crossed' = (crossed \/ t # session[r].home)
  /\ session' = [session EXCEPT ![r].stage = "failed"]
  /\ unsaved' = IF Outermost(r) THEN [unsaved EXCEPT ![session[r].home] = {}] ELSE unsaved
  /\ UNCHANGED saved

-----------------------------------------------------------------------------
(* Inside the block *)

(* SQLite lets one connection write at a time. *)
Writable(r) == \A t \in PoolThreads : unsaved[t] # {} => t = session[r].home

Write(r) ==
  /\ Stage(r, "running") /\ ~session[r].wrote
  /\ Writable(r)
  /\ unsaved' = [unsaved EXCEPT ![session[r].home] = @ \cup {r}]
  /\ session' = [session EXCEPT ![r].wrote = TRUE]
  /\ UNCHANGED <<depth, saved, job, crossed>>

(* Some endpoints commit by themselves before they go on (repo.conn.commit()). *)
CommitHere(r) ==
  /\ Stage(r, "running") /\ r \in Dependents
  /\ r \in unsaved[session[r].home]
  /\ saved' = saved \cup unsaved[session[r].home]
  /\ unsaved' = [unsaved EXCEPT ![session[r].home] = {}]
  /\ UNCHANGED <<depth, session, job, crossed>>

-----------------------------------------------------------------------------
(* A service call: all on one thread. *)

Serve(r, t) ==
  /\ Opened(r, t, "running")
  /\ job' = [job EXCEPT ![t] = r]

(* It may raise at any point, a write too: the lock is waited for ten seconds. *)
ServiceEnds(r, t) ==
  /\ Works(t, r) /\ Stage(r, "running") /\ r \in Services
  /\ Commits(r, t) \/ RollsBack(r, t)
  /\ job' = [job EXCEPT ![t] = Nobody]

-----------------------------------------------------------------------------
(* A request with get_repo: three jobs of the thread pool. *)

BeginDependency(r, t) == Opened(r, t, "open") /\ UNCHANGED job

BeginEndpoint(r, t) ==
  /\ Stage(r, "open") /\ r \in Dependents
  /\ job[t] = Nobody
  /\ job' = [job EXCEPT ![t] = r]
  /\ session' = [session EXCEPT ![r].stage = "running"]
  /\ UNCHANGED <<depth, unsaved, saved, crossed>>

(* An endpoint that writes commits, before it returns; one that raises may have written. *)
EndEndpoint(r, t) ==
  /\ Works(t, r) /\ Stage(r, "running") /\ r \in Dependents
  /\ job' = [job EXCEPT ![t] = Nobody]
  /\ \/ /\ r \notin unsaved[session[r].home]
        /\ session' = [session EXCEPT ![r].stage = "returned"]
     \/ session' = [session EXCEPT ![r].stage = "raised"]
  /\ UNCHANGED <<depth, unsaved, saved, crossed>>

EndDependency(r, t) ==
  /\ job[t] = Nobody
  /\ \/ Stage(r, "returned") /\ Commits(r, t)
     \/ Stage(r, "raised") /\ RollsBack(r, t)
  /\ UNCHANGED job

-----------------------------------------------------------------------------
PoolNext ==
  \E t \in PoolThreads :
    \/ \E r \in Services : Serve(r, t) \/ ServiceEnds(r, t)
    \/ \E r \in Dependents :
         \/ BeginDependency(r, t)
         \/ BeginEndpoint(r, t)
         \/ EndEndpoint(r, t)
         \/ EndDependency(r, t)
    \/ \E r \in Clients : Write(r) \/ CommitHere(r)

PoolSpec == PoolInit /\ [][PoolNext]_poolVars

-----------------------------------------------------------------------------
(* Properties *)

(* What the threads have counted, unit by unit; and the sessions that have been opened. *)
Counted == UNION {{t} \X (1..depth[t]) : t \in PoolThreads}
Begun == {r \in Clients : ~Stage(r, "new")}

(* One connection at a time has writes, and the depths together never fall short of the
   sessions that are open: max(0, ...) can lose count only upwards. *)
PoolTypeOK ==
  /\ saved \subseteq Clients /\ crossed \in BOOLEAN
  /\ \A t, u \in PoolThreads : unsaved[t] # {} /\ unsaved[u] # {} => t = u
  /\ Cardinality(Counted) \in Cardinality(Open)..Cardinality(Begun)

(* session() is to be atomic: when no session is open any more, what the ended ones have
   written is committed. *)
EndedIsSaved ==
  Open = {} => \A r \in Clients : Stage(r, "ended") /\ session[r].wrote => r \in saved

(* It is, as long as each session stays on a thread of its own from its begin to its end: an
   ended one is saved, a failed one has left nothing (an endpoint that committed by itself
   aside), and no transaction stays open when the sessions on its connection are over. *)
AtomicWhileConfined ==
  ~crossed => /\ \A r \in Clients : Stage(r, "ended") /\ session[r].wrote => r \in saved
              /\ \A r \in Services : Stage(r, "failed") => r \notin saved
              /\ \A t \in PoolThreads : unsaved[t] \subseteq OpenOn(t)
=============================================================================
