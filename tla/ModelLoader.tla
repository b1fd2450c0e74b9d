------------------------------ MODULE ModelLoader ------------------------------
(***************************************************************************)
(* Lazy loading of a FastEmbed model (EmbeddingEngine and Reranker share   *)
(* the algorithm): a caller that finds no model takes the lock, starts a   *)
(* daemon thread unless one is alive, and waits outside the lock for that  *)
(* thread's event with a time-out.  After a failed load the callers fail   *)
(* at once until a cool-down has passed.                                   *)
(*                                                                         *)
(* The loading thread writes model, error and failure time without the     *)
(* lock, so its steps interleave with the critical section, which is two   *)
(* steps here: what it has read by Enter may have changed at               *)
(* StartOrShare.                                                           *)
(***************************************************************************)
EXTENDS Naturals

CONSTANTS
  Callers,   \* request and worker threads
  LoaderThreads,   \* identities of loading threads; that of a dead thread is used again
  NoThread

ASSUME LoaderAssumption == NoThread \notin LoaderThreads

VARIABLES
  loader,    \* the engine object
  caller     \* where each caller is within _ensure_loaded

loadVars == <<loader, caller>>

CallerStages == {"out", "enter", "holding", "going", "waiting", "woken", "loaded", "failed"}
ThreadStages == {"dead", "started", "loading", "loaded", "raised", "timed", "ending", "signalled"}
Readiness == {"UNAVAILABLE", "LOADING", "READY", "FAILED"}

LoaderInit ==
  /\ loader = [model |-> FALSE, error |-> FALSE, recent |-> FALSE, done |-> FALSE,
               current |-> NoThread, thread |-> [t \in LoaderThreads |-> "dead"],
               readiness |-> "UNAVAILABLE"]
  /\ caller = [c \in Callers |-> "out"]

is_alive(t) == loader.thread[t] # "dead"

MoveTo(c, stage) == caller' = [caller EXCEPT ![c] = stage]

-----------------------------------------------------------------------------
(* Callers: _ensure_loaded *)

(* The fast path reads the model without the lock. *)
Call(c) ==
  /\ caller[c] = "out"
  /\ MoveTo(c, IF loader.model THEN "loaded" ELSE "enter")
  /\ UNCHANGED loader

is_in_cooldown == loader.error /\ loader.recent

(* Under the lock: the model may be there by now; a recent failure is reported at once. *)
Enter(c) ==
  /\ caller[c] = "enter"
  /\ \A d \in Callers : caller[d] # "holding"
  /\ MoveTo(c, IF loader.model THEN "loaded" ELSE IF is_in_cooldown THEN "failed" ELSE "holding")
  /\ UNCHANGED loader

M_ClearForAll(c) ==
  /\ caller[c] = "holding"
  /\ MoveTo(c, "going")
  /\ IF loader.current # NoThread /\ is_alive(loader.current)
     THEN loader' = [loader EXCEPT !.done = FALSE]
     ELSE \E t \in LoaderThreads :
            /\ ~is_alive(t)
            /\ loader' = [loader EXCEPT !.done = FALSE, !.error = FALSE, !.current = t,
                                        !.thread[t] = "started"]

(* Still under the lock: share the thread that is alive, or start one. *)
StartOrShare(c) ==
  /\ caller[c] = "holding"
  /\ MoveTo(c, "going")
  /\ IF loader.current # NoThread /\ is_alive(loader.current)
     THEN UNCHANGED loader
     ELSE \E t \in LoaderThreads :
            /\ ~is_alive(t)
            /\ loader' = [loader EXCEPT !.done = FALSE, !.error = FALSE, !.current = t,
                                        !.thread[t] = "started"]

(* Outside the lock: Event.wait returns at once or blocks. *)
Wait(c) ==
  /\ caller[c] = "going"
  /\ MoveTo(c, IF loader.done THEN "woken" ELSE "waiting")
  /\ UNCHANGED loader

(* The thread goes on; a later caller shares it. *)
TimeOut(c) ==
  /\ caller[c] = "waiting"
  /\ MoveTo(c, "failed")
  /\ UNCHANGED loader

(* An error read after the wait restarts the cool-down. *)
Return(c) ==
  /\ caller[c] = "woken"
  /\ MoveTo(c, IF loader.error THEN "failed" ELSE "loaded")
  /\ loader' = [loader EXCEPT !.recent = @ \/ loader.error]

(* The caller uses the model, or degrades, and is done. *)
Leave(c) ==
  /\ caller[c] \in {"loaded", "failed"}
  /\ MoveTo(c, "out")
  /\ UNCHANGED loader

CallerStep(c) == Enter(c) \/ StartOrShare(c) \/ Wait(c) \/ Return(c)

-----------------------------------------------------------------------------
(* The loading thread: _run_init *)

Begin(t) ==
  /\ loader.thread[t] = "started"
  /\ loader' = [loader EXCEPT !.readiness = "LOADING", !.thread[t] = "loading"]

(* The model becomes visible to fast paths before the registry hears of it. *)
Load(t) ==
  /\ loader.thread[t] = "loading"
  /\ loader' = [loader EXCEPT !.model = TRUE, !.thread[t] = "loaded"]

(* Three writes, which no caller tells apart: whoever looks at an error finds the model first. *)
Ready(t) ==
  /\ loader.thread[t] = "loaded"
  /\ loader' = [loader EXCEPT !.error = FALSE, !.recent = FALSE, !.readiness = "READY",
                              !.thread[t] = "ending"]

(* The error, its time and the registry are written one after the other. *)
Fail(t) ==
  /\ loader.thread[t] = "loading"
  /\ loader' = [loader EXCEPT !.error = TRUE, !.thread[t] = "raised"]

TimeFailure(t) ==
  /\ loader.thread[t] = "raised"
  /\ loader' = [loader EXCEPT !.recent = TRUE, !.thread[t] = "timed"]

ReportFailure(t) ==
  /\ loader.thread[t] = "timed"
  /\ loader' = [loader EXCEPT !.readiness = "FAILED", !.thread[t] = "ending"]

M_SignalOnSuccess(t) ==
  /\ loader.thread[t] = "ending"
  /\ loader' = [loader EXCEPT !.done = ~loader.error, !.thread[t] = "signalled"]
  /\ caller' = [c \in Callers |->
       IF caller[c] = "waiting" /\ ~loader.error THEN "woken" ELSE caller[c]]

(* finally: the event is set, which releases every caller blocked on it. *)
Signal(t) ==
  /\ loader.thread[t] = "ending"
  /\ loader' = [loader EXCEPT !.done = TRUE, !.thread[t] = "signalled"]
  /\ caller' = [c \in Callers |-> IF caller[c] = "waiting" THEN "woken" ELSE caller[c]]

Die(t) ==
  /\ loader.thread[t] = "signalled"
  /\ loader' = [loader EXCEPT !.thread[t] = "dead"]

ThreadStep(t) ==
  \/ /\ \/ Begin(t) \/ Load(t) \/ Ready(t)
        \/ Fail(t) \/ TimeFailure(t) \/ ReportFailure(t)
        \/ Die(t)
     /\ UNCHANGED caller
  \/ Signal(t)

(* The minute of the cool-down passes; a woken caller has long read the error by then. *)
CoolDownOver ==
  /\ loader.recent
  /\ \A c \in Callers : caller[c] # "woken"
  /\ loader' = [loader EXCEPT !.recent = FALSE]
  /\ UNCHANGED caller

LoaderNext ==
  \/ \E c \in Callers : Call(c) \/ CallerStep(c) \/ TimeOut(c) \/ Leave(c)
  \/ \E t \in LoaderThreads : ThreadStep(t)
  \/ CoolDownOver

LoaderSpec == LoaderInit /\ [][LoaderNext]_loadVars

(* The threads are scheduled and a load ends, well or badly; that a time-out ever fires is not
   assumed. *)
LoaderFairness ==
  /\ \A c \in Callers : WF_loadVars(CallerStep(c))
  /\ \A t \in LoaderThreads : WF_loadVars(ThreadStep(t))

LoaderFairSpec == LoaderSpec /\ LoaderFairness

-----------------------------------------------------------------------------
(* Every variable has its type; whoever waits, waits for a thread that was started. *)
LoaderTypeOK ==
  /\ loader \in [model : BOOLEAN, error : BOOLEAN, recent : BOOLEAN, done : BOOLEAN,
                 current : LoaderThreads \cup {NoThread}, thread : [LoaderThreads -> ThreadStages],
                 readiness : Readiness]
  /\ caller \in [Callers -> CallerStages]
  /\ \A c \in Callers : caller[c] \in {"going", "waiting", "woken"} => loader.current # NoThread

(* However callers time out, fail and come back, at most one loading thread is alive, and it is
   the one later callers will share (_ensure_loaded: "a single bounded daemon thread"). *)
OneLoader == \A t \in LoaderThreads : is_alive(t) => t = loader.current

(* The critical section belongs to one caller. *)
OneHolder == \A c, d \in Callers : caller[c] = "holding" /\ caller[d] = "holding" => c = d

(* A waiter cannot miss its wake-up: the thread that will release it is alive; one that has not
   reached the wait finds that thread or the event, even when the event has been cleared for
   another load meanwhile. *)
NoLostWakeUp ==
  LET coming == \E t \in LoaderThreads : loader.thread[t] \notin {"signalled", "dead"}
  IN \A c \in Callers :
       /\ caller[c] = "waiting" => coming
       /\ caller[c] = "going" => coming \/ loader.done

(* What the registry shows is true: a READY model is there, and LOADING has a thread behind it
   (model_registry.py's readiness note). *)
RegistrySound ==
  /\ loader.readiness = "READY" => loader.model
  /\ loader.readiness = "LOADING" => \E t \in LoaderThreads : is_alive(t)

(* How far a thread is tells what it has left behind; with the others this is inductive. *)
TracesOfThreads ==
  /\ \A t \in LoaderThreads :
       /\ loader.thread[t] = "loaded" => loader.model
       /\ loader.thread[t] = "signalled" => loader.done
  /\ loader.readiness = "LOADING" => \E t \in LoaderThreads : loader.thread[t] \in {"loading", "loaded", "raised", "timed"}

(* Together: one loading thread, no caller left waiting without one, and a registry that tells
   the truth, however calls, time-outs, failures and cool-downs fall. *)
LoaderInv ==
  LoaderTypeOK /\ OneLoader /\ OneHolder /\ NoLostWakeUp /\ RegistrySound /\ TracesOfThreads

(* A caller that returns normally has a model (_ensure_loaded's last comment). *)
NeverEmptyHanded == \A c \in Callers : caller[c] = "loaded" => loader.model

(* Every waiting caller goes on, whatever becomes of the load. *)
WaitersReleased ==
  \A c \in Callers : caller[c] = "waiting" ~> caller[c] \in {"woken", "failed"}
=============================================================================
