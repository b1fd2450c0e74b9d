------------------------------- MODULE MCStarts -------------------------------
(***************************************************************************)
(* What is started in the background, watched with a time-out and started  *)
(* again: the backend process by the desktop program (Supervisor), with a  *)
(* bounded number of crashes and of failures to start, and a model by its  *)
(* engine (ModelLoader).  They share no state, so a behaviour moves one of *)
(* them.                                                                   *)
(***************************************************************************)
EXTENDS Supervisor, ModelLoader

CONSTANTS Crashes, Failures

VARIABLES part, crashes, failures

mcvars == <<supervisorVars, loadVars, part, crashes, failures>>

MCInit ==
  /\ SupervisorInit /\ LoaderInit
  /\ part \in {"desktop", "loader"}
  /\ crashes = Crashes /\ failures = Failures

Desktop == part = "desktop" /\ UNCHANGED <<part, loadVars>>
Engine == part = "loader" /\ UNCHANGED <<part, supervisorVars, crashes, failures>>

MCNext ==
  \/ /\ Desktop
     /\ \/ LoopStep
        \/ \E t \in Threads : StartStep(t)
        \/ CloseWindow \/ ExitEvent \/ End
        \/ \E p \in Procs : Boot(p)
        \/ OtherBoots \/ OtherEnds
     /\ UNCHANGED <<crashes, failures>>
  \/ /\ Desktop
     /\ failures > 0 /\ failures' = failures - 1
     /\ \E t \in Threads : FailStep(t)
     /\ UNCHANGED crashes
  \/ /\ Desktop
     /\ crashes > 0 /\ crashes' = crashes - 1
     /\ \E p \in Procs : Crash(p)
     /\ UNCHANGED failures
  \/ /\ Engine
     /\ \/ \E c \in Callers : Call(c) \/ CallerStep(c) \/ TimeOut(c) \/ Leave(c)
        \/ \E t \in LoaderThreads : ThreadStep(t)
        \/ CoolDownOver

(* The fairness of the two modules: only the moving part has a step that is enabled. *)
MCFairness ==
  /\ WF_mcvars(Desktop /\ LoopStep /\ UNCHANGED <<crashes, failures>>)
  /\ \A t \in Threads : WF_mcvars(Desktop /\ StartStep(t) /\ UNCHANGED <<crashes, failures>>)
  /\ \A p \in Procs : WF_mcvars(Desktop /\ Boot(p) /\ UNCHANGED <<crashes, failures>>)
  /\ \A c \in Callers : WF_mcvars(Engine /\ CallerStep(c))
  /\ \A t \in LoaderThreads : WF_mcvars(Engine /\ ThreadStep(t))

MCSpec == MCInit /\ [][MCNext]_mcvars /\ MCFairness
=============================================================================
